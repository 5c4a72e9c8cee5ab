---------------------------- MODULE EntityChecks ----------------------------
(***************************************************************************)
(* EntityCheck: a request is parsed, the company registry is read, then    *)
(* the sanctions list, which all requests of a process share in a cache    *)
(* for a day, and the one company found is screened against the list. The  *)
(* clock of a request is read once, when it starts; the registry may take  *)
(* five seconds, the list twenty, and meanwhile other requests read and    *)
(* replace the cache. Both sources are external and may fail or be slow.   *)
(***************************************************************************)
EXTENDS Integers, FiniteSets

CONSTANTS
    Requests,          \* requests under way in one process
    Records,           \* what the registry may return: siren, name, date of creation, fields that are wrong
    Normal,            \* [names -> names]: normaliseEntityName
    Lists,             \* what the source may serve: names, rows that are wrong, last-modified header
    NoNumber,          \* no registrationNumber
    None,
    RegistryTimeout,
    SanctionsTimeout,
    Lifetime,          \* sanctionsCacheLifetimeMilliseconds
    MaxTime            \* bound: the clock

VARIABLES
    now,
    cache,      \* sanctionsCache of the configured URL
    check       \* for each request: stage, clock, number asked, what was read, answer

entityVars == <<now, cache, check>>

Names == DOMAIN Normal
Numbers == {r.siren : r \in Records} \cup {NoNumber}
Stages == {"idle", "registry", "headers", "body", "done"}
Idle == [stage |-> "idle", clock |-> 0, number |-> NoNumber, found |-> {}, list |-> None, answer |-> None, at |-> 0]

EntityInit ==
    /\ now = 0
    /\ cache = None
    /\ check = [r \in Requests |-> Idle]

End(r, answer) == check' = [check EXCEPT ![r] = [Idle EXCEPT !.stage = "done", !.answer = answer, !.at = now]]
Reply(r, kind) == End(r, [kind |-> kind])

(***************************************************************************)
(* The deadlines: AbortSignal.timeout bounds one read, its headers and its *)
(* body together.                                                          *)
(***************************************************************************)

\* Mutant of Bounded: the deadline ends with the headers.
BoundedHeaders(stage) == stage \in {"registry", "headers"}
Bounded(stage) == stage \in {"registry", "headers", "body"}

Deadline(r) ==
    check[r].at + (IF check[r].stage = "registry" THEN RegistryTimeout ELSE SanctionsTimeout)

Expired(r) == Bounded(check[r].stage) /\ now >= Deadline(r)

Tick ==
    /\ now < MaxTime
    /\ \A r \in Requests : ~Expired(r)
    /\ now' = now + 1
    /\ UNCHANGED <<cache, check>>

(***************************************************************************)
(* A request                                                               *)
(***************************************************************************)

\* captureRecord: the required fields, perhaps the optional ones, and no other.
CaptureRecord(fields, required, optional) == required \subseteq fields /\ fields \subseteq required \cup optional

RequestFields == {"requestRef", "jurisdiction", "query"}
Inputs ==
    [fields : {RequestFields, RequestFields \cup {"registrationNumber"}, RequestFields \cup {"extra"}, {"query"}},
     country : {"FR", "other"}, blank : BOOLEAN, number : Numbers]

\* parseEntityCheckRequest; a number that is present has the form of a SIREN.
Parsed(input) ==
    /\ CaptureRecord(input.fields, RequestFields, {"registrationNumber"})
    /\ input.country = "FR" /\ ~input.blank
    /\ "registrationNumber" \in input.fields <=> input.number /= NoNumber

\* readEntityCheckSourceConfiguration: both URLs, the registry's without a path.
Environments == [registry : {"base", "path", "missing"}, sanctions : {"base", "path", "missing"}]
Configured(env) == env.registry = "base" /\ env.sanctions /= "missing"

Evaluation(env, input) ==
    IF ~Configured(env) THEN [kind |-> "unavailable", number |-> NoNumber]
    ELSE IF Parsed(input) THEN [kind |-> "read", number |-> input.number]
    ELSE [kind |-> "invalid", number |-> NoNumber]

Evaluations == {Evaluation(env, input) : env \in Environments, input \in Inputs}

\* evaluateEntityCheck up to the registry: a missing configuration, or a request
\* that cannot be parsed, is answered at once.
Start(r) ==
    /\ check[r].stage = "idle"
    /\ \E e \in Evaluations :
        IF e.kind = "read"
        THEN check' = [check EXCEPT ![r] = [Idle EXCEPT !.stage = "registry", !.clock = now,
                                                       !.number = e.number, !.at = now]]
        ELSE Reply(r, e.kind)
    /\ UNCHANGED <<now, cache>>

(***************************************************************************)
(* Both the readers of the sources and the core check what was read, each  *)
(* with its own code; what the core refuses makes the handler fail.        *)
(***************************************************************************)

LeapYear(year) == year % 4 = 0 /\ (year % 100 /= 0 \/ year % 400 = 0)
DaysIn(date) ==
    CASE date.month = 2 -> IF LeapYear(date.year) THEN 29 ELSE 28
      [] date.month \in {4, 6, 9, 11} -> 30
      [] OTHER -> 31
HasValidCalendarDate(date) == date.month \in 1 .. 12 /\ date.day \in 1 .. DaysIn(date)

\* Mutant of CalendarDateIsValid: any year that four divides is a leap year.
EveryFourthYear(date) ==
    /\ date.month \in 1 .. 12
    /\ date.day \in 1 .. (IF date.month = 2 /\ date.year % 4 = 0 THEN 29 ELSE DaysIn(date))
CalendarDateIsValid(date) ==
    /\ date.month \in 1 .. 12
    /\ date.day \in 1 .. (IF date.month = 2 /\ LeapYear(date.year) THEN 29 ELSE DaysIn(date))

\* mapRegistryCandidate; the records it cannot map are dropped and counted only.
Mapped(record) ==
    /\ record.wrong \cap {"siren", "nom_complet", "etat_administratif", "date_mise_a_jour", "dirigeants", "siege"} = {}
    /\ CalendarDateIsValid(record.created)
Candidates(records) == {c \in records : Mapped(c)}

\* isLastModified: a timestamp, or a date that prints as it was written.
LastModifiedIsValid(header) ==
    CASE header.form = "absent" -> TRUE
      [] header.form = "iso" -> CalendarDateIsValid(header.date)
      [] header.form = "imf" -> header.exact
      [] OTHER -> FALSE

\* parseSanctionsDataset: one wrong row and the whole list is refused, as is an
\* empty one; the clock stands for a header that is absent.
DatasetRead(list) ==
    /\ list.names /= {}
    /\ list.wrong \cap {"columns", "quotes", "ent_num", "sdn_name", "program"} = {}
    /\ LastModifiedIsValid(list.header)

\* parseCandidate and parseSanctionsDataset of the core.
CandidateAccepted(c) ==
    /\ c.wrong \cap {"siren", "nom_complet", "etat_administratif", "date_mise_a_jour", "dirigeants", "siege"} = {}
    /\ HasValidCalendarDate(c.created)
DatasetAccepted(list) ==
    /\ list.wrong \cap {"ent_num", "sdn_name"} = {}
    /\ CASE list.header.form = "absent" -> TRUE
         [] list.header.form = "iso" -> HasValidCalendarDate(list.header.date)
         [] list.header.form = "imf" -> list.header.exact
         [] OTHER -> FALSE

\* Mutant of Fresh: an entry is reused at its very last instant.
FreshOnTheDay(age) == age >= 0 /\ age <= Lifetime
Fresh(age) == age >= 0 /\ age < Lifetime

(***************************************************************************)
(* assessEntityCheck: the company asked for by number, or the only one.    *)
(***************************************************************************)
Asked(number, candidates) == {c \in candidates : c.siren = number}
Resolved(number, candidates) ==
    IF Cardinality(Asked(number, candidates)) = 1 THEN Asked(number, candidates)
    ELSE IF Cardinality(candidates) = 1 THEN candidates ELSE {}

Listed(name, list) == \E entry \in list.names : Normal[entry] = Normal[name]

Assess(number, candidates, list) ==
    IF ~(DatasetAccepted(list) /\ \A c \in candidates : CandidateAccepted(c))
    THEN [kind |-> "rejected"]
    ELSE IF Resolved(number, candidates) = {}
    THEN [kind |-> IF candidates = {} THEN "not_found" ELSE "ambiguous", list |-> list]
    ELSE LET c == CHOOSE x \in Resolved(number, candidates) : TRUE
         IN  [kind |-> "found", company |-> c.siren, hit |-> Listed(c.name, list), list |-> list]

Answered(r, candidates, list) == End(r, Assess(check[r].number, candidates, list))

\* The registry answers; the cache is looked up in the same turn, with the
\* clock of the request, and a stale entry is deleted before the list is read.
ReadRegistry(r) ==
    /\ check[r].stage = "registry"
    /\ \E records \in SUBSET Records :
        /\ Cardinality(records) <= 2
        /\ IF cache /= None /\ Fresh(check[r].clock - cache.at)
           THEN /\ Answered(r, Candidates(records), cache.list)
                /\ UNCHANGED cache
           ELSE /\ cache' = None
                /\ check' = [check EXCEPT ![r].stage = "headers", ![r].found = Candidates(records), ![r].at = now]
    /\ UNCHANGED now

RegistryFails(r) ==
    /\ check[r].stage = "registry"
    /\ Reply(r, "registry_unavailable")
    /\ UNCHANGED <<now, cache>>

\* The source serves its list of this moment; the body follows.
ListServed(r) ==
    /\ check[r].stage = "headers"
    /\ \E list \in Lists :
        check' = [check EXCEPT ![r].stage = "body",
                               ![r].list = [names |-> list.names, wrong |-> list.wrong,
                                            header |-> list.header, served |-> now]]
    /\ UNCHANGED <<now, cache>>

ReadList(r) ==
    /\ check[r].stage = "body"
    /\ DatasetRead(check[r].list)
    /\ cache' = [at |-> check[r].clock, list |-> check[r].list]
    /\ Answered(r, check[r].found, check[r].list)
    /\ UNCHANGED now

ListFails(r) ==
    /\ check[r].stage \in {"headers", "body"}
    /\ Reply(r, "sanctions_unavailable")
    /\ UNCHANGED <<now, cache>>

\* The answer was sent; the process takes the next request.
Finish(r) ==
    /\ check[r].stage = "done"
    /\ check' = [check EXCEPT ![r] = Idle]
    /\ UNCHANGED <<now, cache>>

EntityNext ==
    \/ Tick
    \/ \E r \in Requests :
        \/ Start(r)
        \/ ReadRegistry(r)
        \/ RegistryFails(r)
        \/ ListServed(r)
        \/ ReadList(r)
        \/ ListFails(r)
        \/ Finish(r)

EntitySpec == EntityInit /\ [][EntityNext]_entityVars

(***************************************************************************)
(* Properties                                                              *)
(***************************************************************************)

EntityTypeOK ==
    /\ now \in 0 .. MaxTime
    /\ cache /= None => cache.at \in 0 .. now /\ cache.list.served \in cache.at .. now
    /\ \A r \in Requests : check[r].stage \in Stages /\ check[r].clock \in 0 .. now

\* The list a company was screened against was served less than the lifetime
\* of the cache, and the time the registry took, before the answer: whatever
\* requests overlap, and however late one of them fills the cache.
ScreenIsRecent ==
    \A r \in Requests :
        check[r].stage = "done" /\ check[r].answer.kind = "found"
        => \/ check[r].at - check[r].answer.list.served < Lifetime + RegistryTimeout
           \/ check[r].at - check[r].answer.list.served <= SanctionsTimeout

\* What the readers of the two sources let through, the core accepts: a caller
\* is not answered with a failure because two copies of a check differ.
ReadIsAssessable ==
    \A r \in Requests : check[r].stage = "done" => check[r].answer.kind /= "rejected"

\* A source that stalls, before its headers or within its body, does not keep a
\* caller who is about to pay: both reads end within their timeouts.
AnswersInTime ==
    \A r \in Requests :
        check[r].stage \in {"registry", "headers", "body"}
        => now <= check[r].clock + RegistryTimeout + SanctionsTimeout
=============================================================================
