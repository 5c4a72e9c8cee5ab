-------------------------- MODULE SettlementObserver --------------------------
(***************************************************************************)
(* The paid RiskScan route of one web process: the protected handler it    *)
(* builds on the first request, the observer that pairs a settlement with  *)
(* the answer it paid for, and the bounded sink of verified settlements.   *)
(*                                                                         *)
(* Every await of the route is a boundary between two actions, so requests *)
(* that carry the same payment header interleave at each of them. The      *)
(* x402 server and the facilitator are external: they verify, run the      *)
(* handler, settle and call one hook, in that order, and may accept one    *)
(* payment several times.                                                  *)
(***************************************************************************)
EXTENDS Integers, Sequences, FiniteSets

CONSTANTS
    Headers,     \* payment-signature headers; each stands for its payment
    Inputs,      \* bodies; each stands for the bytes of its own assessment
    None,
    MaxSettlements, \* maximumRecordedSettlements
    MaxRequests, \* bound: calls of handleRiskScanPost, numbered as they arrive
    MaxHandlers, \* bound: protected handlers ever built
    MaxRestarts  \* bound: process restarts

Requests == 1..MaxRequests
Handlers == 1..MaxHandlers
Phases == {"idle", "opening", "evaluating", "observing", "settling", "settled",
           "unsettled", "canceled", "released", "refused", "lost"}
Finished == {"released", "refused", "lost"}
Payments == [input : Inputs, transaction : Headers]
Evidence == [input : Inputs, transaction : Headers, by : Requests, from : Requests]

ASSUME ObserverConstants ==
    /\ MaxRequests \in Nat /\ MaxHandlers \in Nat /\ MaxRestarts \in Nat
    /\ MaxSettlements \in Nat \ {0}
    /\ None \notin Nat \cup Headers \cup Inputs \cup Payments

VARIABLES
    phase,       \* where each request is
    header,      \* its payment header
    input,       \* its body
    handlerOf,   \* the protected handler it awaits or runs in
    built,       \* what became of each handler's promise
    cache,       \* protectedHandlerCache
    entries,     \* the observers' maps: the request whose answer is registered
    timers,      \* requests whose registration still has an armed timeout
    sink,        \* recordedSettlements
    issued,      \* history: every settlement ever handed to the sink
    sinkFrom,    \* history: how many of them earlier processes had
    genuine,     \* history: requests that the facilitator really settled
    missed,      \* history: registrations that expired or threw
    restarts

requestVars == <<phase, header, input, handlerOf>>
routeVars == <<built, cache>>
observerVars == <<entries, timers>>
sinkVars == <<sink, issued, sinkFrom>>
historyVars == <<genuine, missed>>
observationVars == <<requestVars, routeVars, observerVars, sinkVars, historyVars, restarts>>

NoEntries == [n \in Handlers |-> [h \in Headers |-> None]]

ObserverTypeOK ==
    /\ phase \in [Requests -> Phases]
    /\ header \in [Requests -> Headers \cup {None}]
    /\ input \in [Requests -> Inputs \cup {None}]
    /\ handlerOf \in [Requests -> Handlers \cup {None}]
    /\ built \in [Handlers -> {"no", "building", "ready", "failed", "gone"}]
    /\ cache \in Handlers \cup {None}
    /\ entries \in [Handlers -> [Headers -> Requests \cup {None}]]
    /\ timers \subseteq Requests
    /\ sink \in Seq(Evidence) /\ Len(sink) <= MaxSettlements
    /\ issued \in Seq(Evidence)
    /\ sinkFrom \in 0..Len(issued)
    /\ genuine \subseteq Requests /\ missed \subseteq Requests
    /\ restarts \in 0..MaxRestarts

ObserverInit ==
    /\ phase = [r \in Requests |-> "idle"]
    /\ header = [r \in Requests |-> None]
    /\ input = [r \in Requests |-> None]
    /\ handlerOf = [r \in Requests |-> None]
    /\ built = [n \in Handlers |-> "no"]
    /\ cache = None
    /\ entries = NoEntries
    /\ timers = {}
    /\ sink = <<>> /\ issued = <<>> /\ sinkFrom = 0
    /\ genuine = {} /\ missed = {}
    /\ restarts = 0

Move(r, p) == phase' = [phase EXCEPT ![r] = p]

(***************************************************************************)
(* The cached handler                                                      *)
(***************************************************************************)

\* What the cache holds while handler n is being built.
\* Mutant of CachedWhileBuilding: the promise is cached once it resolves.
CachedLater(n) == None
CachedWhileBuilding(n) == n

\* handleRiskScanPost: a request takes the cached handler, whatever its state,
\* or starts to build one.
Arrive(r, h, i) ==
    /\ phase[r] = "idle" /\ \A q \in 1..(r - 1) : phase[q] /= "idle"
    /\ Move(r, "opening")
    /\ header' = [header EXCEPT ![r] = h]
    /\ input' = [input EXCEPT ![r] = i]
    /\ \/ /\ cache /= None
          /\ handlerOf' = [handlerOf EXCEPT ![r] = cache]
          /\ UNCHANGED routeVars
       \/ /\ cache = None
          /\ \E n \in Handlers :
                /\ built[n] = "no" /\ \A m \in 1..(n - 1) : built[m] /= "no"
                /\ built' = [built EXCEPT ![n] = "building"]
                /\ cache' = CachedWhileBuilding(n)
                /\ handlerOf' = [handlerOf EXCEPT ![r] = n]
    /\ UNCHANGED <<observerVars, sinkVars, historyVars, restarts>>

\* createX402ProtectedHandler: the facilitator answers getSupported, or not.
HandlerReady(n) ==
    /\ built[n] = "building"
    /\ built' = [built EXCEPT ![n] = "ready"]
    /\ UNCHANGED <<requestVars, cache, observerVars, sinkVars, historyVars, restarts>>

HandlerFails(n) ==
    /\ built[n] = "building"
    /\ built' = [built EXCEPT ![n] = "failed"]
    /\ UNCHANGED <<requestVars, cache, observerVars, sinkVars, historyVars, restarts>>

\* The cache after the rejection of handler n is noticed.
\* Mutant of Forgotten: the rejected promise stays.
StillCached(n) == n
Forgotten(n) == None

ForgetFailed(n) ==
    /\ built[n] = "failed" /\ cache = n
    /\ cache' = Forgotten(n)
    /\ UNCHANGED <<requestVars, built, observerVars, sinkVars, historyVars, restarts>>

\* The answer of a request whose handler could not be built: 503.
Unavailable(r) ==
    /\ phase[r] = "opening" /\ built[handlerOf[r]] = "failed"
    /\ Move(r, "refused")
    /\ UNCHANGED <<header, input, handlerOf, routeVars, observerVars, sinkVars,
                   historyVars, restarts>>

(***************************************************************************)
(* The observer                                                            *)
(***************************************************************************)

\* Mutants of Discard: the timeout stays armed; every entry goes.
DiscardEntryOnly(n, h) ==
    /\ entries' = [entries EXCEPT ![n][h] = None]
    /\ timers' = timers
DiscardAll(n, h) ==
    /\ entries' = [entries EXCEPT ![n] = [g \in Headers |-> None]]
    /\ timers' = timers \ {entries[n][g] : g \in Headers}

Discard(n, h) ==
    /\ entries' = [entries EXCEPT ![n][h] = None]
    /\ timers' = timers \ {entries[n][h]}

\* A later registration never replaces an active one.
\* Mutant of Registered: the last registration wins.
RegisteredLast(active, r) == r
Registered(active, r) == IF active = None THEN r ELSE active

\* Mutant of Armed: no timeout.
ArmedNever(n, r) == {}
Armed(n, r) == IF entries[n][header[r]] = None THEN {r} ELSE {}

\* Verification: the payment is refused, or the handler starts.
VerifyRefused(r) ==
    /\ phase[r] = "opening" /\ built[handlerOf[r]] = "ready"
    /\ Move(r, "refused")
    /\ UNCHANGED <<header, input, handlerOf, routeVars, observerVars, sinkVars,
                   historyVars, restarts>>

Verified(r) ==
    /\ phase[r] = "opening" /\ built[handlerOf[r]] = "ready"
    /\ Move(r, "evaluating")
    /\ UNCHANGED <<header, input, handlerOf, routeVars, observerVars, sinkVars,
                   historyVars, restarts>>

\* evaluateRiskScanQuick: the body is read and assessed, or is not valid, or
\* the assessment throws; the server then cancels the payment.
Evaluate(r) ==
    /\ phase[r] = "evaluating"
    /\ Move(r, "observing") \/ Move(r, "canceled")
    /\ UNCHANGED <<header, input, handlerOf, routeVars, observerVars, sinkVars,
                   historyVars, restarts>>

\* observeProtectedResponse, after the bytes of the answer were read.
Observe(r) ==
    LET n == handlerOf[r]  h == header[r] IN
    /\ phase[r] = "observing"
    /\ Move(r, "settling")
    /\ entries' = [entries EXCEPT ![n][h] = Registered(entries[n][h], r)]
    /\ timers' = timers \cup Armed(n, r)
    /\ UNCHANGED <<header, input, handlerOf, routeVars, sinkVars, historyVars, restarts>>

\* Reading the bytes, or the core, throws: the entry of the header goes, be it
\* of another request.
ObserveThrows(r) ==
    /\ phase[r] = "observing"
    /\ Move(r, "settling")
    /\ Discard(handlerOf[r], header[r])
    /\ missed' = missed \cup {r}
    /\ UNCHANGED <<header, input, handlerOf, routeVars, sinkVars, genuine, restarts>>

TimerFires(r) ==
    /\ r \in timers
    /\ Discard(handlerOf[r], header[r])
    /\ missed' = missed \cup {r}
    /\ UNCHANGED <<requestVars, routeVars, sinkVars, genuine, restarts>>

\* The facilitator's result after createSettlementValidatingFacilitatorClient.
\* Mutant of Accepts: success is taken at its word.
AcceptsSuccess(result) == result /= "failure"
Accepts(result) == result = "success"

SettleAnswers(r, result) ==
    /\ phase[r] = "settling"
    /\ Move(r, IF Accepts(result) THEN "settled" ELSE "unsettled")
    /\ genuine' = IF result = "success" THEN genuine \cup {r} ELSE genuine
    /\ UNCHANGED <<header, input, handlerOf, routeVars, observerVars, sinkVars, missed,
                   restarts>>

\* Whether the answer that was settled is the one registered.
\* Mutant of SameResponse: any entry of the header will do.
AnyResponse(e, r) == e /= None
SameResponse(e, r) == e /= None /\ input[e] = input[r]

\* recordRiskScanVerifiedSettlement.
\* Mutants of Recorded: one settlement too many stays; the oldest stay.
RecordedOneMore(s, settlement) ==
    LET all == Append(s, settlement)
        excess == IF Len(all) > MaxSettlements THEN Len(all) - MaxSettlements - 1 ELSE 0
    IN SubSeq(all, excess + 1, Len(all))
RecordedOldest(s, settlement) == SubSeq(Append(s, settlement), 1, MaxSettlements)
Recorded(s, settlement) ==
    LET all == Append(s, settlement)
        excess == IF Len(all) > MaxSettlements THEN Len(all) - MaxSettlements ELSE 0
    IN SubSeq(all, excess + 1, Len(all))

\* What onAfterSettle leaves of the observer: the entry goes before the
\* consumer runs. Mutant of Consume: the entry stays.
ConsumeNothing(n, h) == UNCHANGED observerVars
Consume(n, h) == Discard(n, h)

\* onAfterSettle: with the registered answer the settlement is verified and
\* recorded; with another the entry goes unused.
AfterSettle(r) ==
    LET e == entries[handlerOf[r]][header[r]] IN
    /\ phase[r] = "settled"
    /\ Move(r, "released")
    /\ Consume(handlerOf[r], header[r])
    /\ \/ /\ ~SameResponse(e, r)
          /\ UNCHANGED sinkVars
       \/ /\ SameResponse(e, r)
          /\ LET settlement == [input |-> input[e], transaction |-> header[r],
                                by |-> r, from |-> e]
             IN /\ sink' = Recorded(sink, settlement)
                /\ issued' = Append(issued, settlement)
                /\ UNCHANGED sinkFrom
    /\ UNCHANGED <<header, input, handlerOf, routeVars, historyVars, restarts>>

\* onSettleFailure and onVerifiedPaymentCanceled.
Refuse(r) ==
    /\ phase[r] \in {"unsettled", "canceled"}
    /\ Move(r, "refused")
    /\ Discard(handlerOf[r], header[r])
    /\ UNCHANGED <<header, input, handlerOf, routeVars, sinkVars, historyVars, restarts>>

\* The process ends and starts again: whatever it held in memory is gone.
Restart ==
    /\ restarts < MaxRestarts
    /\ restarts' = restarts + 1
    /\ phase' = [r \in Requests |->
                    IF phase[r] \in Finished \cup {"idle"} THEN phase[r] ELSE "lost"]
    /\ built' = [n \in Handlers |-> IF built[n] = "no" THEN "no" ELSE "gone"]
    /\ cache' = None
    /\ entries' = NoEntries
    /\ timers' = {}
    /\ sink' = <<>>
    /\ sinkFrom' = Len(issued)
    /\ UNCHANGED <<header, input, handlerOf, issued, historyVars>>

RequestStep(r) ==
    \/ \E h \in Headers, i \in Inputs : Arrive(r, h, i)
    \/ Unavailable(r)
    \/ VerifyRefused(r)
    \/ Verified(r)
    \/ Evaluate(r)
    \/ Observe(r)
    \/ ObserveThrows(r)
    \/ TimerFires(r)
    \/ \E result \in {"success", "malformed", "failure"} : SettleAnswers(r, result)
    \/ AfterSettle(r)
    \/ Refuse(r)

HandlerStep(n) == HandlerReady(n) \/ HandlerFails(n) \/ ForgetFailed(n)

ObserverNext ==
    \/ \E r \in Requests : RequestStep(r)
    \/ \E n \in Handlers : HandlerStep(n)
    \/ Restart

\* A running process fires its timers and runs its callbacks.
ObserverFairness ==
    /\ \A r \in Requests : WF_observationVars(TimerFires(r))
    /\ \A n \in Handlers : WF_observationVars(ForgetFailed(n))

ObserverSpec == ObserverInit /\ [][ObserverNext]_observationVars /\ ObserverFairness

(***************************************************************************)
(* Properties                                                              *)
(***************************************************************************)

\* However requests with one payment header interleave, expire and fail, a
\* verified settlement names the input of the very request that was settled,
\* in the transaction that settled it, and the facilitator did settle it.
EvidenceFaithful ==
    \A k \in 1..Len(issued) :
       /\ issued[k].input = input[issued[k].by]
       /\ issued[k].transaction = header[issued[k].by]
       /\ issued[k].by \in genuine

\* One registration yields at most one verified settlement, even when several
\* requests that share its header and its bytes are settled.
OneIssuePerRegistration ==
    \A j, k \in 1..Len(issued) : issued[j].from = issued[k].from => j = k

\* The whole process holds at most one active entry for a header, and it is
\* never replaced: all requests share the observer of one cached handler.
OneEntryPerHeader ==
    [][\A h \in Headers :
          LET active == {n \in Handlers : entries[n][h] /= None} IN
          /\ Cardinality(active) <= 1
          /\ \A n \in active : entries'[n][h] \in {entries[n][h], None}]_observationVars

\* A timeout can only ever end the registration it was armed for: entries that
\* left early take their timeout along, so it cannot hit a later one.
TimersMatchEntries ==
    timers = {entries[n][h] : n \in Handlers, h \in Headers} \ {None}

\* The newest of all settlements after the first ones, as many as fit the sink.
Newest(all, first) ==
    LET mine == Len(all) - first
        kept == IF mine < MaxSettlements THEN mine ELSE MaxSettlements
    IN SubSeq(all, Len(all) - kept + 1, Len(all))

\* The sink holds the newest settlements of this process, oldest first.
SinkKeepsNewest == sink = Newest(issued, sinkFrom)

\* No assessment is released on a settlement that did not take place.
PaidRelease == \A r \in Requests : phase[r] = "released" => r \in genuine

\* What the observer keeps agrees with what happened: timeouts, sink, release.
ObserverConsistent == TimersMatchEntries /\ SinkKeepsNewest /\ PaidRelease

\* A settled request whose header nobody else used, and whose registration
\* neither expired nor threw, is recorded exactly once, whatever all other
\* requests do.
UndisturbedRecorded ==
    \A r \in Requests :
       /\ phase[r] = "released" /\ r \notin missed
       /\ \A q \in Requests \ {r} : header[q] /= header[r]
       => Cardinality({k \in 1..Len(issued) : issued[k].by = r}) = 1

\* A registration never outlives its timeout.
EntriesExpire ==
    \A r \in Requests :
       (\E n \in Handlers, h \in Headers : entries[n][h] = r) ~>
          ~(\E n \in Handlers, h \in Headers : entries[n][h] = r)

\* A facilitator that was down when the handler was built does not keep the
\* route down: the failed handler leaves the cache.
FailedStartForgotten ==
    \A n \in Handlers : (cache = n /\ built[n] = "failed") ~> cache /= n

\* Entries end in time, and the route does not stay with a handler that could
\* not be built.
EntryLifecycle == EntriesExpire /\ FailedStartForgotten

(***************************************************************************)
(* The promise                                                             *)
(***************************************************************************)

Settlement == INSTANCE SettlementPromise WITH
    Capacity <- MaxSettlements,
    asked <- [r \in Requests |->
                IF phase[r] = "idle" THEN None
                ELSE [input |-> input[r], transaction |-> header[r]]],
    paid <- genuine,
    lapsed <- missed,
    released <- {r \in Requests : phase[r] = "released"},
    proofs <- issued,
    shown <- sink

\* The route implements the promise: whatever handlers, observers, timeouts and
\* restarts do, an answer is released once, paid, and proven by its own payment
\* unless its registration lapsed or its payment was used twice.
KeepsSettlement == Settlement!Spec
===============================================================================
