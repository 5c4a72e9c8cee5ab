-------------------------- MODULE SettlementLedger --------------------------
(***************************************************************************)
(* The durable record of RiskScan settlements: a request awaiting payment, *)
(* the attempts to settle it, and for an attempt the transfer observed.    *)
(* Each mutation admits its input, then inserts a row, answers that the    *)
(* very same row is already there, or refuses; a caller that did not hear  *)
(* the answer calls again. Two queries serve the reconciliation: one picks *)
(* the attempt that is due, one reads what an attempt has on record.       *)
(* Nothing yet moves an attempt out of pending_reconciliation.             *)
(***************************************************************************)
EXTENDS Integers, FiniteSets

CONSTANTS
    Spellings,  \* request references as callers write them
    Trimmed,    \* [Spellings -> references]: what remains without outer spaces
    Blank,      \* the reference with nothing left
    Contents,   \* public id and hashes of a request
    Keys,       \* idempotencyKeyHash
    Networks,
    Refs,       \* settlement and transaction references
    None,
    MaxRows,    \* bound: rows of each table
    MaxTime     \* bound: the clock

VARIABLES
    now,
    requests,  \* riskScanRequests
    attempts,  \* riskScanSettlementAttempts, all pending_reconciliation
    records,   \* riskScanSettlementRecords, all pending_verification
    answer     \* the last call and what it answered

tables == <<requests, attempts, records>>
ledgerVars == <<now, tables, answer>>

Times == 0 .. MaxTime
Ids == 1 .. MaxRows

LedgerInit ==
    /\ now = 0
    /\ requests = {} /\ attempts = {} /\ records = {}
    /\ answer = None

Tick ==
    /\ now < MaxTime /\ now' = now + 1
    /\ UNCHANGED <<tables, answer>>

With(rows, id) == {r \in rows : r.id = id}
NextId(rows) == Cardinality(rows) + 1
Answer(call, status, id) == answer' = [call |-> call, status |-> status, id |-> id]

(***************************************************************************)
(* Admission: exact fields of the right form, one instant for both times.  *)
(***************************************************************************)

\* Mutant of AdmittedRef: the reference is kept as it was written.
AsWritten(spelling) == spelling
AdmittedRef(spelling) == Trimmed[spelling]

AdmitRequest(c) == c.createdAt = c.updatedAt /\ Trimmed[c.ref] /= Blank
RequestDocument(c) ==
    [ref |-> AdmittedRef(c.ref), content |-> c.content, at |-> c.createdAt]

AdmitAttempt(c) == c.createdAt = c.updatedAt
AttemptDocument(c) ==
    [request |-> c.request, key |-> c.key, network |-> c.network, ref |-> c.ref,
     next |-> c.createdAt, at |-> c.createdAt]

RecordDocument(c, network) ==
    [attempt |-> c.attempt, network |-> network, ref |-> c.ref, at |-> c.observedAt]

Row(document, id) == [document |-> document, id |-> id]

(***************************************************************************)
(* The mutations                                                           *)
(***************************************************************************)

RecordInitialRequest(c) ==
    LET document == RequestDocument(c)
        existing == {r \in requests : r.document.ref = document.ref}
    IN  /\ IF AdmitRequest(c) /\ existing = {}
           THEN /\ requests' = requests \cup {Row(document, NextId(requests))}
                /\ Answer(c, "created", NextId(requests))
           ELSE /\ UNCHANGED requests
                /\ IF AdmitRequest(c) /\ \E r \in existing : existing = {r} /\ r.document = document
                   THEN \E r \in existing : Answer(c, "replayed", r.id)
                   ELSE Answer(c, "refused", None)
        /\ UNCHANGED <<now, attempts, records>>

RecordInitialAttempt(c) ==
    LET document == AttemptDocument(c)
        eligible == AdmitAttempt(c) /\ With(requests, c.request) /= {}
        existing == {a \in attempts : a.document.key = document.key}
    IN  /\ IF eligible /\ existing = {}
           THEN /\ attempts' = attempts \cup {Row(document, NextId(attempts))}
                /\ Answer(c, "created", NextId(attempts))
           ELSE /\ UNCHANGED attempts
                /\ IF eligible /\ \E a \in existing : existing = {a} /\ a.document = document
                   THEN \E a \in existing : Answer(c, "replayed", a.id)
                   ELSE Answer(c, "refused", None)
        /\ UNCHANGED <<now, requests, records>>

ByAttempt(attempt) == {r \in records : r.document.attempt = attempt}

\* Mutant of ByTransaction: what another attempt recorded is not looked for.
OwnTransaction(attempt, network, ref) == ByAttempt(attempt)
ByTransaction(attempt, network, ref) == {r \in records : r.document.network = network /\ r.document.ref = ref}

EligibleAttempts(c) == {a \in With(attempts, c.attempt) : a.document.ref = c.ref}

RecordInitialRecord(c) ==
    /\ IF EligibleAttempts(c) = {}
       THEN Answer(c, "refused", None) /\ UNCHANGED records
       ELSE \E a \in EligibleAttempts(c) :
            LET document == RecordDocument(c, a.document.network)
                mine == ByAttempt(c.attempt)
                same == ByTransaction(c.attempt, document.network, c.ref)
            IN  IF mine = {} /\ same = {}
                THEN /\ records' = records \cup {Row(document, NextId(records))}
                     /\ Answer(c, "created", NextId(records))
                ELSE /\ UNCHANGED records
                     /\ IF mine = same /\ \E r \in mine : mine = {r} /\ r.document = document
                        THEN \E r \in mine : Answer(c, "replayed", r.id)
                        ELSE Answer(c, "refused", None)
    /\ UNCHANGED <<now, requests, attempts>>

(***************************************************************************)
(* The queries                                                             *)
(***************************************************************************)

\* selectRiskScanPendingReconciliationAttempt: nothing is due, one attempt is,
\* or several are, which it takes for an unsafe store.
Select(c) ==
    LET due == {a \in attempts : a.document.next <= c.before}
    IN  /\ IF due = {} THEN Answer(c, "none", None)
           ELSE IF \E a \in due : due = {a} THEN \E a \in due : Answer(c, "selected", a.id)
           ELSE Answer(c, "refused", None)
        /\ UNCHANGED <<now, tables>>

\* readRiskScanPendingSettlementCandidate.
ReadPending(c) ==
    /\ IF With(attempts, c.read) = {} THEN Answer(c, "none", None)
       ELSE \E a \in With(attempts, c.read) :
            LET mine == ByAttempt(c.read)
                same == {r \in records : r.document.network = a.document.network /\ r.document.ref = a.document.ref}
            IN  IF mine = {} /\ same = {} THEN Answer(c, "none", None)
                ELSE IF mine = same /\ \E r \in mine : mine = {r}
                THEN \E r \in mine : Answer(c, "read", r.id)
                ELSE Answer(c, "refused", None)
    /\ UNCHANGED <<now, tables>>

Instants == 0 .. now

LedgerNext ==
    \/ Tick
    \/ \E s \in Spellings, x \in Contents, t, u \in Instants :
        /\ RecordInitialRequest([ref |-> s, content |-> x, createdAt |-> t, updatedAt |-> u])
        /\ Cardinality(requests') <= MaxRows
    \/ \E q \in Ids, k \in Keys, n \in Networks, r \in Refs, t \in Instants :
        /\ RecordInitialAttempt([request |-> q, key |-> k, network |-> n, ref |-> r, createdAt |-> t, updatedAt |-> t])
        /\ Cardinality(attempts') <= MaxRows
    \/ \E a \in Ids, r \in Refs, t \in Instants :
        RecordInitialRecord([attempt |-> a, ref |-> r, observedAt |-> t])
    \/ \E t \in Instants : Select([before |-> t])
    \/ \E a \in Ids : ReadPending([read |-> a])

LedgerSpec == LedgerInit /\ [][LedgerNext]_ledgerVars

(***************************************************************************)
(* Properties                                                              *)
(***************************************************************************)

\* One transfer settles one attempt: two records never share an attempt, nor a
\* network and reference, whichever attempts named that reference first.
TransferSettlesOnce ==
    \A r, s \in records :
        \/ r.document.attempt = s.document.attempt
        \/ r.document.network = s.document.network /\ r.document.ref = s.document.ref
        => r = s

\* A call made again because its answer was lost creates nothing and is told
\* the row it created, however its reference was spelled.
RetryReplays ==
    [][\A q \in requests :
        /\ answer' /= answer /\ answer' /= None /\ "content" \in DOMAIN answer'.call
        /\ [ref |-> Trimmed[answer'.call.ref], content |-> answer'.call.content, at |-> answer'.call.createdAt]
             = [ref |-> Trimmed[q.document.ref], content |-> q.document.content, at |-> q.document.at]
        /\ answer'.call.createdAt = answer'.call.updatedAt
        => answer'.status = "replayed" /\ answer'.id = q.id]_ledgerVars
=============================================================================
