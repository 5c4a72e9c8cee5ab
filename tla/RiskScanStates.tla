---------------------------- MODULE RiskScanStates ----------------------------
(***************************************************************************)
(* The life of a RiskScan request. Each function takes an object the       *)
(* module has issued and returns another; nothing consumes an object, so a *)
(* required or pending payment may be taken further more than once, with   *)
(* several outcomes. Results and failures carry no authority; settlements  *)
(* and receipts do, and are joined by identity.                            *)
(***************************************************************************)
EXTENDS Naturals, FiniteSets, Sequences

CONSTANTS
    References,  \* requestRef, which two requests may share
    Settlements, \* settlementRef
    Receipts,    \* receiptRef and evidenceRef
    MaxIssued    \* bound: objects

VARIABLE objects \* sequence: kind, reference, settlement, receipt, and the objects it comes from

scanVars == objects

RiskScanInit == objects = <<>>

Is(o, kind) == o \in DOMAIN objects /\ objects[o].kind = kind
Issue(object) == Len(objects) < MaxIssued /\ objects' = Append(objects, object)
Object(kind, ref, settlement, receipt, from) ==
    [kind |-> kind, ref |-> ref, settlement |-> settlement, receipt |-> receipt, from |-> from]
Successor(o, kind) == [objects[o] EXCEPT !.kind = kind, !.from = {o}]

StartRiskScanRequest ==
    \E ref \in References : Issue(Object("payment_required", ref, {}, {}, {}))

MarkRiskScanUnavailable ==
    \E o \in DOMAIN objects : Is(o, "payment_required") /\ Issue(Successor(o, "unavailable"))

MarkRiskScanPaymentPending ==
    \E o \in DOMAIN objects : Is(o, "payment_required") /\ Issue(Successor(o, "payment_pending"))

MarkRiskScanPaymentFailed ==
    \E o \in DOMAIN objects :
        (Is(o, "payment_required") \/ Is(o, "payment_pending")) /\ Issue(Successor(o, "payment_failed"))

\* Mutant of Correlates: the settlement of any request is taken.
AnyCorrelation(o, ref) == ref \in References
Correlates(o, ref) == ref = objects[o].ref

CreateRiskScanVerifiedSettlement ==
    \E o \in DOMAIN objects, ref \in References, s \in Settlements :
        /\ Is(o, "payment_pending")
        /\ Correlates(o, ref)
        /\ Issue([Successor(o, "settlement") EXCEPT !.ref = ref, !.settlement = {s}])

BindRiskScanReceiptEvidence ==
    \E o \in DOMAIN objects, receipt \in Receipts :
        /\ Is(o, "settlement")
        /\ Issue([Successor(o, "receipt") EXCEPT !.receipt = {receipt}])

MarkRiskScanExecutionFailed ==
    \E o \in DOMAIN objects : Is(o, "settlement") /\ Issue(Successor(o, "execution_failed"))

\* Mutant of BoundTo: a receipt of the same settlement reference is enough.
BoundByReference(receipt, settlement) == objects[receipt].ref = objects[settlement].ref
BoundTo(receipt, settlement) == objects[receipt].from = {settlement}

CompleteRiskScanRequest ==
    \E settlement, receipt \in DOMAIN objects :
        /\ Is(settlement, "settlement") /\ Is(receipt, "receipt")
        /\ BoundTo(receipt, settlement)
        /\ Issue(Object("completed", objects[settlement].ref, objects[settlement].settlement,
                        objects[receipt].receipt, {settlement, receipt}))

RiskScanNext ==
    \/ StartRiskScanRequest
    \/ MarkRiskScanUnavailable
    \/ MarkRiskScanPaymentPending
    \/ MarkRiskScanPaymentFailed
    \/ CreateRiskScanVerifiedSettlement
    \/ BindRiskScanReceiptEvidence
    \/ MarkRiskScanExecutionFailed
    \/ CompleteRiskScanRequest

RiskScanSpec == RiskScanInit /\ [][RiskScanNext]_scanVars

(***************************************************************************)
(* Properties                                                              *)
(***************************************************************************)

Kind(kind) == {o \in DOMAIN objects : objects[o].kind = kind}

\* A completed request shows the receipt of the very settlement it completes,
\* and that settlement is of a payment that request was waiting for: receipts of
\* two settlements are never exchanged, even under one reference.
CompletedIsProven ==
    \A o \in Kind("completed") :
        \E s \in Kind("settlement"), r \in Kind("receipt"), p \in Kind("payment_pending") :
            /\ objects[o].from = {s, r} /\ objects[r].from = {s} /\ objects[s].from = {p}
            /\ objects[o].settlement = objects[s].settlement /\ objects[r].settlement = objects[s].settlement
            /\ objects[o].receipt = objects[r].receipt
            /\ objects[o].ref = objects[p].ref
=============================================================================
