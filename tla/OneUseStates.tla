---------------------------- MODULE OneUseStates ----------------------------
(***************************************************************************)
(* The three lifecycles of the core package whose states are one-use       *)
(* objects: a paid task, the clearing split of its result, an offering     *)
(* purchase. A transition takes an issued object and an event and issues a *)
(* successor; the object is then consumed. While its transition runs, the  *)
(* object is held: a paid task awaits the digest of the requirements, and  *)
(* reading the event of a purchase or a split may run the caller's code,   *)
(* so other calls, on the same object or on others, happen in between.     *)
(***************************************************************************)
EXTENDS Integers, Sequences, FiniteSets

CONSTANTS
    Digests,     \* digests of requirements
    Times,       \* instants an event may name
    Rejected,
    MaxIssued,   \* bound: objects issued
    MaxCalls     \* bound: transitions running at once

VARIABLES
    issued,        \* sequence of the objects: snapshot, state, and the object they come from
    consumed,      \* consumedStates
    transitioning, \* transitioningStates
    calls          \* the transitions under way

oneUseVars == <<issued, consumed, transitioning, calls>>

Machines == {"task", "split", "purchase"}
Objects == DOMAIN issued
StateOf(o) == issued[o].state
SnapshotOf(o) == issued[o].snapshot
Snapshot(machine, digest, expiresAt) == [machine |-> machine, digest |-> digest, expiresAt |-> expiresAt]

OneUseInit ==
    /\ issued = <<>>
    /\ consumed = {} /\ transitioning = {} /\ calls = {}

(***************************************************************************)
(* The transition tables                                                   *)
(***************************************************************************)

Names == {"expire", "open", "payment_submitted", "payment_rejected", "payment_outcome_unknown",
          "payment_settled", "payment_confirmed", "execution_started", "result_valid",
          "execution_failed", "response_outcome_unknown", "allocation_pending",
          "allocation_submitted", "allocation_outcome_unknown", "refund_required",
          "refund_submitted", "refund_outcome_unknown", "complete", "refunded",
          "manual_reconciliation", "submit", "confirm", "outcome_unknown", "non_execution_proven"}

\* Events whose successor is the state of their own name, by the state they leave.
Named(machine, state) ==
    CASE machine = "task" /\ state = "payment_submitted" ->
            {"payment_rejected", "payment_outcome_unknown", "payment_settled"}
      [] machine = "task" /\ state = "payment_settled" -> {"execution_started"}
      [] machine = "task" /\ state = "execution_started" ->
            {"result_valid", "execution_failed", "response_outcome_unknown"}
      [] machine = "purchase" /\ state = "payment_submitted" ->
            {"payment_rejected", "payment_outcome_unknown", "payment_confirmed"}
      [] machine = "purchase" /\ state = "payment_confirmed" -> {"allocation_pending"}
      [] machine = "purchase" /\ state = "allocation_pending" ->
            {"allocation_submitted", "refund_required", "manual_reconciliation"}
      [] machine = "purchase" /\ state = "allocation_submitted" -> {"complete", "allocation_outcome_unknown"}
      [] machine = "purchase" /\ state = "refund_required" -> {"refund_submitted", "manual_reconciliation"}
      [] machine = "purchase" /\ state = "refund_submitted" -> {"refunded", "refund_outcome_unknown"}
      [] OTHER -> {}

Active(snapshot, e) == e.at < snapshot.expiresAt

PaidTaskNext(state, e, snapshot) ==
    CASE state = "quoted" /\ e.type = "expire" /\ ~Active(snapshot, e) -> "expired"
      [] state = "quoted" /\ e.type = "payment_submitted" /\ Active(snapshot, e)
            /\ e.digest = snapshot.digest -> "payment_submitted"
      [] e.type \in Named("task", state) -> e.type
      [] OTHER -> Rejected

PurchaseNext(state, e, snapshot) ==
    CASE state = "draft" /\ e.type = "open" /\ Active(snapshot, e) -> "awaiting_payment"
      [] state = "awaiting_payment" /\ e.type = "expire" /\ ~Active(snapshot, e) -> "expired"
      [] state = "awaiting_payment" /\ e.type = "payment_submitted" /\ Active(snapshot, e) -> "payment_submitted"
      [] e.type \in Named("purchase", state) -> e.type
      [] OTHER -> Rejected

SplitNext(state, e) ==
    CASE state = "split_required" /\ e.type = "submit" -> "split_submitted"
      [] state \in {"split_submitted", "split_outcome_unknown"} /\ e.type = "confirm" -> "split_confirmed"
      [] state = "split_submitted" /\ e.type = "outcome_unknown" -> "split_outcome_unknown"
      [] state = "split_outcome_unknown" /\ e.type = "non_execution_proven" -> "split_required"
      [] OTHER -> Rejected

NextState(snapshot, state, e) ==
    CASE snapshot.machine = "task" -> PaidTaskNext(state, e, snapshot)
      [] snapshot.machine = "purchase" -> PurchaseNext(state, e, snapshot)
      [] snapshot.machine = "split" -> SplitNext(state, e)

\* The events to try on a state: instant and requirements matter before the
\* payment only, and the requirements have the digest of the task or another.
Timed == {"quoted", "draft", "awaiting_payment"}
Events(state) ==
    IF state \in Timed
    THEN [type : {"open", "expire", "payment_submitted"}, at : Times, digest : Digests \cup {Rejected}]
    ELSE {[type |-> name] : name \in Names}

(***************************************************************************)
(* Issuing, holding and consuming                                          *)
(***************************************************************************)

IssueState(state, snapshot, from) ==
    issued' = Append(issued, [snapshot |-> snapshot, state |-> state, from |-> from])

\* Mutant of Usable: an object held by a transition may be used again.
NotConsumed(o) == o \notin consumed
Usable(o) == o \notin consumed /\ o \notin transitioning

Room == Len(issued) < MaxIssued
Roots == {o \in Objects : issued[o].from = 0}

CreatePaidTask ==
    \E d \in Digests, t \in Times :
        /\ Room /\ ~\E o \in Roots : SnapshotOf(o).machine = "task"
        /\ IssueState("quoted", Snapshot("task", d, t), 0)
        /\ UNCHANGED <<consumed, transitioning, calls>>

CreateOfferingPurchase ==
    \E d \in Digests, t \in Times :
        /\ Room /\ ~\E o \in Roots : SnapshotOf(o).machine = "purchase"
        /\ IssueState("draft", Snapshot("purchase", d, t), 0)
        /\ UNCHANGED <<consumed, transitioning, calls>>

BeginTransition(o) ==
    /\ Usable(o)
    /\ Cardinality(calls) < MaxCalls
    /\ transitioning' = transitioning \cup {o}
    /\ \E e \in Events(StateOf(o)) :
        calls' = calls \cup {[object |-> o, next |-> NextState(SnapshotOf(o), StateOf(o), e)]}
    /\ UNCHANGED <<issued, consumed>>

\* Mutant of Released: a rejected event leaves its object held.
ReleasedOnSuccess(c) == IF c.next = Rejected THEN transitioning ELSE transitioning \ {c.object}
Released(c) == transitioning \ {c.object}

Settle(c) ==
    /\ IF c.next = Rejected THEN UNCHANGED <<issued, consumed>>
       ELSE /\ Room
            /\ IssueState(c.next, SnapshotOf(c.object), c.object)
            /\ consumed' = consumed \cup {c.object}
    /\ transitioning' = Released(c)
    /\ calls' = calls \ {c}

\* createClearingSplit claims the result: it is consumed by its split.
CreateClearingSplit(o) ==
    /\ Room
    /\ SnapshotOf(o).machine = "task" /\ StateOf(o) = "result_valid"
    /\ Usable(o)
    /\ IssueState("split_required", Snapshot("split", SnapshotOf(o).digest, SnapshotOf(o).expiresAt), o)
    /\ consumed' = consumed \cup {o}
    /\ UNCHANGED <<transitioning, calls>>

OneUseNext ==
    \/ CreatePaidTask
    \/ CreateOfferingPurchase
    \/ \E o \in Objects : BeginTransition(o)
    \/ \E c \in calls : Settle(c)
    \/ \E o \in Objects : CreateClearingSplit(o)

OneUseSpec == OneUseInit /\ [][OneUseNext]_oneUseVars

(***************************************************************************)
(* Properties                                                              *)
(***************************************************************************)

\* An object has one successor at most: a quote is not both paid and expired,
\* a payment not both settled and rejected, a result not cleared twice, a
\* purchase not both allocated and refunded, whatever calls overlap.
OneSuccessor ==
    \A o, p \in Objects : issued[o].from /= 0 /\ issued[o].from = issued[p].from => o = p

\* No lifecycle is lost: an object without a successor can be used, or a call
\* holds it that has not ended. A rejected event therefore costs nothing.
StateSurvivesRejection ==
    \A o \in Objects :
        \/ \E p \in Objects : issued[p].from = o
        \/ o \notin consumed /\ (o \in transitioning => \E c \in calls : c.object = o)
=============================================================================
