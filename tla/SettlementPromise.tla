--------------------------- MODULE SettlementPromise ---------------------------
(***************************************************************************)
(* What the paid route promises, without handlers, observers or timeouts:  *)
(* an answer is released once and only when it was paid for, and leaves a  *)
(* proof that names its own input and transaction, unless its registration *)
(* lapsed or another request came with the same payment. The newest proofs *)
(* are shown until the process ends.                                       *)
(***************************************************************************)
EXTENDS Naturals, Sequences

CONSTANTS
    Requests,
    Payments,   \* what a request comes with: its input and its transaction
    Capacity,   \* how many proofs are shown
    None

VARIABLES
    asked,      \* what each request came with
    paid,       \* requests whose settlement took place
    lapsed,     \* requests whose registration expired or threw
    released,   \* requests whose answer was handed out
    proofs,     \* every proof ever given
    shown       \* the newest of them

settlementVars == <<asked, paid, lapsed, released, proofs, shown>>

Init ==
    /\ asked = [r \in Requests |-> None]
    /\ paid = {} /\ lapsed = {} /\ released = {}
    /\ proofs = <<>> /\ shown = <<>>

Ask(r, payment) ==
    /\ asked[r] = None
    /\ asked' = [asked EXCEPT ![r] = payment]
    /\ UNCHANGED <<paid, lapsed, released, proofs, shown>>

Pay(r) ==
    /\ asked[r] /= None
    /\ paid' = paid \cup {r}
    /\ UNCHANGED <<asked, lapsed, released, proofs, shown>>

Lapse(r) ==
    /\ asked[r] /= None
    /\ lapsed' = lapsed \cup {r}
    /\ UNCHANGED <<asked, paid, released, proofs, shown>>

\* A proof of the answer to r is given from a registration that carries the
\* same payment, and neither has had one before.
Fresh(r, from) ==
    \A k \in 1..Len(proofs) : proofs[k].by /= r /\ proofs[k].from /= from

Prove(r, from) ==
    LET proof == [input |-> asked[r].input, transaction |-> asked[r].transaction,
                  by |-> r, from |-> from]
    IN  /\ asked[from] = asked[r]
        /\ Fresh(r, from)
        /\ proofs' = Append(proofs, proof)
        /\ shown' = Append(IF Len(shown) = Capacity THEN Tail(shown) ELSE shown, proof)

Contended(r) ==
    \E q \in Requests \ {r} : asked[q] /= None /\ asked[q].transaction = asked[r].transaction

Unproven(r) ==
    /\ r \in lapsed \/ Contended(r)
    /\ UNCHANGED <<proofs, shown>>

Release(r) ==
    /\ r \in paid \ released
    /\ released' = released \cup {r}
    /\ Unproven(r) \/ \E from \in Requests : Prove(r, from)
    /\ UNCHANGED <<asked, paid, lapsed>>

\* The process ends: what it showed is gone, what it proved is not undone.
Forget ==
    /\ shown' = <<>>
    /\ UNCHANGED <<asked, paid, lapsed, released, proofs>>

Next ==
    \/ \E r \in Requests, payment \in Payments : Ask(r, payment)
    \/ \E r \in Requests : Pay(r) \/ Lapse(r) \/ Release(r)
    \/ Forget

Spec == Init /\ [][Next]_settlementVars
===============================================================================
