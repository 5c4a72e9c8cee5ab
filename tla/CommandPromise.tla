--------------------------- MODULE CommandPromise ---------------------------
(***************************************************************************)
(* What the signed command channel promises, whatever the network does: an *)
(* operation is recorded once under its key, while its signer is entitled  *)
(* to it, and no page is told something the record does not bear out.      *)
(***************************************************************************)
CONSTANTS
    Operations,  \* what pages ask wallets to sign
    Keys,        \* idempotency keys
    KeyOf,       \* the key of each operation
    None         \* nothing recorded, nothing told

VARIABLES
    entitled,  \* operations whose record would be admitted right now
    recorded,  \* the operation recorded under a key
    told       \* the last outcome a page was told of its operation

promiseVars == <<entitled, recorded, told>>

Init ==
    /\ entitled \subseteq Operations
    /\ recorded = [k \in Keys |-> None]
    /\ told = [o \in Operations |-> None]

Record(o) ==
    /\ o \in entitled
    /\ recorded[KeyOf[o]] = None
    /\ recorded' = [recorded EXCEPT ![KeyOf[o]] = o]
    /\ UNCHANGED told

\* A page hears that its operation was accepted only if it is the one that
\* was recorded, of a replay or a conflict only if the key is taken.
Truthful(o, outcome) ==
    /\ outcome = "ACCEPTED" => recorded[KeyOf[o]] = o
    /\ outcome \in {"REPLAYED", "CONFLICT"} => recorded[KeyOf[o]] /= None

Tell(o, outcome) ==
    /\ Truthful(o, outcome)
    /\ told' = [told EXCEPT ![o] = outcome]
    /\ UNCHANGED recorded

\* Membership, clocks and the network move on without recording anything.
Meanwhile == UNCHANGED <<recorded, told>>

Next ==
    \/ \E o \in Operations : Record(o)
    \/ \E o \in Operations,
          outcome \in {"ACCEPTED", "REPLAYED", "CONFLICT", "REJECTED", "unknown", None} :
          Tell(o, outcome)
    \/ Meanwhile

Spec == Init /\ [][Next]_promiseVars
=============================================================================
