------------------------- MODULE MCBackingPayments -------------------------
(* Small instances of BackingPayments; each cfg picks what it needs.       *)
EXTENDS BackingPayments, TLC

CONSTANTS k1, k2, k3, b1, b2, treasury, issuer, riskscan, tool, h1, h2, h3, v1, v2

MCRecipientOf == [o \in {riskscan, tool} |-> IF o = riskscan THEN treasury ELSE issuer]
LegacyRecipientOf == [o \in {riskscan} |-> treasury]
MCTermSheets == {[price |-> 2, minimum |-> 1, maximum |-> 1]}
TwoTermSheets == MCTermSheets \cup {[price |-> 3, minimum |-> 1, maximum |-> 1]}
ByMistake == {[from |-> b1, to |-> treasury, tinybars |-> 2]}

Historic(s, state, hash) ==
    [signer |-> s, offering |-> Unscoped, tinybars |-> 2, state |-> state,
     hash |-> hash, verified |-> NoHash]

NoTransfers == {}
NoClaims == {}
\* The backer pays by hand, rightly or wrongly, or someone else pays.
ByHand == {[from |-> b1, to |-> issuer, tinybars |-> 2],
           [from |-> b1, to |-> treasury, tinybars |-> 2]}

\* Sound where the cfg treats the permuted values alike.
Symmetry ==
    Permutations({k1, k2}) \cup Permutations({h1, h2}) \cup Permutations({v1, v2})

\* Operators act, or there is a second attempt on the terms of the first.
OneTrouble ==
    intents'[k2] /= None =>
       intents'[k1] /= None /\ operatorSteps' = 0 /\ offerings'[tool].terms.price = 2
FairOneTrouble == PayInit /\ [][PayNext /\ OneTrouble]_allVars /\ Fairness
=============================================================================
