-------------------------- MODULE MCCommandIngress --------------------------
(* A backer with two versions of one payment, who also owns a tool.         *)
EXTENDS CommandIngress, TLC
CONSTANTS alice, t1, legacy, f1, f2, a1, c1, kf, ka, kc, r1, h1, h2

OfAlice == {f1, f2, a1, c1}
MCKindOf == [o \in OfAlice |-> IF o = c1 THEN "ATTACH" ELSE IF o = a1 THEN "ASSET" ELSE "FUNDING"]
MCSignerOf == [o \in OfAlice |-> alice]
MCSubjectOf == [o \in OfAlice |-> IF o \in {f1, f2} THEN legacy ELSE t1]
MCKeyOf == (f1 :> kf) @@ (f2 :> kf) @@ (a1 :> ka) @@ (c1 :> kc)
MCParentOf == [o \in OfAlice |-> IF o = c1 THEN ka ELSE None]
MCRowRole == (alice :> "BACKER")
MCToolsAtStart == (t1 :> [signer |-> alice, identity |-> "SELF_SERVICE", request |-> r1])

\* One page is open at a time, the backing page or the deploy page; it builds
\* its payloads at time 0 and loses one outcome. Only the asset is ever
\* declined. The backer loses the row while paying, the account while issuing;
\* a revoked account stands for a suspended one. Of two bodies both are relayed
\* before the command expires.
OnePage ==
    /\ LET built == {o \in Operations : prepared[o] /= None} IN
       /\ built \subseteq {f1, f2} \/ built \subseteq {a1, c1}
       /\ built \in {{f1, f2}, {a1, c1}} \/ \A o \in built : dialogs[o].phase = "idle"
       /\ Cardinality({o \in built : dialogs[o].phase = "unknown"}) <= 1
       /\ \A o \in built : prepared[o] = 0
       /\ \A o \in built \ {a1} : dialogs[o].phase = "failed" => dialogs[o].nonce /= None
    /\ accounts[alice] /= "SUSPENDED" /\ selfService
    /\ envelopes[2] /= None => envelopes[2].stamp <= Lifetime
    /\ rows[alice] = "ENABLED" \/ prepared[a1] = None
    /\ accounts[alice] = "ACTIVE" \/ {prepared[f1], prepared[f2]} = {None}
    /\ rows[alice] = "ENABLED" \/ accounts[alice] = "ACTIVE"
Symmetry == Permutations(Handlers) \cup Permutations({f1, f2})
=============================================================================
