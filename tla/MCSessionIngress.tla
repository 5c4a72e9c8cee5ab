-------------------------- MODULE MCSessionIngress --------------------------
(***************************************************************************)
(* The calls of a dashboard through its server, by a self-service signer   *)
(* or by the planned Stage B issuer, in three posts; or the deploy wizard  *)
(* of a page, with a tool and the legacy campaign. They share no row, so a *)
(* behaviour is one of either.                                             *)
(***************************************************************************)
EXTENDS DashboardCalls, TLC
CONSTANTS alice, stageb, tool, t1, t2, r1, r2, p1, p2, p3

\* Of two accounts, which are alike, one is the first owner; what a behaviour
\* does not use starts empty.
MCInit ==
    /\ SiteInit
    /\ owner[Legacy] \in {None, CHOOSE a \in Accounts : TRUE}
    /\ IF site = "wizard" THEN ~selfService
       ELSE target = Legacy /\ \A t \in Deployed \cup {Legacy} : record[t] = 0

MCSpec == MCInit /\ [][SiteNext]_siteVars

OfferTerms == [price |-> 2, minimum |-> 1, maximum |-> 1]
Symmetry == Permutations({t1, t2}) \cup Permutations({r1, r2}) \cup Permutations({p1, p2, p3})

Signed == {p \in PostIds : posts[p] /= None}
Kinds == {posts[p].call.kind : p \in Signed}
Acting == {s \in Signers : sessions[s] /= None} \cup {posts[p].signer : p \in Signed}

\* No row is shared between signers or between tools and intents, so a
\* behaviour has one signer and calls of one family, and only preparing
\* depends on more than one tick of the clock.
OneFamily ==
    /\ Cardinality(Acting) <= 1
    /\ \A s \in Signers : (rows[s] = "ENABLED" <=> s \in SeededAtStart) \/ "allocate" \in Kinds
    /\ Cardinality(Kinds \ {"self_service_ensure"}) <= 1
    /\ IF "backing_intent" \in Kinds THEN Acting = {alice} /\ Cardinality(Kinds) = 1
       ELSE clock = 0 /\ \A p \in Signed : posts[p].stamp = 0
    /\ "read" \in Kinds => Cardinality(Signed) = 1

\* The wizard opens a second request when nothing changed since the wallet
\* connected.
SecondRequest == asked > 1 => events <= 1
=============================================================================
