---------------------------- MODULE ListingPromise ----------------------------
(***************************************************************************)
(* What a listing promises: the record of a deployment, whose stages are   *)
(* never left out and never taken back; a proof no other offering uses     *)
(* once it is ready; and a service whose current offering is the one that  *)
(* opened last.                                                            *)
(***************************************************************************)
EXTENDS DeploymentRecord

CONSTANTS Issuers, Attempts, Slugs, SlugOf, Txns, Assets

VARIABLES proof, current
listingVars == <<recordVars, proof, current>>

\* A deployment may start with offerings an earlier release left pending.
Init ==
    /\ record \in [Deployments -> {0, 2}]
    /\ owner \in [Deployments -> Issuers \cup {None}]
    /\ prepared \in [Deployments -> Attempts \cup {None}]
    /\ attached \in [Deployments -> BOOLEAN]
    /\ WellRecorded
    /\ proof = [d \in Deployments |-> None]
    /\ current = [s \in Slugs |-> None]

Prepare(d) ==
    /\ \/ \E issuer \in Issuers : RecordDraft(d, issuer)
       \/ \E k \in Attempts : RecordAttempt(d, k)
       \/ d \notin Unread /\ RecordCandidate(d)
    /\ UNCHANGED <<proof, current>>

Back(d, txn, asset) ==
    /\ RecordAsset(d) \/ (d \in Unread /\ RecordCandidate(d))
    /\ \A other \in Deployments :
          proof[other] /= None => proof[other].txn /= txn /\ proof[other].asset /= asset
    /\ proof' = [proof EXCEPT ![d] = [txn |-> txn, asset |-> asset]]
    /\ UNCHANGED current

Open(d) ==
    /\ RecordListing(d)
    /\ current' = [current EXCEPT ![SlugOf[d]] = d]
    /\ UNCHANGED proof

Next == \E d \in Deployments :
    Prepare(d) \/ Open(d) \/ \E txn \in Txns, asset \in Assets : Back(d, txn, asset)

Spec == Init /\ [][Next]_listingVars
=============================================================================
