-------------------------- MODULE DeploymentRecord --------------------------
(***************************************************************************)
(* What the server's record of a deployment allows the issuer's page to    *)
(* count on, without commands, attempts, jobs or claims: a deployment is   *)
(* drafted by one issuer, prepared once, gets one candidate for what was   *)
(* prepared, is ready with it, and opens once. The deploy wizard is        *)
(* modelled against this record; the backend is shown to implement it.     *)
(***************************************************************************)
EXTENDS Naturals

CONSTANTS
    Deployments,
    Unread,    \* those that are ready on their candidate, which is never read
    None

VARIABLES
    record,    \* stages recorded: 0 none, 1 DRAFT, 2 ASSET_PENDING, 3 READY, 4 OPEN
    owner,     \* the issuer that drafted it
    prepared,  \* its prepared attempt
    attached   \* whether a candidate is attached

recordVars == <<record, owner, prepared, attached>>

\* How the fields of the records belong together.
WellRecorded ==
    \A d \in Deployments :
       /\ record[d] = 0 <=> owner[d] = None
       /\ record[d] <= 1 <=> prepared[d] = None
       /\ attached[d] => record[d] >= 2
       /\ record[d] >= 3 => attached[d]
       /\ \A e \in Deployments \ {d} : prepared[d] = None \/ prepared[e] /= prepared[d]

Reach(d, from, to) == record[d] = from /\ record' = [record EXCEPT ![d] = to]

RecordDraft(d, issuer) ==
    /\ Reach(d, 0, 1)
    /\ owner' = [owner EXCEPT ![d] = issuer]
    /\ UNCHANGED <<prepared, attached>>

\* An attempt belongs to one deployment.
RecordAttempt(d, k) ==
    /\ Reach(d, 1, 2)
    /\ \A e \in Deployments : prepared[e] /= k
    /\ prepared' = [prepared EXCEPT ![d] = k]
    /\ UNCHANGED <<owner, attached>>

RecordCandidate(d) ==
    /\ record[d] = 2 /\ ~attached[d]
    /\ record' = IF d \in Unread THEN [record EXCEPT ![d] = 3] ELSE record
    /\ attached' = [attached EXCEPT ![d] = TRUE]
    /\ UNCHANGED <<owner, prepared>>

\* The candidate is corroborated; or repaired, if an earlier release attached
\* it and left the deployment pending.
RecordAsset(d) ==
    /\ attached[d] /\ Reach(d, 2, 3)
    /\ UNCHANGED <<owner, prepared, attached>>

RecordListing(d) ==
    /\ Reach(d, 3, 4)
    /\ UNCHANGED <<owner, prepared, attached>>
=============================================================================
