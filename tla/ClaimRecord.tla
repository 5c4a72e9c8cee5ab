---------------------------- MODULE ClaimRecord ----------------------------
(***************************************************************************)
(* What the server's record of backings allows its callers to count on,    *)
(* without intents, operators, jobs or a ledger: how the claim of an       *)
(* attempt moves, when an attempt gets the permit to send, and what        *)
(* becomes of a hash. The pages are modelled against this record; the      *)
(* backend is shown to implement it. A call that asks for what was already *)
(* done, or may not be done, changes nothing.                              *)
(***************************************************************************)
CONSTANTS Keys, Hashes, NoHash

VARIABLES
    status,    \* of each attempt: of its claim, once it has one
    recorded,  \* the hash attached to it
    scope      \* the backer and the offering of an attempt that is admitted

recordVars == <<status, recorded, scope>>

Unresolved == {"OUTCOME_UNKNOWN", "SUBMITTED"}
Terminal == {"CONFIRMED", "REJECTED"}
Verdicts == Terminal \cup {"OUTCOME_UNKNOWN"}

\* A deployment may start with attempts of an earlier release.
RecordInit ==
    /\ status \in [Keys -> {"NONE", "ADMITTED", "PREPARED"} \cup Unresolved \cup Terminal]
    /\ recorded \in [Keys -> Hashes \cup {NoHash}]
    /\ \A k \in Keys :
         /\ status[k] \in {"NONE", "ADMITTED", "PREPARED"} => recorded[k] = NoHash
         /\ status[k] \in Terminal => recorded[k] /= NoHash

\* An attempt gets its scope when it is admitted, and keeps it.
Admit(k) ==
    /\ status' = IF status[k] = "NONE" THEN [status EXCEPT ![k] = "ADMITTED"] ELSE status
    /\ \A l \in Keys : l /= k \/ status[k] /= "NONE" => scope'[l] = scope[l]
    /\ UNCHANGED recorded

Reserve(k) ==
    /\ status' = IF status[k] = "ADMITTED" THEN [status EXCEPT ![k] = "PREPARED"] ELSE status
    /\ UNCHANGED <<recorded, scope>>

\* The other attempts of the backer on the offering that may have moved money.
Siblings(k) == {l \in Keys \ {k} : scope[l] = scope[k] /\ status[l] \in Unresolved}

BeginDispatch(k) ==
    /\ status' = IF Siblings(k) = {} /\ status[k] = "PREPARED"
                 THEN [status EXCEPT ![k] = "OUTCOME_UNKNOWN"] ELSE status
    /\ UNCHANGED <<recorded, scope>>

Recordable(k, h) == status[k] /= "NONE" /\ recorded[k] \in {NoHash, h}

Record(k, h) ==
    /\ IF Recordable(k, h)
       THEN /\ recorded' = [recorded EXCEPT ![k] = h]
            /\ status' = IF status[k] \in {"ADMITTED", "PREPARED"}
                         THEN [status EXCEPT ![k] = "SUBMITTED"] ELSE status
       ELSE UNCHANGED <<status, recorded>>
    /\ UNCHANGED scope

\* Only an attempt with a hash is looked up, and only while it is unresolved.
Resolve(k, outcome) ==
    /\ status[k] \in Unresolved /\ recorded[k] /= NoHash
    /\ status' = [status EXCEPT ![k] = outcome]
    /\ UNCHANGED <<recorded, scope>>

RecordNext ==
    \/ \E k \in Keys : Admit(k) \/ Reserve(k) \/ BeginDispatch(k)
    \/ \E k \in Keys, h \in Hashes : Record(k, h)
    \/ \E k \in Keys, outcome \in Verdicts : Resolve(k, outcome)

RecordSpec == RecordInit /\ [][RecordNext]_recordVars
=============================================================================
