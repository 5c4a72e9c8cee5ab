--------------------------- MODULE BackingPromise ---------------------------
(***************************************************************************)
(* What the payment record promises, without claims, jobs or retries: an   *)
(* attempt is opened, and is closed once, as REJECTED or as CONFIRMED by a *)
(* settled transfer that closes no other attempt.                          *)
(***************************************************************************)
CONSTANTS Keys, Hashes, NoHash

VARIABLES
    status,   \* of each attempt
    proof,    \* the transaction that closed a CONFIRMED attempt
    settled   \* the transactions that succeeded on the ledger

promiseVars == <<status, proof, settled>>

\* A deployment may start with attempts that an earlier release closed.
Init ==
    /\ status \in [Keys -> {"NONE", "OPEN", "CONFIRMED", "REJECTED"}]
    /\ settled \in SUBSET Hashes
    /\ proof \in [Keys -> Hashes \cup {NoHash}]
    /\ \A k \in Keys : IF status[k] = "CONFIRMED" THEN proof[k] \in settled
                                                  ELSE proof[k] = NoHash
    /\ \A k, l \in Keys : k /= l /\ proof[k] /= NoHash => proof[k] /= proof[l]

Open(k) ==
    /\ status[k] = "NONE"
    /\ status' = [status EXCEPT ![k] = "OPEN"]
    /\ UNCHANGED <<proof, settled>>

Confirm(k, h) ==
    /\ status[k] = "OPEN"
    /\ h \in settled
    /\ \A l \in Keys : proof[l] /= h
    /\ status' = [status EXCEPT ![k] = "CONFIRMED"]
    /\ proof' = [proof EXCEPT ![k] = h]
    /\ UNCHANGED settled

Reject(k) ==
    /\ status[k] = "OPEN"
    /\ status' = [status EXCEPT ![k] = "REJECTED"]
    /\ UNCHANGED <<proof, settled>>

Settle(h) ==
    /\ settled' = settled \cup {h}
    /\ UNCHANGED <<status, proof>>

Next ==
    \/ \E k \in Keys : Open(k) \/ Reject(k)
    \/ \E k \in Keys, h \in Hashes : Confirm(k, h)
    \/ \E h \in Hashes : Settle(h)

Spec == Init /\ [][Next]_promiseVars
=============================================================================
