----------------------- MODULE BackingPaymentsProofs -----------------------
(***************************************************************************)
(* The payment record for any number of backers, attempts, hashes and      *)
(* verification jobs, whatever history it starts from.                     *)
(*                                                                         *)
(* HashExclusive and OneOpenDispatch protect themselves once types are     *)
(* known. The evidence of a CONFIRMED claim is not inductive alone: a job  *)
(* carries it from the read to the write, so the invariant also says what  *)
(* a job in flight has seen, and that nothing it relied on has changed.    *)
(***************************************************************************)
EXTENDS BackingPayments, BackingIntentsProofs, SequenceTheorems

\* An intent is written once.
LEMMA IntentsKept ==
    ASSUME IntentConstants, TypeOK, [Next]_vars, NEW k \in Keys, intents[k] /= None
    PROVE  intents'[k] = intents[k]
<1>1. ASSUME NEW j \in Keys, NEW s \in Backers, NEW o \in Offerings,
             NEW u \in Nat, NEW e \in Nat, FreezeBackingIntent(j, s, o, u, e)
      PROVE  intents'[k] = intents[k]
  BY <1>1, FreezeAdds
<1>2. ASSUME UNCHANGED intentVars PROVE intents'[k] = intents[k]
  BY <1>2 DEF intentVars
<1> QED BY <1>1, <1>2, StepCases

\* A payment step either leaves intents and policy alone, or leaves the
\* payment tables alone.
LEMMA PaySplit ==
    ASSUME [PayNext]_allVars
    PROVE  \/ PrepareOrOperate
           \/ UNCHANGED vars
<1>1. ASSUME Pay PROVE UNCHANGED vars
  BY <1>1 DEF Pay, AdmitFunding, ReserveBackingPayment, BeginBackingPaymentDispatch,
              PermitLost, WalletSend, ConfirmBackingPayment
<1>2. ASSUME Verify PROVE UNCHANGED vars
  BY <1>2 DEF Verify, ReverifyBacker, ReverifyLegacyRiskScan, ReverifyOffering,
              Reverify, FinishJob, JobCrash, ReadReceipt
<1>3. ASSUME Chain PROVE UNCHANGED vars
  BY <1>3 DEF Chain, ForeignTransfer, Mine
<1> QED BY <1>1, <1>2, <1>3 DEF PayNext, allVars

LEMMA PayRefinesPreparation == PaySpec => Spec
<1>1. PayInit => Init
  BY DEF PayInit
<1>2. [PayNext]_allVars => [Next]_vars
  BY PaySplit DEF PrepareOrOperate
<1> QED BY <1>1, <1>2, PTL DEF PaySpec, Spec

\* Payments leave the preparation tables well formed.
THEOREM PayTablesTypeCorrect == PaySpec => []TypeOK
  BY PayRefinesPreparation, TypeCorrect, PTL

-----------------------------------------------------------------------------
(* What each kind of step does                                             *)

\* The payment steps, with the three ways to start a verification in one.
LEMMA PayCases ==
    ASSUME [PayNext]_allVars
    PROVE  \/ UNCHANGED payVars /\ [Next]_vars
           \/ \E k \in Keys, a \in Addresses, legacy, selfService \in BOOLEAN :
                AdmitFunding(k, a, legacy, selfService)
           \/ \E k \in Keys : \/ ReserveBackingPayment(k)
                              \/ BeginBackingPaymentDispatch(k)
                              \/ PermitLost(k)
                              \/ claims[k] /= None /\ Reverify(k)
           \/ \E k \in Keys, h \in Hashes : WalletSend(k, h) \/ ConfirmBackingPayment(k, h)
           \/ \E v \in Verifiers : \/ FinishJob(v)
                                   \/ JobCrash(v)
                                   \/ \E outcome \in Outcomes : ReadReceipt(v, outcome)
           \/ \E h \in Hashes : \/ \E t \in ForeignTransfers : ForeignTransfer(h, t)
                                \/ \E status \in {"SUCCESS", "FAILED"} : Mine(h, status)
<1>1. CASE PrepareOrOperate
  BY <1>1 DEF PrepareOrOperate
<1>2. CASE Pay
  BY <1>2 DEF Pay
<1>3. CASE Verify
  <2>1. ASSUME NEW s \in Backers, ReverifyBacker(s)
        PROVE  \E k \in Keys : claims[k] /= None /\ Reverify(k)
    BY <2>1 DEF ReverifyBacker
  <2>2. ASSUME NEW s \in Backers, ReverifyLegacyRiskScan(s)
        PROVE  \E k \in Keys : claims[k] /= None /\ Reverify(k)
    BY <2>2 DEF ReverifyLegacyRiskScan, LegacyAttempts
  <2>3. ASSUME NEW s \in Backers, NEW o \in Offerings, ReverifyOffering(s, o)
        PROVE  \E k \in Keys : claims[k] /= None /\ Reverify(k)
    <3>1. PICK k \in UnresolvedClaims(s, o) : Reverify(k)
      BY <2>3 DEF ReverifyOffering
    <3>2. k \in Keys /\ claims[k] /= None
      BY <3>1 DEF UnresolvedClaims, UnscopedClaims
    <3> QED BY <3>1, <3>2
  <2> QED BY <1>3, <2>1, <2>2, <2>3 DEF Verify
<1>4. CASE Chain
  BY <1>4 DEF Chain
<1>5. CASE UNCHANGED allVars
  BY <1>5 DEF allVars
<1> QED BY <1>1, <1>2, <1>3, <1>4, <1>5 DEF PayNext

LEMMA ClaimFields ==
    ASSUME PaymentConstants, PayTypeOK, NEW k \in Keys, claims[k] /= None
    PROVE  /\ claims[k] \in Claim
           /\ claims[k].signer \in Backers /\ claims[k].tinybars \in Nat
           /\ claims[k].state \in ClaimState
           /\ claims[k].hash \in Hashes \cup {NoHash}
           /\ claims[k].verified \in Hashes \cup {NoHash}
  BY DEF PayTypeOK, Claim

LEMMA InsertEffect ==
    ASSUME IntentConstants, PaymentConstants, TypeOK, PayTypeOK,
           NEW k \in Keys, UsableIntent(k),
           NEW o \in Offerings, NEW state \in ClaimState,
           NEW h \in Hashes \cup {NoHash}, NEW proof \in Hashes \cup {NoHash},
           InsertClaim(k, o, state, h, proof)
    PROVE  /\ claims' \in [Keys -> Claim \cup {None}]
           /\ \A l \in Keys \ {k} : claims'[l] = claims[l]
           /\ claims'[k] = [signer |-> attempts[k].signer, offering |-> o,
                            tinybars |-> intents[k].tinybars, state |-> state,
                            hash |-> h, verified |-> proof]
           /\ claims'[k] /= None
           /\ claimOrder' \in Seq(Keys)
<1> DEFINE c == [signer |-> attempts[k].signer, offering |-> o,
                 tinybars |-> intents[k].tinybars, state |-> state,
                 hash |-> h, verified |-> proof]
<1>1. attempts[k] \in Attempt /\ intents[k] \in Intent
  BY DEF UsableIntent, PayTypeOK, TypeOK
<1>2. attempts[k].signer \in Backers /\ intents[k].tinybars \in Nat
  BY <1>1 DEF Attempt, Intent
<1>3. c \in Claim
  BY <1>2 DEF Claim
<1>4. c /= None
  BY <1>3 DEF PaymentConstants
<1>5. claims' = [claims EXCEPT ![k] = c] /\ claimOrder' = Append(claimOrder, k)
  BY DEF InsertClaim
<1> HIDE DEF c
<1>6. /\ claims' \in [Keys -> Claim \cup {None}]
      /\ \A l \in Keys \ {k} : claims'[l] = claims[l]
      /\ claims'[k] = c
  BY <1>3, <1>5 DEF PayTypeOK
<1>7. claimOrder' \in Seq(Keys)
  BY <1>5 DEF PayTypeOK
<1> QED BY <1>4, <1>6, <1>7 DEF c

LEMMA ResolveType ==
    ASSUME PaymentConstants, PayTypeOK, NEW k \in Keys, NEW outcome \in Outcomes
    PROVE  /\ ResolveBackingPaymentClaim(k, outcome) \in Outcomes
           /\ claims[k] /= None /\ claims[k].state \in Terminal =>
                ResolveBackingPaymentClaim(k, outcome) = claims[k].state
           /\ ~(claims[k] /= None /\ claims[k].state = "CONFIRMED") =>
                (ResolveBackingPaymentClaim(k, outcome) = "CONFIRMED" => outcome = "CONFIRMED")
  BY ClaimFields DEF ResolveBackingPaymentClaim, Outcomes, Terminal, ClaimState

\* Recording an outcome touches one claim, if it touches any, and keeps
\* everything about it but its state and its evidence.
RecordedClaim(k, h, outcome) ==
    /\ Recordable(k, h)
    /\ claims'[k] /= None
    /\ claims'[k].state = ResolveBackingPaymentClaim(k, outcome)
    /\ claims'[k].hash = h
    /\ IF claims[k] /= None
       THEN /\ claims'[k].signer = claims[k].signer
            /\ claims'[k].offering = claims[k].offering
            /\ claims'[k].tinybars = claims[k].tinybars
       ELSE /\ UsableIntent(k) /\ intents[k].offering = LegacyOffering
            /\ claims'[k].signer = attempts[k].signer
            /\ claims'[k].offering = LegacyOffering
            /\ claims'[k].tinybars = intents[k].tinybars

LEMMA RecordEffect ==
    ASSUME IntentConstants, PaymentConstants, TypeOK, PayTypeOK,
           NEW k \in Keys, NEW h \in Hashes, NEW outcome \in Outcomes,
           RecordBackingPayment(k, h, outcome)
    PROVE  /\ claims' \in [Keys -> Claim \cup {None}]
           /\ claimOrder' \in Seq(Keys)
           /\ \A l \in Keys \ {k} : claims'[l] = claims[l]
           /\ ~Recordable(k, h) => claims' = claims
           /\ Recordable(k, h) => RecordedClaim(k, h, outcome)
<1> DEFINE next == ResolveBackingPaymentClaim(k, outcome)
           proof == IF next = "CONFIRMED" THEN h
                    ELSE IF claims[k] = None THEN NoHash ELSE claims[k].verified
<1>1. next \in Outcomes /\ next \in ClaimState
  BY ResolveType DEF ClaimState
<1>0. proof \in Hashes \cup {NoHash}
  BY ClaimFields
<1>2. CASE ~Recordable(k, h)
  BY <1>2 DEF RecordBackingPayment, PayTypeOK
<1>3. CASE Recordable(k, h) /\ claims[k] = None
  <2>1. UsableIntent(k) /\ intents[k].offering = LegacyOffering
    BY <1>3 DEF Recordable, MayRecord, HistoricLegacyRecovery
  <2>2. InsertClaim(k, LegacyOffering, next, h, proof)
    BY <1>3 DEF RecordBackingPayment
  <2> HIDE DEF next, proof
  <2>3. /\ claims' \in [Keys -> Claim \cup {None}]
        /\ \A l \in Keys \ {k} : claims'[l] = claims[l]
        /\ claims'[k] = [signer |-> attempts[k].signer, offering |-> LegacyOffering,
                         tinybars |-> intents[k].tinybars, state |-> next,
                         hash |-> h, verified |-> proof]
        /\ claims'[k] /= None
        /\ claimOrder' \in Seq(Keys)
    BY <1>0, <1>1, <2>1, <2>2, InsertEffect DEF IntentConstants
  <2> QED BY <1>3, <2>1, <2>3 DEF RecordedClaim, next
<1>4. CASE Recordable(k, h) /\ claims[k] /= None
  <2> DEFINE c == [claims[k] EXCEPT !.state = next, !.hash = h, !.verified = proof]
  <2>1. claims' = [claims EXCEPT ![k] = c] /\ UNCHANGED claimOrder
    BY <1>4 DEF RecordBackingPayment
  <2> HIDE DEF next, proof
  <2>2. /\ c \in Claim /\ c.state = next /\ c.hash = h
        /\ c.signer = claims[k].signer /\ c.offering = claims[k].offering
        /\ c.tinybars = claims[k].tinybars
    <3>1. claims[k] \in Claim
      BY <1>4, ClaimFields
    <3>2. c \in Claim
      BY <1>0, <1>1, <3>1 DEF Claim
    <3>3. c.state = next /\ c.hash = h
      BY <3>1 DEF Claim
    <3>4. /\ c.signer = claims[k].signer /\ c.offering = claims[k].offering
          /\ c.tinybars = claims[k].tinybars
      BY <3>1 DEF Claim
    <3> QED BY <3>2, <3>3, <3>4
  <2> HIDE DEF c
  <2>3. c /= None
    BY <2>2 DEF PaymentConstants
  <2>4. /\ claims' \in [Keys -> Claim \cup {None}]
        /\ \A l \in Keys \ {k} : claims'[l] = claims[l]
        /\ claims'[k] = c
    BY <2>1, <2>2 DEF PayTypeOK
  <2> QED BY <1>4, <2>1, <2>2, <2>3, <2>4 DEF RecordedClaim, next, PayTypeOK
<1> QED BY <1>2, <1>3, <1>4

LEMMA DispatchEffect ==
    ASSUME PaymentConstants, PayTypeOK, NEW k \in Keys, BeginBackingPaymentDispatch(k)
    PROVE  /\ claims' \in [Keys -> Claim \cup {None}]
           /\ \A l \in Keys \ {k} : claims'[l] = claims[l] /\ permits'[l] = permits[l]
           /\ claims[k] /= None /\ claims[k].state = "PREPARED"
           /\ claims'[k] /= None /\ claims'[k].state = "OUTCOME_UNKNOWN"
           /\ claims'[k].signer = claims[k].signer
           /\ claims'[k].offering = claims[k].offering
           /\ claims'[k].tinybars = claims[k].tinybars
           /\ claims'[k].hash = claims[k].hash
           /\ permits'[k] = "HELD"
<1> DEFINE c == [claims[k] EXCEPT !.state = "OUTCOME_UNKNOWN"]
<1>1. claims[k] /= None /\ claims[k].state = "PREPARED"
  BY DEF BeginBackingPaymentDispatch, Unspent
<1>2. claims[k] \in Claim
  BY <1>1, ClaimFields
<1>3. c \in Claim
  BY <1>2 DEF Claim, ClaimState, Outcomes
<1>4. /\ c.state = "OUTCOME_UNKNOWN" /\ c.signer = claims[k].signer
      /\ c.offering = claims[k].offering /\ c.tinybars = claims[k].tinybars
      /\ c.hash = claims[k].hash
  BY <1>2 DEF Claim
<1>5. claims' = [claims EXCEPT ![k] = c] /\ permits' = [permits EXCEPT ![k] = "HELD"]
  BY DEF BeginBackingPaymentDispatch
<1> HIDE DEF c
<1>6. c /= None
  BY <1>3 DEF PaymentConstants
<1>7. /\ claims' \in [Keys -> Claim \cup {None}]
      /\ \A l \in Keys \ {k} : claims'[l] = claims[l] /\ permits'[l] = permits[l]
      /\ claims'[k] = c /\ permits'[k] = "HELD"
  BY <1>3, <1>5 DEF PayTypeOK
<1> QED BY <1>1, <1>4, <1>6, <1>7

LEMMA ReserveEffect ==
    ASSUME IntentConstants, PaymentConstants, TypeOK, PayTypeOK,
           NEW k \in Keys, ReserveBackingPayment(k)
    PROVE  /\ claims' \in [Keys -> Claim \cup {None}]
           /\ claimOrder' \in Seq(Keys)
           /\ \A l \in Keys \ {k} : claims'[l] = claims[l]
           /\ claims[k] = None /\ UsableIntent(k)
           /\ claims'[k] = [signer |-> attempts[k].signer,
                            offering |-> intents[k].offering,
                            tinybars |-> intents[k].tinybars, state |-> "PREPARED",
                            hash |-> NoHash, verified |-> NoHash]
           /\ claims'[k] /= None
<1>1. claims[k] = None /\ UsableIntent(k)
  BY DEF ReserveBackingPayment
<1>2. intents[k].offering \in Offerings
  BY <1>1 DEF UsableIntent, TypeOK, Intent
<1>3. InsertClaim(k, intents[k].offering, "PREPARED", NoHash, NoHash)
  BY DEF ReserveBackingPayment
<1>4. "PREPARED" \in ClaimState /\ NoHash \in Hashes \cup {NoHash}
  BY DEF ClaimState
<1> QED BY <1>1, <1>2, <1>3, <1>4, InsertEffect

LEMMA ConfirmEffect ==
    ASSUME NEW k \in Keys, NEW h \in Hashes, ConfirmBackingPayment(k, h)
    PROVE  RecordBackingPayment(k, h, "SUBMITTED") /\ "SUBMITTED" \in Outcomes
  BY DEF ConfirmBackingPayment, Outcomes

LEMMA FinishEffect ==
    ASSUME PaymentConstants, PayTypeOK, NEW v \in Verifiers, FinishJob(v)
    PROVE  /\ jobs[v] /= None
           /\ jobs[v].key \in Keys /\ jobs[v].hash \in Hashes
           /\ jobs[v].outcome \in Outcomes
           /\ RecordBackingPayment(jobs[v].key, jobs[v].hash, jobs[v].outcome)
           /\ jobs' = [jobs EXCEPT ![v] = None]
           /\ UNCHANGED <<vars, attempts, attemptOrder, permits, ledger>>
<1>1. jobs[v] /= None /\ jobs[v].outcome /= "READING"
  BY DEF FinishJob
<1>2. jobs[v] \in Job
  BY <1>1 DEF PayTypeOK
<1> QED BY <1>1, <1>2 DEF FinishJob, Job

\* Only four handlers write claims.
LEMMA ClaimCases ==
    ASSUME [PayNext]_allVars
    PROVE  \/ UNCHANGED <<claims, claimOrder>>
           \/ \E k \in Keys : ReserveBackingPayment(k) \/ BeginBackingPaymentDispatch(k)
           \/ \E k \in Keys, h \in Hashes : ConfirmBackingPayment(k, h)
           \/ \E v \in Verifiers : FinishJob(v)
<1>1. ASSUME UNCHANGED payVars PROVE UNCHANGED <<claims, claimOrder>>
  BY <1>1 DEF payVars
<1>2. ASSUME NEW k \in Keys, NEW a \in Addresses, NEW legacy \in BOOLEAN,
             NEW selfService \in BOOLEAN, AdmitFunding(k, a, legacy, selfService)
      PROVE  UNCHANGED <<claims, claimOrder>>
  BY <1>2 DEF AdmitFunding
<1>3. ASSUME NEW k \in Keys, PermitLost(k) \/ Reverify(k)
      PROVE  UNCHANGED <<claims, claimOrder>>
  BY <1>3 DEF PermitLost, Reverify
<1>4. ASSUME NEW k \in Keys, NEW h \in Hashes, WalletSend(k, h)
      PROVE  UNCHANGED <<claims, claimOrder>>
  BY <1>4 DEF WalletSend
<1>5. ASSUME NEW v \in Verifiers, JobCrash(v) \/ \E outcome \in Outcomes : ReadReceipt(v, outcome)
      PROVE  UNCHANGED <<claims, claimOrder>>
  BY <1>5 DEF JobCrash, ReadReceipt
<1>6. ASSUME NEW h \in Hashes, \/ \E t \in ForeignTransfers : ForeignTransfer(h, t)
                               \/ \E status \in {"SUCCESS", "FAILED"} : Mine(h, status)
      PROVE  UNCHANGED <<claims, claimOrder>>
  BY <1>6 DEF ForeignTransfer, Mine
<1> QED BY <1>1, <1>2, <1>3, <1>4, <1>5, <1>6, PayCases

-----------------------------------------------------------------------------
(* What no step undoes                                                     *)

Advances(k) ==
    /\ claims'[k] /= None
    /\ claims'[k].signer = claims[k].signer
    /\ claims'[k].offering = claims[k].offering
    /\ claims'[k].tinybars = claims[k].tinybars
    /\ claims[k].state \in Terminal => claims'[k].state = claims[k].state
    /\ claims[k].hash /= NoHash => claims'[k].hash = claims[k].hash
    /\ claims'[k].state = "PREPARED" => claims[k].state = "PREPARED"

LEMMA RecordAdvances ==
    ASSUME IntentConstants, PaymentConstants, TypeOK, PayTypeOK,
           NEW l \in Keys, NEW h \in Hashes, NEW outcome \in Outcomes,
           RecordBackingPayment(l, h, outcome),
           NEW k \in Keys, claims[k] /= None
    PROVE  Advances(k)
<1>1. /\ \A j \in Keys \ {l} : claims'[j] = claims[j]
      /\ claims' = claims \/ RecordedClaim(l, h, outcome)
  BY RecordEffect
<1>2. CASE k /= l \/ claims' = claims
  BY <1>1, <1>2 DEF Advances
<1>3. CASE k = l /\ RecordedClaim(l, h, outcome)
  <2>1. claims'[k].state = ResolveBackingPaymentClaim(k, outcome)
    BY <1>3 DEF RecordedClaim
  <2>2. claims'[k].state \in Outcomes
    BY <2>1, ResolveType
  <2>3. claims[k].state \in Terminal => claims'[k].state = claims[k].state
    BY <2>1, ResolveType
  <2>4. claims[k].hash \in {NoHash, h} /\ claims'[k].hash = h
    BY <1>3 DEF RecordedClaim, Recordable, Attachable
  <2>5. claims'[k].state /= "PREPARED"
    BY <2>2 DEF Outcomes
  <2> QED BY <1>3, <2>3, <2>4, <2>5 DEF Advances, RecordedClaim
<1> QED BY <1>1, <1>2, <1>3

LEMMA ClaimKept ==
    ASSUME IntentConstants, PaymentConstants, TypeOK, PayTypeOK, [PayNext]_allVars,
           NEW k \in Keys, claims[k] /= None
    PROVE  Advances(k)
<1>1. ASSUME UNCHANGED claims PROVE Advances(k)
  BY <1>1 DEF Advances
<1>2. ASSUME NEW l \in Keys, ReserveBackingPayment(l) PROVE Advances(k)
  BY <1>2, ReserveEffect DEF Advances
<1>3. ASSUME NEW l \in Keys, BeginBackingPaymentDispatch(l) PROVE Advances(k)
  BY <1>3, DispatchEffect DEF Advances, Terminal
<1>4. ASSUME NEW l \in Keys, NEW h \in Hashes, ConfirmBackingPayment(l, h)
      PROVE  Advances(k)
  BY <1>4, ConfirmEffect, RecordAdvances
<1>5. ASSUME NEW v \in Verifiers, FinishJob(v) PROVE Advances(k)
  BY <1>5, FinishEffect, RecordAdvances
<1> QED BY <1>1, <1>2, <1>3, <1>4, <1>5, ClaimCases

LEMMA AttemptCases ==
    ASSUME [PayNext]_allVars
    PROVE  \/ UNCHANGED <<attempts, attemptOrder>>
           \/ \E k \in Keys, a \in Addresses, legacy, selfService \in BOOLEAN :
                AdmitFunding(k, a, legacy, selfService)
<1>1. Pay => \/ UNCHANGED <<attempts, attemptOrder>>
             \/ \E k \in Keys, a \in Addresses, legacy, selfService \in BOOLEAN :
                  AdmitFunding(k, a, legacy, selfService)
  BY DEF Pay, ReserveBackingPayment, BeginBackingPaymentDispatch, PermitLost,
         WalletSend, ConfirmBackingPayment
<1>2. Verify => UNCHANGED <<attempts, attemptOrder>>
  BY DEF Verify, ReverifyBacker, ReverifyLegacyRiskScan, ReverifyOffering, Reverify,
         FinishJob, JobCrash, ReadReceipt
<1>3. Chain \/ PrepareOrOperate \/ UNCHANGED allVars
        => UNCHANGED <<attempts, attemptOrder>>
  BY DEF Chain, ForeignTransfer, Mine, PrepareOrOperate, payVars, allVars
<1> QED BY <1>1, <1>2, <1>3 DEF PayNext

LEMMA AttemptKept ==
    ASSUME PayTypeOK, [PayNext]_allVars, NEW k \in Keys, attempts[k] /= None
    PROVE  attempts'[k] = attempts[k]
<1>1. ASSUME NEW l \in Keys, NEW a \in Addresses, NEW legacy \in BOOLEAN,
             NEW selfService \in BOOLEAN, AdmitFunding(l, a, legacy, selfService)
      PROVE  attempts'[k] = attempts[k]
  BY <1>1 DEF AdmitFunding, PayTypeOK
<1> QED BY <1>1, AttemptCases

LEMMA JobCases ==
    ASSUME [PayNext]_allVars
    PROVE  \/ UNCHANGED jobs
           \/ \E k \in Keys : claims[k] /= None /\ Reverify(k)
           \/ \E k \in Keys, h \in Hashes : ConfirmBackingPayment(k, h)
           \/ \E v \in Verifiers : \/ FinishJob(v) \/ JobCrash(v)
                                   \/ \E outcome \in Outcomes : ReadReceipt(v, outcome)
<1>1. ASSUME NEW k \in Keys, NEW a \in Addresses, NEW legacy \in BOOLEAN,
             NEW selfService \in BOOLEAN, AdmitFunding(k, a, legacy, selfService)
      PROVE  UNCHANGED jobs
  BY <1>1 DEF AdmitFunding
<1>2. ASSUME NEW k \in Keys, \/ ReserveBackingPayment(k)
                             \/ BeginBackingPaymentDispatch(k) \/ PermitLost(k)
      PROVE  UNCHANGED jobs
  BY <1>2 DEF ReserveBackingPayment, BeginBackingPaymentDispatch, PermitLost
<1>3. ASSUME NEW k \in Keys, NEW h \in Hashes, WalletSend(k, h)
      PROVE  UNCHANGED jobs
  BY <1>3 DEF WalletSend
<1>4. ASSUME NEW h \in Hashes, \/ \E t \in ForeignTransfers : ForeignTransfer(h, t)
                               \/ \E status \in {"SUCCESS", "FAILED"} : Mine(h, status)
      PROVE  UNCHANGED jobs
  BY <1>4 DEF ForeignTransfer, Mine
<1>5. UNCHANGED payVars => UNCHANGED jobs
  BY DEF payVars
<1> QED BY <1>1, <1>2, <1>3, <1>4, <1>5, PayCases

LEMMA IntentKept ==
    ASSUME IntentConstants, TypeOK, [PayNext]_allVars, NEW k \in Keys, intents[k] /= None
    PROVE  intents'[k] = intents[k]
<1>1. CASE PrepareOrOperate
  BY <1>1, IntentsKept DEF PrepareOrOperate
<1>2. CASE UNCHANGED vars
  BY <1>2 DEF vars, intentVars
<1> QED BY <1>1, <1>2, PaySplit

LEMMA LedgerCases ==
    ASSUME [PayNext]_allVars
    PROVE  \/ UNCHANGED ledger
           \/ \E h \in Hashes : \/ \E k \in Keys : WalletSend(k, h)
                                \/ \E t \in ForeignTransfers : ForeignTransfer(h, t)
                                \/ \E status \in {"SUCCESS", "FAILED"} : Mine(h, status)
<1>1. Pay => UNCHANGED ledger \/ \E k \in Keys, h \in Hashes : WalletSend(k, h)
  BY DEF Pay, AdmitFunding, ReserveBackingPayment, BeginBackingPaymentDispatch,
         PermitLost, ConfirmBackingPayment
<1>2. Verify => UNCHANGED ledger
  BY DEF Verify, ReverifyBacker, ReverifyLegacyRiskScan, ReverifyOffering, Reverify,
         FinishJob, JobCrash, ReadReceipt
<1>3. PrepareOrOperate \/ UNCHANGED allVars => UNCHANGED ledger
  BY DEF PrepareOrOperate, payVars, allVars
<1> QED BY <1>1, <1>2, <1>3 DEF PayNext, Chain

LEMMA MineEffect ==
    ASSUME PaymentConstants, PayTypeOK, NEW h \in Hashes,
           NEW status \in {"SUCCESS", "FAILED"}, Mine(h, status)
    PROVE  /\ ledger' \in [Hashes -> Transaction \cup {None}]
           /\ \A g \in Hashes \ {h} : ledger'[g] = ledger[g]
           /\ ledger[h] /= None /\ ledger[h].status = "PENDING"
           /\ ledger'[h] /= None /\ ledger'[h].status = status
           /\ ledger'[h].from = ledger[h].from /\ ledger'[h].to = ledger[h].to
           /\ ledger'[h].tinybars = ledger[h].tinybars
           /\ ledger'[h].origin = ledger[h].origin
<1> DEFINE tx == [ledger[h] EXCEPT !.status = status]
<1>1. ledger[h] /= None /\ ledger[h].status = "PENDING"
  BY DEF Mine
<1>2. ledger[h] \in Transaction
  BY <1>1 DEF PayTypeOK
<1>3. tx \in Transaction
  BY <1>2 DEF Transaction
<1>4. /\ tx.status = status /\ tx.from = ledger[h].from /\ tx.to = ledger[h].to
      /\ tx.tinybars = ledger[h].tinybars /\ tx.origin = ledger[h].origin
  BY <1>2 DEF Transaction
<1>5. ledger' = [ledger EXCEPT ![h] = tx]
  BY DEF Mine
<1> HIDE DEF tx
<1>6. tx /= None
  BY <1>3 DEF PaymentConstants
<1>7. /\ ledger' \in [Hashes -> Transaction \cup {None}]
      /\ \A g \in Hashes \ {h} : ledger'[g] = ledger[g]
      /\ ledger'[h] = tx
  BY <1>3, <1>5 DEF PayTypeOK
<1> QED BY <1>1, <1>4, <1>6, <1>7

LEMMA LedgerKept ==
    ASSUME PaymentConstants, PayTypeOK, [PayNext]_allVars,
           NEW h \in Hashes, ledger[h] /= None
    PROVE  /\ ledger'[h] /= None
           /\ ledger'[h].from = ledger[h].from /\ ledger'[h].to = ledger[h].to
           /\ ledger'[h].tinybars = ledger[h].tinybars
           /\ ledger'[h].origin = ledger[h].origin
           /\ ledger[h].status /= "PENDING" => ledger'[h].status = ledger[h].status
<1>1. ASSUME NEW g \in Hashes, NEW k \in Keys, WalletSend(k, g)
      PROVE  ledger'[h] = ledger[h]
  BY <1>1 DEF WalletSend, PayTypeOK
<1>2. ASSUME NEW g \in Hashes, NEW t \in ForeignTransfers, ForeignTransfer(g, t)
      PROVE  ledger'[h] = ledger[h]
  BY <1>2 DEF ForeignTransfer, PayTypeOK
<1>3. ASSUME NEW g \in Hashes, NEW status \in {"SUCCESS", "FAILED"}, Mine(g, status),
             h /= g
      PROVE  ledger'[h] = ledger[h]
  BY <1>3, MineEffect
<1>4. ASSUME NEW status \in {"SUCCESS", "FAILED"}, Mine(h, status)
      PROVE  /\ ledger'[h] /= None
             /\ ledger'[h].from = ledger[h].from /\ ledger'[h].to = ledger[h].to
             /\ ledger'[h].tinybars = ledger[h].tinybars
             /\ ledger'[h].origin = ledger[h].origin
             /\ ledger[h].status = "PENDING"
  BY <1>4, MineEffect
<1> QED BY <1>1, <1>2, <1>3, <1>4, LedgerCases

\* A settled transfer that pays for an attempt goes on paying for it.
LEMMA PaysKept ==
    ASSUME IntentConstants, PaymentConstants, TypeOK, PayTypeOK, [PayNext]_allVars,
           NEW k \in Keys, NEW h \in Hashes,
           claims[k] /= None, attempts[k] /= None, ledger[h] /= None, Pays(ledger[h], k)
    PROVE  ledger'[h] /= None /\ Pays(ledger[h], k)'
<1>1. Advances(k)
  BY ClaimKept
<1>2. attempts'[k] = attempts[k]
  BY AttemptKept
<1>3. /\ ledger'[h] /= None
      /\ ledger'[h].from = ledger[h].from /\ ledger'[h].to = ledger[h].to
      /\ ledger'[h].tinybars = ledger[h].tinybars
      /\ ledger'[h].status = "SUCCESS"
  BY LedgerKept DEF Pays
<1> QED BY <1>1, <1>2, <1>3 DEF Advances, Pays

-----------------------------------------------------------------------------
(* The inductive invariant                                                 *)

\* Historic rows stand outside the tables of today.
HistoryKept ==
    \A k \in HistoricKeys :
      /\ intents[k] = None
      /\ attempts[k] /= None /\ attempts[k].legacy /\ ~attempts[k].selfService
      /\ claims[k] /= None /\ claims[k].state /= "PREPARED"

\* A claim belongs to an admitted attempt, and repeats what was frozen.
ClaimsOwned ==
    \A k \in Keys : claims[k] /= None =>
      /\ attempts[k] /= None /\ claims[k].signer = attempts[k].signer
      /\ k \notin HistoricKeys =>
           /\ intents[k] /= None
           /\ claims[k].offering = intents[k].offering
           /\ claims[k].tinybars = intents[k].tinybars
      /\ claims[k].offering = Unscoped => attempts[k].legacy
      /\ claims[k].state = "CONFIRMED" => claims[k].hash /= NoHash

\* A self-service attempt is bound to the intent its backer reviewed.
AttemptsBound ==
    \A k \in Keys :
      /\ intents[k] /= None =>
           intents[k].tinybars = intents[k].units * intents[k].terms.price
      /\ attempts[k] /= None /\ attempts[k].selfService =>
           intents[k] /= None /\ attempts[k].target = intents[k].recipient

\* A job holds the hash of its claim, and a verdict that is still true.
JobsGrounded ==
    \A v \in Verifiers : jobs[v] /= None =>
      /\ claims[jobs[v].key] /= None
      /\ claims[jobs[v].key].state /= "PREPARED"
      /\ claims[jobs[v].key].hash = jobs[v].hash
      /\ jobs[v].outcome = "CONFIRMED" =>
           /\ ledger[jobs[v].hash] /= None
           /\ Pays(ledger[jobs[v].hash], jobs[v].key)

\* A permit is given for a claim that has left PREPARED, and is spent by the
\* transaction it sent.
PermitsSpent ==
    \A k \in Keys :
      /\ permits[k] /= "NONE" =>
           claims[k] /= None /\ claims[k].state /= "PREPARED" /\ k \notin HistoricKeys
      /\ \A h \in Hashes :
           ledger[h] /= None /\ ledger[h].origin = k => permits[k] = "SPENT"

PayInv ==
    /\ PayTypeOK
    /\ HistoryKept /\ ClaimsOwned /\ AttemptsBound /\ JobsGrounded /\ PermitsSpent

\* What every step lemma below assumes.
PayStep == TypeOK /\ PayInv /\ [PayNext]_allVars

LEMMA HistoryStep ==
    ASSUME IntentConstants, PaymentConstants, PayStep
    PROVE  HistoryKept'
<1> USE DEF PayStep, PayInv
<1> SUFFICES ASSUME NEW k \in HistoricKeys
             PROVE  /\ intents'[k] = None
                    /\ attempts'[k] = attempts[k]
                    /\ claims'[k] /= None /\ claims'[k].state /= "PREPARED"
  BY DEF HistoryKept
<1>1. /\ k \in Keys /\ attempts[k] /= None /\ intents[k] = None
      /\ claims[k] /= None /\ claims[k].state /= "PREPARED"
  BY DEF HistoryKept, PaymentConstants
<1>2. attempts'[k] = attempts[k]
  BY <1>1, AttemptKept
<1>3. Advances(k)
  BY <1>1, ClaimKept
<1>4. CASE PrepareOrOperate
  BY <1>1, <1>2, <1>3, <1>4 DEF PrepareOrOperate, Advances
<1>5. CASE UNCHANGED vars
  BY <1>1, <1>2, <1>3, <1>5 DEF vars, intentVars, Advances
<1> QED BY <1>4, <1>5, PaySplit

\* A claim is created from the intent of its own attempt.
LEMMA ClaimBorn ==
    ASSUME IntentConstants, PaymentConstants, PayStep,
           NEW k \in Keys, claims[k] = None, claims'[k] /= None
    PROVE  /\ UsableIntent(k)
           /\ claims'[k].signer = attempts[k].signer
           /\ claims'[k].offering = intents[k].offering
           /\ claims'[k].tinybars = intents[k].tinybars
           /\ claims'[k].state \in {"PREPARED", "SUBMITTED"}
<1> USE DEF PayStep, PayInv
<1> DEFINE Born == /\ UsableIntent(k)
                   /\ claims'[k].signer = attempts[k].signer
                   /\ claims'[k].offering = intents[k].offering
                   /\ claims'[k].tinybars = intents[k].tinybars
                   /\ claims'[k].state \in {"PREPARED", "SUBMITTED"}
<1>1. ASSUME NEW l \in Keys, ReserveBackingPayment(l) PROVE Born
  <2>1. l = k
    BY <1>1, ReserveEffect
  <2>2. UsableIntent(k)
    BY <1>1, <2>1, ReserveEffect
  <2>3. claims'[k] = [signer |-> attempts[k].signer, offering |-> intents[k].offering,
                      tinybars |-> intents[k].tinybars, state |-> "PREPARED",
                      hash |-> NoHash, verified |-> NoHash]
    BY <1>1, <2>1, ReserveEffect
  <2> QED BY <2>2, <2>3
<1>2. ASSUME NEW l \in Keys, BeginBackingPaymentDispatch(l) PROVE Born
  BY <1>2, DispatchEffect
<1>3. ASSUME NEW l \in Keys, NEW h \in Hashes, ConfirmBackingPayment(l, h)
      PROVE  Born
  <2>1. l = k /\ RecordedClaim(k, h, "SUBMITTED")
    BY <1>3, ConfirmEffect, RecordEffect
  <2>2. ResolveBackingPaymentClaim(k, "SUBMITTED") = "SUBMITTED"
    BY DEF ResolveBackingPaymentClaim
  <2> QED BY <2>1, <2>2 DEF RecordedClaim
<1>4. ASSUME NEW v \in Verifiers, FinishJob(v) PROVE Born
  <2>1. /\ jobs[v].key \in Keys /\ claims[jobs[v].key] /= None
        /\ jobs[v].hash \in Hashes /\ jobs[v].outcome \in Outcomes
        /\ RecordBackingPayment(jobs[v].key, jobs[v].hash, jobs[v].outcome)
    BY <1>4, FinishEffect DEF JobsGrounded
  <2>2. claims'[k] = claims[k]
    BY <2>1, RecordEffect
  <2> QED BY <2>2
<1> QED BY <1>1, <1>2, <1>3, <1>4, ClaimCases

\* A claim is CONFIRMED by the job that holds its hash, and by nothing else.
LEMMA ClaimConfirmed ==
    ASSUME IntentConstants, PaymentConstants, PayStep,
           NEW k \in Keys, claims'[k] /= None, claims'[k].state = "CONFIRMED"
    PROVE  \/ claims[k] /= None /\ claims[k].state = "CONFIRMED"
           \/ /\ claims[k] /= None
              /\ claims[k].state \in Pending
              /\ claims'[k].hash = claims[k].hash /\ claims[k].hash \in Hashes
              /\ ExclusiveOwners(claims[k].hash) \subseteq {k}
              /\ ledger[claims[k].hash] /= None
              /\ Pays(ledger[claims[k].hash], k)
              /\ UNCHANGED <<attempts, ledger>>
<1> USE DEF PayStep, PayInv
<1> SUFFICES ASSUME ~(claims[k] /= None /\ claims[k].state = "CONFIRMED")
             PROVE  /\ claims[k] /= None
                    /\ claims[k].state \in Pending
                    /\ claims'[k].hash = claims[k].hash /\ claims[k].hash \in Hashes
                    /\ ExclusiveOwners(claims[k].hash) \subseteq {k}
                    /\ ledger[claims[k].hash] /= None
                    /\ Pays(ledger[claims[k].hash], k)
                    /\ UNCHANGED <<attempts, ledger>>
  OBVIOUS
<1>1. claims[k] /= None
  BY ClaimBorn
<1>2. ASSUME NEW l \in Keys, ReserveBackingPayment(l) PROVE FALSE
  BY <1>1, <1>2, ReserveEffect
<1>3. ASSUME NEW l \in Keys, BeginBackingPaymentDispatch(l) PROVE FALSE
  BY <1>1, <1>3, DispatchEffect
<1>4. ASSUME NEW l \in Keys, NEW h \in Hashes, ConfirmBackingPayment(l, h)
      PROVE  FALSE
  <2>1. l = k /\ RecordedClaim(k, h, "SUBMITTED")
    BY <1>1, <1>4, ConfirmEffect, RecordEffect
  <2>2. ResolveBackingPaymentClaim(k, "SUBMITTED") /= "CONFIRMED"
    BY <1>1, <1>4, ConfirmEffect, ResolveType
  <2> QED BY <2>1, <2>2 DEF RecordedClaim
<1>5. PICK v \in Verifiers : FinishJob(v)
  BY <1>1, <1>2, <1>3, <1>4, ClaimCases
<1> DEFINE h == jobs[v].hash
<1>6. /\ jobs[v] /= None /\ jobs[v].key \in Keys /\ h \in Hashes
      /\ jobs[v].outcome \in Outcomes
      /\ RecordBackingPayment(jobs[v].key, h, jobs[v].outcome)
      /\ UNCHANGED <<attempts, ledger>>
  BY <1>5, FinishEffect
<1>7. jobs[v].key = k /\ RecordedClaim(k, h, jobs[v].outcome)
  BY <1>1, <1>6, RecordEffect
<1>8. jobs[v].outcome = "CONFIRMED"
  BY <1>6, <1>7, ResolveType DEF RecordedClaim
<1>9. /\ claims[k].state /= "PREPARED" /\ claims[k].hash = h
      /\ ledger[h] /= None /\ Pays(ledger[h], k)
  BY <1>6, <1>7, <1>8 DEF JobsGrounded
<1>10. claims[k].state \in Pending
  <2>1. claims[k].state \notin Terminal
    BY <1>1, <1>6, <1>7, ResolveType DEF RecordedClaim
  <2> QED BY <1>1, <1>9, <2>1, ClaimFields DEF ClaimState, Outcomes, Terminal, Pending
<1> QED
  BY <1>1, <1>6, <1>7, <1>9, <1>10 DEF RecordedClaim, Recordable

LEMMA ClaimsOwnedStep ==
    ASSUME IntentConstants, PaymentConstants, PayStep
    PROVE  ClaimsOwned'
<1> USE DEF PayStep, PayInv
<1> SUFFICES ASSUME NEW k \in Keys, claims'[k] /= None
             PROVE  /\ attempts'[k] /= None /\ claims'[k].signer = attempts'[k].signer
                    /\ k \notin HistoricKeys =>
                         /\ intents'[k] /= None
                         /\ claims'[k].offering = intents'[k].offering
                         /\ claims'[k].tinybars = intents'[k].tinybars
                    /\ claims'[k].offering = Unscoped => attempts'[k].legacy
                    /\ claims'[k].state = "CONFIRMED" => claims'[k].hash /= NoHash
  BY DEF ClaimsOwned
<1>1. CASE claims[k] = None
  <2>1. UsableIntent(k)
    BY <1>1, ClaimBorn
  <2>2. /\ attempts'[k] = attempts[k] /\ intents'[k] = intents[k]
        /\ attempts[k] /= None /\ intents[k] /= None
    BY <2>1, AttemptKept, IntentKept DEF UsableIntent
  <2>3. intents[k].offering \in Offerings
    BY <2>2 DEF TypeOK, Intent
  <2> QED BY <1>1, <2>2, <2>3, ClaimBorn DEF PaymentConstants
<1>2. CASE claims[k] /= None
  <2>1. Advances(k)
    BY <1>2, ClaimKept
  <2>2. attempts[k] /= None /\ attempts'[k] = attempts[k]
    BY <1>2, AttemptKept DEF ClaimsOwned
  <2>3. k \notin HistoricKeys => intents[k] /= None /\ intents'[k] = intents[k]
    BY <1>2, IntentKept DEF ClaimsOwned
  <2>4. claims'[k].state = "CONFIRMED" => claims'[k].hash /= NoHash
    <3>1. CASE claims[k].state = "CONFIRMED"
      BY <1>2, <2>1, <3>1 DEF ClaimsOwned, Advances
    <3>2. CASE claims[k].state /= "CONFIRMED"
      BY <3>2, ClaimConfirmed DEF PaymentConstants
    <3> QED BY <3>1, <3>2
  <2> QED BY <1>2, <2>1, <2>2, <2>3, <2>4 DEF ClaimsOwned, Advances
<1> QED BY <1>1, <1>2

LEMMA AttemptsBoundStep ==
    ASSUME IntentConstants, PaymentConstants, PayStep
    PROVE  AttemptsBound'
<1> USE DEF PayStep, PayInv
<1>1. ASSUME NEW k \in Keys, intents'[k] /= None
      PROVE  intents'[k].tinybars = intents'[k].units * intents'[k].terms.price
  <2>1. CASE intents[k] /= None
    BY <2>1, IntentKept DEF AttemptsBound
  <2>2. CASE intents[k] = None
    <3>1. [Next]_vars
      <4>1. ~UNCHANGED intents
        BY <1>1, <2>2
      <4> QED BY <4>1, PaySplit DEF vars, intentVars, PrepareOrOperate
    <3>2. PICK j \in Keys, s \in Backers, o \in Offerings, u \in Nat, e \in Nat :
            FreezeBackingIntent(j, s, o, u, e)
      BY <1>1, <2>2, <3>1, StepCases DEF intentVars
    <3>3. intents' = [intents EXCEPT ![j] = FrozenIntent(s, o, u, e)]
      BY <3>2 DEF FreezeBackingIntent
    <3>4. intents'[k] = FrozenIntent(s, o, u, e)
      BY <1>1, <2>2, <3>3 DEF TypeOK
    <3> QED BY <3>4 DEF FrozenIntent
  <2> QED BY <2>1, <2>2
<1>2. ASSUME NEW k \in Keys, attempts'[k] /= None, attempts'[k].selfService
      PROVE  intents'[k] /= None /\ attempts'[k].target = intents'[k].recipient
  <2>1. CASE attempts[k] /= None
    BY <1>2, <2>1, AttemptKept, IntentKept DEF AttemptsBound
  <2>2. CASE attempts[k] = None
    <3>1. PICK j \in Keys, a \in Addresses, legacy \in BOOLEAN,
               selfService \in BOOLEAN : AdmitFunding(j, a, legacy, selfService)
      BY <1>2, <2>2, AttemptCases
    <3>2. /\ intents[j] /= None /\ UNCHANGED intents
          /\ selfService => a = intents[j].recipient
          /\ attempts' = [attempts EXCEPT ![j] =
               [signer |-> intents[j].signer, target |-> a,
                legacy |-> legacy, selfService |-> selfService]]
      BY <3>1 DEF AdmitFunding, SelfServiceBound, vars, intentVars
    <3>3. k = j /\ attempts'[k] = [signer |-> intents[j].signer, target |-> a,
                legacy |-> legacy, selfService |-> selfService]
      BY <1>2, <2>2, <3>2 DEF PayTypeOK
    <3>4. attempts'[k].target = a /\ attempts'[k].selfService = selfService
      BY <3>3
    <3> QED BY <1>2, <3>2, <3>3, <3>4
  <2> QED BY <2>1, <2>2
<1> QED BY <1>1, <1>2 DEF AttemptsBound

LEMMA JobsGroundedStep ==
    ASSUME IntentConstants, PaymentConstants, PayStep
    PROVE  JobsGrounded'
<1> USE DEF PayStep, PayInv
<1> DEFINE Grounded(v) ==
      /\ claims'[jobs'[v].key] /= None
      /\ claims'[jobs'[v].key].state /= "PREPARED"
      /\ claims'[jobs'[v].key].hash = jobs'[v].hash
      /\ jobs'[v].outcome = "CONFIRMED" =>
           /\ ledger'[jobs'[v].hash] /= None
           /\ Pays(ledger[jobs[v].hash], jobs[v].key)'
<1> SUFFICES ASSUME NEW v \in Verifiers, jobs'[v] /= None
             PROVE  Grounded(v)
  BY DEF JobsGrounded
<1>1. CASE jobs'[v] = jobs[v]
  <2>0. PICK k \in Keys, h \in Hashes : k = jobs[v].key /\ h = jobs[v].hash
    BY <1>1 DEF PayTypeOK, Job
  <2>1. claims[k] /= None /\ claims[k].state /= "PREPARED" /\ claims[k].hash = h
    BY <1>1, <2>0 DEF JobsGrounded
  <2>2. Advances(k)
    BY <2>1, ClaimKept
  <2>3. attempts[k] /= None
    BY <2>1 DEF ClaimsOwned
  <2>4. h /= NoHash
    BY <2>1 DEF PaymentConstants
  <2>5. ASSUME jobs[v].outcome = "CONFIRMED"
        PROVE  ledger'[h] /= None /\ Pays(ledger[h], k)'
    <3>1. ledger[h] /= None /\ Pays(ledger[h], k)
      BY <1>1, <2>0, <2>5 DEF JobsGrounded
    <3> QED BY <2>1, <2>3, <3>1, PaysKept
  <2> QED BY <1>1, <2>0, <2>1, <2>2, <2>4, <2>5 DEF Advances, Pays
<1>2. CASE jobs'[v] /= jobs[v]
  <2>1. ASSUME NEW k \in Keys, NEW h \in Hashes, ConfirmBackingPayment(k, h)
        PROVE  Grounded(v)
    <3>1. jobs'[v] = [key |-> k, hash |-> h, outcome |-> "READING"]
      BY <1>2, <2>1 DEF ConfirmBackingPayment, StartJob, PayTypeOK
    <3>2. RecordedClaim(k, h, "SUBMITTED")
      BY <2>1, ConfirmEffect, RecordEffect DEF ConfirmBackingPayment
    <3>3. claims'[k].state \in Outcomes
      BY <2>1, <3>2, ConfirmEffect, ResolveType DEF RecordedClaim
    <3> QED BY <3>1, <3>2, <3>3 DEF RecordedClaim, Outcomes
  <2>2. ASSUME NEW k \in Keys, claims[k] /= None, Reverify(k)
        PROVE  Grounded(v)
    <3>1. jobs'[v] = [key |-> k, hash |-> claims[k].hash, outcome |-> "READING"]
      BY <1>2, <2>2 DEF Reverify, StartJob, PayTypeOK
    <3> QED BY <2>2, <3>1 DEF Reverify, Reverifiable, Pending
  <2>3. ASSUME NEW w \in Verifiers, NEW outcome \in Outcomes, ReadReceipt(w, outcome)
        PROVE  Grounded(v)
    <3>1. /\ v = w /\ jobs[v] /= None
          /\ jobs'[v] = [jobs[v] EXCEPT !.outcome = outcome]
          /\ UNCHANGED <<attempts, claims, ledger>>
      BY <1>2, <2>3 DEF ReadReceipt, PayTypeOK
    <3>2. /\ jobs'[v].key = jobs[v].key /\ jobs'[v].hash = jobs[v].hash
          /\ jobs'[v].outcome = outcome
      BY <3>1 DEF PayTypeOK, Job
    <3>3. ASSUME outcome = "CONFIRMED"
          PROVE  ledger[jobs[v].hash] /= None /\ Pays(ledger[jobs[v].hash], jobs[v].key)
      BY <2>3, <3>1, <3>3 DEF ReadReceipt, Mined, Verdict
    <3>4. Pays(ledger[jobs[v].hash], jobs[v].key)'
            <=> Pays(ledger[jobs[v].hash], jobs[v].key)
      BY <3>1, <3>2 DEF Pays
    <3> QED BY <3>1, <3>2, <3>3, <3>4 DEF JobsGrounded
  <2>4. ASSUME NEW w \in Verifiers, FinishJob(w) \/ JobCrash(w) PROVE Grounded(v)
    BY <1>2, <2>4 DEF FinishJob, JobCrash, PayTypeOK
  <2>5. CASE UNCHANGED jobs
    BY <1>2, <2>5
  <2> QED BY <2>1, <2>2, <2>3, <2>4, <2>5, JobCases
<1> QED BY <1>1, <1>2

LEMMA PermitCases ==
    ASSUME [PayNext]_allVars
    PROVE  \/ UNCHANGED permits
           \/ \E k \in Keys : BeginBackingPaymentDispatch(k) \/ PermitLost(k)
           \/ \E k \in Keys, h \in Hashes : WalletSend(k, h)
<1>1. Pay => \/ UNCHANGED permits
             \/ \E k \in Keys : BeginBackingPaymentDispatch(k) \/ PermitLost(k)
             \/ \E k \in Keys, h \in Hashes : WalletSend(k, h)
  BY DEF Pay, AdmitFunding, ReserveBackingPayment, ConfirmBackingPayment
<1>2. Verify => UNCHANGED permits
  BY DEF Verify, ReverifyBacker, ReverifyLegacyRiskScan, ReverifyOffering, Reverify,
         FinishJob, JobCrash, ReadReceipt
<1>3. Chain \/ PrepareOrOperate \/ UNCHANGED allVars => UNCHANGED permits
  BY DEF Chain, ForeignTransfer, Mine, PrepareOrOperate, payVars, allVars
<1> QED BY <1>1, <1>2, <1>3 DEF PayNext

LEMMA PermitsSpentStep ==
    ASSUME IntentConstants, PaymentConstants, PayStep
    PROVE  PermitsSpent'
<1> USE DEF PayStep, PayInv
<1>1. ASSUME NEW k \in Keys, permits'[k] /= "NONE"
      PROVE  claims'[k] /= None /\ claims'[k].state /= "PREPARED" /\ k \notin HistoricKeys
  <2>1. CASE permits[k] /= "NONE"
    <3>1. claims[k] /= None /\ claims[k].state /= "PREPARED" /\ k \notin HistoricKeys
      BY <2>1 DEF PermitsSpent
    <3> QED BY <3>1, ClaimKept DEF Advances
  <2>2. CASE permits[k] = "NONE"
    <3>1. ASSUME NEW l \in Keys, NEW h \in Hashes, WalletSend(l, h) PROVE FALSE
      BY <1>1, <2>2, <3>1 DEF WalletSend, PayTypeOK
    <3>2. ASSUME NEW l \in Keys, PermitLost(l) PROVE FALSE
      BY <1>1, <2>2, <3>2 DEF PermitLost, PayTypeOK
    <3>3. PICK l \in Keys : BeginBackingPaymentDispatch(l)
      BY <1>1, <2>2, <3>1, <3>2, PermitCases
    <3>4. k = l
      BY <1>1, <2>2, <3>3, DispatchEffect
    <3>5. k \notin HistoricKeys
      BY <3>3, <3>4 DEF BeginBackingPaymentDispatch, UsableIntent, HistoryKept
    <3> QED BY <3>3, <3>4, <3>5, DispatchEffect
  <2> QED BY <2>1, <2>2
<1>2. ASSUME NEW k \in Keys, NEW h \in Hashes, ledger'[h] /= None, ledger'[h].origin = k
      PROVE  permits'[k] = "SPENT"
  <2>1. CASE ledger[h] /= None
    <3>1. permits[k] = "SPENT"
      BY <1>2, <2>1, LedgerKept DEF PermitsSpent
    <3>2. claims[k] /= None /\ claims[k].state /= "PREPARED"
      BY <3>1 DEF PermitsSpent
    <3>3. ASSUME NEW l \in Keys, BeginBackingPaymentDispatch(l)
          PROVE  permits'[k] = permits[k]
      BY <3>2, <3>3, DispatchEffect
    <3>4. ASSUME NEW l \in Keys, PermitLost(l) PROVE permits'[k] = "SPENT"
      BY <3>1, <3>4 DEF PermitLost, PayTypeOK
    <3>5. ASSUME NEW l \in Keys, NEW g \in Hashes, WalletSend(l, g)
          PROVE  permits'[k] = "SPENT"
      BY <3>1, <3>5 DEF WalletSend, PayTypeOK
    <3> QED BY <3>1, <3>3, <3>4, <3>5, PermitCases
  <2>2. CASE ledger[h] = None
    <3>1. ASSUME NEW g \in Hashes, NEW t \in ForeignTransfers, ForeignTransfer(g, t)
          PROVE  FALSE
      <4>1. ledger'[h] = [from |-> t.from, to |-> t.to, tinybars |-> t.tinybars,
                          status |-> "PENDING", origin |-> None]
        BY <1>2, <2>2, <3>1 DEF ForeignTransfer, PayTypeOK
      <4>2. ledger'[h].origin = None
        BY <4>1
      <4> QED BY <1>2, <4>2 DEF PaymentConstants
    <3>2. ASSUME NEW g \in Hashes, NEW status \in {"SUCCESS", "FAILED"}, Mine(g, status)
          PROVE  FALSE
      BY <1>2, <2>2, <3>2, MineEffect
    <3>3. PICK l \in Keys, g \in Hashes : WalletSend(l, g)
      BY <1>2, <2>2, <3>1, <3>2, LedgerCases
    <3>4. ledger'[h] = [from |-> intents[l].signer, to |-> intents[l].recipient,
                        tinybars |-> intents[l].tinybars, status |-> "PENDING",
                        origin |-> l]
      BY <1>2, <2>2, <3>3 DEF WalletSend, PayTypeOK
    <3>5. l = k
      BY <1>2, <3>4
    <3> QED BY <3>3, <3>5 DEF WalletSend, PayTypeOK
  <2> QED BY <2>1, <2>2
<1> QED BY <1>1, <1>2 DEF PermitsSpent

LEMMA PayTypeStep ==
    ASSUME IntentConstants, PaymentConstants, PayStep
    PROVE  PayTypeOK'
<1> USE DEF PayStep, PayInv
<1>1. claims' \in [Keys -> Claim \cup {None}] /\ claimOrder' \in Seq(Keys)
  <2>1. ASSUME NEW k \in Keys, BeginBackingPaymentDispatch(k)
        PROVE  claims' \in [Keys -> Claim \cup {None}] /\ claimOrder' \in Seq(Keys)
    BY <2>1, DispatchEffect DEF BeginBackingPaymentDispatch, PayTypeOK
  <2>2. ASSUME NEW k \in Keys, ReserveBackingPayment(k)
        PROVE  claims' \in [Keys -> Claim \cup {None}] /\ claimOrder' \in Seq(Keys)
    BY <2>2, ReserveEffect
  <2>3. ASSUME NEW k \in Keys, NEW h \in Hashes, ConfirmBackingPayment(k, h)
        PROVE  claims' \in [Keys -> Claim \cup {None}] /\ claimOrder' \in Seq(Keys)
    BY <2>3, ConfirmEffect, RecordEffect
  <2>4. ASSUME NEW v \in Verifiers, FinishJob(v)
        PROVE  claims' \in [Keys -> Claim \cup {None}] /\ claimOrder' \in Seq(Keys)
    BY <2>4, FinishEffect, RecordEffect
  <2> QED BY <2>1, <2>2, <2>3, <2>4, ClaimCases DEF PayTypeOK
<1>2. attempts' \in [Keys -> Attempt \cup {None}] /\ attemptOrder' \in Seq(Keys)
  <2>1. ASSUME NEW k \in Keys, NEW a \in Addresses, NEW legacy \in BOOLEAN,
               NEW selfService \in BOOLEAN, AdmitFunding(k, a, legacy, selfService)
        PROVE  attempts' \in [Keys -> Attempt \cup {None}] /\ attemptOrder' \in Seq(Keys)
    <3> DEFINE row == [signer |-> intents[k].signer, target |-> a,
                       legacy |-> legacy, selfService |-> selfService]
    <3>1. intents[k].signer \in Backers
      BY <2>1 DEF AdmitFunding, TypeOK, Intent
    <3>2. row \in Attempt
      BY <3>1 DEF Attempt
    <3>3. attempts' = [attempts EXCEPT ![k] = row] /\ attemptOrder' = Append(attemptOrder, k)
      BY <2>1 DEF AdmitFunding
    <3> HIDE DEF row
    <3> QED BY <3>2, <3>3 DEF PayTypeOK
  <2> QED BY <2>1, AttemptCases DEF PayTypeOK
<1>3. permits' \in [Keys -> {"NONE", "HELD", "SPENT"}]
  <2>1. ASSUME NEW k \in Keys, \/ BeginBackingPaymentDispatch(k) \/ PermitLost(k)
                               \/ \E h \in Hashes : WalletSend(k, h)
        PROVE  permits' \in [Keys -> {"NONE", "HELD", "SPENT"}]
    BY <2>1 DEF PayTypeOK, BeginBackingPaymentDispatch, PermitLost, WalletSend
  <2> QED BY <2>1, PermitCases DEF PayTypeOK
<1>4. ledger' \in [Hashes -> Transaction \cup {None}]
  <2>1. ASSUME NEW k \in Keys, NEW h \in Hashes, WalletSend(k, h)
        PROVE  ledger' \in [Hashes -> Transaction \cup {None}]
    <3> DEFINE tx == [from |-> intents[k].signer, to |-> intents[k].recipient,
                      tinybars |-> intents[k].tinybars, status |-> "PENDING",
                      origin |-> k]
    <3>1. intents[k] /= None
      BY <2>1 DEF WalletSend, PermitsSpent, ClaimsOwned
    <3>2. /\ intents[k].signer \in Addresses /\ intents[k].recipient \in Addresses
          /\ intents[k].tinybars \in Nat
      BY <3>1 DEF TypeOK, Intent, IntentConstants
    <3>3. tx \in Transaction
      BY <3>2 DEF Transaction
    <3>4. ledger' = [ledger EXCEPT ![h] = tx]
      BY <2>1 DEF WalletSend
    <3> HIDE DEF tx
    <3> QED BY <3>3, <3>4 DEF PayTypeOK
  <2>2. ASSUME NEW h \in Hashes, NEW t \in ForeignTransfers, ForeignTransfer(h, t)
        PROVE  ledger' \in [Hashes -> Transaction \cup {None}]
    <3> DEFINE tx == [from |-> t.from, to |-> t.to, tinybars |-> t.tinybars,
                      status |-> "PENDING", origin |-> None]
    <3>1. t.from \in Addresses /\ t.to \in Addresses /\ t.tinybars \in Nat
      BY DEF PaymentConstants
    <3>2. tx \in Transaction
      BY <3>1 DEF Transaction
    <3>3. ledger' = [ledger EXCEPT ![h] = tx]
      BY <2>2 DEF ForeignTransfer
    <3> HIDE DEF tx
    <3> QED BY <3>2, <3>3 DEF PayTypeOK
  <2>3. ASSUME NEW h \in Hashes, NEW status \in {"SUCCESS", "FAILED"}, Mine(h, status)
        PROVE  ledger' \in [Hashes -> Transaction \cup {None}]
    BY <2>3, MineEffect
  <2> QED BY <2>1, <2>2, <2>3, LedgerCases DEF PayTypeOK
<1>5. jobs' \in [Verifiers -> Job \cup {None}]
  <2>1. ASSUME NEW k \in Keys, NEW h \in Hashes, StartJob(k, h)
        PROVE  jobs' \in [Verifiers -> Job \cup {None}]
    BY <2>1 DEF StartJob, PayTypeOK, Job
  <2>2. ASSUME NEW k \in Keys, claims[k] /= None, Reverify(k)
        PROVE  jobs' \in [Verifiers -> Job \cup {None}]
    <3>1. claims[k].hash \in Hashes /\ StartJob(k, claims[k].hash)
      BY <2>2, ClaimFields DEF Reverify, Reverifiable
    <3> QED BY <2>1, <3>1
  <2>3. ASSUME NEW k \in Keys, NEW h \in Hashes, ConfirmBackingPayment(k, h)
        PROVE  jobs' \in [Verifiers -> Job \cup {None}]
    <3>1. UNCHANGED jobs \/ StartJob(k, h)
      BY <2>3 DEF ConfirmBackingPayment
    <3> QED BY <2>1, <3>1 DEF PayTypeOK
  <2>4. ASSUME NEW v \in Verifiers, FinishJob(v) \/ JobCrash(v)
        PROVE  jobs' \in [Verifiers -> Job \cup {None}]
    BY <2>4 DEF FinishJob, JobCrash, PayTypeOK
  <2>5. ASSUME NEW v \in Verifiers, NEW outcome \in Outcomes, ReadReceipt(v, outcome)
        PROVE  jobs' \in [Verifiers -> Job \cup {None}]
    <3> DEFINE job == [jobs[v] EXCEPT !.outcome = outcome]
    <3>1. job \in Job
      <4>1. jobs[v] \in Job
        BY <2>5 DEF ReadReceipt, PayTypeOK
      <4> QED BY <4>1 DEF Job
    <3>2. jobs' = [jobs EXCEPT ![v] = job]
      BY <2>5 DEF ReadReceipt
    <3> HIDE DEF job
    <3> QED BY <3>1, <3>2 DEF PayTypeOK
  <2> QED BY <2>2, <2>3, <2>4, <2>5, JobCases DEF PayTypeOK
<1> QED BY <1>1, <1>2, <1>3, <1>4, <1>5 DEF PayTypeOK

LEMMA HistoricClaimFields ==
    ASSUME IntentConstants, PaymentConstants, PayInit, NEW k \in Keys, claims[k] /= None
    PROVE  /\ k \in HistoricKeys
           /\ claims[k] \in Claim /\ claims[k].offering = Unscoped
           /\ claims[k].verified = NoHash /\ claims[k].state \in Outcomes
           /\ claims[k].state \in Terminal => claims[k].hash /= NoHash
           /\ claims[k].hash /= NoHash => claims[k].hash \in Hashes
           /\ attempts[k] /= None
           /\ attempts[k].signer = claims[k].signer
           /\ attempts[k].target = RecipientOf[LegacyOffering]
           /\ attempts[k].legacy /\ ~attempts[k].selfService
<1>1. k \in HistoricKeys
  BY DEF PayInit
<1>2. claims[k] \in HistoricClaims
  BY DEF PayInit
<1>3. /\ claims[k] \in Claim /\ claims[k].offering = Unscoped
      /\ claims[k].verified = NoHash /\ claims[k].state \in Outcomes
      /\ claims[k].state \in Terminal => claims[k].hash /= NoHash
  BY <1>2 DEF PaymentConstants
<1>4. claims[k].hash /= NoHash => claims[k].hash \in Hashes
  BY <1>3 DEF Claim
<1>5. attempts[k] = [signer |-> claims[k].signer,
                     target |-> RecipientOf[LegacyOffering],
                     legacy |-> TRUE, selfService |-> FALSE]
  BY <1>1 DEF PayInit
<1>6. attempts[k] \in Attempt
  BY <1>3, <1>5 DEF Attempt, Claim, IntentConstants
<1>7. /\ attempts[k].signer = claims[k].signer
      /\ attempts[k].target = RecipientOf[LegacyOffering]
      /\ attempts[k].legacy /\ ~attempts[k].selfService
  BY <1>5
<1> QED BY <1>1, <1>3, <1>4, <1>6, <1>7 DEF PaymentConstants

\* A hash that a historic claim holds stands for its own transaction.
LEMMA HistoricLedger ==
    ASSUME IntentConstants, PaymentConstants, PayInit,
           NEW h \in Hashes
    PROVE  /\ ledger[h] /= None => ledger[h] \in Transaction /\ ledger[h].origin = None
           /\ \A k \in HistoricKeys : claims[k] /= None /\ claims[k].hash = h =>
                ledger[h] = [from |-> claims[k].signer, to |-> attempts[k].target,
                             tinybars |-> claims[k].tinybars,
                             status |-> HistoricStatus(claims[k].state),
                             origin |-> None]
<1> DEFINE owner == CHOOSE k \in HistoricOwners(h) : TRUE
           row(k) == [from |-> claims[k].signer, to |-> attempts[k].target,
                      tinybars |-> claims[k].tinybars,
                      status |-> HistoricStatus(claims[k].state), origin |-> None]
<1>1. ledger[h] = IF HistoricOwners(h) = {} THEN None ELSE row(owner)
  BY DEF PayInit
<1>2. ASSUME NEW k \in HistoricOwners(h)
      PROVE  k \in HistoricKeys /\ k \in Keys /\ claims[k] /= None /\ claims[k].hash = h
  BY <1>2 DEF HistoricOwners, PayInit, PaymentConstants
<1>3. ASSUME NEW k \in HistoricOwners(h) PROVE k = owner
  <2>1. owner \in HistoricOwners(h)
    OBVIOUS
  <2>2. claims[k].hash = h /\ claims[owner].hash = h /\ h /= NoHash
    BY <1>2, <2>1 DEF PaymentConstants
  <2> QED BY <1>2, <2>1, <2>2 DEF PayInit
<1>4. ASSUME NEW k \in HistoricOwners(h)
      PROVE  row(k) \in Transaction /\ row(k).origin = None
  <2>1. k \in Keys /\ claims[k] /= None
    BY <1>2
  <2>2. /\ claims[k].signer \in Backers /\ claims[k].tinybars \in Nat
        /\ attempts[k].target = RecipientOf[LegacyOffering]
    BY <2>1, HistoricClaimFields DEF Claim
  <2>3. claims[k].signer \in Addresses /\ attempts[k].target \in Addresses
    BY <2>2 DEF IntentConstants
  <2>4. HistoricStatus(claims[k].state) \in {"PENDING", "SUCCESS", "FAILED"}
    BY DEF HistoricStatus
  <2> QED BY <2>2, <2>3, <2>4 DEF Transaction
<1>5. ASSUME NEW k \in HistoricKeys, claims[k] /= None, claims[k].hash = h
      PROVE  ledger[h] = row(k)
  <2>1. k \in HistoricOwners(h)
    BY <1>5 DEF HistoricOwners
  <2> HIDE DEF row, owner
  <2> QED BY <1>1, <1>3, <2>1
<1>6. ASSUME ledger[h] /= None
      PROVE  ledger[h] \in Transaction /\ ledger[h].origin = None
  <2>1. HistoricOwners(h) /= {} /\ owner \in HistoricOwners(h)
    BY <1>1, <1>6
  <2> HIDE DEF row, owner
  <2> QED BY <1>1, <1>4, <2>1
<1> QED BY <1>5, <1>6

LEMMA PayInvInit ==
    ASSUME IntentConstants, PaymentConstants, PayInit
    PROVE  PayInv
<1>1. PayTypeOK
  <2>1. claims \in [Keys -> Claim \cup {None}]
    BY DEF PayInit, PaymentConstants
  <2>2. attempts \in [Keys -> Attempt \cup {None}]
    BY DEF PayInit
  <2>3. claimOrder \in Seq(Keys) /\ attemptOrder \in Seq(Keys)
    <3>1. Cardinality(HistoricKeys) \in Nat
      BY FS_Subset, FS_CardinalityType DEF IntentConstants, PaymentConstants
    <3>2. claimOrder \in [1 .. Cardinality(HistoricKeys) -> Keys]
      BY DEF PayInit, PaymentConstants
    <3>3. attemptOrder = claimOrder
      BY DEF PayInit
    <3> QED BY <3>1, <3>2, <3>3, SeqDef
  <2>4. ledger \in [Hashes -> Transaction \cup {None}]
    <3>1. \A h \in Hashes : ledger[h] \in Transaction \cup {None}
      BY HistoricLedger
    <3>2. ledger = [h \in Hashes |-> ledger[h]]
      BY DEF PayInit
    <3> QED BY <3>1, <3>2
  <2>5. permits \in [Keys -> {"NONE", "HELD", "SPENT"}]
    BY DEF PayInit
  <2>6. jobs \in [Verifiers -> Job \cup {None}]
    BY DEF PayInit
  <2> QED BY <2>1, <2>2, <2>3, <2>4, <2>5, <2>6 DEF PayTypeOK
<1>2. \A k \in Keys : intents[k] = None /\ permits[k] = "NONE"
  BY DEF PayInit, Init
<1>3. HistoryKept
  <2> SUFFICES ASSUME NEW k \in HistoricKeys
               PROVE  /\ intents[k] = None /\ claims[k] /= None /\ attempts[k] /= None
                      /\ attempts[k].legacy /\ ~attempts[k].selfService
                      /\ claims[k].state /= "PREPARED"
    BY DEF HistoryKept
  <2>1. k \in Keys /\ claims[k] /= None
    BY DEF PayInit, PaymentConstants
  <2> QED BY <1>2, <2>1, HistoricClaimFields DEF Outcomes
<1>4. ClaimsOwned
  BY HistoricClaimFields DEF ClaimsOwned, Terminal
<1>5. AttemptsBound
  <2> SUFFICES ASSUME NEW k \in Keys, attempts[k] /= None PROVE ~attempts[k].selfService
    BY <1>2 DEF AttemptsBound
  <2>1. k \in HistoricKeys
    BY DEF PayInit
  <2> QED BY <1>3, <2>1 DEF HistoryKept
<1>6. JobsGrounded
  BY DEF JobsGrounded, PayInit
<1>7. PermitsSpent
  BY <1>2, HistoricLedger DEF PermitsSpent, PaymentConstants
<1> QED BY <1>1, <1>3, <1>4, <1>5, <1>6, <1>7 DEF PayInv

THEOREM PayInvariant == PaySpec => []PayInv
<1>1. PayInit => PayInv
  BY IntentConstants, PaymentConstants, PayInvInit
<1>2. TypeOK /\ PayInv /\ [PayNext]_allVars => PayInv'
  <2> SUFFICES ASSUME PayStep PROVE PayInv'
    BY DEF PayStep
  <2> QED
    BY IntentConstants, PaymentConstants, PayTypeStep, HistoryStep, ClaimsOwnedStep,
       AttemptsBoundStep, JobsGroundedStep, PermitsSpentStep
    DEF PayInv
<1> QED BY <1>1, <1>2, PayTablesTypeCorrect, PTL DEF PaySpec

\* The rows of the payment record stay well formed.
THEOREM PayTypeCorrect == PaySpec => []PayTypeOK
<1>1. PayInv => PayTypeOK
  BY DEF PayInv
<1> QED BY <1>1, PayInvariant, PTL

-----------------------------------------------------------------------------
(* Safety                                                                  *)

LEMMA HashExclusiveInit ==
    ASSUME IntentConstants, PaymentConstants, PayInit
    PROVE  HashExclusive
  BY HistoricClaimFields DEF HashExclusive, PayInit, Terminal

LEMMA HashExclusiveStep ==
    ASSUME IntentConstants, PaymentConstants, PayStep, HashExclusive
    PROVE  HashExclusive'
<1> USE DEF PayStep, PayInv
<1> DEFINE Closed(k) == claims[k] /= None /\ claims[k].state = "CONFIRMED"
<1>1. ASSUME NEW k \in Keys, Closed(k)
      PROVE  claims'[k].hash = claims[k].hash
  BY <1>1, ClaimKept DEF Advances, ClaimsOwned
<1>2. ASSUME NEW k \in Keys, NEW l \in Keys, k /= l, Closed(l), ~Closed(k), Closed(k)'
      PROVE  claims'[k].hash /= claims[l].hash
  <2>1. /\ claims'[k].hash = claims[k].hash
        /\ ExclusiveOwners(claims[k].hash) \subseteq {k}
    BY <1>2, ClaimConfirmed
  <2> QED BY <1>2, <2>1 DEF ExclusiveOwners
<1>3. ASSUME NEW k \in Keys, NEW l \in Keys, k /= l, ~Closed(k), Closed(k)'
      PROVE  Closed(l) \/ ~Closed(l)'
  <2> SUFFICES ASSUME ~Closed(l), Closed(l)' PROVE FALSE
    OBVIOUS
  <2>1. claims'[k] /= claims[k] /\ claims'[l] /= claims[l]
    BY <1>3
  <2>2. ASSUME NEW j \in Keys, \A i \in Keys \ {j} : claims'[i] = claims[i] PROVE FALSE
    BY <1>3, <2>1, <2>2
  <2> QED
    BY <2>1, <2>2, ClaimCases, ReserveEffect, DispatchEffect, ConfirmEffect,
       FinishEffect, RecordEffect
<1> SUFFICES ASSUME NEW k \in Keys, NEW l \in Keys, k /= l, Closed(k)', Closed(l)'
             PROVE  claims'[k].hash /= claims'[l].hash
  BY DEF HashExclusive
<1>4. CASE Closed(k) /\ Closed(l)
  BY <1>1, <1>4 DEF HashExclusive
<1>5. CASE ~Closed(k) /\ Closed(l)
  BY <1>1, <1>2, <1>5
<1>6. CASE Closed(k) /\ ~Closed(l)
  BY <1>1, <1>2, <1>6
<1>7. CASE ~Closed(k) /\ ~Closed(l)
  BY <1>3, <1>7
<1> QED BY <1>4, <1>5, <1>6, <1>7

\* No two CONFIRMED claims ever rest on one transaction, however many jobs
\* race for it.
THEOREM HashExclusiveHolds == PaySpec => []HashExclusive
<1>1. PayInit => HashExclusive
  BY IntentConstants, PaymentConstants, HashExclusiveInit
<1>2. TypeOK /\ PayInv /\ HashExclusive /\ [PayNext]_allVars => HashExclusive'
  BY IntentConstants, PaymentConstants, HashExclusiveStep DEF PayStep
<1> QED BY <1>1, <1>2, PayTablesTypeCorrect, PayInvariant, PTL DEF PaySpec

LEMMA EvidenceInit ==
    ASSUME IntentConstants, PaymentConstants, PayInit
    PROVE  ConfirmedOnEvidence
<1> SUFFICES ASSUME NEW k \in Keys, claims[k] /= None, claims[k].state = "CONFIRMED"
             PROVE  /\ claims[k].hash \in Hashes
                    /\ ledger[claims[k].hash] /= None
                    /\ Pays(ledger[claims[k].hash], k)
                    /\ ~attempts[k].selfService
  BY DEF ConfirmedOnEvidence
<1> DEFINE h == claims[k].hash
<1>1. k \in HistoricKeys /\ h \in Hashes /\ ~attempts[k].selfService
  BY HistoricClaimFields DEF Terminal
<1>2. ledger[h] = [from |-> claims[k].signer, to |-> attempts[k].target,
                   tinybars |-> claims[k].tinybars,
                   status |-> HistoricStatus(claims[k].state), origin |-> None]
  BY <1>1, HistoricLedger
<1>3. Pays(ledger[h], k)
  BY <1>2 DEF Pays, HistoricStatus
<1>4. ledger[h] /= None
  <2>1. ledger \in [Hashes -> Transaction \cup {None}]
    BY PayInvInit DEF PayInv, PayTypeOK
  <2>2. ledger[h] \in Transaction
    <3>1. claims[k].signer \in Addresses /\ attempts[k].target \in Addresses
          /\ claims[k].tinybars \in Nat
      BY HistoricClaimFields DEF Claim, IntentConstants
    <3> QED BY <1>2, <3>1 DEF Transaction, HistoricStatus
  <2> QED BY <2>2 DEF PaymentConstants
<1> QED BY <1>1, <1>3, <1>4

LEMMA EvidenceStep ==
    ASSUME IntentConstants, PaymentConstants, PayStep, ConfirmedOnEvidence
    PROVE  ConfirmedOnEvidence'
<1> USE DEF PayStep, PayInv
<1> SUFFICES ASSUME NEW k \in Keys, claims'[k] /= None, claims'[k].state = "CONFIRMED"
             PROVE  /\ claims'[k].hash \in Hashes
                    /\ ledger'[claims'[k].hash] /= None
                    /\ Pays(ledger[claims[k].hash], k)'
                    /\ attempts'[k].selfService =>
                         /\ ledger'[claims'[k].hash].to = intents'[k].recipient
                         /\ ledger'[claims'[k].hash].tinybars
                              = intents'[k].units * intents'[k].terms.price
  BY DEF ConfirmedOnEvidence
<1>1. PICK h \in Hashes : /\ claims[k] /= None /\ claims[k].hash = h
                          /\ claims'[k].hash = h
                          /\ ledger[h] /= None /\ Pays(ledger[h], k)
  <2>1. CASE claims[k] /= None /\ claims[k].state = "CONFIRMED"
    <3>1. /\ claims[k].hash \in Hashes
          /\ ledger[claims[k].hash] /= None /\ Pays(ledger[claims[k].hash], k)
      BY <2>1 DEF ConfirmedOnEvidence
    <3>2. claims'[k].hash = claims[k].hash
      BY <2>1, <3>1, ClaimKept DEF Advances, PaymentConstants
    <3> QED BY <2>1, <3>1, <3>2
  <2> QED BY <2>1, ClaimConfirmed
<1>2. attempts[k] /= None /\ attempts'[k] = attempts[k]
  BY <1>1, AttemptKept DEF ClaimsOwned
<1>3. ledger'[h] /= None /\ Pays(ledger[h], k)'
  BY <1>1, <1>2, PaysKept
<1>4. ASSUME attempts'[k].selfService
      PROVE  /\ ledger'[h].to = intents'[k].recipient
             /\ ledger'[h].tinybars = intents'[k].units * intents'[k].terms.price
  <2>1. AttemptsBound' /\ ClaimsOwned' /\ HistoryKept'
    BY AttemptsBoundStep, ClaimsOwnedStep, HistoryStep
  <2>2. intents'[k] /= None /\ attempts'[k].target = intents'[k].recipient
        /\ intents'[k].tinybars = intents'[k].units * intents'[k].terms.price
    BY <1>2, <1>4, <2>1 DEF AttemptsBound
  <2>3. k \notin HistoricKeys
    BY <2>1, <2>2 DEF HistoryKept
  <2>4. claims'[k].tinybars = intents'[k].tinybars
    BY <2>1, <2>3 DEF ClaimsOwned
  <2> QED BY <1>3, <2>2, <2>4 DEF Pays
<1> QED BY <1>1, <1>3, <1>4

\* Every CONFIRMED claim rests on a settled transfer of the frozen amount
\* between the right parties, whatever was read late, in part or not at all.
THEOREM ConfirmedOnEvidenceHolds == PaySpec => []ConfirmedOnEvidence
<1>1. PayInit => ConfirmedOnEvidence
  BY IntentConstants, PaymentConstants, EvidenceInit
<1>2. TypeOK /\ PayInv /\ ConfirmedOnEvidence /\ [PayNext]_allVars => ConfirmedOnEvidence'
  BY IntentConstants, PaymentConstants, EvidenceStep DEF PayStep
<1> QED BY <1>1, <1>2, PayTablesTypeCorrect, PayInvariant, PTL DEF PaySpec

LEMMA OneSendStep ==
    ASSUME IntentConstants, PaymentConstants, PayStep, OneSend
    PROVE  OneSend'
<1> USE DEF PayStep, PayInv
<1>1. ASSUME NEW g \in Hashes, NEW h \in Hashes, g /= h,
             ledger'[g] /= None, ledger'[h] /= None, ledger[g] = None,
             ledger'[g].origin /= None
      PROVE  ledger[h] /= None /\ ledger'[g].origin /= ledger'[h].origin
  <2>1. ASSUME NEW f \in Hashes, NEW t \in ForeignTransfers, ForeignTransfer(f, t)
        PROVE  FALSE
    <3>1. ledger'[g] = [from |-> t.from, to |-> t.to, tinybars |-> t.tinybars,
                        status |-> "PENDING", origin |-> None]
      BY <1>1, <2>1 DEF ForeignTransfer, PayTypeOK
    <3>2. ledger'[g].origin = None
      BY <3>1
    <3> QED BY <1>1, <3>2
  <2>2. ASSUME NEW f \in Hashes, NEW status \in {"SUCCESS", "FAILED"}, Mine(f, status)
        PROVE  FALSE
    BY <1>1, <2>2, MineEffect
  <2>3. PICK k \in Keys, f \in Hashes : WalletSend(k, f)
    BY <1>1, <2>1, <2>2, LedgerCases
  <2>4. f = g /\ ledger'[h] = ledger[h] /\ ledger[h] /= None
    BY <1>1, <2>3 DEF WalletSend, PayTypeOK
  <2>5. ledger'[g] = [from |-> intents[k].signer, to |-> intents[k].recipient,
                      tinybars |-> intents[k].tinybars, status |-> "PENDING",
                      origin |-> k]
    BY <2>3, <2>4 DEF WalletSend, PayTypeOK
  <2>6. ledger'[g].origin = k
    BY <2>5
  <2>7. permits[k] = "HELD"
    BY <2>3 DEF WalletSend
  <2>8. ledger[h].origin /= k
    BY <2>4, <2>7 DEF PermitsSpent
  <2> QED BY <2>4, <2>6, <2>8
<1>2. ASSUME NEW g \in Hashes, NEW h \in Hashes, g /= h,
             ledger'[g] /= None, ledger'[h] /= None, ledger'[g].origin /= None
      PROVE  ledger'[g].origin /= ledger'[h].origin
  <2>1. CASE ledger[g] /= None /\ ledger[h] /= None
    BY <1>2, <2>1, LedgerKept DEF OneSend
  <2>2. CASE ledger[g] = None
    BY <1>1, <1>2, <2>2
  <2>3. CASE ledger[h] = None
    BY <1>1, <1>2, <2>3
  <2> QED BY <2>1, <2>2, <2>3
<1> QED BY <1>2 DEF OneSend

\* One attempt sends at most one transaction.
THEOREM OneSendHolds == PaySpec => []OneSend
<1>1. PayInit => OneSend
  BY IntentConstants, PaymentConstants, HistoricLedger DEF OneSend
<1>2. TypeOK /\ PayInv /\ OneSend /\ [PayNext]_allVars => OneSend'
  BY IntentConstants, PaymentConstants, OneSendStep DEF PayStep
<1> QED BY <1>1, <1>2, PayTablesTypeCorrect, PayInvariant, PTL DEF PaySpec

\* The sibling check sees every open claim of the backer on the offering, also
\* those that do not say which offering they are for.
LEMMA NoOpenSibling ==
    ASSUME IntentConstants, PaymentConstants, TypeOK, PayInv,
           NEW k \in Keys, BeginBackingPaymentDispatch(k),
           NEW l \in Keys, l /= k, claims[l] /= None, claims[l].state \in Pending,
           claims[l].signer = claims[k].signer
    PROVE  ScopeOf(l) /= ScopeOf(k)
<1> USE DEF PayInv
<1> DEFINE s == intents[k].signer
           o == intents[k].offering
<1>1. /\ UsableIntent(k) /\ claims[k] /= None
      /\ UnresolvedClaims(s, o) \subseteq {k}
  BY DEF BeginBackingPaymentDispatch, Unspent
<1>2. k \notin HistoricKeys /\ o \in Offerings
  BY <1>1 DEF UsableIntent, HistoryKept, TypeOK, Intent
<1>3. claims[k].signer = s /\ claims[k].offering = o /\ ScopeOf(k) = o
  BY <1>1, <1>2 DEF UsableIntent, ClaimsOwned, ScopeOf, PaymentConstants
<1>4. CASE claims[l].offering /= Unscoped
  <2> SUFFICES ASSUME claims[l].offering = o PROVE FALSE
    BY <1>3, <1>4 DEF ScopeOf
  <2>1. l \in UnresolvedClaims(s, o)
    BY <1>3 DEF UnresolvedClaims
  <2> QED BY <1>1, <2>1
<1>5. CASE claims[l].offering = Unscoped
  <2> SUFFICES ASSUME o = LegacyOffering PROVE FALSE
    BY <1>3, <1>5 DEF ScopeOf
  <2>1. attempts[l].legacy
    BY <1>5 DEF ClaimsOwned
  <2>2. l \in UnscopedClaims(s, claims[l].state)
    BY <1>3, <1>5 DEF UnscopedClaims
  <2>3. l \in UnresolvedClaims(s, o)
    BY <2>1, <2>2 DEF UnresolvedClaims
  <2> QED BY <1>1, <2>3
<1> QED BY <1>4, <1>5

LEMMA OneOpenDispatchStep ==
    ASSUME IntentConstants, PaymentConstants, PayStep, OneOpenDispatch
    PROVE  OneOpenDispatch'
<1> USE DEF PayStep, PayInv
<1> DEFINE Paid(k) == permits[k] /= "NONE" \/ k \in HistoricKeys
           Stays(k) == /\ Paid(k) /\ claims[k] /= None /\ claims[k].state \in Pending
                       /\ claims'[k].signer = claims[k].signer
                       /\ claims'[k].offering = claims[k].offering
\* Only a dispatch adds to the open claims that may have paid.
<1>1. ASSUME NEW k \in Keys, Paid(k)', claims'[k].state \in Pending
      PROVE  BeginBackingPaymentDispatch(k) \/ Stays(k)
  <2>1. CASE Paid(k)
    <3>1. claims[k] /= None /\ claims[k].state /= "PREPARED"
      BY <2>1 DEF PermitsSpent, HistoryKept
    <3>2. Advances(k)
      BY <3>1, ClaimKept
    <3>3. claims[k].state \notin Terminal
      BY <1>1, <3>2 DEF Advances, Terminal, Pending
    <3>4. claims[k].state \in Pending
      BY <3>1, <3>3, ClaimFields DEF ClaimState, Outcomes, Terminal, Pending
    <3> QED BY <2>1, <3>1, <3>2, <3>4 DEF Advances
  <2>2. CASE ~Paid(k)
    <3>1. ASSUME NEW l \in Keys, NEW h \in Hashes, WalletSend(l, h) PROVE FALSE
      BY <1>1, <2>2, <3>1 DEF WalletSend, PayTypeOK
    <3>2. ASSUME NEW l \in Keys, PermitLost(l) PROVE FALSE
      BY <1>1, <2>2, <3>2 DEF PermitLost, PayTypeOK
    <3>3. PICK l \in Keys : BeginBackingPaymentDispatch(l)
      BY <1>1, <2>2, <3>1, <3>2, PermitCases
    <3>4. k = l
      BY <1>1, <2>2, <3>3, DispatchEffect
    <3> QED BY <3>3, <3>4
  <2> QED BY <2>1, <2>2
<1>2. ASSUME NEW k \in Keys, NEW l \in Keys, k /= l,
             BeginBackingPaymentDispatch(k), claims'[l].state \in Pending, Paid(l)',
             claims'[k].signer = claims'[l].signer, ScopeOf(k)' = ScopeOf(l)'
      PROVE  FALSE
  <2>1. claims'[l] = claims[l]
    BY <1>2, DispatchEffect
  <2>2. ~BeginBackingPaymentDispatch(l)
    BY <1>2, <2>1, DispatchEffect DEF Pending
  <2>3. Stays(l)
    BY <1>1, <1>2, <2>2
  <2>4. /\ claims'[k].signer = claims[k].signer
        /\ claims'[k].offering = claims[k].offering
    BY <1>2, DispatchEffect
  <2>5. ScopeOf(k) = ScopeOf(l) /\ claims[l].signer = claims[k].signer
    BY <1>2, <2>1, <2>4 DEF ScopeOf
  <2> QED BY <1>2, <2>3, <2>5, NoOpenSibling
<1> SUFFICES ASSUME NEW k \in Keys, NEW l \in Keys, k /= l, Paid(k)', Paid(l)',
                    claims'[k].signer = claims'[l].signer, ScopeOf(k)' = ScopeOf(l)',
                    claims'[k].state \in Pending, claims'[l].state \in Pending
             PROVE  {k, l} \subseteq HistoricKeys
  BY DEF OneOpenDispatch, Dispatched, PaymentConstants
<1>3. Stays(k) /\ Stays(l)
  BY <1>1, <1>2
<1>4. claims[k].signer = claims[l].signer /\ ScopeOf(k) = ScopeOf(l)
  BY <1>3 DEF ScopeOf
<1> QED BY <1>3, <1>4 DEF OneOpenDispatch, Dispatched

\* A backer is never given a permit while an earlier payment on the same
\* offering is unresolved, whichever release recorded that payment.
THEOREM OneOpenDispatchHolds == PaySpec => []OneOpenDispatch
<1>1. PayInit => OneOpenDispatch
  BY DEF PayInit, OneOpenDispatch, Dispatched
<1>2. TypeOK /\ PayInv /\ OneOpenDispatch /\ [PayNext]_allVars => OneOpenDispatch'
  BY IntentConstants, PaymentConstants, OneOpenDispatchStep DEF PayStep
<1> QED BY <1>1, <1>2, PayTablesTypeCorrect, PayInvariant, PTL DEF PaySpec

\* A claim only advances, whatever late or repeated outcome arrives.
THEOREM ClaimsOnlyAdvanceHolds == PaySpec => ClaimsOnlyAdvance
<1> DEFINE Kept == \A k \in Keys : claims[k] /= None =>
             /\ claims'[k] /= None
             /\ claims[k].state \in Terminal => claims'[k].state = claims[k].state
             /\ claims[k].hash /= NoHash => claims'[k].hash = claims[k].hash
             /\ claims'[k].state = "PREPARED" => claims[k].state = "PREPARED"
<1>1. TypeOK /\ PayInv /\ [PayNext]_allVars => [Kept]_claims
  BY IntentConstants, PaymentConstants, ClaimKept DEF PayInv, Advances
<1>2. ClaimsOnlyAdvance <=> [][Kept]_claims
  BY DEF ClaimsOnlyAdvance
<1> QED BY <1>1, <1>2, PayTablesTypeCorrect, PayInvariant, PTL DEF PaySpec

-----------------------------------------------------------------------------
(* The record implements its promise                                       *)

\* A step that writes claims writes one, and leaves the ledger alone.
LEMMA OneClaim ==
    ASSUME IntentConstants, PaymentConstants, PayStep, ~UNCHANGED claims
    PROVE  /\ UNCHANGED ledger
           /\ \E k \in Keys :
                /\ \A l \in Keys \ {k} : claims'[l] = claims[l]
                /\ claims'[k] /= None
                /\ claims[k] /= None /\ claims[k].state = "PREPARED" =>
                     claims'[k].state \notin Terminal
<1> USE DEF PayStep, PayInv
<1> DEFINE Writes(k) == /\ UNCHANGED ledger
                        /\ \A l \in Keys \ {k} : claims'[l] = claims[l]
                        /\ claims'[k] /= None
                        /\ claims[k] /= None /\ claims[k].state = "PREPARED" =>
                             claims'[k].state \notin Terminal
<1>1. ASSUME NEW k \in Keys, ReserveBackingPayment(k) PROVE Writes(k)
  BY <1>1, ReserveEffect DEF ReserveBackingPayment
<1>2. ASSUME NEW k \in Keys, BeginBackingPaymentDispatch(k) PROVE Writes(k)
  BY <1>2, DispatchEffect DEF BeginBackingPaymentDispatch, Terminal
<1>3. ASSUME NEW k \in Keys, NEW h \in Hashes, ConfirmBackingPayment(k, h)
      PROVE  Writes(k)
  <2>1. /\ \A l \in Keys \ {k} : claims'[l] = claims[l]
        /\ RecordedClaim(k, h, "SUBMITTED")
    BY <1>3, ConfirmEffect, RecordEffect DEF ConfirmBackingPayment
  <2>2. claims[k] /= None /\ claims[k].state = "PREPARED" =>
          ResolveBackingPaymentClaim(k, "SUBMITTED") = "SUBMITTED"
    BY DEF ResolveBackingPaymentClaim
  <2> QED BY <1>3, <2>1, <2>2 DEF RecordedClaim, ConfirmBackingPayment, Terminal
<1>4. ASSUME NEW v \in Verifiers, FinishJob(v) PROVE \E k \in Keys : Writes(k)
  <2>1. PICK k \in Keys, h \in Hashes, outcome \in Outcomes :
          /\ k = jobs[v].key /\ RecordBackingPayment(k, h, outcome)
          /\ UNCHANGED ledger
    BY <1>4, FinishEffect
  <2>2. claims[k] /= None /\ claims[k].state /= "PREPARED"
    BY <1>4, <2>1, FinishEffect DEF JobsGrounded
  <2>3. \A l \in Keys \ {k} : claims'[l] = claims[l]
    BY <2>1, RecordEffect
  <2>4. claims'[k] /= None
    BY <2>2, ClaimKept DEF Advances
  <2> QED BY <2>1, <2>2, <2>3, <2>4
<1> QED BY <1>1, <1>2, <1>3, <1>4, ClaimCases

LEMMA SettledStep ==
    ASSUME IntentConstants, PaymentConstants, PayStep
    PROVE  Settled' = Settled \/ \E h \in Hashes : Settled' = Settled \cup {h}
<1> USE DEF PayStep, PayInv
<1>1. ASSUME UNCHANGED ledger PROVE Settled' = Settled
  BY <1>1 DEF Settled
<1>2. ASSUME NEW h \in Hashes, NEW tx, ledger[h] = None,
             ledger' = [ledger EXCEPT ![h] = tx], tx.status = "PENDING"
      PROVE  Settled' = Settled
  BY <1>2 DEF Settled, PayTypeOK
<1>3. ASSUME NEW k \in Keys, NEW h \in Hashes, WalletSend(k, h)
      PROVE  Settled' = Settled
  <2> DEFINE tx == [from |-> intents[k].signer, to |-> intents[k].recipient,
                    tinybars |-> intents[k].tinybars, status |-> "PENDING",
                    origin |-> k]
  <2>1. ledger[h] = None /\ ledger' = [ledger EXCEPT ![h] = tx] /\ tx.status = "PENDING"
    BY <1>3 DEF WalletSend
  <2> HIDE DEF tx
  <2> QED BY <1>2, <2>1
<1>4. ASSUME NEW h \in Hashes, NEW t \in ForeignTransfers, ForeignTransfer(h, t)
      PROVE  Settled' = Settled
  <2> DEFINE tx == [from |-> t.from, to |-> t.to, tinybars |-> t.tinybars,
                    status |-> "PENDING", origin |-> None]
  <2>1. ledger[h] = None /\ ledger' = [ledger EXCEPT ![h] = tx] /\ tx.status = "PENDING"
    BY <1>4 DEF ForeignTransfer
  <2> HIDE DEF tx
  <2> QED BY <1>2, <2>1
<1>5. ASSUME NEW h \in Hashes, NEW status \in {"SUCCESS", "FAILED"}, Mine(h, status)
      PROVE  Settled' = IF status = "SUCCESS" THEN Settled \cup {h} ELSE Settled
  BY <1>5, MineEffect DEF Settled
<1> QED BY <1>1, <1>3, <1>4, <1>5, LedgerCases

LEMMA PromiseInit ==
    ASSUME IntentConstants, PaymentConstants, PayInit
    PROVE  Promise!Init
<1>1. PayInv /\ ConfirmedOnEvidence /\ HashExclusive
  BY PayInvInit, EvidenceInit, HashExclusiveInit
<1>2. PromisedStatus \in [Keys -> {"NONE", "OPEN", "CONFIRMED", "REJECTED"}]
  BY <1>1, ClaimFields
  DEF PromisedStatus, PayInv, ClaimState, Outcomes, Pending
<1>3. Settled \in SUBSET Hashes
  BY DEF Settled
<1>4. PromisedProof \in [Keys -> Hashes \cup {NoHash}]
  BY <1>1, ClaimFields DEF PromisedProof, PayInv
<1>5. ASSUME NEW k \in Keys
      PROVE  IF PromisedStatus[k] = "CONFIRMED" THEN PromisedProof[k] \in Settled
                                                ELSE PromisedProof[k] = NoHash
  BY <1>1 DEF PromisedStatus, PromisedProof, ConfirmedOnEvidence, Pays, Settled, Pending
<1>6. ASSUME NEW k \in Keys, NEW l \in Keys, k /= l, PromisedProof[k] /= NoHash
      PROVE  PromisedProof[k] /= PromisedProof[l]
  BY <1>1, <1>6 DEF PromisedProof, HashExclusive
<1> QED BY <1>2, <1>3, <1>4, <1>5, <1>6 DEF Promise!Init

\* A table in which one row may have changed.
LEMMA OneRow ==
    ASSUME NEW D, NEW f, NEW g, f = [l \in D |-> f[l]], g = [l \in D |-> g[l]],
           NEW k \in D, \A l \in D \ {k} : g[l] = f[l]
    PROVE  /\ g = [f EXCEPT ![k] = g[k]]
           /\ g[k] = f[k] => g = f
  OBVIOUS

LEMMA PromisedRows ==
    ASSUME NEW k \in Keys, \A l \in Keys \ {k} : claims'[l] = claims[l]
    PROVE  /\ PromisedStatus' = [PromisedStatus EXCEPT ![k] = PromisedStatus'[k]]
           /\ PromisedProof' = [PromisedProof EXCEPT ![k] = PromisedProof'[k]]
           /\ PromisedStatus'[k] = PromisedStatus[k] => PromisedStatus' = PromisedStatus
           /\ PromisedProof'[k] = PromisedProof[k] => PromisedProof' = PromisedProof
<1>1. /\ PromisedStatus = [l \in Keys |-> PromisedStatus[l]]
      /\ PromisedProof = [l \in Keys |-> PromisedProof[l]]
  BY DEF PromisedStatus, PromisedProof
<1>2. /\ PromisedStatus' = [l \in Keys |-> PromisedStatus'[l]]
      /\ PromisedProof' = [l \in Keys |-> PromisedProof'[l]]
  BY DEF PromisedStatus, PromisedProof
<1>3. \A l \in Keys \ {k} : /\ PromisedStatus'[l] = PromisedStatus[l]
                            /\ PromisedProof'[l] = PromisedProof[l]
  BY DEF PromisedStatus, PromisedProof
<1>4. /\ PromisedStatus' = [PromisedStatus EXCEPT ![k] = PromisedStatus'[k]]
      /\ PromisedStatus'[k] = PromisedStatus[k] => PromisedStatus' = PromisedStatus
  <2>1. PICK f, g : f = PromisedStatus /\ g = PromisedStatus'
    OBVIOUS
  <2>2. /\ f = [l \in Keys |-> f[l]] /\ g = [l \in Keys |-> g[l]]
        /\ \A l \in Keys \ {k} : g[l] = f[l]
    BY <1>1, <1>2, <1>3, <2>1
  <2>3. g = [f EXCEPT ![k] = g[k]] /\ (g[k] = f[k] => g = f)
    BY <2>2, OneRow
  <2> QED BY <2>1, <2>3
<1>5. /\ PromisedProof' = [PromisedProof EXCEPT ![k] = PromisedProof'[k]]
      /\ PromisedProof'[k] = PromisedProof[k] => PromisedProof' = PromisedProof
  <2>1. PICK f, g : f = PromisedProof /\ g = PromisedProof'
    OBVIOUS
  <2>2. /\ f = [l \in Keys |-> f[l]] /\ g = [l \in Keys |-> g[l]]
        /\ \A l \in Keys \ {k} : g[l] = f[l]
    BY <1>1, <1>2, <1>3, <2>1
  <2>3. g = [f EXCEPT ![k] = g[k]] /\ (g[k] = f[k] => g = f)
    BY <2>2, OneRow
  <2> QED BY <2>1, <2>3
<1> QED BY <1>4, <1>5

LEMMA PromiseStep ==
    ASSUME IntentConstants, PaymentConstants, PayStep
    PROVE  [Promise!Next]_(Promise!promiseVars)
<1> USE DEF PayStep, PayInv
<1>1. CASE UNCHANGED claims
  <2>1. PromisedStatus' = PromisedStatus /\ PromisedProof' = PromisedProof
    BY <1>1 DEF PromisedStatus, PromisedProof
  <2> QED
    BY <2>1, SettledStep DEF Promise!Next, Promise!Settle, Promise!promiseVars
<1>2. CASE ~UNCHANGED claims
  <2>1. PICK k \in Keys : /\ \A l \in Keys \ {k} : claims'[l] = claims[l]
                          /\ claims'[k] /= None
                          /\ claims[k] /= None /\ claims[k].state = "PREPARED" =>
                               claims'[k].state \notin Terminal
    BY <1>2, OneClaim
  <2>2. Settled' = Settled
    BY <1>2, OneClaim DEF Settled
  <2> DEFINE status == PromisedStatus'[k]
             proof == PromisedProof'[k]
  <2>4. /\ PromisedStatus' = [PromisedStatus EXCEPT ![k] = status]
        /\ PromisedProof' = [PromisedProof EXCEPT ![k] = proof]
        /\ status = PromisedStatus[k] => PromisedStatus' = PromisedStatus
        /\ proof = PromisedProof[k] => PromisedProof' = PromisedProof
    BY <2>1, PromisedRows
  <2>5. claims[k] /= None => Advances(k)
    BY ClaimKept
  <2>6. claims'[k].state \in ClaimState
    BY <2>1, PayTypeStep DEF PayTypeOK, Claim
  <2>7. CASE PromisedStatus[k] = "NONE"
    <3>1. claims[k] = None \/ claims[k].state = "PREPARED"
      BY <2>7, ClaimFields DEF PromisedStatus, Pending, ClaimState, Outcomes
    <3>2. claims'[k].state \notin Terminal
      BY <2>1, <3>1, ClaimBorn DEF Terminal
    <3>3. status \in {"NONE", "OPEN"} /\ proof = NoHash /\ PromisedProof[k] = NoHash
      BY <2>1, <2>6, <3>1, <3>2
      DEF PromisedStatus, PromisedProof, Terminal, Pending, ClaimState, Outcomes
    <3>4. PromisedProof' = PromisedProof
      BY <2>4, <3>3
    <3>5. CASE status = "NONE"
      <4>1. PromisedStatus' = PromisedStatus
        BY <2>4, <2>7, <3>5
      <4> QED BY <2>2, <3>4, <4>1 DEF Promise!promiseVars
    <3>6. CASE status = "OPEN"
      BY <2>2, <2>4, <2>7, <3>4, <3>6 DEF Promise!Next, Promise!Open
    <3> QED BY <3>3, <3>5, <3>6
  <2>8. CASE PromisedStatus[k] = "OPEN"
    <3>1. claims[k] /= None /\ claims[k].state \in Pending
      BY <2>8, ClaimFields DEF PromisedStatus, Pending, ClaimState, Outcomes
    <3>2. claims'[k].state \in Outcomes
      BY <2>5, <2>6, <3>1 DEF Advances, ClaimState, Outcomes, Pending
    <3>3. PromisedProof[k] = NoHash
      BY <3>1 DEF PromisedProof, Pending
    <3>4. CASE claims'[k].state \in Pending
      <4>1. status = "OPEN" /\ proof = NoHash
        BY <2>1, <3>4 DEF PromisedStatus, PromisedProof, Pending
      <4>2. PromisedStatus' = PromisedStatus /\ PromisedProof' = PromisedProof
        BY <2>4, <2>8, <3>3, <4>1
      <4> QED BY <2>2, <4>2 DEF Promise!promiseVars
    <3>5. CASE claims'[k].state = "REJECTED"
      <4>1. status = "REJECTED" /\ proof = NoHash
        BY <2>1, <3>5 DEF PromisedStatus, PromisedProof, Pending
      <4>2. PromisedProof' = PromisedProof
        BY <2>4, <3>3, <4>1
      <4> QED BY <2>2, <2>4, <2>8, <4>1, <4>2 DEF Promise!Next, Promise!Reject
    <3>6. CASE claims'[k].state = "CONFIRMED"
      <4> DEFINE h == claims[k].hash
      <4>1. /\ claims'[k].hash = h /\ h \in Hashes
            /\ ExclusiveOwners(h) \subseteq {k}
            /\ ledger[h] /= None /\ Pays(ledger[h], k)
        BY <2>1, <3>1, <3>6, ClaimConfirmed DEF Pending
      <4>2. status = "CONFIRMED" /\ proof = h
        BY <2>1, <3>6, <4>1 DEF PromisedStatus, PromisedProof, Pending
      <4>3. h \in Settled
        BY <4>1 DEF Settled, Pays
      <4>4. ASSUME NEW l \in Keys PROVE PromisedProof[l] /= h
        <5>1. l /= k => ~(claims[l] /= None /\ claims[l].state = "CONFIRMED" /\ claims[l].hash = h)
          BY <4>1 DEF ExclusiveOwners
        <5> QED BY <3>3, <4>1, <5>1 DEF PromisedProof, PaymentConstants
      <4>5. Promise!Confirm(k, h)
        BY <2>2, <2>4, <2>8, <4>2, <4>3, <4>4 DEF Promise!Confirm
      <4> QED BY <4>1, <4>5 DEF Promise!Next
    <3> QED BY <3>2, <3>4, <3>5, <3>6 DEF Outcomes, Pending
  <2>9. CASE PromisedStatus[k] \in Terminal
    <3>1. claims[k] /= None /\ claims[k].state \in Terminal
      BY <2>9 DEF PromisedStatus, Terminal, Pending
    <3>2. claims'[k].state = claims[k].state
      BY <2>5, <3>1 DEF Advances
    <3>3. claims[k].state = "CONFIRMED" => claims'[k].hash = claims[k].hash
      BY <2>5, <3>1 DEF Advances, ClaimsOwned
    <3>4. status = PromisedStatus[k] /\ proof = PromisedProof[k]
      BY <2>1, <3>1, <3>2, <3>3 DEF PromisedStatus, PromisedProof
    <3>5. PromisedStatus' = PromisedStatus /\ PromisedProof' = PromisedProof
      BY <2>4, <3>4
    <3> QED BY <2>2, <3>5 DEF Promise!promiseVars
  <2>10. PromisedStatus[k] \in {"NONE", "OPEN", "CONFIRMED", "REJECTED"}
    BY ClaimFields DEF PromisedStatus, ClaimState, Outcomes, Pending
  <2> QED BY <2>7, <2>8, <2>9, <2>10 DEF Terminal
<1> QED BY <1>1, <1>2

\* Every history of the record is a history of its promise: an attempt opens
\* before it closes, closes once, and closes as CONFIRMED only by a settled
\* transfer that closes no other.
THEOREM KeepsPromiseHolds == PaySpec => KeepsPromise
<1>1. PayInit => Promise!Init
  BY IntentConstants, PaymentConstants, PromiseInit
<1>2. TypeOK /\ PayInv /\ [PayNext]_allVars => [Promise!Next]_(Promise!promiseVars)
  BY IntentConstants, PaymentConstants, PromiseStep DEF PayStep
<1> QED
  BY <1>1, <1>2, PayTablesTypeCorrect, PayInvariant, PTL
  DEF PaySpec, KeepsPromise, Promise!Spec

-----------------------------------------------------------------------------
(* The backend implements the record that the pages count on               *)

\* Where the scope of an attempt can be read: only a historic attempt has no
\* intent, and its claim does not say which offering it is for.
ScopesKnown ==
    /\ \A k \in Keys \ HistoricKeys : attempts[k] /= None =>
         intents[k] /= None /\ attempts[k].signer = intents[k].signer
    /\ \A k \in HistoricKeys : claims[k].offering = Unscoped

RecordStep == PayStep /\ ScopesKnown

LEMMA ScopesKnownInit ==
    ASSUME IntentConstants, PaymentConstants, PayInit
    PROVE  ScopesKnown
<1>1. \A k \in HistoricKeys : k \in Keys /\ claims[k] /= None
  BY DEF PayInit, PaymentConstants
<1>2. \A k \in Keys \ HistoricKeys : attempts[k] = None
  BY DEF PayInit
<1> QED BY <1>1, <1>2, HistoricClaimFields DEF ScopesKnown

LEMMA ScopesKnownStep ==
    ASSUME IntentConstants, PaymentConstants, RecordStep
    PROVE  ScopesKnown'
<1> USE DEF RecordStep, PayStep, PayInv
<1>0. ASSUME NEW k \in HistoricKeys PROVE claims'[k].offering = Unscoped
  <2>1. k \in Keys /\ claims[k] /= None /\ claims[k].offering = Unscoped
    BY DEF HistoryKept, ScopesKnown, PaymentConstants
  <2> QED BY <2>1, ClaimKept DEF Advances
<1> SUFFICES ASSUME NEW k \in Keys \ HistoricKeys, attempts'[k] /= None
             PROVE  intents'[k] /= None /\ attempts'[k].signer = intents'[k].signer
  BY <1>0 DEF ScopesKnown
<1>1. CASE attempts[k] /= None
  BY <1>1, AttemptKept, IntentKept DEF ScopesKnown
<1>2. CASE attempts[k] = None
  <2>1. PICK j \in Keys, a \in Addresses, legacy \in BOOLEAN, selfService \in BOOLEAN :
          AdmitFunding(j, a, legacy, selfService)
    BY <1>2, AttemptCases
  <2>2. /\ intents[j] /= None /\ UNCHANGED intents
        /\ attempts' = [attempts EXCEPT ![j] =
             [signer |-> intents[j].signer, target |-> a,
              legacy |-> legacy, selfService |-> selfService]]
    BY <2>1 DEF AdmitFunding, vars, intentVars
  <2>3. k = j /\ attempts'[k] = [signer |-> intents[j].signer, target |-> a,
                                 legacy |-> legacy, selfService |-> selfService]
    BY <1>2, <2>2 DEF PayTypeOK
  <2> QED BY <2>2, <2>3
<1> QED BY <1>1, <1>2

\* An admitted attempt stays one of its backer and its offering.
LEMMA ScopeKept ==
    ASSUME IntentConstants, PaymentConstants, RecordStep
    PROVE  /\ \A k \in Keys : attempts[k] /= None => RecordScope'[k] = RecordScope[k]
           /\ UNCHANGED attempts => RecordScope' = RecordScope
<1> USE DEF RecordStep, PayStep, PayInv
<1>1. ASSUME NEW k \in Keys, attempts[k] /= None
      PROVE  /\ attempts'[k] = attempts[k]
             /\ intents'[k] = intents[k]
  <2>1. CASE k \in HistoricKeys
    BY <1>1, <2>1, AttemptKept, HistoryStep DEF HistoryKept
  <2>2. CASE k \notin HistoricKeys
    BY <1>1, <2>2, AttemptKept, IntentKept DEF ScopesKnown
  <2> QED BY <2>1, <2>2
<1>2. \A k \in Keys : attempts[k] /= None => RecordScope'[k] = RecordScope[k]
  BY <1>1 DEF RecordScope
<1>3. ASSUME UNCHANGED attempts PROVE RecordScope' = RecordScope
  BY <1>1, <1>3 DEF RecordScope
<1> QED BY <1>2, <1>3

\* One row of the record may have changed, with the claim it stands for.
LEMMA RecordRows ==
    ASSUME NEW k \in Keys, UNCHANGED attempts,
           \A l \in Keys \ {k} : claims'[l] = claims[l]
    PROVE  /\ RecordStatus' = [RecordStatus EXCEPT ![k] = RecordStatus'[k]]
           /\ RecordedHash' = [RecordedHash EXCEPT ![k] = RecordedHash'[k]]
           /\ RecordStatus'[k] = RecordStatus[k] => RecordStatus' = RecordStatus
           /\ RecordedHash'[k] = RecordedHash[k] => RecordedHash' = RecordedHash
<1>1. /\ RecordStatus = [l \in Keys |-> RecordStatus[l]]
      /\ RecordStatus' = [l \in Keys |-> RecordStatus'[l]]
      /\ \A l \in Keys \ {k} : RecordStatus'[l] = RecordStatus[l]
  BY DEF RecordStatus
<1>2. /\ RecordedHash = [l \in Keys |-> RecordedHash[l]]
      /\ RecordedHash' = [l \in Keys |-> RecordedHash'[l]]
      /\ \A l \in Keys \ {k} : RecordedHash'[l] = RecordedHash[l]
  BY DEF RecordedHash
<1>3. /\ RecordStatus' = [RecordStatus EXCEPT ![k] = RecordStatus'[k]]
      /\ RecordStatus'[k] = RecordStatus[k] => RecordStatus' = RecordStatus
  <2>1. PICK f, g : f = RecordStatus /\ g = RecordStatus'
    OBVIOUS
  <2>2. g = [f EXCEPT ![k] = g[k]] /\ (g[k] = f[k] => g = f)
    <3>1. /\ f = [l \in Keys |-> f[l]] /\ g = [l \in Keys |-> g[l]]
          /\ \A l \in Keys \ {k} : g[l] = f[l]
      BY <1>1, <2>1
    <3> QED BY <3>1, OneRow
  <2> QED BY <2>1, <2>2
<1>4. /\ RecordedHash' = [RecordedHash EXCEPT ![k] = RecordedHash'[k]]
      /\ RecordedHash'[k] = RecordedHash[k] => RecordedHash' = RecordedHash
  <2>1. PICK f, g : f = RecordedHash /\ g = RecordedHash'
    OBVIOUS
  <2>2. g = [f EXCEPT ![k] = g[k]] /\ (g[k] = f[k] => g = f)
    <3>1. /\ f = [l \in Keys |-> f[l]] /\ g = [l \in Keys |-> g[l]]
          /\ \A l \in Keys \ {k} : g[l] = f[l]
      BY <1>2, <2>1
    <3> QED BY <3>1, OneRow
  <2> QED BY <2>1, <2>2
<1> QED BY <1>3, <1>4

\* The sibling check of a dispatch covers every attempt of the same scope, of
\* whatever release.
LEMMA NoSiblingInScope ==
    ASSUME IntentConstants, PaymentConstants, TypeOK, PayInv, ScopesKnown,
           NEW k \in Keys, BeginBackingPaymentDispatch(k)
    PROVE  Server!Siblings(k) = {}
<1> USE DEF PayInv
<1> DEFINE s == intents[k].signer
           o == intents[k].offering
<1> SUFFICES ASSUME NEW l \in Keys, l /= k, RecordScope[l] = RecordScope[k],
                    RecordStatus[l] \in Server!Unresolved
             PROVE  FALSE
  BY DEF Server!Siblings
<1>1. /\ UsableIntent(k) /\ UnresolvedClaims(s, o) \subseteq {k}
  BY DEF BeginBackingPaymentDispatch
<1>2. RecordScope[k] = <<s, o>>
  BY <1>1 DEF RecordScope, UsableIntent
<1>3. attempts[l] /= None /\ claims[l] /= None /\ claims[l].state \in Pending
  BY DEF RecordStatus, Server!Unresolved, Pending
<1>4. /\ attempts[l].signer = s /\ claims[l].signer = s
      /\ IF intents[l] = None THEN LegacyOffering = o ELSE intents[l].offering = o
  BY <1>2, <1>3 DEF RecordScope, ClaimsOwned
<1>5. CASE l \notin HistoricKeys
  <2>1. claims[l].offering = o
    BY <1>3, <1>4, <1>5 DEF ClaimsOwned
  <2>2. l \in UnresolvedClaims(s, o)
    BY <1>3, <1>4, <2>1 DEF UnresolvedClaims
  <2> QED BY <1>1, <2>2
<1>6. CASE l \in HistoricKeys
  <2>1. o = LegacyOffering /\ attempts[l].legacy
    BY <1>4, <1>6 DEF HistoryKept
  <2>2. l \in UnscopedClaims(s, claims[l].state)
    BY <1>3, <1>4, <1>6 DEF UnscopedClaims, ScopesKnown
  <2>3. l \in UnresolvedClaims(s, o)
    BY <1>3, <2>1, <2>2 DEF UnresolvedClaims
  <2> QED BY <1>1, <2>3
<1> QED BY <1>5, <1>6

\* A claim that a job may close has a hash, and leaves no other state.
LEMMA FinishResolves ==
    ASSUME IntentConstants, PaymentConstants, RecordStep, NEW v \in Verifiers, FinishJob(v)
    PROVE  [Server!RecordNext]_(Server!recordVars)
<1> USE DEF RecordStep, PayStep, PayInv
<1> DEFINE k == jobs[v].key
           h == jobs[v].hash
           outcome == jobs[v].outcome
<1>1. /\ k \in Keys /\ h \in Hashes /\ outcome \in Outcomes
      /\ RecordBackingPayment(k, h, outcome)
      /\ UNCHANGED attempts
      /\ claims[k] /= None /\ claims[k].state /= "PREPARED" /\ claims[k].hash = h
  BY FinishEffect DEF JobsGrounded
<1> HIDE DEF k, h, outcome
<1>2. /\ \A l \in Keys \ {k} : claims'[l] = claims[l]
      /\ claims' = claims \/ RecordedClaim(k, h, outcome)
  BY <1>1, RecordEffect
<1>3. RecordScope' = RecordScope
  BY <1>1, ScopeKept
<1>4. attempts[k] /= None /\ claims[k].state \in Outcomes /\ h /= NoHash
  BY <1>1, ClaimFields DEF ClaimsOwned, ClaimState, PaymentConstants
<1>5. CASE claims' = claims
  BY <1>1, <1>3, <1>5 DEF RecordStatus, RecordedHash, Server!recordVars
<1>6. CASE RecordedClaim(k, h, outcome)
  <2>1. RecordedHash' = RecordedHash
    <3>1. RecordedHash'[k] = RecordedHash[k]
      BY <1>1, <1>6 DEF RecordedClaim, RecordedHash
    <3> QED BY <1>1, <1>2, <3>1, RecordRows
  <2>2. /\ RecordStatus[k] = claims[k].state
        /\ RecordStatus'[k] = ResolveBackingPaymentClaim(k, outcome)
    BY <1>1, <1>4, <1>6 DEF RecordedClaim, RecordStatus
  <2>3. CASE RecordStatus'[k] = RecordStatus[k]
    BY <1>1, <1>2, <1>3, <2>1, <2>3, RecordRows DEF Server!recordVars
  <2>4. CASE RecordStatus'[k] /= RecordStatus[k]
    <3>1. /\ RecordStatus[k] \in Server!Unresolved
          /\ outcome \in Server!Verdicts /\ RecordStatus'[k] = outcome
      BY <1>1, <1>4, <2>2, <2>4
         DEF ResolveBackingPaymentClaim, Outcomes, Terminal, Server!Unresolved,
             Server!Verdicts, Server!Terminal
    <3>2. RecordedHash[k] /= NoHash
      BY <1>1, <1>4 DEF RecordedHash
    <3>3. Server!Resolve(k, outcome)
      BY <1>1, <1>2, <1>3, <2>1, <3>1, <3>2, RecordRows DEF Server!Resolve
    <3> QED BY <1>1, <3>1, <3>3 DEF Server!RecordNext
  <2> QED BY <2>3, <2>4
<1> QED BY <1>2, <1>5, <1>6

LEMMA ConfirmRecords ==
    ASSUME IntentConstants, PaymentConstants, RecordStep,
           NEW k \in Keys, NEW h \in Hashes, ConfirmBackingPayment(k, h)
    PROVE  Server!Record(k, h)
<1> USE DEF RecordStep, PayStep, PayInv
<1>1. /\ attempts[k] /= None /\ UNCHANGED attempts
      /\ Recordable(k, h) /\ h /= NoHash
  BY DEF ConfirmBackingPayment, PaymentConstants
<1>2. /\ \A l \in Keys \ {k} : claims'[l] = claims[l]
      /\ RecordedClaim(k, h, "SUBMITTED")
  BY <1>1, ConfirmEffect, RecordEffect
<1>3. RecordScope' = RecordScope
  BY <1>1, ScopeKept
<1>4. Server!Recordable(k, h)
  <2>1. RecordedHash[k] \in {NoHash, h}
    BY <1>1 DEF Recordable, Attachable, RecordedHash
  <2>2. RecordStatus[k] /= "NONE"
    BY <1>1, ClaimFields DEF RecordStatus, ClaimState, Outcomes
  <2> QED BY <2>1, <2>2 DEF Server!Recordable
<1>5. RecordedHash' = [RecordedHash EXCEPT ![k] = h]
  <2>1. RecordedHash'[k] = h
    BY <1>2 DEF RecordedClaim, RecordedHash
  <2> QED BY <1>1, <1>2, <2>1, RecordRows
<1>6. RecordStatus' = IF RecordStatus[k] \in {"ADMITTED", "PREPARED"}
                      THEN [RecordStatus EXCEPT ![k] = "SUBMITTED"] ELSE RecordStatus
  <2>1. RecordStatus'[k] = ResolveBackingPaymentClaim(k, "SUBMITTED")
    BY <1>1, <1>2 DEF RecordedClaim, RecordStatus
  <2>2. RecordStatus[k] \in {"ADMITTED", "PREPARED"} => RecordStatus'[k] = "SUBMITTED"
    BY <1>1, <2>1, ClaimFields
       DEF ResolveBackingPaymentClaim, RecordStatus, ClaimState, Outcomes
  <2>3. RecordStatus[k] \notin {"ADMITTED", "PREPARED"} => RecordStatus'[k] = RecordStatus[k]
    BY <1>1, <2>1, ClaimFields
       DEF ResolveBackingPaymentClaim, RecordStatus, ClaimState, Outcomes, Terminal
  <2> QED BY <1>1, <1>2, <2>2, <2>3, RecordRows
<1> QED BY <1>3, <1>4, <1>5, <1>6 DEF Server!Record

LEMMA ReserveRecords ==
    ASSUME IntentConstants, PaymentConstants, RecordStep,
           NEW k \in Keys, ReserveBackingPayment(k)
    PROVE  Server!Reserve(k)
<1> USE DEF RecordStep, PayStep, PayInv
<1>1. /\ claims[k] = None /\ claims'[k] /= None /\ UsableIntent(k) /\ UNCHANGED attempts
      /\ claims'[k].state = "PREPARED" /\ claims'[k].hash = NoHash
      /\ \A l \in Keys \ {k} : claims'[l] = claims[l]
  <2>1. claims'[k] = [signer |-> attempts[k].signer, offering |-> intents[k].offering,
                      tinybars |-> intents[k].tinybars, state |-> "PREPARED",
                      hash |-> NoHash, verified |-> NoHash]
    BY ReserveEffect
  <2>2. claims'[k].state = "PREPARED" /\ claims'[k].hash = NoHash
    BY <2>1
  <2>3. UNCHANGED attempts
    BY DEF ReserveBackingPayment
  <2> QED BY <2>2, <2>3, ReserveEffect
<1>2. RecordScope' = RecordScope
  BY <1>1, ScopeKept
<1>3. RecordStatus[k] = "ADMITTED" /\ RecordStatus'[k] = "PREPARED"
  BY <1>1 DEF RecordStatus, UsableIntent
<1>4. RecordedHash'[k] = RecordedHash[k]
  BY <1>1 DEF RecordedHash
<1> QED BY <1>1, <1>2, <1>3, <1>4, RecordRows DEF Server!Reserve

LEMMA DispatchRecords ==
    ASSUME IntentConstants, PaymentConstants, RecordStep,
           NEW k \in Keys, BeginBackingPaymentDispatch(k)
    PROVE  Server!BeginDispatch(k)
<1> USE DEF RecordStep, PayStep, PayInv
<1>1. /\ claims[k] /= None /\ claims[k].state = "PREPARED"
      /\ claims'[k] /= None /\ claims'[k].state = "OUTCOME_UNKNOWN"
      /\ claims'[k].hash = claims[k].hash
      /\ UNCHANGED attempts /\ attempts[k] /= None
      /\ \A l \in Keys \ {k} : claims'[l] = claims[l]
  BY DispatchEffect DEF BeginBackingPaymentDispatch, UsableIntent
<1>2. RecordScope' = RecordScope
  BY <1>1, ScopeKept
<1>3. RecordStatus[k] = "PREPARED" /\ RecordStatus'[k] = "OUTCOME_UNKNOWN"
  BY <1>1 DEF RecordStatus
<1>4. RecordedHash'[k] = RecordedHash[k]
  BY <1>1 DEF RecordedHash
<1>5. Server!Siblings(k) = {}
  BY NoSiblingInScope
<1> QED BY <1>1, <1>2, <1>3, <1>4, <1>5, RecordRows DEF Server!BeginDispatch

LEMMA AdmitRecords ==
    ASSUME IntentConstants, PaymentConstants, RecordStep,
           NEW k \in Keys, NEW a \in Addresses, NEW legacy \in BOOLEAN,
           NEW selfService \in BOOLEAN, AdmitFunding(k, a, legacy, selfService)
    PROVE  Server!Admit(k)
<1> USE DEF RecordStep, PayStep, PayInv
<1> DEFINE attempt == [signer |-> intents[k].signer, target |-> a,
                       legacy |-> legacy, selfService |-> selfService]
<1>1. /\ attempts[k] = None /\ attempts' = [attempts EXCEPT ![k] = attempt]
      /\ UNCHANGED claims /\ UNCHANGED intents /\ intents[k] /= None
  BY DEF AdmitFunding, vars, intentVars
<1>2. attempt \in Attempt /\ attempt /= None
  <2>1. intents[k].signer \in Backers
    BY <1>1 DEF TypeOK, Intent
  <2>2. attempt \in Attempt
    BY <2>1 DEF Attempt
  <2> QED BY <2>2 DEF PaymentConstants
<1> HIDE DEF attempt
<1>3. attempts'[k] /= None /\ \A l \in Keys \ {k} : attempts'[l] = attempts[l]
  BY <1>1, <1>2 DEF PayTypeOK
<1>4. claims[k] = None
  BY <1>1 DEF ClaimsOwned
<1>5. RecordedHash' = RecordedHash
  BY <1>1 DEF RecordedHash
<1>6. RecordStatus[k] = "NONE" /\ RecordStatus'[k] = "ADMITTED"
  BY <1>1, <1>3, <1>4 DEF RecordStatus
<1>7. \A l \in Keys \ {k} : /\ RecordStatus'[l] = RecordStatus[l]
                            /\ RecordScope'[l] = RecordScope[l]
  BY <1>1, <1>3 DEF RecordStatus, RecordScope
<1>8. RecordStatus' = [RecordStatus EXCEPT ![k] = "ADMITTED"]
  <2>1. RecordStatus' = [l \in Keys |-> RecordStatus'[l]]
    BY DEF RecordStatus
  <2>2. RecordStatus = [l \in Keys |-> RecordStatus[l]]
    BY DEF RecordStatus
  <2>3. PICK f, g : f = RecordStatus /\ g = RecordStatus'
    OBVIOUS
  <2>4. g = [f EXCEPT ![k] = "ADMITTED"]
    <3>1. /\ f = [l \in Keys |-> f[l]] /\ g = [l \in Keys |-> g[l]]
          /\ \A l \in Keys \ {k} : g[l] = f[l]
          /\ g[k] = "ADMITTED"
      BY <1>6, <1>7, <2>1, <2>2, <2>3
    <3> QED BY <3>1, OneRow
  <2> QED BY <2>3, <2>4
<1> QED BY <1>5, <1>6, <1>7, <1>8 DEF Server!Admit

LEMMA RecordStarts ==
    ASSUME IntentConstants, PaymentConstants, PayInit
    PROVE  Server!RecordInit
<1>1. PayTypeOK
  BY PayInvInit DEF PayInv
<1>2. RecordStatus \in [Keys -> {"NONE", "ADMITTED", "PREPARED"} \cup Server!Unresolved
                                   \cup Server!Terminal]
  BY <1>1, ClaimFields
     DEF RecordStatus, ClaimState, Outcomes, Server!Unresolved, Server!Terminal
<1>3. RecordedHash \in [Keys -> Hashes \cup {NoHash}]
  BY <1>1, ClaimFields DEF RecordedHash
<1>4. ASSUME NEW k \in Keys
      PROVE  /\ RecordStatus[k] \in {"NONE", "ADMITTED", "PREPARED"} => RecordedHash[k] = NoHash
             /\ RecordStatus[k] \in Server!Terminal => RecordedHash[k] /= NoHash
  <2>1. CASE claims[k] = None
    BY <2>1 DEF RecordStatus, RecordedHash, Server!Terminal
  <2>2. CASE claims[k] /= None
    <3>1. /\ RecordStatus[k] = claims[k].state /\ claims[k].state \in Outcomes
          /\ RecordedHash[k] = claims[k].hash
          /\ claims[k].state \in Terminal => claims[k].hash /= NoHash
      BY <2>2, HistoricClaimFields DEF RecordStatus, RecordedHash
    <3> QED BY <3>1 DEF Outcomes, Terminal, Server!Terminal
  <2> QED BY <2>1, <2>2
<1> QED BY <1>2, <1>3, <1>4 DEF Server!RecordInit

LEMMA RecordStepKept ==
    ASSUME IntentConstants, PaymentConstants, RecordStep
    PROVE  [Server!RecordNext]_(Server!recordVars)
<1> USE DEF RecordStep, PayStep
<1>1. CASE UNCHANGED attempts /\ UNCHANGED claims
  <2>1. RecordStatus' = RecordStatus /\ RecordedHash' = RecordedHash
    BY <1>1 DEF RecordStatus, RecordedHash
  <2> QED BY <1>1, <2>1, ScopeKept DEF Server!recordVars
<1>2. CASE ~UNCHANGED attempts
  BY <1>2, AttemptCases, AdmitRecords DEF Server!RecordNext
<1>3. CASE ~UNCHANGED claims
  <2>1. ASSUME NEW k \in Keys, ReserveBackingPayment(k) PROVE Server!RecordNext
    BY <2>1, ReserveRecords DEF Server!RecordNext
  <2>2. ASSUME NEW k \in Keys, BeginBackingPaymentDispatch(k) PROVE Server!RecordNext
    BY <2>2, DispatchRecords DEF Server!RecordNext
  <2>3. ASSUME NEW k \in Keys, NEW h \in Hashes, ConfirmBackingPayment(k, h)
        PROVE  Server!RecordNext
    BY <2>3, ConfirmRecords DEF Server!RecordNext
  <2> QED BY <1>3, <2>1, <2>2, <2>3, FinishResolves, ClaimCases
<1> QED BY <1>1, <1>2, <1>3

\* What the pages are modelled against is what the backend does: an attempt is
\* dispatched once, from a reservation, and never beside an unresolved one of
\* the same backer and offering; a hash is attached for ever, and only an
\* attempt with a hash is closed.
THEOREM KeepsRecordHolds == PaySpec => KeepsRecord
<1>1. PayInit => Server!RecordInit /\ ScopesKnown
  BY IntentConstants, PaymentConstants, RecordStarts, ScopesKnownInit
<1>2. TypeOK /\ PayInv /\ ScopesKnown /\ [PayNext]_allVars
        => ScopesKnown' /\ [Server!RecordNext]_(Server!recordVars)
  BY IntentConstants, PaymentConstants, ScopesKnownStep, RecordStepKept
  DEF RecordStep, PayStep
<1> QED
  BY <1>1, <1>2, PayTablesTypeCorrect, PayInvariant, PTL
  DEF PaySpec, KeepsRecord, Server!RecordSpec
=============================================================================
