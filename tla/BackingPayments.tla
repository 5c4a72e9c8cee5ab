-------------------------- MODULE BackingPayments --------------------------
(***************************************************************************)
(* A backing payment from the admitted command to its terminal claim.      *)
(*                                                                         *)
(* The server never sends money. It reserves a claim for an admitted       *)
(* attempt, hands out one permit to send, records the transaction hash the *)
(* browser attaches, and resolves the claim from what the public ledger    *)
(* says. Verification is an action, not a mutation: a job reads the ledger *)
(* outside any transaction and records what it saw later, while other jobs *)
(* and requests go on.                                                     *)
(*                                                                         *)
(* An attempt, its intent and its claim share the idempotency key. Rows    *)
(* read by a job and immutable afterwards (the attempt's target, the       *)
(* claim's amount) are not copied into the job.                            *)
(***************************************************************************)
EXTENDS BackingIntents, Sequences

CONSTANTS
    Hashes,           \* canonical EVM transaction hashes
    NoHash,           \* a claim that has no hash yet
    Unscoped,         \* offering of a claim written before offerings had claims
    HistoricKeys,     \* attempts and claims that predate backingIntents
    HistoricClaims,   \* what those claims may hold
    ForeignTransfers, \* transfers on the ledger that no dispatch asked for
    LegacyScanLimit,  \* legacyRiskScanClaimLimit (128 in the code)
    LegacyReadLimit,  \* newest legacy attempts a payment page reads (100)
    Verifiers         \* bound: verification actions in flight at once

Outcomes == {"SUBMITTED", "OUTCOME_UNKNOWN", "CONFIRMED", "REJECTED"}
Terminal == {"CONFIRMED", "REJECTED"}
Pending == {"SUBMITTED", "OUTCOME_UNKNOWN"}
ClaimState == {"PREPARED"} \cup Outcomes

Attempt == [signer : Backers, target : Addresses, legacy : BOOLEAN,
            selfService : BOOLEAN]
Claim == [signer : Backers, offering : Offerings \cup {Unscoped}, tinybars : Nat,
          state : ClaimState, hash : Hashes \cup {NoHash},
          verified : Hashes \cup {NoHash}]
\* origin is history only: the attempt whose permit sent the transaction.
Transaction == [from : Addresses, to : Addresses, tinybars : Nat,
                status : {"PENDING", "SUCCESS", "FAILED"},
                origin : Keys \cup {None}]
Job == [key : Keys, hash : Hashes, outcome : {"READING"} \cup Outcomes]

ASSUME PaymentConstants ==
    /\ NoHash \notin Hashes /\ Unscoped \notin Offerings
    /\ LegacyOffering \in Offerings
    /\ None \notin Keys \cup Attempt \cup Claim \cup Transaction \cup Job
    /\ HistoricKeys \subseteq Keys
    /\ HistoricClaims \subseteq
         {c \in Claim : /\ c.offering = Unscoped /\ c.verified = NoHash
                        /\ c.state \in Outcomes
                        /\ c.state \in Terminal => c.hash /= NoHash}
    /\ ForeignTransfers \subseteq
         [from : Addresses, to : Addresses, tinybars : Nat]
    /\ LegacyScanLimit \in Nat /\ LegacyReadLimit \in Nat

VARIABLES
    attempts,    \* externalPrepareCommandAttempts, HEDERA_FUNDING only
    attemptOrder, \* the attempts, oldest first
    claims,      \* backingPaymentClaims by attempt
    claimOrder,  \* the attempts of the claims, oldest claim first
    permits,     \* the Send permit of each attempt, as its browser holds it
    ledger,      \* Hedera testnet: transaction by hash
    jobs         \* verification actions in flight

payVars == <<attempts, attemptOrder, claims, claimOrder, permits, ledger, jobs>>
allVars == <<vars, payVars>>

PayTypeOK ==
    /\ attempts \in [Keys -> Attempt \cup {None}]
    /\ claims \in [Keys -> Claim \cup {None}]
    /\ attemptOrder \in Seq(Keys) /\ claimOrder \in Seq(Keys)
    /\ permits \in [Keys -> {"NONE", "HELD", "SPENT"}]
    /\ ledger \in [Hashes -> Transaction \cup {None}]
    /\ jobs \in [Verifiers -> Job \cup {None}]

\* The evidence a CONFIRMED claim rests on.
Pays(tx, k) ==
    /\ tx.status = "SUCCESS"
    /\ tx.from = claims[k].signer
    /\ tx.to = attempts[k].target
    /\ tx.tinybars = claims[k].tinybars

HistoricOwners(h) == {k \in HistoricKeys : claims[k].hash = h}

HistoricStatus(state) ==
    CASE state = "CONFIRMED" -> "SUCCESS"
      [] state = "REJECTED" -> "FAILED"
      [] OTHER -> "PENDING"

\* A historic claim was recorded by an earlier release under a stricter rule:
\* no two claims shared a hash, and each stood on the transfer it asked for.
PayInit ==
    /\ Init
    /\ claims \in {c \in [Keys -> HistoricClaims \cup {None}] :
                     \A k \in Keys : k \in HistoricKeys <=> c[k] /= None}
    /\ attempts \in {a \in [Keys -> Attempt \cup {None}] :
                       \A k \in Keys :
                         IF k \in HistoricKeys
                         THEN a[k] = [signer |-> claims[k].signer,
                                      target |-> RecipientOf[LegacyOffering],
                                      legacy |-> TRUE, selfService |-> FALSE]
                         ELSE a[k] = None}
    /\ claimOrder \in {q \in [1 .. Cardinality(HistoricKeys) -> HistoricKeys] :
                         \A k \in HistoricKeys : \E i \in DOMAIN q : q[i] = k}
    /\ attemptOrder = claimOrder
    /\ permits = [k \in Keys |-> "NONE"]
    /\ \A k, l \in HistoricKeys :
         k /= l /\ claims[k].hash /= NoHash => claims[k].hash /= claims[l].hash
    /\ ledger = [h \in Hashes |->
                   IF HistoricOwners(h) = {} THEN None
                   ELSE LET owner == CHOOSE k \in HistoricOwners(h) : TRUE
                        IN [from |-> claims[owner].signer,
                            to |-> attempts[owner].target,
                            tinybars |-> claims[owner].tinybars,
                            status |-> HistoricStatus(claims[owner].state),
                            origin |-> None]]
    /\ jobs = [v \in Verifiers |-> None]

-----------------------------------------------------------------------------
(* Admission of the funding command                                        *)

SelfServiceBound(k, target, legacy) ==
    /\ now <= intents[k].expiresAt
    /\ ActiveAccount(intents[k].signer)
    /\ target = intents[k].recipient
    /\ legacy = (intents[k].offering = LegacyOffering)

\* A signer is admitted through the self-service account, and is then bound
\* to the frozen intent and its expiry, or through an enabled BACKER authority,
\* and is then bound to nothing but its own signed command, which it may sign
\* with a later expiry. Admissions whose amount or
\* signer differs from the intent are left out: no later handler acts on them.
AdmitFunding(k, target, legacy, selfService) ==
    /\ attempts[k] = None
    /\ intents[k] /= None
    /\ IF selfService THEN SelfServiceBound(k, target, legacy)
       ELSE backerAuthority[intents[k].signer]
    /\ attempts' = [attempts EXCEPT ![k] =
         [signer |-> intents[k].signer, target |-> target,
          legacy |-> legacy, selfService |-> selfService]]
    /\ attemptOrder' = Append(attemptOrder, k)
    /\ UNCHANGED <<vars, claims, claimOrder, permits, ledger, jobs>>

-----------------------------------------------------------------------------
(* Reservation and dispatch                                                *)

\* A legacy preparation stays usable; a self-service one expires.
UsableIntent(k) ==
    /\ attempts[k] /= None
    /\ intents[k] /= None
    /\ attempts[k].signer = intents[k].signer

Unexpired(k) == intents[k].offering = LegacyOffering \/ Live(k)

\* Mutant of InsertClaim: an absent hash is written as a missing row.
InsertClaimWithNull(k, offering, state, hash, verified) ==
    /\ claims' = [claims EXCEPT ![k] =
         [signer |-> attempts[k].signer, offering |-> offering,
          tinybars |-> intents[k].tinybars, state |-> state,
          hash |-> IF hash = NoHash THEN None ELSE hash, verified |-> verified]]
    /\ claimOrder' = Append(claimOrder, k)

InsertClaim(k, offering, state, hash, verified) ==
    /\ claims' = [claims EXCEPT ![k] =
         [signer |-> attempts[k].signer, offering |-> offering,
          tinybars |-> intents[k].tinybars, state |-> state,
          hash |-> hash, verified |-> verified]]
    /\ claimOrder' = Append(claimOrder, k)

ReserveBackingPayment(k) ==
    /\ UsableIntent(k) /\ Unexpired(k)
    /\ MayReserveNewBackingPayment(intents[k].signer, intents[k].offering)
    /\ claims[k] = None
    /\ InsertClaim(k, intents[k].offering, "PREPARED", NoHash, NoHash)
    /\ UNCHANGED <<vars, attempts, attemptOrder, permits, ledger, jobs>>

\* The unscoped claims that the legacy scan reads in one state, and whether it
\* gives up because there are more than it may read.
UnscopedClaims(s, state) ==
    {l \in Keys : /\ claims[l] /= None
                  /\ claims[l].signer = s /\ claims[l].offering = Unscoped
                  /\ claims[l].state = state}

LegacyScanOverflows(s, o) ==
    /\ o = LegacyOffering
    /\ \E state \in Pending :
         Cardinality(UnscopedClaims(s, state)) > LegacyScanLimit

\* Mutant of UnresolvedClaims: forgets the claims without an offering.
ScopedClaims(s, o) ==
    {l \in Keys : /\ claims[l] /= None
                  /\ claims[l].signer = s /\ claims[l].offering = o
                  /\ claims[l].state \in Pending}

\* Mutant of UnresolvedClaims: takes an unknown outcome for a closed one.
SubmittedClaims(s, o) ==
    {l \in Keys : /\ claims[l] /= None
                  /\ claims[l].signer = s /\ claims[l].offering = o
                  /\ claims[l].state = "SUBMITTED"}

\* The unresolved claims of a backer on one offering. Unscoped claims belong
\* to the legacy offering.
UnresolvedClaims(s, o) ==
    {l \in Keys : /\ claims[l] /= None
                  /\ claims[l].signer = s /\ claims[l].offering = o
                  /\ claims[l].state \in Pending}
    \cup IF o /= LegacyOffering THEN {}
         ELSE {l \in UNION {UnscopedClaims(s, state) : state \in Pending} :
                 attempts[l].legacy}

\* The offering must still be open under the very terms that were reviewed.
MayBeginNewBackingPaymentDispatch(k) ==
    LET intent == intents[k]
    IN /\ MayReserveNewBackingPayment(intent.signer, intent.offering)
       /\ \/ intent.offering = LegacyOffering
          \/ /\ offerings[intent.offering].state = "OPEN"
             /\ offerings[intent.offering].terms = intent.terms
             /\ RecipientOf[intent.offering] = intent.recipient
             /\ RecipientOf[intent.offering] /= intent.signer

\* Mutant of Unspent: a reload may dispatch a reservation again.
Reserved(k) == claims[k] /= None

Unspent(k) == claims[k] /= None /\ claims[k].state = "PREPARED"

\* Consumes the one Send permit. A claim that is not PREPARED gets none, and
\* any unresolved sibling sends the backer to recovery instead.
BeginBackingPaymentDispatch(k) ==
    /\ UsableIntent(k)
    /\ ~LegacyScanOverflows(intents[k].signer, intents[k].offering)
    /\ UnresolvedClaims(intents[k].signer, intents[k].offering) \subseteq {k}
    /\ Unexpired(k)
    /\ MayBeginNewBackingPaymentDispatch(k)
    /\ Unspent(k)
    /\ claims' = [claims EXCEPT ![k].state = "OUTCOME_UNKNOWN"]
    /\ permits' = [permits EXCEPT ![k] = "HELD"]
    /\ UNCHANGED <<vars, attempts, attemptOrder, claimOrder, ledger, jobs>>

-----------------------------------------------------------------------------
(* The browser and the ledger                                              *)

\* The browser asks the wallet once for each permit it was given.
WalletSend(k, h) ==
    /\ permits[k] = "HELD"
    /\ ledger[h] = None
    /\ permits' = [permits EXCEPT ![k] = "SPENT"]
    /\ ledger' = [ledger EXCEPT ![h] =
         [from |-> intents[k].signer, to |-> intents[k].recipient,
          tinybars |-> intents[k].tinybars, status |-> "PENDING", origin |-> k]]
    /\ UNCHANGED <<vars, attempts, attemptOrder, claims, claimOrder, jobs>>

\* The answer is lost, the wallet declines or its connection has changed. The
\* claim stays OUTCOME_UNKNOWN and the permit is not given back.
PermitLost(k) ==
    /\ permits[k] = "HELD"
    /\ permits' = [permits EXCEPT ![k] = "SPENT"]
    /\ UNCHANGED <<vars, attempts, attemptOrder, claims, claimOrder, ledger, jobs>>

ForeignTransfer(h, transfer) ==
    /\ ledger[h] = None
    /\ ledger' = [ledger EXCEPT ![h] =
         [from |-> transfer.from, to |-> transfer.to,
          tinybars |-> transfer.tinybars, status |-> "PENDING", origin |-> None]]
    /\ UNCHANGED <<vars, attempts, attemptOrder, claims, claimOrder, permits, jobs>>

Mine(h, status) ==
    /\ ledger[h] /= None
    /\ ledger[h].status = "PENDING"
    /\ ledger' = [ledger EXCEPT ![h].status = status]
    /\ UNCHANGED <<vars, attempts, attemptOrder, claims, claimOrder, permits, jobs>>

-----------------------------------------------------------------------------
(* Recording an outcome                                                    *)

\* Mutant of ExclusiveOwners: forgets claims confirmed before verified hashes.
VerifiedOwners(h) == {l \in Keys : claims[l] /= None /\ claims[l].verified = h}

\* Only a verified claim, or a historic one that is CONFIRMED, owns its hash.
ExclusiveOwners(h) ==
    {l \in Keys : /\ claims[l] /= None
                  /\ \/ claims[l].state = "CONFIRMED" /\ claims[l].hash = h
                     \/ claims[l].verified = h}

\* A claim without an intent may still be recorded if it is a historic claim
\* of the legacy offering.
HistoricLegacyRecovery(k) ==
    /\ attempts[k] /= None /\ intents[k] = None /\ claims[k] /= None
    /\ attempts[k].legacy
    /\ claims[k].signer = attempts[k].signer
    /\ claims[k].offering = Unscoped

\* Mutant of MayRecord: recording, too, asks for a backer who is still admitted.
MayRecordWhileAdmitted(k) ==
    /\ UsableIntent(k)
    /\ claims[k] /= None
    /\ MayReserveNewBackingPayment(intents[k].signer, intents[k].offering)

\* A claim may be created here only for a legacy backer who is still admitted.
MayRecord(k) ==
    \/ HistoricLegacyRecovery(k)
    \/ /\ UsableIntent(k)
       /\ \/ claims[k] /= None
          \/ /\ intents[k].offering = LegacyOffering
             /\ MayReserveNewBackingPayment(intents[k].signer, LegacyOffering)

Attachable(k, h) == claims[k] /= None => claims[k].hash \in {NoHash, h}

\* Mutant of ResolveBackingPaymentClaim: the last job to report wins.
ResolveLastWriter(k, outcome) == outcome

\* The state a claim takes when an outcome is recorded.
ResolveBackingPaymentClaim(k, outcome) ==
    IF claims[k] = None \/ claims[k].state = "PREPARED" THEN outcome
    ELSE IF \/ claims[k].state \in Terminal
            \/ claims[k].state = "OUTCOME_UNKNOWN" /\ outcome = "SUBMITTED"
    THEN claims[k].state ELSE outcome

\* Mutant of Recordable: forgets who owns the hash.
RecordableByAnyone(k, h) == MayRecord(k) /\ Attachable(k, h)

Recordable(k, h) ==
    /\ MayRecord(k)
    /\ ExclusiveOwners(h) \subseteq {k}
    /\ Attachable(k, h)

\* A hash is first attached, and first verified, by the write that needs it.
RecordBackingPayment(k, h, outcome) ==
    LET next == ResolveBackingPaymentClaim(k, outcome)
        proof == IF next = "CONFIRMED" THEN h
                 ELSE IF claims[k] = None THEN NoHash ELSE claims[k].verified
    IN IF ~Recordable(k, h) THEN UNCHANGED <<claims, claimOrder>>
       ELSE IF claims[k] = None
       THEN InsertClaim(k, LegacyOffering, next, h, proof)
       ELSE /\ claims' = [claims EXCEPT ![k] =
                 [@ EXCEPT !.state = next, !.hash = h, !.verified = proof]]
            /\ UNCHANGED claimOrder

-----------------------------------------------------------------------------
(* Verification                                                            *)

StartJob(k, h) ==
    \E v \in Verifiers :
      /\ jobs[v] = None
      /\ jobs' = [jobs EXCEPT ![v] = [key |-> k, hash |-> h, outcome |-> "READING"]]

\* The backer attaches a hash, usually the one the wallet returned. It is
\* recorded before the ledger is read; a terminal claim is answered at once.
ConfirmBackingPayment(k, h) ==
    /\ attempts[k] /= None
    /\ Recordable(k, h)
    /\ RecordBackingPayment(k, h, "SUBMITTED")
    /\ IF ResolveBackingPaymentClaim(k, "SUBMITTED") \in Terminal
       THEN UNCHANGED jobs
       ELSE StartJob(k, h)
    /\ UNCHANGED <<vars, attempts, attemptOrder, permits, ledger>>

Older(order, k, l) ==
    \E i, j \in DOMAIN order : i < j /\ order[i] = k /\ order[j] = l

\* A claim that a read of the payment page hands to a verification job.
Reverifiable(k) == claims[k].state \in Pending /\ claims[k].hash /= NoHash

Reverify(k) ==
    /\ Reverifiable(k)
    /\ StartJob(k, claims[k].hash)
    /\ UNCHANGED <<vars, attempts, attemptOrder, claims, claimOrder, permits, ledger>>

\* Mutant of ReverifyOffering: looks at the newest unresolved claim.
ReverifyNewest(s, o) ==
    /\ ~LegacyScanOverflows(s, o)
    /\ \E k \in UnresolvedClaims(s, o) :
         /\ \A l \in UnresolvedClaims(s, o) \ {k} : Older(claimOrder, l, k)
         /\ Reverify(k)

\* The oldest unresolved claim on the offering, with no look past it.
ReverifyOffering(s, o) ==
    /\ ~LegacyScanOverflows(s, o)
    /\ \E k \in UnresolvedClaims(s, o) :
         /\ \A l \in UnresolvedClaims(s, o) \ {k} : Older(claimOrder, k, l)
         /\ Reverify(k)

\* The newest claim of the backer, whatever its state and offering.
ReverifyBacker(s) ==
    \E k \in Keys :
      /\ claims[k] /= None /\ claims[k].signer = s
      /\ \A l \in Keys \ {k} :
           claims[l] /= None /\ claims[l].signer = s => Older(claimOrder, l, k)
      /\ Reverify(k)

LegacyAttempts(s) ==
    {k \in Keys : attempts[k] /= None /\ attempts[k].signer = s /\ attempts[k].legacy}

NewerLegacyAttempts(s, k) ==
    {l \in LegacyAttempts(s) : Older(attemptOrder, k, l)}

\* The newest legacy attempt whose claim, scoped or not, can be verified. Only
\* so many attempts are read.
ReverifyLegacyRiskScan(s) ==
    \E k \in LegacyAttempts(s) :
      /\ claims[k] /= None
      /\ Cardinality(NewerLegacyAttempts(s, k)) < LegacyReadLimit
      /\ \A l \in NewerLegacyAttempts(s, k) :
           claims[l] /= None => ~Reverifiable(l)
      /\ Reverify(k)

\* Mutant of Verdict: forgets the recipient.
VerdictAnyRecipient(tx, k) ==
    IF /\ tx.status = "SUCCESS" /\ tx.from = claims[k].signer
       /\ tx.tinybars = claims[k].tinybars
    THEN "CONFIRMED" ELSE "REJECTED"

\* What a complete receipt says of a claim.
Verdict(tx, k) == IF Pays(tx, k) THEN "CONFIRMED" ELSE "REJECTED"

Mined(h) == ledger[h] /= None /\ ledger[h].status /= "PENDING"

\* A read that fails, or finds no receipt yet, yields OUTCOME_UNKNOWN.
ReadReceipt(v, outcome) ==
    /\ jobs[v] /= None
    /\ jobs[v].outcome = "READING"
    /\ \/ outcome = "OUTCOME_UNKNOWN"
       \/ /\ Mined(jobs[v].hash)
          /\ outcome = Verdict(ledger[jobs[v].hash], jobs[v].key)
    /\ jobs' = [jobs EXCEPT ![v].outcome = outcome]
    /\ UNCHANGED <<vars, attempts, attemptOrder, claims, claimOrder, permits, ledger>>

FinishJob(v) ==
    /\ jobs[v] /= None
    /\ jobs[v].outcome /= "READING"
    /\ RecordBackingPayment(jobs[v].key, jobs[v].hash, jobs[v].outcome)
    /\ jobs' = [jobs EXCEPT ![v] = None]
    /\ UNCHANGED <<vars, attempts, attemptOrder, permits, ledger>>

\* An action is not retried: a crash or a timeout forgets what it read.
JobCrash(v) ==
    /\ jobs[v] /= None
    /\ jobs' = [jobs EXCEPT ![v] = None]
    /\ UNCHANGED <<vars, attempts, attemptOrder, claims, claimOrder, permits, ledger>>

-----------------------------------------------------------------------------

\* The server draws nonces, so a historic key is never drawn again.
PrepareOrOperate ==
    /\ Next
    /\ \A k \in HistoricKeys : intents'[k] = None
    /\ UNCHANGED payVars

Pay ==
    \/ \E k \in Keys, a \in Addresses, legacy, selfService \in BOOLEAN :
         AdmitFunding(k, a, legacy, selfService)
    \/ \E k \in Keys : \/ ReserveBackingPayment(k)
                       \/ BeginBackingPaymentDispatch(k)
                       \/ PermitLost(k)
    \/ \E k \in Keys, h \in Hashes : \/ WalletSend(k, h)
                                     \/ ConfirmBackingPayment(k, h)

Verify ==
    \/ \E s \in Backers : \/ ReverifyBacker(s)
                          \/ ReverifyLegacyRiskScan(s)
                          \/ \E o \in Offerings : ReverifyOffering(s, o)
    \/ \E v \in Verifiers : \/ FinishJob(v)
                            \/ JobCrash(v)
                            \/ \E outcome \in Outcomes : ReadReceipt(v, outcome)

Chain ==
    \/ \E h \in Hashes, t \in ForeignTransfers : ForeignTransfer(h, t)
    \/ \E h \in Hashes, status \in {"SUCCESS", "FAILED"} : Mine(h, status)

PayNext == PrepareOrOperate \/ Pay \/ Verify \/ Chain

PaySpec == PayInit /\ [][PayNext]_allVars

\* Backers come back to the payment page, verification actions run, and the
\* RPC node answers now and then. Nothing makes a wallet, a miner or an
\* operator act, and any single action may crash.
Fairness ==
    /\ \A s \in Backers, o \in Offerings : SF_allVars(ReverifyOffering(s, o))
    /\ \A v \in Verifiers :
         /\ WF_allVars(\E outcome \in Outcomes : ReadReceipt(v, outcome))
         /\ SF_allVars(\E outcome \in Terminal : ReadReceipt(v, outcome))
         /\ WF_allVars(FinishJob(v))
         /\ SF_allVars(FinishJob(v) /\ jobs[v].outcome \in Terminal)

FairPaySpec == PaySpec /\ Fairness

-----------------------------------------------------------------------------
(* Properties                                                              *)

\* A transaction proves at most one backing: whatever jobs and attachments
\* interleave, no two CONFIRMED claims rest on the same hash.
HashExclusive ==
    \A k, l \in Keys :
      /\ k /= l /\ claims[k] /= None /\ claims[l] /= None
      /\ claims[k].state = "CONFIRMED" /\ claims[l].state = "CONFIRMED"
      => claims[k].hash /= claims[l].hash

\* CONFIRMED is never written on a stale, partial or foreign read: the ledger
\* holds a successful transfer by the signer, of the claimed amount, to the
\* admitted target, which for a self-service backer is the recipient that was
\* frozen and reviewed.
ConfirmedOnEvidence ==
    \A k \in Keys :
      claims[k] /= None /\ claims[k].state = "CONFIRMED" =>
        /\ claims[k].hash \in Hashes
        /\ ledger[claims[k].hash] /= None
        /\ Pays(ledger[claims[k].hash], k)
        /\ attempts[k].selfService =>
             /\ ledger[claims[k].hash].to = intents[k].recipient
             /\ ledger[claims[k].hash].tinybars
                  = intents[k].units * intents[k].terms.price

\* One attempt leads to at most one transaction, however often the backer
\* reserves, dispatches, reloads or retries.
OneSend ==
    \A g, h \in Hashes :
      /\ g /= h /\ ledger[g] /= None /\ ledger[h] /= None
      /\ ledger[g].origin /= None
      => ledger[g].origin /= ledger[h].origin

ScopeOf(k) ==
    IF claims[k].offering = Unscoped THEN LegacyOffering ELSE claims[k].offering

\* Attempts that may have moved money: a permit was given, or the claim is
\* older than permits.
Dispatched == {k \in Keys : permits[k] /= "NONE"} \cup HistoricKeys

\* A backer never holds two open dispatches on one offering: a new permit is
\* given only when every earlier one has reached a terminal claim.
OneOpenDispatch ==
    \A k, l \in Dispatched :
      /\ k /= l /\ claims[k].signer = claims[l].signer
      /\ ScopeOf(k) = ScopeOf(l)
      /\ claims[k].state \in Pending /\ claims[l].state \in Pending
      => {k, l} \subseteq HistoricKeys

\* The earlier and stricter rule of the backing record: a transaction hash is
\* attached to one attempt only, confirmed or not.
HashClaimsOneAttempt ==
    \A k, l \in Keys :
      /\ k /= l /\ claims[k] /= None /\ claims[l] /= None
      /\ claims[k].hash /= NoHash
      => claims[k].hash /= claims[l].hash

\* Whatever late or repeated outcome arrives, a terminal claim keeps its
\* state and evidence, an attached hash is never replaced, a claim that left
\* PREPARED never returns to it, and none is deleted.
ClaimsOnlyAdvance ==
    [][\A k \in Keys : claims[k] /= None =>
         /\ claims'[k] /= None
         /\ claims[k].state \in Terminal =>
              claims'[k].state = claims[k].state
         /\ claims[k].hash /= NoHash => claims'[k].hash = claims[k].hash
         /\ claims'[k].state = "PREPARED" => claims[k].state = "PREPARED"]_claims

\* The record implements its promise: see BackingPromise.
PromisedStatus ==
    [k \in Keys |->
       IF claims[k] = None \/ claims[k].state = "PREPARED" THEN "NONE"
       ELSE IF claims[k].state \in Pending THEN "OPEN" ELSE claims[k].state]

PromisedProof ==
    [k \in Keys |->
       IF claims[k] /= None /\ claims[k].state = "CONFIRMED"
       THEN claims[k].hash ELSE NoHash]

Settled == {h \in Hashes : ledger[h] /= None /\ ledger[h].status = "SUCCESS"}

Promise == INSTANCE BackingPromise
             WITH status <- PromisedStatus, proof <- PromisedProof,
                  settled <- Settled

\* Every history of claims, jobs and retries is a history of the promise: an
\* attempt is opened before it is closed, closed once, and closed as CONFIRMED
\* only by a settled transfer that closes no other attempt.
KeepsPromise == Promise!Spec

\* The record as its callers see it: see ClaimRecord.
RecordStatus ==
    [k \in Keys |->
       IF attempts[k] = None THEN "NONE"
       ELSE IF claims[k] = None THEN "ADMITTED" ELSE claims[k].state]

RecordedHash ==
    [k \in Keys |-> IF claims[k] = None THEN NoHash ELSE claims[k].hash]

\* Attempts that predate intents are of the legacy offering.
RecordScope ==
    [k \in Keys |->
       IF attempts[k] = None THEN None
       ELSE <<attempts[k].signer,
              IF intents[k] = None THEN LegacyOffering ELSE intents[k].offering>>]

Server == INSTANCE ClaimRecord
            WITH status <- RecordStatus, recorded <- RecordedHash, scope <- RecordScope

\* What the pages count on is what the backend does: an attempt is dispatched
\* once, from a reservation, and only while no other attempt of the backer on
\* the offering is unresolved; a hash is attached for ever; no late, repeated
\* or failed call takes a claim back, and only a recorded hash closes one.
KeepsRecord == Server!RecordSpec

\* What may keep a mined transaction from closing its claim: another claim
\* owns the hash, or an older unresolved claim on the offering has no hash, or
\* the legacy scan gives up.
HeldUp(k) ==
    \/ \E l \in Keys \ {k} :
         /\ claims[l] /= None
         /\ \/ claims[l].verified = claims[k].hash
            \/ /\ claims[l].signer = claims[k].signer
               /\ ScopeOf(l) = ScopeOf(k)
               /\ claims[l].state \in Pending
               /\ Older(claimOrder, l, k)
    \/ LegacyScanOverflows(claims[k].signer, ScopeOf(k))

Reconcilable(k) ==
    /\ claims[k] /= None
    /\ Reverifiable(k)
    /\ Mined(claims[k].hash)

\* A payment that reached the ledger is eventually closed by reloading the
\* page, whatever operators close, suspend or switch off in the meantime,
\* however often verification fails or crashes, unless something holds it up.
Reconciled ==
    \A k \in Keys :
      Reconcilable(k) ~>
        claims[k] /= None /\ (claims[k].state \in Terminal \/ HeldUp(k))
=============================================================================
