------------------------ MODULE OfferingLifecycleProofs ------------------------
(***************************************************************************)
(* Proofs about offerings: every attempt belongs to one offering and goes  *)
(* with it, what backs an offering is bound to it alone, a tool is backed  *)
(* by a deployment its owner made for it, a service has one version in     *)
(* force, and every history of the commands, candidates and jobs is one    *)
(* that ListingPromise allows.                                             *)
(*                                                                         *)
(* The many actions come down to five moves: an offering is drafted, is    *)
(* bound to a prepared attempt, its attempt gets a candidate, it is backed *)
(* (on attachment, repair or corroboration), or it opens. The invariant is *)
(* proved once for each move.                                              *)
(***************************************************************************)
EXTENDS OfferingLifecycle, ProviderToolsProofs

-----------------------------------------------------------------------------
(* The inductive invariant                                                 *)

\* An offering has an attempt from the moment it leaves its draft, of its own
\* subject and signer, and an asset only from a submitted attempt.
Linked(o) ==
    /\ offerings[o].state = "DRAFT" <=> offerings[o].attempt = None
    /\ offerings[o].state /= "DRAFT" =>
          /\ offerings[o].attempt \in Keys /\ AttemptOf(o) /= None
          /\ AttemptOf(o).subject = Subject(o)
          /\ InContext(o, AttemptOf(o).signer, AttemptOf(o).identity)
          /\ AttemptOf(o).verified /= None => Backed(o) /\ o \in Tools
    /\ Backed(o) => /\ AttemptOf(o).state = "SUBMITTED"
                    /\ offerings[o].asset = AttemptOf(o).asset

\* A prepared attempt has no candidate, a submitted one has.
AttemptFormed(k) ==
    /\ attempts[k].state = "PREPARED" => attempts[k].candidate = None /\ attempts[k].verified = None
    /\ attempts[k].state = "SUBMITTED" => attempts[k].candidate \in Candidates
                                          /\ attempts[k].asset \in Assets
    /\ \E o \in Offerings : Exists(o) /\ offerings[o].attempt = k

AllLinked ==
    /\ \A o \in Offerings : Exists(o) => Linked(o)
    /\ \A k \in Keys : attempts[k] /= None => AttemptFormed(k)
    /\ \A o1, o2 \in Offerings :
          Exists(o1) /\ Exists(o2) /\ offerings[o1].attempt /= None
            /\ offerings[o1].attempt = offerings[o2].attempt => o1 = o2

\* What backs an offering, as it was claimed.
BindingOf(o) ==
    [offering |-> o, attempt |-> offerings[o].attempt, txn |-> AttemptOf(o).candidate.txn,
     hash |-> AttemptOf(o).verified, asset |-> offerings[o].asset]
BindingsExclusive == \A b \in bindings : Bindable(b)
AllBound == BindingsExclusive /\ \A o \in Offerings : Backed(o) => BindingOf(o) \in bindings

\* A tool was backed by a deployment its owner made.
DeployedByOwner(t) ==
    /\ tools[t] /= None /\ AttemptOf(t).verified \in Txns
    /\ ledger[AttemptOf(t).verified] /= None
    /\ ledger[AttemptOf(t).verified] =
          [subject |-> t, signer |-> tools[t].signer, payload |-> offerings[t].payload,
           asset |-> offerings[t].asset]
AllCorroborated == \A t \in Tools : Backed(t) => DeployedByOwner(t)

InForce(d) == Published(d) /\ directories[d].state = "ACTIVE"
\* The version in force and the offering it opened point at each other.
AllListed ==
    /\ \A o \in Offerings : Exists(o) =>
          /\ offerings[o].state = "OPEN" <=> offerings[o].directory /= None
          /\ offerings[o].directory /= None =>
                /\ offerings[o].directory[1] = o /\ Published(offerings[o].directory)
                /\ ActiveFor(Slug(o)) /= {}
    /\ \A d \in Directories : InForce(d) => Exists(d[1]) /\ offerings[d[1]].directory = d
    /\ \A d, e \in Directories :
          InForce(d) /\ InForce(e) /\ Slug(d[1]) = Slug(e[1]) => d = e

OfferInv ==
    /\ OfferTypeOK
    /\ AllLinked
    /\ AllBound
    /\ AllCorroborated
    /\ AllListed
    /\ OneNewClaim

-----------------------------------------------------------------------------
(* What the actions write                                                  *)

\* The claims that were answered NEW: as before, or one more.
NoNewClaim == \A c \in ClaimRow : c.outcome = "NEW" => claims'[c] = claims[c]
NewClaim(type, target) ==
    \A c \in ClaimRow : c.outcome = "NEW" =>
       claims'[c] = IF c.type = type /\ c.target = target THEN claims[c] + 1 ELSE claims[c]

LEMMA ClaimRows ==
    /\ \A o \in Offerings, outcome \in {"NEW", "IDEMPOTENCY_REPLAYED"} :
          [type |-> "offering.create", outcome |-> outcome, target |-> o] \in ClaimRow
    /\ \A k \in Keys, outcome \in {"NEW", "IDEMPOTENCY_REPLAYED"} :
          [type |-> "external.prepare", outcome |-> outcome, target |-> k] \in ClaimRow
    /\ \A k \in Keys :
          [type |-> "external.attachCandidate", outcome |-> "NEW", target |-> k] \in ClaimRow
    /\ \A d \in Directories, outcome \in {"NEW", "IDEMPOTENCY_REPLAYED"} :
          [type |-> "directory.publish", outcome |-> outcome, target |-> d] \in ClaimRow
    /\ \A type \in {"offering.create", "external.prepare", "directory.publish"} :
          [type |-> type, outcome |-> "IDEMPOTENCY_CONFLICT", target |-> None] \in ClaimRow
  BY DEF ClaimRow

LEMMA SpendNew ==
    ASSUME OfferTypeOK, NEW type, NEW target,
           [type |-> type, outcome |-> "NEW", target |-> target] \in ClaimRow,
           Spend(type, "NEW", target)
    PROVE  claims' \in [ClaimRow -> Nat] /\ NewClaim(type, target)
<1> DEFINE row == [type |-> type, outcome |-> "NEW", target |-> target]
<1>1. claims \in [ClaimRow -> Nat] /\ row \in ClaimRow
  BY DEF OfferTypeOK
<1>2. claims' = [claims EXCEPT ![row] = @ + 1]
  BY DEF Spend
<1>3. \A c \in ClaimRow : c.outcome = "NEW" =>
         (c = row <=> c.type = type /\ c.target = target)
  BY DEF ClaimRow
<1>4. row.type = type /\ row.target = target /\ row.outcome = "NEW"
  OBVIOUS
<1> HIDE DEF row
<1>5. claims' \in [ClaimRow -> Nat]
  BY <1>1, <1>2
<1>6. \A c \in ClaimRow : claims'[c] = IF c = row THEN claims[c] + 1 ELSE claims[c]
  BY <1>1, <1>2
<1> QED BY <1>3, <1>5, <1>6 DEF NewClaim

LEMMA SpendRepeat ==
    ASSUME OfferTypeOK, NEW type, NEW outcome, outcome /= "NEW", NEW target,
           [type |-> type, outcome |-> outcome, target |-> target] \in ClaimRow,
           Spend(type, outcome, target)
    PROVE  claims' \in [ClaimRow -> Nat] /\ NoNewClaim
<1> DEFINE row == [type |-> type, outcome |-> outcome, target |-> target]
<1>1. claims \in [ClaimRow -> Nat] /\ row \in ClaimRow
  BY DEF OfferTypeOK
<1>2. claims' = [claims EXCEPT ![row] = @ + 1]
  BY DEF Spend
<1>3. row.outcome /= "NEW"
  OBVIOUS
<1> HIDE DEF row
<1>4. claims' \in [ClaimRow -> Nat]
  BY <1>1, <1>2
<1>5. \A c \in ClaimRow : c.outcome = "NEW" => claims'[c] = claims[c]
  BY <1>1, <1>2, <1>3
<1> QED BY <1>4, <1>5 DEF NoNewClaim

-----------------------------------------------------------------------------
(* The moves                                                               *)

OnlyOffering(o) == \A other \in Offerings : other /= o => offerings'[other] = offerings[other]
OnlyAttempt(k) == \A other \in Keys : other /= k => attempts'[other] = attempts[other]
KeepsTerms(o) ==
    /\ Exists(o) /\ offerings'[o] /= None
    /\ offerings'[o].signer = offerings[o].signer
    /\ offerings'[o].identity = offerings[o].identity
    /\ offerings'[o].payload = offerings[o].payload
KeepsContext(k) ==
    /\ attempts[k] /= None /\ attempts'[k] /= None
    /\ attempts'[k].signer = attempts[k].signer
    /\ attempts'[k].identity = attempts[k].identity
    /\ attempts'[k].subject = attempts[k].subject
\* Tools and deployments come, and stay.
Growing ==
    /\ \A t \in Tools : tools[t] /= None => tools'[t] = tools[t]
    /\ \A txn \in Txns : ledger[txn] /= None => ledger'[txn] = ledger[txn]

Unmoved == Growing /\ UNCHANGED <<offerings, attempts, bindings, directories>>

Drafted(o) ==
    /\ ~Exists(o) /\ OnlyOffering(o)
    /\ offerings'[o] /= None /\ offerings'[o].state = "DRAFT"
    /\ offerings'[o].attempt = None /\ offerings'[o].directory = None
    /\ Growing /\ UNCHANGED <<attempts, bindings, directories>>

Pended(o, k) ==
    /\ OnlyOffering(o) /\ KeepsTerms(o) /\ offerings[o].state = "DRAFT"
    /\ offerings'[o].state = "ASSET_PENDING" /\ offerings'[o].attempt = k
    /\ offerings'[o].directory = offerings[o].directory
    /\ attempts[k] = None /\ OnlyAttempt(k)
    /\ attempts'[k] /= None /\ attempts'[k].state = "PREPARED"
    /\ attempts'[k].subject = Subject(o) /\ attempts'[k].signer = offerings[o].signer
    /\ attempts'[k].identity = offerings[o].identity
    /\ attempts'[k].candidate = None /\ attempts'[k].verified = None
    /\ Growing /\ UNCHANGED <<bindings, directories>>

Submitted(k) ==
    /\ OnlyAttempt(k) /\ KeepsContext(k) /\ attempts[k].state = "PREPARED"
    /\ attempts'[k].state = "SUBMITTED" /\ attempts'[k].verified = attempts[k].verified
    /\ attempts'[k].candidate \in Candidates /\ attempts'[k].asset \in Assets
    /\ attempts[k].subject \in Tools
    /\ Growing /\ UNCHANGED <<offerings, bindings, directories>>

\* The attempt is submitted with this step or was before.
BackedBy(o, k) ==
    /\ OnlyOffering(o) /\ KeepsTerms(o) /\ offerings[o].attempt = k
    /\ \/ offerings[o].state = "ASSET_PENDING"
       \/ offerings[o].state = "READY" /\ attempts[k].state = "SUBMITTED"
    /\ offerings'[o].state = "READY" /\ offerings'[o].attempt = k
    /\ offerings'[o].asset = attempts'[k].asset
    /\ offerings'[o].directory = offerings[o].directory
    /\ OnlyAttempt(k) /\ KeepsContext(k)
    /\ attempts'[k].state = "SUBMITTED"
    /\ attempts'[k].candidate \in Candidates /\ attempts'[k].asset \in Assets
    /\ attempts[k].state = "SUBMITTED" => attempts'[k].candidate = attempts[k].candidate
                                          /\ attempts'[k].asset = attempts[k].asset
    /\ o \notin Tools => attempts'[k].verified = attempts[k].verified
    /\ o \in Tools => attempts[k].state = "SUBMITTED" /\ DeployedByOwner(o)'
    /\ ClaimBinding([offering |-> o, attempt |-> k, txn |-> attempts'[k].candidate.txn,
                     hash |-> attempts'[k].verified, asset |-> attempts'[k].asset])
    /\ Growing /\ UNCHANGED directories

SomeBackedBy(k) == \E o \in Offerings : BackedBy(o, k)

Opened(o, d) ==
    /\ OnlyOffering(o) /\ KeepsTerms(o) /\ offerings[o].state = "READY"
    /\ offerings'[o].state = "OPEN" /\ offerings'[o].directory = d
    /\ offerings'[o].attempt = offerings[o].attempt /\ offerings'[o].asset = offerings[o].asset
    /\ d \in Directories /\ d[1] = o /\ ~Published(d)
    /\ \A e \in Directories :
          /\ Published(e)' <=> Published(e) \/ e = d
          /\ InForce(e)' <=> e = d \/ (InForce(e) /\ Slug(e[1]) /= Slug(o))
    /\ Growing /\ UNCHANGED <<attempts, bindings>>

LEMMA OfferingFields ==
    ASSUME LifecycleConstants, OfferTypeOK, NEW o \in Offerings, Exists(o)
    PROVE  offerings[o] \in Offering
  BY DEF OfferTypeOK, Exists

LEMMA AttemptFields ==
    ASSUME LifecycleConstants, OfferTypeOK, NEW k \in Keys, attempts[k] /= None
    PROVE  attempts[k] \in Attempt
  BY DEF OfferTypeOK

LEMMA PendingRecord ==
    ASSUME NEW r \in Offering, NEW k \in Keys
    PROVE  [r EXCEPT !.state = "ASSET_PENDING", !.attempt = k] \in Offering
  BY DEF Offering, OfferingState

LEMMA ReadyRecord ==
    ASSUME NEW r \in Offering, NEW asset \in Assets
    PROVE  [r EXCEPT !.state = "READY", !.asset = asset] \in Offering
  BY DEF Offering, OfferingState

LEMMA OpenRecord ==
    ASSUME NEW r \in Offering, NEW d \in Directories
    PROVE  [r EXCEPT !.state = "OPEN", !.directory = d] \in Offering
  BY DEF Offering, OfferingState

LEMMA SubmittedRecord ==
    ASSUME NEW r \in Attempt, NEW candidate \in Candidates, NEW asset \in Assets
    PROVE  [r EXCEPT !.state = "SUBMITTED", !.candidate = candidate, !.asset = asset] \in Attempt
  BY DEF Attempt

LEMMA VerifiedRecord ==
    ASSUME NEW r \in Attempt, NEW txn \in Txns
    PROVE  [r EXCEPT !.verified = txn] \in Attempt
  BY DEF Attempt

LEMMA CandidateFields ==
    ASSUME LifecycleConstants, NEW c \in Candidates
    PROVE  c.txn \in Txns /\ c.read \in Txns
  BY DEF LifecycleConstants, Candidates

LEMMA OfferingRewritten ==
    ASSUME LifecycleConstants, OfferTypeOK, NEW o \in Offerings, NEW r \in Offering,
           offerings' = [offerings EXCEPT ![o] = r]
    PROVE  /\ offerings' \in [Offerings -> Offering \cup {None}]
           /\ OnlyOffering(o) /\ offerings'[o] = r /\ r /= None
  BY DEF OfferTypeOK, LifecycleConstants, OnlyOffering

LEMMA AttemptRewritten ==
    ASSUME LifecycleConstants, OfferTypeOK, NEW k \in Keys, NEW r \in Attempt,
           attempts' = [attempts EXCEPT ![k] = r]
    PROVE  /\ attempts' \in [Keys -> Attempt \cup {None}]
           /\ OnlyAttempt(k) /\ attempts'[k] = r /\ r /= None
  BY DEF OfferTypeOK, LifecycleConstants, OnlyAttempt

\* Two fields of one row at a time.
LEMMA TwoFields ==
    ASSUME OfferTypeOK, NEW o \in Offerings, NEW state, NEW x
    PROVE  /\ [offerings EXCEPT ![o].state = state, ![o].attempt = x]
                = [offerings EXCEPT ![o] = [offerings[o] EXCEPT !.state = state, !.attempt = x]]
           /\ [offerings EXCEPT ![o].state = state, ![o].asset = x]
                = [offerings EXCEPT ![o] = [offerings[o] EXCEPT !.state = state, !.asset = x]]
           /\ [offerings EXCEPT ![o].state = state, ![o].directory = x]
                = [offerings EXCEPT ![o] = [offerings[o] EXCEPT !.state = state, !.directory = x]]
  BY DEF OfferTypeOK

LEMMA MadeReady ==
    ASSUME LifecycleConstants, OfferTypeOK, NEW o \in Offerings, Exists(o), NEW asset \in Assets,
           MakeReady(o, asset)
    PROVE  /\ offerings' \in [Offerings -> Offering \cup {None}]
           /\ OnlyOffering(o) /\ KeepsTerms(o)
           /\ offerings'[o].state = "READY" /\ offerings'[o].asset = asset
           /\ offerings'[o].attempt = offerings[o].attempt
           /\ offerings'[o].directory = offerings[o].directory
<1>1. PICK r \in Offering : r = [offerings[o] EXCEPT !.state = "READY", !.asset = asset]
  BY OfferingFields, ReadyRecord
<1>2. offerings' = [offerings EXCEPT ![o] = r]
  BY <1>1, TwoFields DEF MakeReady
<1>3. offerings[o] \in Offering
  BY OfferingFields
<1>4. /\ r.state = "READY" /\ r.asset = asset /\ r.attempt = offerings[o].attempt
      /\ r.directory = offerings[o].directory /\ r.signer = offerings[o].signer
      /\ r.identity = offerings[o].identity /\ r.payload = offerings[o].payload
  BY <1>1, <1>3 DEF Offering
<1> QED BY <1>2, <1>4, OfferingRewritten DEF KeepsTerms

-----------------------------------------------------------------------------
(* Every action is a move                                                  *)

\* The rows of the tools, of the directories and of the claims have a proof of
\* their own in each lemma; the others are left alone.
LEMMA CreateMoves ==
    ASSUME LifecycleConstants, OfferTypeOK, NEW s \in Signers, NEW identity \in Identities,
           NEW o \in Offerings, NEW payload \in Payloads,
           AdmitOfferingCreate(s, identity, o, payload)
    PROVE  /\ OfferTypeOK'
           /\ \/ Drafted(o) /\ NewClaim("offering.create", o)
              \/ Unmoved /\ NoNewClaim
<1>1. UNCHANGED <<toolVars, attempts, bindings, directories, ledger, jobs>>
  BY DEF AdmitOfferingCreate
<1>2. Growing
  BY <1>1 DEF Growing, toolVars
<1>3. CASE /\ ~Exists(o) /\ Spend("offering.create", "NEW", o)
           /\ offerings' = [offerings EXCEPT ![o] = NewDraft(s, identity, payload)]
  <2>1. NewDraft(s, identity, payload) \in Offering
    BY DEF NewDraft, Offering, OfferingState
  <2>2. /\ offerings' \in [Offerings -> Offering \cup {None}]
        /\ OnlyOffering(o) /\ offerings'[o] = NewDraft(s, identity, payload)
        /\ offerings'[o] /= None
    BY <1>3, <2>1, OfferingRewritten
  <2>3. claims' \in [ClaimRow -> Nat] /\ NewClaim("offering.create", o)
    BY <1>3, ClaimRows, SpendNew
  <2>4. OfferTypeOK'
    BY <1>1, <2>2, <2>3 DEF OfferTypeOK, ToolTypeOK, toolVars, memberVars
  <2>5. Drafted(o)
    BY <1>1, <1>2, <1>3, <2>2 DEF Drafted, NewDraft
  <2> QED BY <2>3, <2>4, <2>5
<1>4. CASE UNCHANGED offerings /\ \/ Spend("offering.create", "IDEMPOTENCY_REPLAYED", o)
                                  \/ Conflict("offering.create")
  <2>1. claims' \in [ClaimRow -> Nat] /\ NoNewClaim
    BY <1>4, ClaimRows, SpendRepeat DEF Conflict
  <2>2. OfferTypeOK'
    BY <1>1, <1>4, <2>1 DEF OfferTypeOK, ToolTypeOK, toolVars, memberVars
  <2> QED BY <1>1, <1>2, <1>4, <2>1, <2>2 DEF Unmoved
<1> QED BY <1>3, <1>4 DEF AdmitOfferingCreate

LEMMA AtsCreateMoves ==
    ASSUME LifecycleConstants, OfferTypeOK, NEW s \in Signers, NEW identity \in Identities,
           NEW subject \in Subjects, NEW k \in Keys, NEW sameCommand \in BOOLEAN,
           AdmitAtsCreate(s, identity, subject, k, sameCommand)
    PROVE  /\ OfferTypeOK'
           /\ \/ NewClaim("external.prepare", k) /\ \E o \in Offerings : Pended(o, k)
              \/ Unmoved /\ NoNewClaim
<1>1. UNCHANGED <<toolVars, bindings, directories, ledger, jobs>>
  BY DEF AdmitAtsCreate
<1>2. Growing
  BY <1>1 DEF Growing, toolVars
<1>3. ASSUME NEW o \in Offerings, o \in Drafts(s, identity, subject), attempts[k] = None,
             offerings' = [offerings EXCEPT ![o].state = "ASSET_PENDING", ![o].attempt = k],
             attempts' = [attempts EXCEPT ![k] =
                [signer |-> s, identity |-> identity, subject |-> subject,
                 payload |-> Configuration(subject), state |-> "PREPARED",
                 candidate |-> None, asset |-> None, verified |-> None]],
             Spend("external.prepare", "NEW", k)
      PROVE  OfferTypeOK' /\ NewClaim("external.prepare", k) /\ Pended(o, k)
  <2>1. /\ o \in Offerings /\ Exists(o) /\ offerings[o].state = "DRAFT"
        /\ Subject(o) = subject /\ InContext(o, s, identity)
    BY <1>3 DEF Drafts
  <2>2. offerings[o] \in Offering
    BY <2>1, OfferingFields
  <2>3. PICK r \in Offering : r = [offerings[o] EXCEPT !.state = "ASSET_PENDING", !.attempt = k]
    BY <2>2, PendingRecord
  <2>4. /\ r.state = "ASSET_PENDING" /\ r.attempt = k
        /\ r.directory = offerings[o].directory /\ r.signer = offerings[o].signer
        /\ r.identity = offerings[o].identity /\ r.payload = offerings[o].payload
    BY <2>2, <2>3 DEF Offering
  <2>5. offerings' = [offerings EXCEPT ![o] = r]
    BY <1>3, <2>3, TwoFields
  <2>6. /\ offerings' \in [Offerings -> Offering \cup {None}]
        /\ OnlyOffering(o) /\ offerings'[o] = r /\ r /= None
    BY <2>1, <2>5, OfferingRewritten
  <2>7. Configuration(subject) \in Payloads \cup {None}
    <3>1. CASE subject \in Tools
      BY <3>1, OfferingFields DEF AdmitAtsCreate, Configurable, Configuration, Offering, Offerings
    <3> QED BY <3>1 DEF Configuration
  <2>8. PICK a \in Attempt :
          a = [signer |-> s, identity |-> identity, subject |-> subject,
               payload |-> Configuration(subject), state |-> "PREPARED",
               candidate |-> None, asset |-> None, verified |-> None]
    BY <2>7 DEF Attempt
  <2>9. /\ attempts' \in [Keys -> Attempt \cup {None}]
        /\ OnlyAttempt(k) /\ attempts'[k] = a /\ a /= None
    BY <1>3, <2>8, AttemptRewritten
  <2>10. claims' \in [ClaimRow -> Nat] /\ NewClaim("external.prepare", k)
    BY <1>3, ClaimRows, SpendNew
  <2>11. OfferTypeOK'
    BY <1>1, <2>6, <2>9, <2>10 DEF OfferTypeOK, ToolTypeOK, toolVars, memberVars
  <2>12. KeepsTerms(o)
    BY <2>1, <2>4, <2>6 DEF KeepsTerms
  <2>13. Pended(o, k)
    BY <1>1, <1>2, <1>3, <2>1, <2>4, <2>6, <2>8, <2>9, <2>12 DEF Pended, InContext
  <2> QED BY <2>10, <2>11, <2>13
<1>4. CASE UNCHANGED <<offerings, attempts>> /\ \/ Spend("external.prepare", "IDEMPOTENCY_REPLAYED", k)
                                                \/ Conflict("external.prepare")
  <2>1. claims' \in [ClaimRow -> Nat] /\ NoNewClaim
    BY <1>4, ClaimRows, SpendRepeat DEF Conflict
  <2>2. OfferTypeOK'
    BY <1>1, <1>4, <2>1 DEF OfferTypeOK, ToolTypeOK, toolVars, memberVars
  <2> QED BY <1>1, <1>2, <1>4, <2>1, <2>2 DEF Unmoved
<1>6. CASE /\ attempts[k] = None
           /\ \E o \in Drafts(s, identity, subject) :
                /\ Drafts(s, identity, subject) = {o}
                /\ offerings' = [offerings EXCEPT ![o].state = "ASSET_PENDING",
                                                  ![o].attempt = k]
           /\ attempts' = [attempts EXCEPT ![k] =
                [signer |-> s, identity |-> identity, subject |-> subject,
                 payload |-> Configuration(subject), state |-> "PREPARED",
                 candidate |-> None, asset |-> None, verified |-> None]]
           /\ Spend("external.prepare", "NEW", k)
  <2>1. PICK o \in Drafts(s, identity, subject) :
          /\ Drafts(s, identity, subject) = {o}
          /\ offerings' = [offerings EXCEPT ![o].state = "ASSET_PENDING", ![o].attempt = k]
    BY <1>6
  <2>2. o \in Offerings
    BY DEF Drafts
  <2>3. OfferTypeOK' /\ NewClaim("external.prepare", k) /\ Pended(o, k)
    BY <1>3, <1>6, <2>1, <2>2
  <2> QED BY <2>2, <2>3
<1> QED BY <1>4, <1>6 DEF AdmitAtsCreate

LEMMA ThreeFields ==
    ASSUME OfferTypeOK, NEW k \in Keys, NEW candidate, NEW asset
    PROVE  [attempts EXCEPT ![k].state = "SUBMITTED", ![k].candidate = candidate, ![k].asset = asset]
             = [attempts EXCEPT ![k] = [attempts[k] EXCEPT !.state = "SUBMITTED",
                                           !.candidate = candidate, !.asset = asset]]
  BY DEF OfferTypeOK

LEMMA Attached ==
    ASSUME LifecycleConstants, OfferTypeOK, NEW k \in Keys, attempts[k] /= None,
           NEW candidate \in Candidates, NEW asset \in Assets,
           attempts' = [attempts EXCEPT ![k].state = "SUBMITTED",
                                        ![k].candidate = candidate, ![k].asset = asset]
    PROVE  /\ attempts' \in [Keys -> Attempt \cup {None}]
           /\ OnlyAttempt(k) /\ KeepsContext(k)
           /\ attempts'[k].state = "SUBMITTED" /\ attempts'[k].candidate = candidate
           /\ attempts'[k].asset = asset /\ attempts'[k].verified = attempts[k].verified
<1>1. attempts[k] \in Attempt
  BY AttemptFields
<1>2. PICK r \in Attempt : r = [attempts[k] EXCEPT !.state = "SUBMITTED",
                                   !.candidate = candidate, !.asset = asset]
  BY <1>1, SubmittedRecord
<1>3. attempts' = [attempts EXCEPT ![k] = r]
  BY <1>2, ThreeFields
<1>4. /\ r.state = "SUBMITTED" /\ r.candidate = candidate /\ r.asset = asset
      /\ r.verified = attempts[k].verified /\ r.signer = attempts[k].signer
      /\ r.identity = attempts[k].identity /\ r.subject = attempts[k].subject
  BY <1>1, <1>2 DEF Attempt
<1> QED BY <1>3, <1>4, AttemptRewritten DEF KeepsContext

LEMMA Verified ==
    ASSUME LifecycleConstants, OfferTypeOK, NEW k \in Keys, attempts[k] /= None,
           NEW txn \in Txns, attempts' = [attempts EXCEPT ![k].verified = txn]
    PROVE  /\ attempts' \in [Keys -> Attempt \cup {None}]
           /\ OnlyAttempt(k) /\ KeepsContext(k)
           /\ attempts'[k].state = attempts[k].state
           /\ attempts'[k].candidate = attempts[k].candidate
           /\ attempts'[k].asset = attempts[k].asset /\ attempts'[k].verified = txn
<1>1. attempts[k] \in Attempt
  BY AttemptFields
<1>2. PICK r \in Attempt : r = [attempts[k] EXCEPT !.verified = txn]
  BY <1>1, VerifiedRecord
<1>3. attempts' = [attempts EXCEPT ![k] = r]
  BY <1>2 DEF OfferTypeOK
<1>4. /\ r.state = attempts[k].state /\ r.candidate = attempts[k].candidate
      /\ r.asset = attempts[k].asset /\ r.verified = txn /\ r.signer = attempts[k].signer
      /\ r.identity = attempts[k].identity /\ r.subject = attempts[k].subject
  BY <1>1, <1>2 DEF Attempt
<1> QED BY <1>3, <1>4, AttemptRewritten DEF KeepsContext

LEMMA JobsTyped ==
    ASSUME OfferTypeOK, NEW k \in Keys
    PROVE  /\ ScheduleVerification(k) => jobs' \in [Jobs -> Job \cup {None}]
           /\ \A j \in Jobs : EndJob(j) => jobs' \in [Jobs -> Job \cup {None}]
<1>1. [key |-> k, step |-> "READ"] \in Job
  BY DEF Job
<1> QED BY <1>1 DEF OfferTypeOK, ScheduleVerification, StartJob, EndJob

LEMMA BindingTyped ==
    ASSUME LifecycleConstants, OfferTypeOK, NEW o \in Offerings, NEW k \in Keys,
           NEW c \in Candidates, NEW hash \in Txns \cup {None}, NEW asset \in Assets,
           ClaimBinding([offering |-> o, attempt |-> k, txn |-> c.txn, hash |-> hash, asset |-> asset])
    PROVE  bindings' \subseteq Binding
<1>1. c.txn \in Txns
  BY CandidateFields
<1>2. [offering |-> o, attempt |-> k, txn |-> c.txn, hash |-> hash, asset |-> asset] \in Binding
  BY <1>1 DEF Binding
<1> QED BY <1>2 DEF ClaimBinding, OfferTypeOK

LEMMA ReadyLegacyMoves ==
    ASSUME LifecycleConstants, OfferTypeOK, NEW o \in Offerings, o \notin Tools, NEW k \in Keys,
           PendingFor(o, k), attempts[k] /= None, attempts[k].verified = None,
           NEW candidate \in Candidates, NEW asset \in Assets,
           ReadyLegacy(o, k, candidate, asset),
           attempts' \in [Keys -> Attempt \cup {None}], OnlyAttempt(k), KeepsContext(k),
           attempts'[k].state = "SUBMITTED", attempts'[k].candidate = candidate,
           attempts'[k].asset = asset, attempts'[k].verified = None,
           attempts[k].state = "SUBMITTED" =>
              attempts[k].candidate = candidate /\ attempts[k].asset = asset,
           Growing, UNCHANGED directories
    PROVE  /\ offerings' \in [Offerings -> Offering \cup {None}] /\ bindings' \subseteq Binding
           /\ BackedBy(o, k)
<1>1. Exists(o) /\ offerings[o].attempt = k /\ offerings[o].state = "ASSET_PENDING"
  BY DEF PendingFor
<1>2. /\ MakeReady(o, asset)
      /\ ClaimBinding([offering |-> o, attempt |-> k, txn |-> candidate.txn,
                       hash |-> None, asset |-> asset])
  BY DEF ReadyLegacy
<1>3. /\ offerings' \in [Offerings -> Offering \cup {None}]
      /\ OnlyOffering(o) /\ KeepsTerms(o)
      /\ offerings'[o].state = "READY" /\ offerings'[o].asset = asset
      /\ offerings'[o].attempt = offerings[o].attempt
      /\ offerings'[o].directory = offerings[o].directory
  BY <1>1, <1>2, MadeReady
<1>4. bindings' \subseteq Binding
  BY <1>2, BindingTyped
<1>5. BackedBy(o, k)
  BY <1>1, <1>2, <1>3 DEF BackedBy
<1> QED BY <1>3, <1>4, <1>5

LEMMA AttachMoves ==
    ASSUME LifecycleConstants, OfferTypeOK, AllLinked, NEW k \in Keys,
           NEW candidate \in Candidates, NEW asset \in Assets, AttachCandidate(k, candidate, asset)
    PROVE  /\ OfferTypeOK' /\ NewClaim("external.attachCandidate", k)
           /\ attempts[k] /= None /\ attempts[k].state = "PREPARED"
           /\ Submitted(k) \/ SomeBackedBy(k)
<1>1. /\ attempts[k] /= None /\ attempts[k].state = "PREPARED"
      /\ UNCHANGED <<toolVars, directories, ledger>> /\ ScheduleVerification(k)
      /\ Spend("external.attachCandidate", "NEW", k)
      /\ attempts' = [attempts EXCEPT ![k].state = "SUBMITTED",
                                      ![k].candidate = candidate, ![k].asset = asset]
  BY DEF AttachCandidate
<1>2. Growing
  BY <1>1 DEF Growing, toolVars
<1>3. attempts[k].verified = None
  BY <1>1 DEF AllLinked, AttemptFormed
<1>4. /\ attempts' \in [Keys -> Attempt \cup {None}]
      /\ OnlyAttempt(k) /\ KeepsContext(k)
      /\ attempts'[k].state = "SUBMITTED" /\ attempts'[k].candidate = candidate
      /\ attempts'[k].asset = asset /\ attempts'[k].verified = attempts[k].verified
  BY <1>1, Attached
<1>5. claims' \in [ClaimRow -> Nat] /\ NewClaim("external.attachCandidate", k)
  BY <1>1, ClaimRows, SpendNew
<1>6. jobs' \in [Jobs -> Job \cup {None}]
  BY <1>1, JobsTyped
<1>7. PICK o \in Offerings :
        /\ PendingFor(o, k)
        /\ IF o \in Tools THEN UNCHANGED <<offerings, bindings>>
           ELSE ReadyLegacy(o, k, candidate, asset)
  BY DEF AttachCandidate
<1>8. CASE o \in Tools
  <2>1. Submitted(k)
    BY <1>1, <1>2, <1>4, <1>7, <1>8 DEF Submitted, PendingFor, Subject
  <2>2. OfferTypeOK'
    BY <1>1, <1>4, <1>5, <1>6, <1>7, <1>8 DEF OfferTypeOK, ToolTypeOK, toolVars, memberVars
  <2> QED BY <1>1, <1>5, <2>1, <2>2
<1>9. CASE o \notin Tools
  <2>1. /\ offerings' \in [Offerings -> Offering \cup {None}] /\ bindings' \subseteq Binding
        /\ BackedBy(o, k)
    BY <1>1, <1>2, <1>3, <1>4, <1>7, <1>9, ReadyLegacyMoves
  <2>2. OfferTypeOK'
    BY <1>1, <1>4, <1>5, <1>6, <2>1 DEF OfferTypeOK, ToolTypeOK, toolVars, memberVars
  <2> QED BY <1>1, <1>5, <2>1, <2>2 DEF SomeBackedBy
<1> QED BY <1>8, <1>9

LEMMA OnlyJobs ==
    ASSUME OfferTypeOK, jobs' \in [Jobs -> Job \cup {None}],
           UNCHANGED <<toolVars, offerings, attempts, bindings, directories, claims, ledger>>
    PROVE  OfferTypeOK'
  BY DEF OfferTypeOK, ToolTypeOK, toolVars, memberVars

LEMMA ReattachMoves ==
    ASSUME LifecycleConstants, OfferTypeOK, AllLinked, NEW k \in Keys, ReattachCandidate(k)
    PROVE  /\ OfferTypeOK' /\ NoNewClaim
           /\ Unmoved \/ (attempts[k].state = "SUBMITTED" /\ SomeBackedBy(k))
<1>1. /\ attempts[k] /= None /\ attempts[k].state = "SUBMITTED" /\ ScheduleVerification(k)
      /\ UNCHANGED <<toolVars, attempts, directories, claims, ledger>>
  BY DEF ReattachCandidate
<1>2. Growing /\ NoNewClaim
  BY <1>1 DEF Growing, toolVars, NoNewClaim
<1>3. jobs' \in [Jobs -> Job \cup {None}]
  BY <1>1, JobsTyped
<1>4. CASE UNCHANGED <<offerings, bindings>>
  <2>1. UNCHANGED <<toolVars, offerings, attempts, bindings, directories, claims, ledger>>
    BY <1>1, <1>4
  <2>2. OfferTypeOK'
    BY <1>3, <2>1, OnlyJobs
  <2>3. Unmoved
    BY <1>2, <2>1 DEF Unmoved
  <2> QED BY <1>2, <2>2, <2>3
<1>5. CASE \E o \in LegacyOfferings :
             PendingFor(o, k) /\ ReadyLegacy(o, k, attempts[k].candidate, attempts[k].asset)
  <2>1. PICK o \in LegacyOfferings :
          PendingFor(o, k) /\ ReadyLegacy(o, k, attempts[k].candidate, attempts[k].asset)
    BY <1>5
  <2>2. o \in Offerings /\ o \notin Tools
    BY DEF Offerings, LifecycleConstants
  <2>3. attempts[k].candidate \in Candidates /\ attempts[k].asset \in Assets
    BY <1>1 DEF AllLinked, AttemptFormed
  <2>4. attempts[k].verified = None
    BY <2>1, <2>2 DEF PendingFor, AllLinked, Linked, AttemptOf, Backed
  <2>5. OnlyAttempt(k) /\ KeepsContext(k) /\ attempts' \in [Keys -> Attempt \cup {None}]
    BY <1>1 DEF OnlyAttempt, KeepsContext, OfferTypeOK
  <2>6. /\ offerings' \in [Offerings -> Offering \cup {None}] /\ bindings' \subseteq Binding
        /\ BackedBy(o, k)
    BY <1>1, <1>2, <2>1, <2>2, <2>3, <2>4, <2>5, ReadyLegacyMoves
  <2>7. OfferTypeOK'
    BY <1>1, <1>3, <2>5, <2>6 DEF OfferTypeOK, ToolTypeOK, toolVars, memberVars
  <2> QED BY <1>1, <1>2, <2>2, <2>6, <2>7 DEF SomeBackedBy
<1> QED BY <1>4, <1>5 DEF ReattachCandidate

\* Looking again, reading and being dropped only move jobs; a deployment only
\* adds to the ledger.
LEMMA JobMoves ==
    ASSUME LifecycleConstants, OfferTypeOK,
           \/ \E t \in Tools : RecheckOwnedTool(t)
           \/ \E j \in Jobs, documents \in BOOLEAN : ReadCandidate(j, documents)
           \/ \E j \in Jobs : JobCrash(j)
    PROVE  OfferTypeOK' /\ Unmoved /\ NoNewClaim
<1>1. UNCHANGED <<toolVars, offerings, attempts, bindings, directories, claims, ledger>>
  BY DEF RecheckOwnedTool, ReadCandidate, JobCrash
<1>2. jobs' \in [Jobs -> Job \cup {None}]
  <2>1. ASSUME NEW t \in Tools, RecheckOwnedTool(t) PROVE jobs' \in [Jobs -> Job \cup {None}]
    <3>1. PICK k \in Keys : StartJob(k)
      BY <2>1 DEF RecheckOwnedTool
    <3> QED BY <3>1, JobsTyped DEF ScheduleVerification
  <2>2. ASSUME NEW j \in Jobs, NEW documents \in BOOLEAN, ReadCandidate(j, documents)
        PROVE  jobs' \in [Jobs -> Job \cup {None}]
    <3>1. jobs[j] \in Job
      BY <2>2 DEF ReadCandidate, OfferTypeOK
    <3>2. [jobs[j] EXCEPT !.step = "CORROBORATE"] \in Job
      BY <3>1 DEF Job
    <3> QED BY <2>2, <3>2 DEF ReadCandidate, EndJob, OfferTypeOK
  <2>3. ASSUME NEW j \in Jobs, JobCrash(j) PROVE jobs' \in [Jobs -> Job \cup {None}]
    BY <2>3 DEF JobCrash, EndJob, OfferTypeOK
  <2> QED BY <2>1, <2>2, <2>3
<1>3. OfferTypeOK'
  BY <1>1, <1>2, OnlyJobs
<1> QED BY <1>1, <1>3 DEF Unmoved, Growing, NoNewClaim, toolVars

LEMMA DeployMoves ==
    ASSUME LifecycleConstants, OfferTypeOK, NEW txn \in Txns, NEW deployment \in Deployment,
           DeployAsset(txn, deployment)
    PROVE  OfferTypeOK' /\ Unmoved /\ NoNewClaim
<1>1. /\ UNCHANGED <<toolVars, offerings, attempts, bindings, directories, claims, jobs>>
      /\ ledger[txn] = None /\ ledger' = [ledger EXCEPT ![txn] = deployment]
  BY DEF DeployAsset
<1>2. OfferTypeOK'
  BY <1>1 DEF OfferTypeOK, ToolTypeOK, toolVars, memberVars
<1>3. Growing
  BY <1>1 DEF Growing, OfferTypeOK, toolVars
<1> QED BY <1>1, <1>2, <1>3 DEF Unmoved, NoNewClaim

LEMMA ToolMoves ==
    ASSUME ToolConstants, LifecycleConstants, OfferTypeOK, ToolNext, UNCHANGED lifecycleVars
    PROVE  OfferTypeOK' /\ Unmoved /\ NoNewClaim
<1>1. ToolTypeOK' /\ \A t \in Tools : tools[t] /= None => tools'[t] = tools[t]
  <2>1. CASE MemberStep
    BY <2>1, MembershipType DEF OfferTypeOK
  <2>2. ASSUME NEW s \in Signers, NEW r \in Requests, AllocateForIssuer(s, r)
        PROVE  ToolTypeOK' /\ \A t \in Tools : tools[t] /= None => tools'[t] = tools[t]
    <3>1. ToolTypeOK'
      BY <2>2, AllocationType DEF OfferTypeOK
    <3>2. PICK new \in Tools :
            /\ tools[new] = None
            /\ tools' = [tools EXCEPT ![new] =
                  [signer |-> s, identity |-> AllocationIdentity(s), request |-> r]]
      BY <2>2, Allocated DEF OfferTypeOK
    <3> QED BY <3>1, <3>2 DEF OfferTypeOK, ToolTypeOK
  <2> QED BY <2>1, <2>2 DEF ToolNext
<1>2. OfferTypeOK'
  BY <1>1 DEF OfferTypeOK, lifecycleVars
<1> QED BY <1>1, <1>2 DEF Unmoved, Growing, NoNewClaim, lifecycleVars

\* What the ledger shows of a genuine candidate.
LEMMA GenuineDeployment ==
    ASSUME ToolConstants, LifecycleConstants, OfferTypeOK, NEW o \in Tools, NEW k \in Keys,
           attempts[k].asset \in Assets, Corroborable(o, k)
    PROVE  /\ tools[o] /= None /\ ledger[attempts[k].candidate.read] /= None
           /\ ledger[attempts[k].candidate.read] =
                 [subject |-> o, signer |-> tools[o].signer, payload |-> offerings[o].payload,
                  asset |-> attempts[k].asset]
<1>1. /\ OwnsTool(attempts[k].signer, attempts[k].identity, o) /\ Exists(o)
      /\ o = attempts[k].subject /\ offerings[o].payload = attempts[k].payload
      /\ Corroborates(ledger[attempts[k].candidate.read], attempts[k])
  BY DEF Corroborable
<1>2. ledger[attempts[k].candidate.read] =
        [subject |-> o, signer |-> tools[o].signer, payload |-> offerings[o].payload,
         asset |-> attempts[k].asset]
  BY <1>1 DEF Corroborates, OwnsTool
<1>3. offerings[o].payload \in Payloads
  BY <1>1, OfferingFields DEF Offerings, Offering
<1>4. tools[o] /= None /\ tools[o].signer \in Signers
  BY <1>1 DEF OwnsTool, OfferTypeOK, ToolTypeOK, Tool
<1>5. ledger[attempts[k].candidate.read] \in Deployment
  BY <1>2, <1>3, <1>4 DEF Deployment
<1> QED BY <1>2, <1>4, <1>5 DEF LifecycleConstants

LEMMA CorroborateMoves ==
    ASSUME ToolConstants, LifecycleConstants, OfferTypeOK, AllLinked,
           NEW j \in Jobs, Corroborate(j)
    PROVE  /\ OfferTypeOK' /\ NoNewClaim
           /\ Unmoved \/ \E k \in Keys : attempts[k].state = "SUBMITTED" /\ SomeBackedBy(k)
<1>1. /\ jobs[j] /= None /\ EndJob(j)
      /\ UNCHANGED <<toolVars, directories, claims, ledger>>
  BY DEF Corroborate
<1>2. Growing /\ NoNewClaim
  BY <1>1 DEF Growing, toolVars, NoNewClaim
<1>3. PICK k \in Keys : k = jobs[j].key
  BY <1>1 DEF OfferTypeOK, Job
<1>4. jobs' \in [Jobs -> Job \cup {None}]
  BY <1>1, <1>3, JobsTyped
<1>5. CASE UNCHANGED <<offerings, attempts, bindings>>
  <2>1. OfferTypeOK'
    BY <1>1, <1>4, <1>5, OnlyJobs
  <2>2. Unmoved
    BY <1>1, <1>2, <1>5 DEF Unmoved
  <2> QED BY <1>2, <2>1, <2>2
<1>6. ASSUME NEW o \in Tools, Corroborable(o, k),
             ClaimBinding([offering |-> o, attempt |-> k, txn |-> attempts[k].candidate.txn,
                           hash |-> attempts[k].candidate.read, asset |-> attempts[k].asset]),
             attempts' = [attempts EXCEPT ![k].verified = attempts[k].candidate.read],
             MakeReady(o, attempts[k].asset)
      PROVE  OfferTypeOK' /\ attempts[k].state = "SUBMITTED" /\ SomeBackedBy(k)
  <2>1. /\ o \in Offerings /\ Exists(o) /\ offerings[o].attempt = k
        /\ attempts[k].state = "SUBMITTED"
        /\ offerings[o].state \in {"ASSET_PENDING", "READY"}
    BY <1>6 DEF Corroborable, Offerings
  <2>2. attempts[k] /= None /\ attempts[k] \in Attempt
    BY <2>1, AttemptFields DEF AllLinked, Linked, AttemptOf
  <2>3. attempts[k].candidate \in Candidates /\ attempts[k].asset \in Assets
    BY <2>1, <2>2 DEF AllLinked, AttemptFormed
  <2>4. attempts[k].candidate.read \in Txns
    BY <2>3, CandidateFields
  <2>5. /\ attempts' \in [Keys -> Attempt \cup {None}]
        /\ OnlyAttempt(k) /\ KeepsContext(k)
        /\ attempts'[k].state = attempts[k].state
        /\ attempts'[k].candidate = attempts[k].candidate
        /\ attempts'[k].asset = attempts[k].asset
        /\ attempts'[k].verified = attempts[k].candidate.read
    BY <1>6, <2>2, <2>4, Verified
  <2>6. /\ offerings' \in [Offerings -> Offering \cup {None}]
        /\ OnlyOffering(o) /\ KeepsTerms(o)
        /\ offerings'[o].state = "READY" /\ offerings'[o].asset = attempts[k].asset
        /\ offerings'[o].attempt = offerings[o].attempt
        /\ offerings'[o].directory = offerings[o].directory
    BY <1>6, <2>1, <2>3, MadeReady
  <2>7. bindings' \subseteq Binding
    BY <1>6, <2>1, <2>3, <2>4, BindingTyped
  <2>8. /\ tools[o] /= None /\ ledger[attempts[k].candidate.read] /= None
        /\ ledger[attempts[k].candidate.read] =
              [subject |-> o, signer |-> tools[o].signer, payload |-> offerings[o].payload,
               asset |-> attempts[k].asset]
    BY <1>6, <2>3, GenuineDeployment
  <2>9. DeployedByOwner(o)'
    BY <1>1, <2>1, <2>4, <2>5, <2>6, <2>8 DEF DeployedByOwner, AttemptOf, KeepsTerms, toolVars
  <2>10. ClaimBinding([offering |-> o, attempt |-> k, txn |-> attempts'[k].candidate.txn,
                       hash |-> attempts'[k].verified, asset |-> attempts'[k].asset])
    BY <1>6, <2>5
  <2>11. BackedBy(o, k)
    BY <1>1, <1>2, <2>1, <2>3, <2>5, <2>6, <2>9, <2>10 DEF BackedBy
  <2>12. OfferTypeOK'
    BY <1>1, <1>4, <2>5, <2>6, <2>7 DEF OfferTypeOK, ToolTypeOK, toolVars, memberVars
  <2> QED BY <2>1, <2>11, <2>12 DEF SomeBackedBy
<1>7. CASE \E o \in Tools :
             /\ Corroborable(o, k)
             /\ ClaimBinding([offering |-> o, attempt |-> k, txn |-> attempts[k].candidate.txn,
                              hash |-> attempts[k].candidate.read, asset |-> attempts[k].asset])
             /\ attempts' = [attempts EXCEPT ![k].verified = attempts[k].candidate.read]
             /\ MakeReady(o, attempts[k].asset)
  BY <1>2, <1>6, <1>7
<1> QED BY <1>3, <1>5, <1>7 DEF Corroborate

LEMMA PublishMoves ==
    ASSUME LifecycleConstants, OfferTypeOK, NEW s \in Signers, NEW identity \in Identities,
           NEW o \in Offerings, NEW version \in DirectoryVersions, NEW record \in Records,
           AdmitDirectoryPublish(s, identity, o, version, record)
    PROVE  /\ OfferTypeOK'
           /\ \/ NewClaim("directory.publish", <<o, version>>) /\ Opened(o, <<o, version>>)
              \/ Unmoved /\ NoNewClaim
<1> DEFINE d == <<o, version>>
<1>1. /\ UNCHANGED <<toolVars, attempts, bindings, ledger, jobs>>
      /\ d \in Directories /\ d[1] = o /\ Exists(o)
  BY DEF AdmitDirectoryPublish, Directories
<1>2. Growing
  BY <1>1 DEF Growing, toolVars
<1>3. CASE /\ ~Published(d) /\ Publishable(o)
           /\ directories' = [e \in Directories |->
                IF e = d THEN [record |-> record, signer |-> s, state |-> "ACTIVE"]
                ELSE IF e \in PriorVersions(o) THEN [directories[e] EXCEPT !.state = "SUPERSEDED"]
                ELSE directories[e]]
           /\ offerings' = [offerings EXCEPT ![o].state = "OPEN", ![o].directory = d]
           /\ Spend("directory.publish", "NEW", d)
  <2> HIDE DEF d
  <2>1. offerings[o] \in Offering
    BY <1>1, OfferingFields
  <2>2. PICK r \in Offering : r = [offerings[o] EXCEPT !.state = "OPEN", !.directory = d]
    BY <1>1, <2>1, OpenRecord
  <2>3. /\ r.state = "OPEN" /\ r.directory = d /\ r.asset = offerings[o].asset
        /\ r.attempt = offerings[o].attempt /\ r.signer = offerings[o].signer
        /\ r.identity = offerings[o].identity /\ r.payload = offerings[o].payload
    BY <2>1, <2>2 DEF Offering
  <2>4. offerings' = [offerings EXCEPT ![o] = r]
    BY <1>3, <2>2, TwoFields
  <2>5. /\ offerings' \in [Offerings -> Offering \cup {None}]
        /\ OnlyOffering(o) /\ offerings'[o] = r /\ r /= None
    BY <2>4, OfferingRewritten
  <2>6. [record |-> record, signer |-> s, state |-> "ACTIVE"] \in Directory
    BY DEF Directory
  <2>7. \A e \in Directories : e \in PriorVersions(o) <=> InForce(e) /\ Slug(e[1]) = Slug(o)
    BY DEF PriorVersions, ActiveFor, InForce
  <2>8. ASSUME NEW e \in Directories
        PROVE  /\ directories'[e] \in Directory \cup {None}
               /\ directories'[e] /= None <=> directories[e] /= None \/ e = d
               /\ InForce(e)' <=> e = d \/ (InForce(e) /\ Slug(e[1]) /= Slug(o))
    <3>1. directories'[e] = IF e = d THEN [record |-> record, signer |-> s, state |-> "ACTIVE"]
                ELSE IF e \in PriorVersions(o) THEN [directories[e] EXCEPT !.state = "SUPERSEDED"]
                ELSE directories[e]
      BY <1>3
    <3>2. CASE e = d
      <4>1. directories'[e] \in Directory /\ directories'[e].state = "ACTIVE"
        BY <2>6, <3>1, <3>2
      <4>2. directories'[e] /= None
        BY <4>1 DEF LifecycleConstants
      <4> QED BY <3>2, <4>1, <4>2 DEF InForce, Published
    <3>3. CASE e /= d /\ e \in PriorVersions(o)
      <4>1. directories[e] \in Directory
        BY <2>7, <3>3 DEF InForce, Published, OfferTypeOK
      <4>2. directories'[e] \in Directory /\ directories'[e].state = "SUPERSEDED"
        BY <3>1, <3>3, <4>1 DEF Directory
      <4> QED BY <2>7, <3>3, <4>1, <4>2 DEF InForce, Published, LifecycleConstants
    <3>4. CASE e /= d /\ e \notin PriorVersions(o)
      BY <2>7, <3>1, <3>4 DEF InForce, Published, OfferTypeOK
    <3> QED BY <3>2, <3>3, <3>4
  <2>9. directories' \in [Directories -> Directory \cup {None}]
    BY <1>3, <2>8
  <2>10. claims' \in [ClaimRow -> Nat] /\ NewClaim("directory.publish", d)
    BY <1>1, <1>3, ClaimRows, SpendNew
  <2>11. OfferTypeOK'
    BY <1>1, <2>5, <2>9, <2>10 DEF OfferTypeOK, ToolTypeOK, toolVars, memberVars
  <2>12. KeepsTerms(o) /\ offerings[o].state = "READY"
    BY <1>1, <1>3, <2>3, <2>5 DEF KeepsTerms, Publishable
  <2>13. Opened(o, d)
    BY <1>1, <1>2, <1>3, <2>3, <2>5, <2>8, <2>12 DEF Opened, Published
  <2> QED BY <2>10, <2>11, <2>13 DEF d
<1>4. CASE UNCHANGED <<directories, offerings>>
           /\ \/ Spend("directory.publish", "IDEMPOTENCY_REPLAYED", d)
              \/ Conflict("directory.publish")
  <2>1. claims' \in [ClaimRow -> Nat] /\ NoNewClaim
    BY <1>1, <1>4, ClaimRows, SpendRepeat DEF Conflict
  <2>2. OfferTypeOK'
    BY <1>1, <1>4, <2>1 DEF OfferTypeOK, ToolTypeOK, toolVars, memberVars
  <2> QED BY <1>1, <1>2, <1>4, <2>1, <2>2 DEF Unmoved
<1> QED BY <1>3, <1>4 DEF AdmitDirectoryPublish

-----------------------------------------------------------------------------
(* Offerings and attempts                                                  *)

LEMMA DraftLinked ==
    ASSUME AllLinked, NEW o \in Offerings, Drafted(o)
    PROVE  AllLinked'
<1>1. /\ offerings'[o] /= None /\ offerings'[o].state = "DRAFT" /\ offerings'[o].attempt = None
      /\ ~Exists(o) /\ attempts' = attempts
      /\ \A p \in Offerings : p /= o => offerings'[p] = offerings[p]
  BY DEF Drafted, OnlyOffering
<1>2. ASSUME NEW p \in Offerings, Exists(p)' PROVE Linked(p)'
  <2>1. CASE p = o
    BY <1>1, <2>1 DEF Linked, Backed
  <2>2. CASE p /= o
    <3>1. Exists(p) /\ Linked(p)
      BY <1>1, <1>2, <2>2 DEF AllLinked, Exists
    <3> QED BY <1>1, <2>2, <3>1 DEF Linked, Backed, Exists, AttemptOf, InContext
  <2> QED BY <2>1, <2>2
<1>3. ASSUME NEW k \in Keys, attempts'[k] /= None PROVE AttemptFormed(k)'
  <2>1. AttemptFormed(k)
    BY <1>1, <1>3 DEF AllLinked
  <2> QED BY <1>1, <2>1 DEF AttemptFormed, Exists
<1>4. ASSUME NEW o1 \in Offerings, NEW o2 \in Offerings, Exists(o1)', Exists(o2)',
             offerings'[o1].attempt /= None, offerings'[o1].attempt = offerings'[o2].attempt
      PROVE  o1 = o2
  BY <1>1, <1>4 DEF AllLinked, Exists
<1> QED BY <1>2, <1>3, <1>4 DEF AllLinked

LEMMA PendingLinked ==
    ASSUME LifecycleConstants, AllLinked, NEW o \in Offerings, NEW k \in Keys, Pended(o, k)
    PROVE  AllLinked'
<1>1. /\ Exists(o) /\ offerings[o].state = "DRAFT" /\ offerings'[o] /= None
      /\ offerings'[o].state = "ASSET_PENDING" /\ offerings'[o].attempt = k
      /\ offerings'[o].signer = attempts'[k].signer
      /\ offerings'[o].identity = attempts'[k].identity
      /\ attempts[k] = None /\ attempts'[k] /= None /\ attempts'[k].state = "PREPARED"
      /\ attempts'[k].subject = Subject(o)
      /\ attempts'[k].candidate = None /\ attempts'[k].verified = None
      /\ \A p \in Offerings : p /= o => offerings'[p] = offerings[p]
      /\ \A i \in Keys : i /= k => attempts'[i] = attempts[i]
  BY DEF Pended, OnlyOffering, OnlyAttempt, KeepsTerms
<1>2. None \notin Keys
  BY DEF LifecycleConstants
<1>3. ASSUME NEW p \in Offerings, Exists(p), offerings[p].attempt /= None
      PROVE  /\ p /= o /\ offerings[p].attempt \in Keys /\ offerings[p].attempt /= k
             /\ offerings'[p] = offerings[p] /\ AttemptOf(p)' = AttemptOf(p)
  <2>1. Linked(p)
    BY <1>3 DEF AllLinked
  <2>2. offerings[p].attempt \in Keys /\ AttemptOf(p) /= None /\ p /= o
    BY <1>1, <1>3, <2>1 DEF Linked, AllLinked
  <2> QED BY <1>1, <2>2 DEF AttemptOf
<1>4. ASSUME NEW p \in Offerings, Exists(p)' PROVE Linked(p)'
  <2>1. CASE p = o
    BY <1>1, <1>2, <2>1 DEF Linked, Backed, AttemptOf, InContext
  <2>2. CASE p /= o
    <3>1. Exists(p) /\ Linked(p) /\ offerings'[p] = offerings[p]
      BY <1>1, <1>4, <2>2 DEF AllLinked, Exists
    <3>2. CASE offerings[p].attempt = None
      BY <3>1, <3>2 DEF Linked, Backed, Exists
    <3>3. CASE offerings[p].attempt /= None
      BY <1>3, <3>1, <3>3 DEF Linked, Backed, Exists, InContext
    <3> QED BY <3>2, <3>3
  <2> QED BY <2>1, <2>2
<1>5. ASSUME NEW i \in Keys, attempts'[i] /= None PROVE AttemptFormed(i)'
  <2>1. CASE i = k
    <3>1. \E p \in Offerings : offerings'[p] /= None /\ offerings'[p].attempt = i
      BY <1>1, <2>1
    <3> QED BY <1>1, <2>1, <3>1 DEF AttemptFormed, Exists
  <2>2. CASE i /= k
    <3>1. attempts'[i] = attempts[i] /\ AttemptFormed(i)
      BY <1>1, <1>5, <2>2 DEF AllLinked
    <3>2. PICK p \in Offerings : Exists(p) /\ offerings[p].attempt = i
      BY <3>1 DEF AttemptFormed
    <3>3. offerings'[p] = offerings[p]
      BY <1>2, <1>3, <3>2
    <3> QED BY <3>1, <3>2, <3>3 DEF AttemptFormed, Exists
  <2> QED BY <2>1, <2>2
<1>6. ASSUME NEW o1 \in Offerings, NEW o2 \in Offerings, Exists(o1)', Exists(o2)',
             offerings'[o1].attempt /= None, offerings'[o1].attempt = offerings'[o2].attempt
      PROVE  o1 = o2
  <2>1. ASSUME NEW p \in Offerings, p /= o, Exists(p)'
        PROVE  Exists(p) /\ offerings'[p] = offerings[p] /\ offerings[p].attempt /= k
    BY <1>1, <1>2, <1>3, <2>1 DEF Exists
  <2>2. CASE o1 /= o /\ o2 /= o
    BY <1>6, <2>1, <2>2 DEF AllLinked
  <2> QED BY <1>1, <1>6, <2>1, <2>2
<1> QED BY <1>4, <1>5, <1>6 DEF AllLinked

LEMMA SubmittedLinked ==
    ASSUME AllLinked, NEW k \in Keys, Submitted(k)
    PROVE  AllLinked'
<1>1. /\ offerings' = offerings /\ KeepsContext(k)
      /\ attempts[k].state = "PREPARED" /\ attempts'[k].state = "SUBMITTED"
      /\ attempts'[k].verified = attempts[k].verified
      /\ attempts'[k].candidate \in Candidates /\ attempts'[k].asset \in Assets
      /\ \A i \in Keys : i /= k => attempts'[i] = attempts[i]
  BY DEF Submitted, OnlyAttempt
<1>2. ASSUME NEW p \in Offerings, Exists(p)' PROVE Linked(p)'
  <2>1. Exists(p) /\ Linked(p)
    BY <1>1, <1>2 DEF AllLinked, Exists
  <2>2. CASE offerings[p].attempt = k
    BY <1>1, <2>1, <2>2 DEF Linked, Backed, Exists, AttemptOf, InContext, KeepsContext
  <2>3. CASE offerings[p].attempt /= k /\ offerings[p].state /= "DRAFT"
    BY <1>1, <2>1, <2>3 DEF Linked, Backed, Exists, AttemptOf, InContext
  <2>4. CASE offerings[p].state = "DRAFT"
    BY <1>1, <2>1, <2>4 DEF Linked, Backed, Exists
  <2> QED BY <2>2, <2>3, <2>4
<1>3. ASSUME NEW i \in Keys, attempts'[i] /= None PROVE AttemptFormed(i)'
  <2>1. attempts[i] /= None
    BY <1>1, <1>3 DEF KeepsContext
  <2>2. AttemptFormed(i)
    BY <2>1 DEF AllLinked
  <2> QED BY <1>1, <2>2 DEF AttemptFormed, Exists
<1>4. ASSUME NEW o1 \in Offerings, NEW o2 \in Offerings, Exists(o1)', Exists(o2)',
             offerings'[o1].attempt /= None, offerings'[o1].attempt = offerings'[o2].attempt
      PROVE  o1 = o2
  BY <1>1, <1>4 DEF AllLinked, Exists
<1> QED BY <1>2, <1>3, <1>4 DEF AllLinked

LEMMA BackedLinked ==
    ASSUME LifecycleConstants, AllLinked, NEW o \in Offerings, NEW k \in Keys, BackedBy(o, k)
    PROVE  AllLinked'
<1>1. /\ KeepsTerms(o) /\ offerings[o].attempt = k /\ offerings[o].state /= "DRAFT"
      /\ offerings'[o].state = "READY" /\ offerings'[o].attempt = k
      /\ offerings'[o].asset = attempts'[k].asset
      /\ KeepsContext(k) /\ attempts'[k].state = "SUBMITTED"
      /\ attempts'[k].candidate \in Candidates /\ attempts'[k].asset \in Assets
      /\ o \notin Tools => attempts'[k].verified = attempts[k].verified
      /\ \A p \in Offerings : p /= o => offerings'[p] = offerings[p]
      /\ \A i \in Keys : i /= k => attempts'[i] = attempts[i]
  BY DEF BackedBy, OnlyOffering, OnlyAttempt
<1>2. Exists(o) /\ Linked(o) /\ None \notin Keys
  BY <1>1 DEF KeepsTerms, AllLinked, LifecycleConstants
<1>3. ASSUME NEW p \in Offerings, p /= o, Exists(p)
      PROVE  offerings[p].attempt /= k
  BY <1>1, <1>2, <1>3 DEF AllLinked
<1>4. ASSUME NEW p \in Offerings, Exists(p)' PROVE Linked(p)'
  <2>1. CASE p = o
    BY <1>1, <1>2, <2>1 DEF Linked, Backed, Exists, AttemptOf, InContext, KeepsTerms, KeepsContext
  <2>2. CASE p /= o
    <3>1. Exists(p) /\ Linked(p) /\ offerings'[p] = offerings[p] /\ offerings[p].attempt /= k
      BY <1>1, <1>3, <1>4, <2>2 DEF AllLinked, Exists
    <3>2. offerings[p].state /= "DRAFT" => AttemptOf(p)' = AttemptOf(p)
      BY <1>1, <3>1 DEF Linked, AttemptOf
    <3> QED BY <3>1, <3>2 DEF Linked, Backed, Exists, InContext
  <2> QED BY <2>1, <2>2
<1>5. ASSUME NEW i \in Keys, attempts'[i] /= None PROVE AttemptFormed(i)'
  <2>1. attempts[i] /= None
    BY <1>1, <1>5 DEF KeepsContext
  <2>2. AttemptFormed(i)
    BY <2>1 DEF AllLinked
  <2>3. PICK p \in Offerings : Exists(p) /\ offerings[p].attempt = i
    BY <2>2 DEF AttemptFormed
  <2>4. Exists(p)' /\ offerings'[p].attempt = i
    BY <1>1, <2>3 DEF Exists, KeepsTerms
  <2>5. CASE i = k
    BY <1>1, <2>4, <2>5 DEF AttemptFormed
  <2>6. CASE i /= k
    BY <1>1, <2>2, <2>4, <2>6 DEF AttemptFormed
  <2> QED BY <2>5, <2>6
<1>6. ASSUME NEW o1 \in Offerings, NEW o2 \in Offerings, Exists(o1)', Exists(o2)',
             offerings'[o1].attempt /= None, offerings'[o1].attempt = offerings'[o2].attempt
      PROVE  o1 = o2
  <2>1. /\ Exists(o1) /\ offerings'[o1].attempt = offerings[o1].attempt
        /\ Exists(o2) /\ offerings'[o2].attempt = offerings[o2].attempt
    BY <1>1, <1>2, <1>6 DEF Exists
  <2> QED BY <1>6, <2>1 DEF AllLinked
<1> QED BY <1>4, <1>5, <1>6 DEF AllLinked

LEMMA OpenLinked ==
    ASSUME AllLinked, NEW o \in Offerings, NEW d, Opened(o, d)
    PROVE  AllLinked'
<1>1. /\ KeepsTerms(o) /\ offerings[o].state = "READY" /\ offerings'[o].state = "OPEN"
      /\ offerings'[o].attempt = offerings[o].attempt /\ offerings'[o].asset = offerings[o].asset
      /\ attempts' = attempts
      /\ \A p \in Offerings : p /= o => offerings'[p] = offerings[p]
  BY DEF Opened, OnlyOffering
<1>2. Exists(o) /\ Linked(o)
  BY <1>1 DEF KeepsTerms, AllLinked
<1>3. ASSUME NEW p \in Offerings, Exists(p)' PROVE Linked(p)'
  <2>1. CASE p = o
    BY <1>1, <1>2, <2>1 DEF Linked, Backed, Exists, AttemptOf, InContext, KeepsTerms
  <2>2. CASE p /= o
    <3>1. Exists(p) /\ Linked(p)
      BY <1>1, <1>3, <2>2 DEF AllLinked, Exists
    <3> QED BY <1>1, <2>2, <3>1 DEF Linked, Backed, Exists, AttemptOf, InContext
  <2> QED BY <2>1, <2>2
<1>4. ASSUME NEW p \in Offerings
      PROVE  /\ Exists(p)' <=> Exists(p)
             /\ Exists(p) => offerings'[p].attempt = offerings[p].attempt
  BY <1>1, <1>2 DEF Exists, KeepsTerms
<1>5. ASSUME NEW k \in Keys, attempts'[k] /= None PROVE AttemptFormed(k)'
  <2>1. AttemptFormed(k)
    BY <1>1, <1>5 DEF AllLinked
  <2>2. PICK p \in Offerings : Exists(p) /\ offerings[p].attempt = k
    BY <2>1 DEF AttemptFormed
  <2>3. Exists(p)' /\ offerings'[p].attempt = k
    BY <1>4, <2>2
  <2> QED BY <1>1, <2>1, <2>3 DEF AttemptFormed
<1>6. ASSUME NEW o1 \in Offerings, NEW o2 \in Offerings, Exists(o1)', Exists(o2)',
             offerings'[o1].attempt /= None, offerings'[o1].attempt = offerings'[o2].attempt
      PROVE  o1 = o2
  BY <1>4, <1>6 DEF AllLinked
<1> QED BY <1>3, <1>5, <1>6 DEF AllLinked

-----------------------------------------------------------------------------
(* What backs an offering                                                  *)

KeptBacking(p) ==
    /\ Backed(p)' <=> Backed(p)
    /\ Backed(p) =>
          /\ offerings'[p].attempt = offerings[p].attempt
          /\ offerings'[p].asset = offerings[p].asset
          /\ offerings'[p].payload = offerings[p].payload
          /\ AttemptOf(p)'.candidate = AttemptOf(p).candidate
          /\ AttemptOf(p)'.verified = AttemptOf(p).verified

LEMMA SameBacking ==
    ASSUME NEW p \in Offerings, offerings'[p] = offerings[p],
           AllLinked, Exists(p) /\ offerings[p].attempt \in Keys =>
              attempts'[offerings[p].attempt] = attempts[offerings[p].attempt]
    PROVE  KeptBacking(p)
<1>1. Backed(p) => offerings[p].attempt \in Keys
  BY DEF AllLinked, Linked, Backed
<1> QED BY <1>1 DEF KeptBacking, Backed, Exists, AttemptOf

LEMMA DraftBacking ==
    ASSUME AllLinked, NEW o \in Offerings, Drafted(o), NEW p \in Offerings
    PROVE  KeptBacking(p)
<1>1. CASE p = o
  BY <1>1 DEF Drafted, KeptBacking, Backed, Exists
<1>2. CASE p /= o
  BY <1>2, SameBacking DEF Drafted, OnlyOffering
<1> QED BY <1>1, <1>2

LEMMA PendingBacking ==
    ASSUME AllLinked, NEW o \in Offerings, NEW k \in Keys, Pended(o, k), NEW p \in Offerings
    PROVE  KeptBacking(p)
<1>1. CASE p = o
  BY <1>1 DEF Pended, KeptBacking, Backed, Exists, KeepsTerms
<1>2. CASE p /= o
  <2>1. Backed(p) => offerings[p].attempt \in Keys /\ offerings[p].attempt /= k
    BY DEF AllLinked, Linked, Backed, AttemptOf, Pended
  <2>2. offerings'[p] = offerings[p]
    BY <1>2 DEF Pended, OnlyOffering
  <2>3. \A i \in Keys : i /= k => attempts'[i] = attempts[i]
    BY DEF Pended, OnlyAttempt
  <2> QED BY <2>1, <2>2, <2>3 DEF KeptBacking, Backed, Exists, AttemptOf
<1> QED BY <1>1, <1>2

LEMMA SubmittedBacking ==
    ASSUME AllLinked, NEW k \in Keys, Submitted(k), NEW p \in Offerings
    PROVE  KeptBacking(p)
<1>1. Backed(p) => offerings[p].attempt \in Keys /\ offerings[p].attempt /= k
  BY DEF AllLinked, Linked, Backed, AttemptOf, Submitted
<1>2. offerings' = offerings /\ \A i \in Keys : i /= k => attempts'[i] = attempts[i]
  BY DEF Submitted, OnlyAttempt
<1> QED BY <1>1, <1>2 DEF KeptBacking, Backed, Exists, AttemptOf

LEMMA OpenBacking ==
    ASSUME NEW o \in Offerings, NEW d, Opened(o, d), NEW p \in Offerings
    PROVE  KeptBacking(p)
<1>1. CASE p = o
  BY <1>1 DEF Opened, KeepsTerms, KeptBacking, Backed, Exists, AttemptOf
<1>2. CASE p /= o
  BY <1>2 DEF Opened, OnlyOffering, KeptBacking, Backed, Exists, AttemptOf
<1> QED BY <1>1, <1>2

LEMMA OtherBacking ==
    ASSUME AllLinked, NEW o \in Offerings, NEW k \in Keys, BackedBy(o, k),
           NEW p \in Offerings, p /= o
    PROVE  KeptBacking(p)
<1>1. offerings'[p] = offerings[p] /\ Exists(o) /\ offerings[o].attempt = k
  BY DEF BackedBy, OnlyOffering, KeepsTerms
<1>2. Exists(p) /\ offerings[p].attempt \in Keys => offerings[p].attempt /= k \/ k = None
  BY <1>1 DEF AllLinked
<1>3. Backed(p) => offerings[p].attempt \in Keys /\ AttemptOf(p) /= None
  BY DEF AllLinked, Linked, Backed
<1>4. k /= None
  BY <1>1 DEF AllLinked, Linked, BackedBy
<1>5. \A i \in Keys : i /= k => attempts'[i] = attempts[i]
  BY DEF BackedBy, OnlyAttempt
<1> QED BY <1>1, <1>2, <1>4, <1>5, SameBacking

LEMMA KeptBound ==
    ASSUME AllBound, UNCHANGED bindings, \A p \in Offerings : KeptBacking(p)
    PROVE  AllBound'
<1>1. BindingsExclusive'
  BY DEF AllBound, BindingsExclusive, Bindable
<1>2. ASSUME NEW p \in Offerings, Backed(p)' PROVE BindingOf(p)' \in bindings'
  <2>1. Backed(p) /\ BindingOf(p) \in bindings
    BY <1>2 DEF KeptBacking, AllBound
  <2>2. BindingOf(p)' = BindingOf(p)
    BY <2>1 DEF KeptBacking, BindingOf
  <2> QED BY <2>1, <2>2
<1> QED BY <1>1, <1>2 DEF AllBound

LEMMA KeptDeployment ==
    ASSUME Growing, NEW t \in Tools, KeptBacking(t), Backed(t), DeployedByOwner(t)
    PROVE  DeployedByOwner(t)'
  BY DEF Growing, KeptBacking, DeployedByOwner

LEMMA KeptCorroborated ==
    ASSUME AllCorroborated, Growing, \A p \in Offerings : KeptBacking(p)
    PROVE  AllCorroborated'
<1>1. ASSUME NEW t \in Tools, Backed(t)' PROVE DeployedByOwner(t)'
  <2>1. KeptBacking(t)
    BY DEF Offerings
  <2>2. Backed(t) /\ DeployedByOwner(t)
    BY <1>1, <2>1 DEF KeptBacking, AllCorroborated
  <2> QED BY <2>1, <2>2, KeptDeployment
<1> QED BY <1>1 DEF AllCorroborated

\* A new claim on a transaction, a hash or an asset is nobody else's.
LEMMA BackedBound ==
    ASSUME AllLinked, AllBound, NEW o \in Offerings, NEW k \in Keys, BackedBy(o, k)
    PROVE  AllBound'
<1> DEFINE b == [offering |-> o, attempt |-> k, txn |-> attempts'[k].candidate.txn,
                 hash |-> attempts'[k].verified, asset |-> attempts'[k].asset]
<1>1. Bindable(b) /\ bindings' = bindings \cup {b}
  BY DEF BackedBy, ClaimBinding
<1>2. BindingOf(o)' = b
  BY DEF BackedBy, BindingOf, AttemptOf
<1> HIDE DEF b
<1>3. BindingsExclusive'
  <2>1. \A x, y \in bindings \cup {b} :
           \/ y.txn = x.txn
           \/ x.hash /= None /\ y.hash = x.hash
           \/ y.asset = x.asset
           => y = x
    BY <1>1 DEF AllBound, BindingsExclusive, Bindable
  <2> QED BY <1>1, <2>1 DEF BindingsExclusive, Bindable
<1>4. ASSUME NEW p \in Offerings, Backed(p)' PROVE BindingOf(p)' \in bindings'
  <2>1. CASE p = o
    BY <1>1, <1>2, <2>1
  <2>2. CASE p /= o
    <3>1. KeptBacking(p)
      BY <2>2, OtherBacking
    <3>2. Backed(p) /\ BindingOf(p) \in bindings
      BY <1>4, <3>1 DEF KeptBacking, AllBound
    <3>3. BindingOf(p)' = BindingOf(p)
      BY <3>1, <3>2 DEF KeptBacking, BindingOf
    <3> QED BY <1>1, <3>2, <3>3
  <2> QED BY <2>1, <2>2
<1> QED BY <1>3, <1>4 DEF AllBound

LEMMA BackedCorroborated ==
    ASSUME AllLinked, AllCorroborated, NEW o \in Offerings, NEW k \in Keys, BackedBy(o, k)
    PROVE  AllCorroborated'
<1>1. ASSUME NEW t \in Tools, Backed(t)' PROVE DeployedByOwner(t)'
  <2>1. CASE t = o
    BY <2>1 DEF BackedBy
  <2>2. CASE t /= o
    <3>1. KeptBacking(t) /\ Growing
      BY <2>2, OtherBacking DEF BackedBy, Offerings
    <3>2. Backed(t) /\ DeployedByOwner(t)
      BY <1>1, <3>1 DEF KeptBacking, AllCorroborated
    <3> QED BY <3>1, <3>2, KeptDeployment
  <2> QED BY <2>1, <2>2
<1> QED BY <1>1 DEF AllCorroborated

-----------------------------------------------------------------------------
(* Versions in force                                                       *)

KeptListing(p) ==
    /\ Exists(p) => /\ Exists(p)' /\ offerings'[p].directory = offerings[p].directory
                    /\ offerings'[p].state = "OPEN" <=> offerings[p].state = "OPEN"
    /\ ~Exists(p) /\ Exists(p)' => /\ offerings'[p].directory = None
                                   /\ offerings'[p].state /= "OPEN"

LEMMA SomeActive ==
    ASSUME NEW slug
    PROVE  ActiveFor(slug) /= {} <=> \E e \in Directories : InForce(e) /\ Slug(e[1]) = slug
  BY DEF ActiveFor, InForce

LEMMA KeptListed ==
    ASSUME AllListed, UNCHANGED directories, \A p \in Offerings : KeptListing(p)
    PROVE  AllListed'
<1>1. ASSUME NEW p \in Offerings, Exists(p)'
      PROVE  /\ offerings'[p].state = "OPEN" <=> offerings'[p].directory /= None
             /\ offerings'[p].directory /= None =>
                   /\ offerings'[p].directory[1] = p /\ Published(offerings[p].directory)
                   /\ Exists(p) /\ offerings'[p].directory = offerings[p].directory
                   /\ ActiveFor(Slug(p)) /= {}
  BY <1>1 DEF AllListed, KeptListing
<1>2. \A slug : ActiveFor(slug)' = ActiveFor(slug)
  BY DEF ActiveFor, Published
<1>3. ASSUME NEW d \in Directories, InForce(d)' PROVE Exists(d[1])' /\ offerings'[d[1]].directory = d
  <2>1. d[1] \in Offerings
    BY DEF Directories
  <2>2. Exists(d[1]) /\ offerings[d[1]].directory = d
    BY <1>3 DEF InForce, Published, AllListed
  <2> QED BY <2>1, <2>2 DEF KeptListing
<1>4. ASSUME NEW d \in Directories, NEW e \in Directories, InForce(d)', InForce(e)',
             Slug(d[1]) = Slug(e[1])
      PROVE  d = e
  BY <1>4 DEF InForce, Published, AllListed
<1> QED BY <1>1, <1>2, <1>3, <1>4 DEF AllListed, Published

LEMMA MovesKeepListing ==
    ASSUME NEW o \in Offerings, NEW k \in Keys,
           Drafted(o) \/ Pended(o, k) \/ BackedBy(o, k), NEW p \in Offerings
    PROVE  KeptListing(p)
<1>1. CASE Drafted(o)
  BY <1>1 DEF Drafted, OnlyOffering, KeptListing, Exists
<1>2. CASE Pended(o, k)
  BY <1>2 DEF Pended, OnlyOffering, KeptListing, Exists, KeepsTerms
<1>3. CASE BackedBy(o, k)
  BY <1>3 DEF BackedBy, OnlyOffering, KeptListing, Exists, KeepsTerms
<1> QED BY <1>1, <1>2, <1>3

LEMMA OpenListed ==
    ASSUME LifecycleConstants, OfferTypeOK, AllListed, NEW o \in Offerings, NEW d, Opened(o, d)
    PROVE  AllListed'
<1>1. /\ Exists(o) /\ Exists(o)' /\ offerings'[o].state = "OPEN" /\ offerings'[o].directory = d
      /\ d \in Directories /\ d[1] = o /\ d /= None
      /\ \A p \in Offerings : p /= o => offerings'[p] = offerings[p]
  BY DEF Opened, OnlyOffering, KeepsTerms, Exists, LifecycleConstants
<1>2. ASSUME NEW e \in Directories
      PROVE  /\ Published(e)' <=> Published(e) \/ e = d
             /\ InForce(e)' <=> e = d \/ (InForce(e) /\ Slug(e[1]) /= Slug(o))
  BY DEF Opened, Published, InForce
<1>3. ASSUME NEW p \in Offerings, ActiveFor(Slug(p)) /= {} \/ Slug(p) = Slug(o)
      PROVE  ActiveFor(Slug(p))' /= {}
  <2>1. CASE Slug(p) = Slug(o)
    <3>1. InForce(d)' /\ Slug(d[1]) = Slug(p)
      BY <1>1, <1>2, <2>1
    <3> QED BY <1>1, <3>1 DEF ActiveFor, InForce
  <2>2. CASE Slug(p) /= Slug(o)
    <3>1. PICK e \in Directories : InForce(e) /\ Slug(e[1]) = Slug(p)
      BY <1>3, <2>2, SomeActive
    <3>2. InForce(e)'
      BY <1>2, <2>2, <3>1
    <3> QED BY <3>1, <3>2 DEF ActiveFor, InForce
  <2> QED BY <2>1, <2>2
<1>4. ASSUME NEW p \in Offerings, Exists(p)'
      PROVE  /\ offerings'[p].state = "OPEN" <=> offerings'[p].directory /= None
             /\ offerings'[p].directory /= None =>
                   /\ offerings'[p].directory[1] = p /\ Published(offerings[p].directory)'
                   /\ offerings'[p].directory \in Directories
                   /\ directories'[offerings'[p].directory] /= None
                   /\ ActiveFor(Slug(p))' /= {}
  <2>1. CASE p = o
    BY <1>1, <1>2, <1>3, <2>1 DEF Published
  <2>2. CASE p /= o
    <3>1. Exists(p) /\ offerings'[p] = offerings[p] /\ offerings[p] \in Offering
      BY <1>1, <1>4, <2>2, OfferingFields DEF Exists
    <3>2. offerings[p].directory \in Directories \cup {None}
      BY <3>1 DEF Offering
    <3> QED BY <1>2, <1>3, <3>1, <3>2 DEF AllListed, Published
  <2> QED BY <2>1, <2>2
<1>5. ASSUME NEW e \in Directories, InForce(e)' PROVE Exists(e[1])' /\ offerings'[e[1]].directory = e
  <2>1. e[1] \in Offerings
    BY DEF Directories
  <2>2. CASE e = d
    BY <1>1, <2>2
  <2>3. CASE e /= d
    <3>1. InForce(e) /\ Slug(e[1]) /= Slug(o)
      BY <1>2, <1>5, <2>3
    <3>2. Exists(e[1]) /\ offerings[e[1]].directory = e /\ e[1] /= o
      BY <3>1 DEF AllListed
    <3> QED BY <1>1, <2>1, <3>2 DEF Exists
  <2> QED BY <2>2, <2>3
<1>6. ASSUME NEW e \in Directories, NEW f \in Directories, InForce(e)', InForce(f)',
             Slug(e[1]) = Slug(f[1])
      PROVE  e = f
  BY <1>1, <1>2, <1>6 DEF AllListed
<1> QED BY <1>4, <1>5, <1>6 DEF AllListed, Published

-----------------------------------------------------------------------------
(* One answer NEW for each row                                             *)

IsSubmitted(k) == attempts[k] /= None /\ attempts[k].state = "SUBMITTED"

LEMMA RowTypes ==
    ASSUME NEW c \in ClaimRow, c.outcome = "NEW"
    PROVE  \/ c.type = "offering.create" /\ c.target \in Offerings
           \/ c.type = "external.prepare" /\ c.target \in Keys
           \/ c.type = "external.attachCandidate" /\ c.target \in Keys
           \/ c.type = "directory.publish" /\ c.target \in Directories
  BY DEF ClaimRow

\* No table gains a row, or one table gains one that it did not have.
LEMMA SameCount ==
    ASSUME OneNewClaim, NoNewClaim,
           \A o \in Offerings : Exists(o)' <=> Exists(o),
           \A k \in Keys : attempts'[k] /= None <=> attempts[k] /= None,
           \A k \in Keys : IsSubmitted(k)' <=> IsSubmitted(k),
           \A d \in Directories : Published(d)' <=> Published(d)
    PROVE  OneNewClaim'
<1> SUFFICES ASSUME NEW c \in ClaimRow, c.outcome = "NEW"
             PROVE  claims'[c] =
                CASE c.type = "offering.create" -> IF Exists(c.target)' THEN 1 ELSE 0
                  [] c.type = "external.prepare" -> IF attempts'[c.target] /= None THEN 1 ELSE 0
                  [] c.type = "external.attachCandidate" -> IF IsSubmitted(c.target)' THEN 1 ELSE 0
                  [] OTHER -> IF Published(c.target)' THEN 1 ELSE 0
  BY DEF OneNewClaim, IsSubmitted
<1>1. claims'[c] = claims[c]
  BY DEF NoNewClaim
<1>2. claims[c] =
        CASE c.type = "offering.create" -> IF Exists(c.target) THEN 1 ELSE 0
          [] c.type = "external.prepare" -> IF attempts[c.target] /= None THEN 1 ELSE 0
          [] c.type = "external.attachCandidate" -> IF IsSubmitted(c.target) THEN 1 ELSE 0
          [] OTHER -> IF Published(c.target) THEN 1 ELSE 0
  BY DEF OneNewClaim, IsSubmitted
<1> QED BY <1>1, <1>2, RowTypes DEF Exists, IsSubmitted, Published

LEMMA OneMoreCount ==
    ASSUME OneNewClaim, NEW type, NEW x, NewClaim(type, x),
           \A o \in Offerings : Exists(o)' <=> Exists(o) \/ (type = "offering.create" /\ o = x),
           \A k \in Keys : attempts'[k] /= None <=>
                              attempts[k] /= None \/ (type = "external.prepare" /\ k = x),
           \A k \in Keys : IsSubmitted(k)' <=>
                              IsSubmitted(k) \/ (type = "external.attachCandidate" /\ k = x),
           \A d \in Directories : Published(d)' <=>
                              Published(d) \/ (type = "directory.publish" /\ d = x),
           type = "offering.create" => ~Exists(x),
           type = "external.prepare" => attempts[x] = None,
           type = "external.attachCandidate" => ~IsSubmitted(x),
           type = "directory.publish" => ~Published(x)
    PROVE  OneNewClaim'
<1> SUFFICES ASSUME NEW c \in ClaimRow, c.outcome = "NEW"
             PROVE  claims'[c] =
                CASE c.type = "offering.create" -> IF Exists(c.target)' THEN 1 ELSE 0
                  [] c.type = "external.prepare" -> IF attempts'[c.target] /= None THEN 1 ELSE 0
                  [] c.type = "external.attachCandidate" -> IF IsSubmitted(c.target)' THEN 1 ELSE 0
                  [] OTHER -> IF Published(c.target)' THEN 1 ELSE 0
  BY DEF OneNewClaim, IsSubmitted
<1>1. claims'[c] = IF c.type = type /\ c.target = x THEN claims[c] + 1 ELSE claims[c]
  BY DEF NewClaim
<1>2. claims[c] =
        CASE c.type = "offering.create" -> IF Exists(c.target) THEN 1 ELSE 0
          [] c.type = "external.prepare" -> IF attempts[c.target] /= None THEN 1 ELSE 0
          [] c.type = "external.attachCandidate" -> IF IsSubmitted(c.target) THEN 1 ELSE 0
          [] OTHER -> IF Published(c.target) THEN 1 ELSE 0
  BY DEF OneNewClaim, IsSubmitted
<1>3. CASE c.type = "offering.create" /\ c.target \in Offerings
  BY <1>1, <1>2, <1>3 DEF Exists
<1>4. CASE c.type = "external.prepare" /\ c.target \in Keys
  BY <1>1, <1>2, <1>4
<1>5. CASE c.type = "external.attachCandidate" /\ c.target \in Keys
  BY <1>1, <1>2, <1>5 DEF IsSubmitted
<1>6. CASE c.type = "directory.publish" /\ c.target \in Directories
  BY <1>1, <1>2, <1>6 DEF Published
<1> QED BY <1>3, <1>4, <1>5, <1>6, RowTypes

LEMMA DraftCounted ==
    ASSUME OneNewClaim, NEW o \in Offerings, Drafted(o), NewClaim("offering.create", o)
    PROVE  OneNewClaim'
<1>1. \A p \in Offerings : Exists(p)' <=> Exists(p) \/ p = o
  BY DEF Drafted, OnlyOffering, Exists
<1>2. attempts' = attempts /\ directories' = directories /\ ~Exists(o)
  BY DEF Drafted
<1> QED BY <1>1, <1>2, OneMoreCount DEF IsSubmitted, Published, Exists

LEMMA PendingCounted ==
    ASSUME OneNewClaim, NEW o \in Offerings, NEW k \in Keys, Pended(o, k),
           NewClaim("external.prepare", k)
    PROVE  OneNewClaim'
<1>1. \A p \in Offerings : Exists(p)' <=> Exists(p)
  BY DEF Pended, OnlyOffering, KeepsTerms, Exists
<1>2. \A i \in Keys : /\ attempts'[i] /= None <=> attempts[i] /= None \/ i = k
                      /\ IsSubmitted(i)' <=> IsSubmitted(i)
  BY DEF Pended, OnlyAttempt, IsSubmitted
<1>3. directories' = directories /\ attempts[k] = None
  BY DEF Pended
<1> QED BY <1>1, <1>2, <1>3, OneMoreCount DEF IsSubmitted, Published, Exists

LEMMA AttachCounted ==
    ASSUME OneNewClaim, NEW k \in Keys, attempts[k].state = "PREPARED",
           Submitted(k) \/ SomeBackedBy(k), NewClaim("external.attachCandidate", k)
    PROVE  OneNewClaim'
<1>1. \A p \in Offerings : Exists(p)' <=> Exists(p)
  BY DEF Submitted, SomeBackedBy, BackedBy, OnlyOffering, KeepsTerms, Exists
<1>2. \A i \in Keys : /\ attempts'[i] /= None <=> attempts[i] /= None
                      /\ IsSubmitted(i)' <=> IsSubmitted(i) \/ i = k
  BY DEF Submitted, SomeBackedBy, BackedBy, OnlyAttempt, KeepsContext, IsSubmitted
<1>3. directories' = directories /\ ~IsSubmitted(k)
  BY DEF Submitted, SomeBackedBy, BackedBy, IsSubmitted
<1> QED BY <1>1, <1>2, <1>3, OneMoreCount DEF IsSubmitted, Published, Exists

LEMMA RepairCounted ==
    ASSUME OneNewClaim, NEW k \in Keys, attempts[k].state = "SUBMITTED",
           SomeBackedBy(k), NoNewClaim
    PROVE  OneNewClaim'
<1>1. \A p \in Offerings : Exists(p)' <=> Exists(p)
  BY DEF SomeBackedBy, BackedBy, OnlyOffering, KeepsTerms, Exists
<1>2. \A i \in Keys : /\ attempts'[i] /= None <=> attempts[i] /= None
                      /\ IsSubmitted(i)' <=> IsSubmitted(i)
  BY DEF SomeBackedBy, BackedBy, OnlyAttempt, KeepsContext, IsSubmitted
<1>3. directories' = directories
  BY DEF SomeBackedBy, BackedBy
<1> QED BY <1>1, <1>2, <1>3, SameCount DEF IsSubmitted, Published, Exists

LEMMA OpenCounted ==
    ASSUME OneNewClaim, NEW o \in Offerings, NEW d, Opened(o, d), NewClaim("directory.publish", d)
    PROVE  OneNewClaim'
<1>1. \A p \in Offerings : Exists(p)' <=> Exists(p)
  BY DEF Opened, OnlyOffering, KeepsTerms, Exists
<1>2. attempts' = attempts /\ ~Published(d)
  BY DEF Opened
<1>3. \A e \in Directories : Published(e)' <=> Published(e) \/ e = d
  BY DEF Opened, Published
<1> QED BY <1>1, <1>2, <1>3, OneMoreCount DEF IsSubmitted, Published, Exists

-----------------------------------------------------------------------------
(* Every step                                                              *)

LEMMA OfferInvInit == ToolConstants /\ LifecycleConstants /\ OfferInit => OfferInv
<1> SUFFICES ASSUME ToolConstants, LifecycleConstants, OfferInit PROVE OfferInv
  OBVIOUS
<1>1. /\ ToolTypeOK /\ bindings = {} /\ directories = [d \in Directories |-> None]
      /\ ledger = [t \in Txns |-> None] /\ jobs = [j \in Jobs |-> None]
  BY ToolInvInit DEF OfferInit, ToolInv
<1>2. PICK keyOf \in [HistoricPending -> Keys], p \in Payloads :
        /\ \A o1, o2 \in HistoricPending : o1 /= o2 => keyOf[o1] /= keyOf[o2]
        /\ offerings = [o \in Offerings |->
              IF o \notin HistoricPending THEN None
              ELSE [signer |-> StageBIssuer, identity |-> "AUTHORITY", payload |-> p,
                    state |-> "ASSET_PENDING", attempt |-> keyOf[o],
                    asset |-> None, directory |-> None]]
        /\ attempts \in [Keys -> {None} \cup
              [signer : {StageBIssuer}, identity : {"AUTHORITY"}, subject : {RiskScan},
               payload : {None}, state : {"SUBMITTED"}, candidate : Candidates,
               asset : Assets, verified : {None}]]
        /\ \A k \in Keys : attempts[k] /= None <=> \E o \in HistoricPending : keyOf[o] = k
        /\ claims = [c \in ClaimRow |->
              IF /\ c.outcome = "NEW"
                 /\ \/ c.type = "offering.create" /\ c.target \in HistoricPending
                    \/ /\ c.type \in {"external.prepare", "external.attachCandidate"}
                       /\ \E o \in HistoricPending : c.target = keyOf[o]
              THEN 1 ELSE 0]
  BY DEF OfferInit
<1>3. /\ HistoricPending \subseteq Offerings /\ HistoricPending \cap Tools = {}
      /\ None \notin Keys /\ None \notin Offering
  BY DEF LifecycleConstants, Offerings
<1>4. ASSUME NEW o \in HistoricPending
      PROVE  /\ Exists(o) /\ offerings[o] \in Offering /\ offerings[o].state = "ASSET_PENDING"
             /\ offerings[o].attempt = keyOf[o] /\ offerings[o].directory = None
             /\ offerings[o].signer = StageBIssuer /\ offerings[o].identity = "AUTHORITY"
             /\ keyOf[o] \in Keys /\ attempts[keyOf[o]] /= None
  <2>1. StageBIssuer \in Signers
    BY <1>4 DEF LifecycleConstants
  <2>2. keyOf[o] \in Keys /\ attempts[keyOf[o]] /= None
    BY <1>2
  <2> DEFINE r == [signer |-> StageBIssuer, identity |-> "AUTHORITY", payload |-> p,
                   state |-> "ASSET_PENDING", attempt |-> keyOf[o],
                   asset |-> None, directory |-> None]
  <2>3. r \in Offering
    BY <2>1, <2>2 DEF Offering, OfferingState, Identities
  <2>4. offerings[o] = r
    BY <1>2, <1>3
  <2> QED BY <1>3, <2>2, <2>3, <2>4 DEF Exists
<1>5. ASSUME NEW k \in Keys, attempts[k] /= None
      PROVE  /\ attempts[k].signer = StageBIssuer /\ attempts[k].identity = "AUTHORITY"
             /\ attempts[k].subject = RiskScan /\ attempts[k].state = "SUBMITTED"
             /\ attempts[k].candidate \in Candidates /\ attempts[k].asset \in Assets
             /\ attempts[k].verified = None
  BY <1>2, <1>5
<1>6. HistoricPending /= {} => StageBIssuer \in Signers
  BY DEF LifecycleConstants
<1>7. ASSUME NEW o \in Offerings, Exists(o)
      PROVE  /\ o \in HistoricPending /\ o \notin Tools /\ ~Backed(o)
             /\ offerings[o] \in Offering /\ offerings[o].state = "ASSET_PENDING"
             /\ offerings[o].attempt = keyOf[o] /\ keyOf[o] \in Keys
             /\ offerings[o].directory = None
             /\ offerings[o].signer = StageBIssuer /\ offerings[o].identity = "AUTHORITY"
             /\ AttemptOf(o) /= None
  <2>1. o \in HistoricPending /\ o \notin Tools
    BY <1>2, <1>3, <1>7 DEF Exists
  <2> QED BY <1>4, <2>1 DEF Backed, AttemptOf
<1>8. OfferTypeOK
  <2>1. offerings \in [Offerings -> Offering \cup {None}]
    BY <1>2, <1>7 DEF Exists
  <2>2. ASSUME NEW k \in Keys, attempts[k] /= None PROVE attempts[k] \in Attempt
    <3>1. attempts[k] \in
              [signer : {StageBIssuer}, identity : {"AUTHORITY"}, subject : {RiskScan},
               payload : {None}, state : {"SUBMITTED"}, candidate : Candidates,
               asset : Assets, verified : {None}]
      BY <1>2, <2>2
    <3>2. StageBIssuer \in Signers
      BY <1>2, <1>6, <2>2
    <3> QED BY <3>1, <3>2 DEF Attempt, Identities, Subjects
  <2>3. attempts \in [Keys -> Attempt \cup {None}]
    BY <1>2, <2>2
  <2>4. claims \in [ClaimRow -> Nat]
    BY <1>2
  <2> QED BY <1>1, <2>1, <2>3, <2>4 DEF OfferTypeOK
<1>9. AllLinked
  <2>1. ASSUME NEW o \in Offerings, Exists(o) PROVE Linked(o)
    BY <1>3, <1>5, <1>7, <2>1 DEF Linked, AttemptOf, InContext, Subject
  <2>2. ASSUME NEW k \in Keys, attempts[k] /= None PROVE AttemptFormed(k)
    <3>1. PICK o \in HistoricPending : keyOf[o] = k
      BY <1>2, <2>2
    <3>2. o \in Offerings /\ Exists(o) /\ offerings[o].attempt = k
      BY <1>3, <1>4, <3>1
    <3> QED BY <1>5, <2>2, <3>2 DEF AttemptFormed
  <2>3. ASSUME NEW o1 \in Offerings, NEW o2 \in Offerings, Exists(o1), Exists(o2),
               offerings[o1].attempt /= None, offerings[o1].attempt = offerings[o2].attempt
        PROVE  o1 = o2
    <3>1. /\ o1 \in HistoricPending /\ offerings[o1].attempt = keyOf[o1]
          /\ o2 \in HistoricPending /\ offerings[o2].attempt = keyOf[o2]
      BY <1>7, <2>3
    <3> QED BY <1>2, <2>3, <3>1
  <2> QED BY <2>1, <2>2, <2>3 DEF AllLinked
<1>10. AllBound /\ AllCorroborated
  <2>1. ASSUME NEW o \in Offerings PROVE ~Backed(o)
    BY <1>7 DEF Backed
  <2> QED BY <1>1, <2>1 DEF AllBound, BindingsExclusive, AllCorroborated, Offerings
<1>11. AllListed
  <2>1. \A d \in Directories : ~InForce(d)
    BY <1>1 DEF InForce, Published
  <2> QED BY <1>7, <2>1 DEF AllListed
<1>12. OneNewClaim
  <2>1. \A o \in Offerings : Exists(o) <=> o \in HistoricPending
    <3>1. ASSUME NEW o \in HistoricPending PROVE Exists(o)
      BY <1>4
    <3> QED BY <1>7, <3>1
  <2>2. \A k \in Keys : /\ attempts[k] /= None <=> \E o \in HistoricPending : keyOf[o] = k
                        /\ attempts[k] /= None => attempts[k].state = "SUBMITTED"
    BY <1>2, <1>5
  <2>3. \A d \in Directories : ~Published(d)
    BY <1>1 DEF Published
  <2>4. ASSUME NEW c \in ClaimRow, c.outcome = "NEW"
        PROVE  claims[c] = CASE c.type = "offering.create" -> IF Exists(c.target) THEN 1 ELSE 0
                     [] c.type = "external.prepare" -> IF attempts[c.target] /= None THEN 1 ELSE 0
                     [] c.type = "external.attachCandidate" ->
                           IF attempts[c.target] /= None /\ attempts[c.target].state = "SUBMITTED"
                           THEN 1 ELSE 0
                     [] OTHER -> IF Published(c.target) THEN 1 ELSE 0
    <3>1. claims[c] =
              IF \/ c.type = "offering.create" /\ c.target \in HistoricPending
                 \/ /\ c.type \in {"external.prepare", "external.attachCandidate"}
                    /\ \E o \in HistoricPending : c.target = keyOf[o]
              THEN 1 ELSE 0
      BY <1>2, <2>4
    <3>2. CASE c.type = "offering.create" /\ c.target \in Offerings
      BY <2>1, <3>1, <3>2
    <3>3. CASE c.type = "external.prepare" /\ c.target \in Keys
      BY <2>2, <3>1, <3>3
    <3>4. CASE c.type = "external.attachCandidate" /\ c.target \in Keys
      BY <2>2, <3>1, <3>4
    <3>5. CASE c.type = "directory.publish" /\ c.target \in Directories
      BY <2>3, <3>1, <3>5
    <3> QED BY <2>4, <3>2, <3>3, <3>4, <3>5, RowTypes
  <2> QED BY <2>4 DEF OneNewClaim
<1> QED BY <1>8, <1>9, <1>10, <1>11, <1>12 DEF OfferInv

LEMMA UnmovedInv ==
    ASSUME OfferInv, OfferTypeOK', Unmoved, NoNewClaim
    PROVE  OfferInv'
<1>1. UNCHANGED <<offerings, attempts, bindings, directories>> /\ Growing
  BY DEF Unmoved
<1>2. \A p \in Offerings : KeptBacking(p)
  BY <1>1 DEF KeptBacking, Backed, Exists, AttemptOf
<1>3. \A p \in Offerings : KeptListing(p)
  BY <1>1 DEF KeptListing, Exists
<1>4. AllLinked'
  BY <1>1 DEF OfferInv, AllLinked, Linked, AttemptFormed, Exists, Backed, AttemptOf, InContext
<1>5. AllBound' /\ AllCorroborated' /\ AllListed'
  BY <1>1, <1>2, <1>3, KeptBound, KeptCorroborated, KeptListed DEF OfferInv
<1>6. OneNewClaim'
  <2>1. \A o \in Offerings : Exists(o)' <=> Exists(o)
    BY <1>1 DEF Exists
  <2>2. \A k \in Keys : IsSubmitted(k)' <=> IsSubmitted(k)
    BY <1>1 DEF IsSubmitted
  <2>3. \A d \in Directories : Published(d)' <=> Published(d)
    BY <1>1 DEF Published
  <2> QED BY <1>1, <2>1, <2>2, <2>3, SameCount DEF OfferInv
<1> QED BY <1>4, <1>5, <1>6 DEF OfferInv

LEMMA BackedInv ==
    ASSUME LifecycleConstants, OfferInv, OfferTypeOK', OneNewClaim', NEW k \in Keys, SomeBackedBy(k)
    PROVE  OfferInv'
<1>1. PICK o \in Offerings : BackedBy(o, k)
  BY DEF SomeBackedBy
<1>2. AllLinked' /\ AllBound' /\ AllCorroborated'
  BY <1>1, BackedLinked, BackedBound, BackedCorroborated DEF OfferInv
<1>3. \A p \in Offerings : KeptListing(p)
  BY <1>1, MovesKeepListing
<1>4. AllListed'
  BY <1>1, <1>3, KeptListed DEF OfferInv, BackedBy
<1> QED BY <1>2, <1>4 DEF OfferInv

LEMMA CreateInv ==
    ASSUME LifecycleConstants, OfferInv, NEW s \in Signers, NEW identity \in Identities,
           NEW o \in Offerings, NEW payload \in Payloads,
           AdmitOfferingCreate(s, identity, o, payload)
    PROVE  OfferInv'
<1>1. /\ OfferTypeOK'
      /\ \/ Drafted(o) /\ NewClaim("offering.create", o)
         \/ Unmoved /\ NoNewClaim
  BY CreateMoves DEF OfferInv
<1>2. CASE Drafted(o) /\ NewClaim("offering.create", o)
  <2>1. \A p \in Offerings : KeptBacking(p)
    BY <1>2, DraftBacking DEF OfferInv
  <2>2. UNCHANGED <<bindings, directories>> /\ Growing
    BY <1>2 DEF Drafted
  <2>3. \A p \in Offerings : KeptListing(p)
    BY <1>2 DEF Drafted, OnlyOffering, KeptListing, Exists
  <2>4. AllBound' /\ AllCorroborated' /\ AllListed'
    BY <2>1, <2>2, <2>3, KeptBound, KeptCorroborated, KeptListed DEF OfferInv
  <2> QED BY <1>1, <1>2, <2>4, DraftLinked, DraftCounted DEF OfferInv
<1> QED BY <1>1, <1>2, UnmovedInv

LEMMA AtsCreateInv ==
    ASSUME LifecycleConstants, OfferInv, NEW s \in Signers, NEW identity \in Identities,
           NEW subject \in Subjects, NEW k \in Keys, NEW sameCommand \in BOOLEAN,
           AdmitAtsCreate(s, identity, subject, k, sameCommand)
    PROVE  OfferInv'
<1>1. /\ OfferTypeOK'
      /\ \/ NewClaim("external.prepare", k) /\ \E o \in Offerings : Pended(o, k)
         \/ Unmoved /\ NoNewClaim
  BY AtsCreateMoves DEF OfferInv
<1>2. ASSUME NEW o \in Offerings, Pended(o, k), NewClaim("external.prepare", k) PROVE OfferInv'
  <2>1. \A p \in Offerings : KeptBacking(p) /\ KeptListing(p)
    BY <1>2, PendingBacking, MovesKeepListing DEF OfferInv
  <2>2. UNCHANGED <<bindings, directories>> /\ Growing
    BY <1>2 DEF Pended
  <2>3. AllBound' /\ AllCorroborated' /\ AllListed'
    BY <2>1, <2>2, KeptBound, KeptCorroborated, KeptListed DEF OfferInv
  <2> QED BY <1>1, <1>2, <2>3, PendingLinked, PendingCounted DEF OfferInv
<1> QED BY <1>1, <1>2, UnmovedInv

LEMMA AttachInv ==
    ASSUME LifecycleConstants, OfferInv, NEW k \in Keys,
           NEW candidate \in Candidates, NEW asset \in Assets, AttachCandidate(k, candidate, asset)
    PROVE  OfferInv'
<1>1. /\ OfferTypeOK' /\ NewClaim("external.attachCandidate", k)
      /\ attempts[k] /= None /\ attempts[k].state = "PREPARED"
      /\ Submitted(k) \/ SomeBackedBy(k)
  BY AttachMoves DEF OfferInv
<1>2. OneNewClaim'
  BY <1>1, AttachCounted DEF OfferInv
<1>3. CASE Submitted(k)
  <2>1. \A p \in Offerings : KeptBacking(p)
    BY <1>3, SubmittedBacking DEF OfferInv
  <2>2. UNCHANGED <<offerings, bindings, directories>> /\ Growing
    BY <1>3 DEF Submitted
  <2>3. \A p \in Offerings : KeptListing(p)
    BY <2>2 DEF KeptListing, Exists
  <2>4. AllBound' /\ AllCorroborated' /\ AllListed'
    BY <2>1, <2>2, <2>3, KeptBound, KeptCorroborated, KeptListed DEF OfferInv
  <2> QED BY <1>1, <1>2, <1>3, <2>4, SubmittedLinked DEF OfferInv
<1> QED BY <1>1, <1>2, <1>3, BackedInv

LEMMA PublishInv ==
    ASSUME LifecycleConstants, OfferInv, NEW s \in Signers, NEW identity \in Identities,
           NEW o \in Offerings, NEW version \in DirectoryVersions, NEW record \in Records,
           AdmitDirectoryPublish(s, identity, o, version, record)
    PROVE  OfferInv'
<1>1. PICK d : d = <<o, version>>
  OBVIOUS
<1>2. /\ OfferTypeOK'
      /\ \/ NewClaim("directory.publish", d) /\ Opened(o, d)
         \/ Unmoved /\ NoNewClaim
  BY <1>1, PublishMoves DEF OfferInv
<1>3. CASE NewClaim("directory.publish", d) /\ Opened(o, d)
  <2>1. \A p \in Offerings : KeptBacking(p)
    BY <1>3, OpenBacking
  <2>2. UNCHANGED bindings /\ Growing
    BY <1>3 DEF Opened
  <2>3. AllBound' /\ AllCorroborated'
    BY <2>1, <2>2, KeptBound, KeptCorroborated DEF OfferInv
  <2> QED BY <1>2, <1>3, <2>3, OpenLinked, OpenListed, OpenCounted DEF OfferInv
<1> QED BY <1>2, <1>3, UnmovedInv

LEMMA OfferInvStep ==
    ToolConstants /\ LifecycleConstants /\ OfferInv /\ [OfferNext]_offerVars => OfferInv'
<1> SUFFICES ASSUME ToolConstants, LifecycleConstants, OfferInv, [OfferNext]_offerVars
             PROVE  OfferInv'
  OBVIOUS
<1>1. CASE ToolNext /\ UNCHANGED lifecycleVars
  BY <1>1, ToolMoves, UnmovedInv DEF OfferInv
<1>2. CASE CommandStep
  BY <1>2, CreateInv, AtsCreateInv, PublishInv DEF CommandStep
<1>3. CASE CandidateStep
  <2>1. ASSUME NEW k \in Keys, ReattachCandidate(k) PROVE OfferInv'
    <3>1. /\ OfferTypeOK' /\ NoNewClaim
          /\ Unmoved \/ (attempts[k].state = "SUBMITTED" /\ SomeBackedBy(k))
      BY <2>1, ReattachMoves DEF OfferInv
    <3> QED BY <3>1, UnmovedInv, RepairCounted, BackedInv DEF OfferInv
  <2>2. ASSUME NEW t \in Tools, RecheckOwnedTool(t) PROVE OfferInv'
    BY <2>2, JobMoves, UnmovedInv DEF OfferInv
  <2> QED BY <1>3, <2>1, <2>2, AttachInv DEF CandidateStep
<1>4. CASE JobStep
  <2>1. ASSUME NEW j \in Jobs, Corroborate(j) PROVE OfferInv'
    <3>1. /\ OfferTypeOK' /\ NoNewClaim
          /\ Unmoved \/ \E k \in Keys : attempts[k].state = "SUBMITTED" /\ SomeBackedBy(k)
      BY <2>1, CorroborateMoves DEF OfferInv
    <3> QED BY <3>1, UnmovedInv, RepairCounted, BackedInv DEF OfferInv
  <2>2. ASSUME NEW j \in Jobs, NEW documents \in BOOLEAN, ReadCandidate(j, documents) PROVE OfferInv'
    BY <2>2, JobMoves, UnmovedInv DEF OfferInv
  <2>3. ASSUME NEW j \in Jobs, JobCrash(j) PROVE OfferInv'
    BY <2>3, JobMoves, UnmovedInv DEF OfferInv
  <2> QED BY <1>4, <2>1, <2>2, <2>3 DEF JobStep
<1>5. CASE LedgerStep
  BY <1>5, DeployMoves, UnmovedInv DEF LedgerStep, OfferInv
<1>6. CASE UNCHANGED offerVars
  <2>1. UNCHANGED <<toolVars, offerings, attempts, bindings, directories, claims, ledger, jobs>>
    BY <1>6 DEF offerVars, lifecycleVars
  <2>2. OfferTypeOK'
    BY <2>1, OnlyJobs DEF OfferInv, OfferTypeOK
  <2>3. Unmoved /\ NoNewClaim
    BY <2>1 DEF Unmoved, Growing, NoNewClaim, toolVars
  <2> QED BY <2>2, <2>3, UnmovedInv
<1> QED BY <1>1, <1>2, <1>3, <1>4, <1>5, <1>6 DEF OfferNext

-----------------------------------------------------------------------------
(* What follows                                                            *)

LEMMA LinkedImplies ==
    ASSUME LifecycleConstants, OfferInv
    PROVE  AttemptsLinked
<1> SUFFICES ASSUME NEW k \in Keys, attempts[k] /= None
             PROVE  \E o \in Offerings :
                /\ {other \in Offerings : Exists(other) /\ offerings[other].attempt = k} = {o}
                /\ Subject(o) = attempts[k].subject
                /\ InContext(o, attempts[k].signer, attempts[k].identity)
                /\ offerings[o].state /= "DRAFT"
                /\ attempts[k].state = "PREPARED" => offerings[o].state = "ASSET_PENDING"
                /\ Backed(o) => offerings[o].asset = attempts[k].asset
                /\ attempts[k].verified /= None => Backed(o)
  BY DEF AttemptsLinked
<1>1. PICK o \in Offerings : Exists(o) /\ offerings[o].attempt = k
  BY DEF OfferInv, AllLinked, AttemptFormed
<1>2. Linked(o) /\ k /= None
  BY <1>1 DEF OfferInv, AllLinked, LifecycleConstants
<1>3. offerings[o].state \in OfferingState
  BY <1>1, OfferingFields DEF OfferInv, Offering
<1>4. {other \in Offerings : Exists(other) /\ offerings[other].attempt = k} = {o}
  BY <1>1, <1>2 DEF OfferInv, AllLinked
<1>5. /\ Subject(o) = attempts[k].subject
      /\ InContext(o, attempts[k].signer, attempts[k].identity)
      /\ offerings[o].state /= "DRAFT"
      /\ attempts[k].state = "PREPARED" => offerings[o].state = "ASSET_PENDING"
      /\ Backed(o) => offerings[o].asset = attempts[k].asset
      /\ attempts[k].verified /= None => Backed(o)
  BY <1>1, <1>2, <1>3 DEF Linked, AttemptOf, Backed, OfferingState
<1> QED BY <1>4, <1>5

LEMMA BoundImplies ==
    ASSUME OfferInv
    PROVE  ReceiptExclusive
<1> SUFFICES ASSUME NEW o1 \in Offerings, NEW o2 \in Offerings, Backed(o1), Backed(o2), o1 /= o2
             PROVE  /\ AttemptOf(o1).candidate.txn /= AttemptOf(o2).candidate.txn
                    /\ AttemptOf(o1).verified = None
                         \/ AttemptOf(o1).verified /= AttemptOf(o2).verified
                    /\ offerings[o1].asset /= offerings[o2].asset
  BY DEF ReceiptExclusive
<1>1. BindingOf(o1) \in bindings /\ BindingOf(o2) \in bindings
  BY DEF OfferInv, AllBound
<1>2. BindingOf(o1).offering = o1 /\ BindingOf(o2).offering = o2
  BY DEF BindingOf
<1>3. /\ BindingOf(o1).txn = AttemptOf(o1).candidate.txn
      /\ BindingOf(o2).txn = AttemptOf(o2).candidate.txn
      /\ BindingOf(o1).hash = AttemptOf(o1).verified
      /\ BindingOf(o2).hash = AttemptOf(o2).verified
      /\ BindingOf(o1).asset = offerings[o1].asset
      /\ BindingOf(o2).asset = offerings[o2].asset
  BY DEF BindingOf
<1> QED BY <1>1, <1>2, <1>3 DEF OfferInv, AllBound, BindingsExclusive, Bindable

LEMMA ListedImplies ==
    ASSUME LifecycleConstants, OfferInv
    PROVE  OneListing
<1>1. ASSUME NEW o \in Offerings, Exists(o), offerings[o].state = "OPEN"
      PROVE  \E d \in Directories :
                /\ ActiveFor(Slug(o)) = {d}
                /\ offerings[d[1]].directory = d /\ offerings[d[1]].state = "OPEN"
  <2>1. ActiveFor(Slug(o)) /= {}
    BY <1>1 DEF OfferInv, AllListed
  <2>2. PICK d \in Directories : InForce(d) /\ Slug(d[1]) = Slug(o)
    BY <2>1, SomeActive
  <2>3. d[1] \in Offerings /\ d /= None
    BY DEF Directories, LifecycleConstants
  <2>4. Exists(d[1]) /\ offerings[d[1]].directory = d
    BY <2>2 DEF OfferInv, AllListed
  <2>5. offerings[d[1]].state = "OPEN"
    BY <2>3, <2>4 DEF OfferInv, AllListed
  <2>6. ActiveFor(Slug(o)) = {d}
    BY <2>2 DEF OfferInv, AllListed, ActiveFor, InForce
  <2> QED BY <2>4, <2>5, <2>6
<1>2. ASSUME NEW o \in Offerings, Exists(o)
      PROVE  offerings[o].state = "OPEN" <=> offerings[o].directory /= None
  BY <1>2 DEF OfferInv, AllListed
<1> QED BY <1>1, <1>2 DEF OneListing

\* Offerings, attempts, bindings, versions and claims keep their invariant,
\* whoever commands, in whatever order jobs read and are dropped.
THEOREM OfferInvariant == OfferSpec => []OfferInv
  BY ToolConstants, LifecycleConstants, OfferInvInit, OfferInvStep, PTL DEF OfferSpec

\* Every attempt is linked from exactly one offering, and both advance together.
THEOREM AttemptsLinkedHolds == OfferSpec => []AttemptsLinked
<1>1. OfferInv => AttemptsLinked
  BY LinkedImplies, LifecycleConstants
<1> QED BY <1>1, OfferInvariant, PTL

\* A tool is backed by an asset its owner deployed for it, or not at all.
THEOREM CorroboratedAssetHolds == OfferSpec => []CorroboratedAsset
<1>1. OfferInv => CorroboratedAsset
  BY DEF OfferInv, AllCorroborated, DeployedByOwner, CorroboratedAsset
<1> QED BY <1>1, OfferInvariant, PTL

\* One transaction and one asset back one offering, legacy or tool, whatever
\* an earlier release left pending.
THEOREM ReceiptExclusiveHolds == OfferSpec => []ReceiptExclusive
<1>1. OfferInv => ReceiptExclusive
  BY BoundImplies
<1> QED BY <1>1, OfferInvariant, PTL

\* A service that opened has one version in force, that of an open offering.
THEOREM OneListingHolds == OfferSpec => []OneListing
<1>1. OfferInv => OneListing
  BY ListedImplies, LifecycleConstants
<1> QED BY <1>1, OfferInvariant, PTL

\* Each row was answered NEW once.
THEOREM OneNewClaimHolds == OfferSpec => []OneNewClaim
<1>1. OfferInv => OneNewClaim
  BY DEF OfferInv
<1> QED BY <1>1, OfferInvariant, PTL

-----------------------------------------------------------------------------
(* The listing promise                                                     *)

RecordNow == [o \in Offerings |-> StageOf(o)]
OwnerNow == [o \in Offerings |-> IssuerOf(o)]
PreparedNow == [o \in Offerings |-> PreparedOf(o)]
AttachedNow == [o \in Offerings |-> AttachedTo(o)]
ProofNow ==
    [o \in Offerings |->
       IF Backed(o) THEN [txn |-> AttemptOf(o).candidate.txn, asset |-> offerings[o].asset]
       ELSE None]
OfferingOf(active) == IF active = {} THEN None ELSE (CHOOSE d \in active : TRUE)[1]
CurrentNow ==
    [slug \in Subjects |->
       IF ActiveFor(slug) = {} THEN None ELSE (CHOOSE d \in ActiveFor(slug) : TRUE)[1]]

LEMMA DraftedListing ==
    ASSUME NEW o \in Offerings, NEW issuer \in Signers,
           RecordNow[o] = 0, RecordNow' = [RecordNow EXCEPT ![o] = 1],
           OwnerNow' = [OwnerNow EXCEPT ![o] = issuer],
           PreparedNow' = PreparedNow, AttachedNow' = AttachedNow,
           ProofNow' = ProofNow, CurrentNow' = CurrentNow
    PROVE  Listing!Next
<1> USE DEF RecordNow, OwnerNow, PreparedNow, AttachedNow, ProofNow, CurrentNow
<1>1. Listing!RecordDraft(o, issuer)
  BY Zenon DEF Listing!RecordDraft, Listing!Reach
<1>2. Listing!Prepare(o)
  BY <1>1, Zenon DEF Listing!Prepare
<1> QED BY <1>2 DEF Listing!Next

LEMMA PreparedListing ==
    ASSUME NEW o \in Offerings, NEW k \in Keys,
           RecordNow[o] = 1, RecordNow' = [RecordNow EXCEPT ![o] = 2],
           \A p \in Offerings : PreparedNow[p] /= k,
           PreparedNow' = [PreparedNow EXCEPT ![o] = k],
           OwnerNow' = OwnerNow, AttachedNow' = AttachedNow,
           ProofNow' = ProofNow, CurrentNow' = CurrentNow
    PROVE  Listing!Next
<1> USE DEF RecordNow, OwnerNow, PreparedNow, AttachedNow, ProofNow, CurrentNow
<1>1. Listing!RecordAttempt(o, k)
  BY Zenon DEF Listing!RecordAttempt, Listing!Reach
<1>2. Listing!Prepare(o)
  BY <1>1, Zenon DEF Listing!Prepare
<1> QED BY <1>2 DEF Listing!Next

LEMMA SubmittedListing ==
    ASSUME NEW o \in Offerings, o \notin LegacyOfferings, RecordNow[o] = 2, ~AttachedNow[o],
           AttachedNow' = [AttachedNow EXCEPT ![o] = TRUE],
           RecordNow' = RecordNow, OwnerNow' = OwnerNow, PreparedNow' = PreparedNow,
           ProofNow' = ProofNow, CurrentNow' = CurrentNow
    PROVE  Listing!Next
<1> USE DEF RecordNow, OwnerNow, PreparedNow, AttachedNow, ProofNow, CurrentNow
<1>1. Listing!RecordCandidate(o)
  BY Zenon DEF Listing!RecordCandidate
<1>2. Listing!Prepare(o)
  BY <1>1, Zenon DEF Listing!Prepare
<1> QED BY <1>2 DEF Listing!Next

LEMMA BackedListing ==
    ASSUME NEW o \in Offerings, NEW txn \in Txns, NEW asset \in Assets,
           RecordNow[o] = 2, RecordNow' = [RecordNow EXCEPT ![o] = 3],
           AttachedNow[o] \/ o \in LegacyOfferings,
           AttachedNow' = [AttachedNow EXCEPT ![o] = TRUE],
           OwnerNow' = OwnerNow, PreparedNow' = PreparedNow,
           \A other \in Offerings :
              ProofNow[other] /= None => ProofNow[other].txn /= txn /\ ProofNow[other].asset /= asset,
           ProofNow' = [ProofNow EXCEPT ![o] = [txn |-> txn, asset |-> asset]],
           CurrentNow' = CurrentNow
    PROVE  Listing!Next
<1> USE DEF RecordNow, OwnerNow, PreparedNow, AttachedNow, ProofNow, CurrentNow
<1>1. ASSUME AttachedNow[o] PROVE Listing!RecordAsset(o)
  <2>1. AttachedNow' = AttachedNow
    <3>1. \A p \in Offerings : AttachedNow[p] \in BOOLEAN
      BY DEF AttachedTo
    <3>2. AttachedNow[o] = TRUE
      BY <1>1, <3>1
    <3>3. [AttachedNow EXCEPT ![o] = TRUE] = AttachedNow
      BY <3>2
    <3> QED BY <3>3
  <2> QED BY <1>1, <2>1, Zenon DEF Listing!RecordAsset, Listing!Reach
<1>2. ASSUME o \in LegacyOfferings, ~AttachedNow[o] PROVE Listing!RecordCandidate(o)
  BY <1>2, Zenon DEF Listing!RecordCandidate
<1>3. Listing!RecordAsset(o) \/ (o \in LegacyOfferings /\ Listing!RecordCandidate(o))
  BY <1>1, <1>2
<1>4. Listing!Back(o, txn, asset)
  BY <1>3, Zenon DEF Listing!Back
<1> QED BY <1>4 DEF Listing!Next

LEMMA OpenedListing ==
    ASSUME NEW o \in Offerings,
           RecordNow[o] = 3, RecordNow' = [RecordNow EXCEPT ![o] = 4],
           OwnerNow' = OwnerNow, PreparedNow' = PreparedNow, AttachedNow' = AttachedNow,
           ProofNow' = ProofNow,
           CurrentNow' = [CurrentNow EXCEPT ![[other \in Offerings |-> Slug(other)][o]] = o]
    PROVE  Listing!Next
<1> USE DEF RecordNow, OwnerNow, PreparedNow, AttachedNow, ProofNow, CurrentNow
<1>1. Listing!RecordListing(o)
  BY Zenon DEF Listing!RecordListing, Listing!Reach
<1>2. Listing!Open(o)
  BY <1>1, Zenon DEF Listing!Open
<1> QED BY <1>2 DEF Listing!Next

LEMMA SameListing ==
    ASSUME RecordNow' = RecordNow, OwnerNow' = OwnerNow, PreparedNow' = PreparedNow,
           AttachedNow' = AttachedNow, ProofNow' = ProofNow, CurrentNow' = CurrentNow
    PROVE  UNCHANGED Listing!listingVars
  BY Zenon DEF Listing!listingVars, Listing!recordVars, RecordNow, OwnerNow, PreparedNow,
               AttachedNow, ProofNow, CurrentNow

LEMMA KeptProof ==
    ASSUME \A p \in Offerings : KeptBacking(p)
    PROVE  ProofNow' = ProofNow
<1>1. \A p \in Offerings : ProofNow'[p] = ProofNow[p]
  BY DEF KeptBacking, ProofNow
<1> QED BY <1>1 DEF ProofNow

LEMMA KeptCurrent ==
    ASSUME UNCHANGED directories
    PROVE  CurrentNow' = CurrentNow
<1>1. \A slug : ActiveFor(slug)' = ActiveFor(slug)
  BY DEF ActiveFor, Published
<1>2. CurrentNow = [slug \in Subjects |-> OfferingOf(ActiveFor(slug))]
  BY DEF CurrentNow, OfferingOf
<1>3. CurrentNow' = [slug \in Subjects |-> OfferingOf(ActiveFor(slug)')]
  BY DEF CurrentNow, OfferingOf
<1> QED BY <1>1, <1>2, <1>3

\* An offering is in the record what it was.
KeptRow(p) ==
    /\ StageOf(p)' = StageOf(p) /\ IssuerOf(p)' = IssuerOf(p)
    /\ PreparedOf(p)' = PreparedOf(p) /\ AttachedTo(p)' = AttachedTo(p)

LEMMA OtherRow ==
    ASSUME AllLinked, NEW k \in Keys, OnlyAttempt(k),
           NEW p \in Offerings, offerings'[p] = offerings[p], PreparedOf(p) /= k
    PROVE  KeptRow(p)
<1>1. PreparedOf(p) /= None => PreparedOf(p) \in Keys
  BY DEF PreparedOf, AllLinked, Linked
<1>2. StageOf(p)' = StageOf(p) /\ IssuerOf(p)' = IssuerOf(p) /\ PreparedOf(p)' = PreparedOf(p)
  BY DEF StageOf, IssuerOf, PreparedOf, Exists
<1>3. PreparedOf(p) /= None => AttemptOf(p)' = AttemptOf(p)
  BY <1>1 DEF PreparedOf, AttemptOf, OnlyAttempt
<1> QED BY <1>2, <1>3 DEF KeptRow, AttachedTo

\* The record changes where one offering moved, if there.
LEMMA OneRow ==
    ASSUME NEW o \in Offerings, \A p \in Offerings : p /= o => KeptRow(p)
    PROVE  /\ RecordNow' = [RecordNow EXCEPT ![o] = StageOf(o)']
           /\ OwnerNow' = [OwnerNow EXCEPT ![o] = IssuerOf(o)']
           /\ PreparedNow' = [PreparedNow EXCEPT ![o] = PreparedOf(o)']
           /\ AttachedNow' = [AttachedNow EXCEPT ![o] = AttachedTo(o)']
           /\ StageOf(o)' = StageOf(o) => RecordNow' = RecordNow
           /\ IssuerOf(o)' = IssuerOf(o) => OwnerNow' = OwnerNow
           /\ PreparedOf(o)' = PreparedOf(o) => PreparedNow' = PreparedNow
           /\ AttachedTo(o)' = AttachedTo(o) => AttachedNow' = AttachedNow
<1>1. RecordNow' = [RecordNow EXCEPT ![o] = StageOf(o)']
      /\ (StageOf(o)' = StageOf(o) => RecordNow' = RecordNow)
  BY DEF KeptRow, RecordNow
<1>2. OwnerNow' = [OwnerNow EXCEPT ![o] = IssuerOf(o)']
      /\ (IssuerOf(o)' = IssuerOf(o) => OwnerNow' = OwnerNow)
  BY DEF KeptRow, OwnerNow
<1>3. PreparedNow' = [PreparedNow EXCEPT ![o] = PreparedOf(o)']
      /\ (PreparedOf(o)' = PreparedOf(o) => PreparedNow' = PreparedNow)
  BY DEF KeptRow, PreparedNow
<1>4. AttachedNow' = [AttachedNow EXCEPT ![o] = AttachedTo(o)']
      /\ (AttachedTo(o)' = AttachedTo(o) => AttachedNow' = AttachedNow)
  BY DEF KeptRow, AttachedNow
<1> QED BY <1>1, <1>2, <1>3, <1>4

LEMMA StageNumbers ==
    /\ StageNumber("DRAFT") = 1 /\ StageNumber("ASSET_PENDING") = 2
    /\ StageNumber("READY") = 3 /\ StageNumber("OPEN") = 4
  BY DEF StageNumber

LEMMA DraftKeepsPromise ==
    ASSUME LifecycleConstants, AllLinked, NEW o \in Offerings, Drafted(o), OfferTypeOK'
    PROVE  Listing!Next
<1>1. ProofNow' = ProofNow /\ CurrentNow' = CurrentNow
  BY DraftBacking, KeptProof, KeptCurrent DEF Drafted
<1>2. ASSUME NEW p \in Offerings, p /= o PROVE KeptRow(p)
  <2>1. offerings'[p] = offerings[p] /\ attempts' = attempts
    BY <1>2 DEF Drafted, OnlyOffering
  <2> QED BY <2>1 DEF KeptRow, StageOf, IssuerOf, PreparedOf, AttachedTo, AttemptOf, Exists
<1>3. PICK issuer \in Signers : issuer = offerings'[o].signer
  <2>1. offerings'[o] \in Offering
    BY DEF Drafted, OfferTypeOK
  <2> QED BY <2>1 DEF Offering
<1>4. /\ StageOf(o) = 0 /\ StageOf(o)' = 1 /\ IssuerOf(o)' = issuer
      /\ PreparedOf(o) = None /\ PreparedOf(o)' = None
  BY <1>3, StageNumbers DEF Drafted, StageOf, IssuerOf, PreparedOf, Exists
<1>5. AttachedTo(o)' = AttachedTo(o)
  BY <1>4 DEF AttachedTo
<1>6. RecordNow[o] = 0
  BY <1>4 DEF RecordNow
<1> QED BY <1>1, <1>2, <1>4, <1>5, <1>6, OneRow, DraftedListing

LEMMA PendingKeepsPromise ==
    ASSUME LifecycleConstants, AllLinked, NEW o \in Offerings, NEW k \in Keys, Pended(o, k)
    PROVE  Listing!Next
<1>1. ProofNow' = ProofNow /\ CurrentNow' = CurrentNow
  BY PendingBacking, KeptProof, KeptCurrent DEF Pended
<1>2. \A p \in Offerings : PreparedOf(p) /= k
  BY DEF Pended, PreparedOf, AllLinked, Linked, AttemptOf, LifecycleConstants
<1>3. ASSUME NEW p \in Offerings, p /= o PROVE KeptRow(p)
  BY <1>2, <1>3, OtherRow DEF Pended, OnlyOffering
<1>4. /\ StageOf(o) = 1 /\ StageOf(o)' = 2 /\ IssuerOf(o)' = IssuerOf(o)
      /\ PreparedOf(o) = None /\ PreparedOf(o)' = k
  BY StageNumbers DEF Pended, KeepsTerms, StageOf, IssuerOf, PreparedOf, Exists, AllLinked, Linked
<1>5. AttachedTo(o)' = AttachedTo(o)
  BY <1>4 DEF AttachedTo, AttemptOf, PreparedOf, Exists, Pended
<1>6. RecordNow[o] = 1 /\ \A p \in Offerings : PreparedNow[p] /= k
  BY <1>2, <1>4 DEF RecordNow, PreparedNow
<1> QED BY <1>1, <1>3, <1>4, <1>5, <1>6, OneRow, PreparedListing

\* A tool stays pending with its candidate.
LEMMA SubmittedKeepsPromise ==
    ASSUME LifecycleConstants, OfferTypeOK, AllLinked, NEW k \in Keys, Submitted(k)
    PROVE  Listing!Next
<1>1. ProofNow' = ProofNow /\ CurrentNow' = CurrentNow
  BY SubmittedBacking, KeptProof, KeptCurrent DEF Submitted
<1>2. PICK o \in Offerings : Exists(o) /\ offerings[o].attempt = k
  BY DEF AllLinked, AttemptFormed, Submitted, KeepsContext
<1>3. k /= None /\ Linked(o) /\ ~Backed(o) /\ attempts[k].state = "PREPARED"
  BY <1>2 DEF LifecycleConstants, AllLinked, Linked, Submitted, AttemptOf
<1>4. o \notin LegacyOfferings
  BY <1>2, <1>3 DEF Linked, Submitted, AttemptOf, Subject, LifecycleConstants
<1>5. ASSUME NEW p \in Offerings, p /= o PROVE KeptRow(p)
  <2>1. PreparedOf(p) /= k
    BY <1>2, <1>3, <1>5 DEF PreparedOf, AllLinked
  <2> QED BY <2>1, OtherRow DEF Submitted
<1>6. offerings' = offerings /\ PreparedOf(o) = k /\ PreparedOf(o)' = k
  BY <1>2 DEF Submitted, PreparedOf, Exists
<1>7. StageOf(o)' = StageOf(o) /\ IssuerOf(o)' = IssuerOf(o) /\ PreparedOf(o)' = PreparedOf(o)
  BY <1>6 DEF StageOf, IssuerOf, Exists
<1>8. ~AttachedTo(o) /\ AttachedTo(o)' = TRUE
  BY <1>2, <1>3, <1>6 DEF AttachedTo, AttemptOf, Submitted
<1>9. RecordNow[o] = 2 /\ ~AttachedNow[o]
  <2>1. offerings[o].state \in OfferingState
    BY <1>2, OfferingFields DEF Offering
  <2>2. offerings[o].state = "ASSET_PENDING"
    BY <1>2, <1>3, <2>1 DEF OfferingState, Linked, Backed
  <2> QED BY <1>2, <1>8, <2>2, StageNumbers DEF RecordNow, AttachedNow, StageOf
<1> QED BY <1>1, <1>4, <1>5, <1>7, <1>8, <1>9, OneRow, SubmittedListing

LEMMA UnmovedKeepsPromise ==
    ASSUME Unmoved
    PROVE  UNCHANGED Listing!listingVars
<1>1. offerings' = offerings /\ attempts' = attempts /\ directories' = directories
  BY DEF Unmoved
<1>2. \A p \in Offerings : KeptBacking(p)
  BY <1>1 DEF KeptBacking, Backed, Exists, AttemptOf
<1>3. \A p \in Offerings : KeptRow(p)
  BY <1>1 DEF KeptRow, StageOf, IssuerOf, PreparedOf, AttachedTo, AttemptOf, Exists
<1>4. RecordNow' = RecordNow /\ OwnerNow' = OwnerNow /\ PreparedNow' = PreparedNow
      /\ AttachedNow' = AttachedNow
  BY <1>3 DEF KeptRow, RecordNow, OwnerNow, PreparedNow, AttachedNow
<1> QED BY <1>1, <1>2, <1>4, KeptProof, KeptCurrent, SameListing

\* An offering that is backed takes a transaction and an asset that back no
\* other; one that was backed already is backed by the same again.
LEMMA BackedKeepsPromise ==
    ASSUME LifecycleConstants, OfferInv, NEW k \in Keys, SomeBackedBy(k)
    PROVE  Listing!Next \/ UNCHANGED Listing!listingVars
<1>1. PICK o \in Offerings : BackedBy(o, k)
  BY DEF SomeBackedBy
<1>2. PICK txn \in Txns, asset \in Assets :
        /\ txn = attempts'[k].candidate.txn /\ asset = attempts'[k].asset
  BY <1>1, CandidateFields DEF BackedBy
<1>3. /\ OnlyOffering(o) /\ Exists(o) /\ offerings'[o] /= None /\ offerings[o].attempt = k
      /\ offerings'[o].state = "READY" /\ offerings'[o].attempt = k /\ offerings'[o].asset = asset
      /\ offerings[o].state \in {"ASSET_PENDING", "READY"}
  BY <1>1, <1>2 DEF BackedBy, KeepsTerms
<1>4. CurrentNow' = CurrentNow
  BY <1>1, KeptCurrent DEF BackedBy
<1>5. /\ RecordNow' = [RecordNow EXCEPT ![o] = 3] /\ AttachedNow' = [AttachedNow EXCEPT ![o] = TRUE]
      /\ OwnerNow' = OwnerNow /\ PreparedNow' = PreparedNow
  <2>1. ASSUME NEW p \in Offerings, p /= o PROVE KeptRow(p)
    <3>1. k /= None /\ OnlyAttempt(k) /\ offerings'[p] = offerings[p]
      BY <1>1, <2>1 DEF BackedBy, OnlyOffering, LifecycleConstants
    <3>2. PreparedOf(p) /= k
      BY <1>3, <2>1, <3>1 DEF PreparedOf, OfferInv, AllLinked
    <3> QED BY <3>1, <3>2, OtherRow DEF OfferInv
  <2>2. StageOf(o)' = 3 /\ IssuerOf(o)' = IssuerOf(o) /\ PreparedOf(o)' = PreparedOf(o)
    BY <1>1, <1>3, StageNumbers DEF BackedBy, KeepsTerms, StageOf, IssuerOf, PreparedOf, Exists
  <2>3. AttachedTo(o)' = TRUE
    BY <1>1, <1>3 DEF BackedBy, AttachedTo, PreparedOf, AttemptOf, Exists, LifecycleConstants
  <2> QED BY <2>1, <2>2, <2>3, OneRow
<1>6. ProofNow' = [ProofNow EXCEPT ![o] = [txn |-> txn, asset |-> asset]]
  <2>1. ProofNow'[o] = [txn |-> txn, asset |-> asset]
    BY <1>2, <1>3 DEF ProofNow, Backed, Exists, AttemptOf
  <2>2. ASSUME NEW p \in Offerings, p /= o PROVE ProofNow'[p] = ProofNow[p]
    <3>1. KeptBacking(p)
      BY <1>1, <2>2, OtherBacking DEF OfferInv
    <3> QED BY <3>1 DEF KeptBacking, ProofNow
  <2>3. \A p \in Offerings :
          ProofNow'[p] = IF p = o THEN [txn |-> txn, asset |-> asset] ELSE ProofNow[p]
    BY <2>1, <2>2
  <2> QED BY <2>3 DEF ProofNow
<1>7. CASE offerings[o].state = "ASSET_PENDING"
  <2>1. ASSUME NEW other \in Offerings, ProofNow[other] /= None
        PROVE  ProofNow[other].txn /= txn /\ ProofNow[other].asset /= asset
    <3> DEFINE b == [offering |-> o, attempt |-> k, txn |-> txn,
                     hash |-> attempts'[k].verified, asset |-> asset]
    <3>1. Bindable(b)
      BY <1>1, <1>2 DEF BackedBy, ClaimBinding
    <3>2. /\ Backed(other) /\ other /= o
          /\ ProofNow[other] = [txn |-> AttemptOf(other).candidate.txn,
                                asset |-> offerings[other].asset]
      BY <1>7, <2>1 DEF ProofNow, Backed
    <3>3. BindingOf(other) \in bindings /\ BindingOf(other).offering = other
      BY <3>2 DEF OfferInv, AllBound, BindingOf
    <3>4. /\ BindingOf(other).txn = ProofNow[other].txn
          /\ BindingOf(other).asset = ProofNow[other].asset
      BY <3>2 DEF BindingOf
    <3>5. b.offering = o /\ b.txn = txn /\ b.asset = asset
      OBVIOUS
    <3> HIDE DEF b
    <3> QED BY <3>1, <3>2, <3>3, <3>4, <3>5 DEF Bindable
  <2>2. RecordNow[o] = 2
    BY <1>3, <1>7, StageNumbers DEF RecordNow, StageOf
  <2>3. AttachedNow[o] \/ o \in LegacyOfferings
    <3>1. o \in Tools => AttachedNow[o]
      BY <1>1, <1>3 DEF BackedBy, AttachedNow, AttachedTo, PreparedOf, AttemptOf, LifecycleConstants
    <3> QED BY <3>1 DEF Offerings
  <2> QED BY <1>4, <1>5, <1>6, <2>1, <2>2, <2>3, BackedListing
<1>8. CASE offerings[o].state = "READY"
  <2>1. Backed(o) /\ attempts[k].state = "SUBMITTED" /\ AttemptOf(o) = attempts[k]
    BY <1>1, <1>3, <1>8 DEF Backed, BackedBy, AttemptOf
  <2>2. txn = AttemptOf(o).candidate.txn /\ asset = offerings[o].asset
    BY <1>1, <1>2, <1>3, <2>1 DEF BackedBy, OfferInv, AllLinked, Linked
  <2>3. ProofNow[o] = [txn |-> txn, asset |-> asset]
    BY <2>1, <2>2 DEF ProofNow
  <2>4. ProofNow' = ProofNow
    BY <1>6, <2>3 DEF ProofNow
  <2>5. StageOf(o) = 3 /\ AttachedTo(o) = TRUE
    BY <1>1, <1>3, <1>8, <2>1, StageNumbers
    DEF BackedBy, StageOf, AttachedTo, PreparedOf, LifecycleConstants
  <2>6. RecordNow' = RecordNow /\ AttachedNow' = AttachedNow
    BY <1>5, <2>5 DEF RecordNow, AttachedNow
  <2> QED BY <1>4, <1>5, <2>4, <2>6, SameListing
<1> QED BY <1>3, <1>7, <1>8

LEMMA OpenKeepsPromise ==
    ASSUME LifecycleConstants, OfferTypeOK, AllListed, NEW o \in Offerings, NEW d, Opened(o, d)
    PROVE  Listing!Next
<1>1. /\ OnlyOffering(o) /\ Exists(o) /\ offerings'[o] /= None /\ offerings[o].state = "READY"
      /\ offerings'[o].state = "OPEN" /\ d \in Directories /\ d[1] = o
  BY DEF Opened, KeepsTerms
<1>2. /\ RecordNow[o] = 3 /\ RecordNow' = [RecordNow EXCEPT ![o] = 4]
      /\ OwnerNow' = OwnerNow /\ PreparedNow' = PreparedNow /\ AttachedNow' = AttachedNow
  <2>1. ASSUME NEW p \in Offerings, p /= o PROVE KeptRow(p)
    <3>1. offerings'[p] = offerings[p] /\ attempts' = attempts
      BY <2>1 DEF Opened, OnlyOffering
    <3> QED BY <3>1 DEF KeptRow, StageOf, IssuerOf, PreparedOf, AttachedTo, AttemptOf, Exists
  <2>2. /\ StageOf(o) = 3 /\ StageOf(o)' = 4 /\ IssuerOf(o)' = IssuerOf(o)
        /\ PreparedOf(o)' = PreparedOf(o) /\ AttachedTo(o)' = AttachedTo(o)
    BY <1>1, StageNumbers
    DEF Opened, KeepsTerms, StageOf, IssuerOf, PreparedOf, AttachedTo, AttemptOf, Exists
  <2>3. RecordNow[o] = 3
    BY <2>2 DEF RecordNow
  <2> QED BY <2>1, <2>2, <2>3, OneRow
<1>3. ProofNow' = ProofNow
  BY OpenBacking, KeptProof
<1>4. Slug(o) \in Subjects
  BY DEF Slug, Subject, Subjects, Offerings
<1>5. ASSUME NEW slug \in Subjects
      PROVE  ActiveFor(slug)' = IF slug = Slug(o) THEN {d} ELSE ActiveFor(slug)
  <2>1. ASSUME NEW e \in Directories
        PROVE  InForce(e)' <=> e = d \/ (InForce(e) /\ Slug(e[1]) /= Slug(o))
    BY DEF Opened, InForce
  <2>2. ActiveFor(slug)' = {e \in Directories : InForce(e)' /\ Slug(e[1]) = slug}
    BY DEF ActiveFor, InForce
  <2>3. ActiveFor(slug) = {e \in Directories : InForce(e) /\ Slug(e[1]) = slug}
    BY DEF ActiveFor, InForce
  <2> QED BY <1>1, <2>1, <2>2, <2>3
<1>6. OfferingOf({d}) = o
  BY <1>1 DEF OfferingOf
<1>7. CurrentNow' = [CurrentNow EXCEPT ![Slug(o)] = o]
  <2>1. ASSUME NEW slug \in Subjects
        PROVE  CurrentNow'[slug] = IF slug = Slug(o) THEN o ELSE CurrentNow[slug]
    <3>1. CurrentNow[slug] = OfferingOf(ActiveFor(slug))
      BY DEF CurrentNow, OfferingOf
    <3>2. CurrentNow'[slug] = OfferingOf(ActiveFor(slug)')
      BY DEF CurrentNow, OfferingOf
    <3> QED BY <1>5, <1>6, <3>1, <3>2
  <2> QED BY <2>1 DEF CurrentNow
<1>8. [other \in Offerings |-> Slug(other)][o] = Slug(o)
  OBVIOUS
<1> QED BY <1>2, <1>3, <1>7, <1>8, OpenedListing

\* The fields of a record belong together.
LEMMA RecordFormed ==
    ASSUME LifecycleConstants, OfferInv
    PROVE  Listing!WellRecorded
<1>1. ASSUME NEW o \in Offerings
      PROVE  /\ RecordNow[o] = 0 <=> OwnerNow[o] = None
             /\ RecordNow[o] <= 1 <=> PreparedNow[o] = None
             /\ AttachedNow[o] => RecordNow[o] >= 2
             /\ RecordNow[o] >= 3 => AttachedNow[o]
             /\ \A p \in Offerings \ {o} : PreparedNow[o] = None \/ PreparedNow[p] /= PreparedNow[o]
  <2>1. ASSUME Exists(o)
        PROVE  /\ offerings[o].state \in OfferingState /\ offerings[o].signer /= None
               /\ Linked(o) /\ (offerings[o].attempt \in Keys => offerings[o].attempt /= None)
    BY <2>1, OfferingFields DEF OfferInv, AllLinked, Offering, LifecycleConstants
  <2>2. RecordNow[o] = 0 <=> OwnerNow[o] = None
    BY <2>1, StageNumbers DEF RecordNow, OwnerNow, StageOf, IssuerOf, OfferingState
  <2>3. RecordNow[o] <= 1 <=> PreparedNow[o] = None
    BY <2>1, StageNumbers DEF RecordNow, PreparedNow, StageOf, PreparedOf, OfferingState, Linked
  <2>4. AttachedNow[o] => RecordNow[o] >= 2
    <3>1. AttachedNow[o] => PreparedNow[o] /= None
      BY DEF AttachedNow, AttachedTo, PreparedNow
    <3>2. RecordNow[o] \in 0 .. 4
      BY <2>1, StageNumbers DEF RecordNow, StageOf, OfferingState
    <3> QED BY <2>3, <3>1, <3>2
  <2>5. RecordNow[o] >= 3 => AttachedNow[o]
    <3>1. RecordNow[o] >= 3 => Exists(o) /\ offerings[o].state \in {"READY", "OPEN"}
      BY <2>1, StageNumbers DEF RecordNow, StageOf, OfferingState
    <3> QED BY <2>1, <3>1
        DEF AttachedNow, AttachedTo, PreparedOf, Linked, Backed
  <2>6. \A p \in Offerings \ {o} : PreparedNow[o] = None \/ PreparedNow[p] /= PreparedNow[o]
    BY DEF PreparedNow, PreparedOf, OfferInv, AllLinked
  <2> QED BY <2>2, <2>3, <2>4, <2>5, <2>6
<1> QED BY <1>1, Zenon DEF Listing!WellRecorded, RecordNow, OwnerNow, PreparedNow, AttachedNow

LEMMA PromiseOfListingInit == ToolConstants /\ LifecycleConstants /\ OfferInit => Listing!Init
<1> SUFFICES ASSUME ToolConstants, LifecycleConstants, OfferInit PROVE Listing!Init
  OBVIOUS
<1>1. OfferTypeOK
  BY OfferInvInit DEF OfferInv
<1>2. \A o \in Offerings : Exists(o) => offerings[o].state = "ASSET_PENDING"
  BY DEF OfferInit, Exists
<1>3. RecordNow \in [Offerings -> {0, 2}] /\ OwnerNow \in [Offerings -> Signers \cup {None}]
      /\ PreparedNow \in [Offerings -> Keys \cup {None}] /\ AttachedNow \in [Offerings -> BOOLEAN]
  <2>1. \A o \in Offerings : Exists(o) => offerings[o] \in Offering
    BY <1>1, OfferingFields
  <2> QED BY <1>2, <2>1, StageNumbers
      DEF Offering, RecordNow, OwnerNow, PreparedNow, AttachedNow, StageOf, IssuerOf, PreparedOf,
          AttachedTo
<1>4. ProofNow = [o \in Offerings |-> None]
  BY <1>2 DEF ProofNow, Backed
<1>5. \A slug : ActiveFor(slug) = {}
  BY DEF OfferInit, ActiveFor, Published
<1>6. CurrentNow = [slug \in Subjects |-> None]
  BY <1>5 DEF CurrentNow
<1>7. Listing!WellRecorded
  BY OfferInvInit, RecordFormed
<1> QED BY <1>3, <1>4, <1>6, <1>7, Zenon
    DEF Listing!Init, RecordNow, OwnerNow, PreparedNow, AttachedNow, ProofNow, CurrentNow

LEMMA ListingStep ==
    ToolConstants /\ LifecycleConstants /\ OfferInv /\ [OfferNext]_offerVars
      => [Listing!Next]_(Listing!listingVars)
<1> SUFFICES ASSUME ToolConstants, LifecycleConstants, OfferInv, [OfferNext]_offerVars
             PROVE  Listing!Next \/ UNCHANGED Listing!listingVars
  OBVIOUS
<1>0. OfferTypeOK /\ AllLinked /\ AllListed
  BY DEF OfferInv
<1>1. CASE ToolNext /\ UNCHANGED lifecycleVars
  BY <1>0, <1>1, ToolMoves, UnmovedKeepsPromise
<1>2. CASE CommandStep
  <2>1. ASSUME NEW s \in Signers, NEW identity \in Identities, NEW o \in Offerings,
               NEW payload \in Payloads, AdmitOfferingCreate(s, identity, o, payload)
        PROVE  Listing!Next \/ UNCHANGED Listing!listingVars
    <3>1. Drafted(o) \/ Unmoved
      BY <1>0, <2>1, CreateMoves
    <3> QED BY <1>0, <2>1, <3>1, CreateMoves, DraftKeepsPromise, UnmovedKeepsPromise
  <2>2. ASSUME NEW s \in Signers, NEW identity \in Identities, NEW subject \in Subjects,
               NEW k \in Keys, NEW sameCommand \in BOOLEAN,
               AdmitAtsCreate(s, identity, subject, k, sameCommand)
        PROVE  Listing!Next \/ UNCHANGED Listing!listingVars
    <3>1. (\E o \in Offerings : Pended(o, k)) \/ Unmoved
      BY <1>0, <2>2, AtsCreateMoves
    <3> QED BY <1>0, <3>1, PendingKeepsPromise, UnmovedKeepsPromise
  <2>3. ASSUME NEW s \in Signers, NEW identity \in Identities, NEW o \in Offerings,
               NEW version \in DirectoryVersions, NEW record \in Records,
               AdmitDirectoryPublish(s, identity, o, version, record)
        PROVE  Listing!Next \/ UNCHANGED Listing!listingVars
    <3>1. Opened(o, <<o, version>>) \/ Unmoved
      BY <1>0, <2>3, PublishMoves
    <3> QED BY <1>0, <3>1, OpenKeepsPromise, UnmovedKeepsPromise
  <2> QED BY <1>2, <2>1, <2>2, <2>3 DEF CommandStep
<1>3. CASE CandidateStep
  <2>1. ASSUME NEW k \in Keys, NEW candidate \in Candidates, NEW asset \in Assets,
               AttachCandidate(k, candidate, asset)
        PROVE  Listing!Next \/ UNCHANGED Listing!listingVars
    BY <1>0, <2>1, AttachMoves, SubmittedKeepsPromise, BackedKeepsPromise
  <2>2. ASSUME NEW k \in Keys, ReattachCandidate(k)
        PROVE  Listing!Next \/ UNCHANGED Listing!listingVars
    BY <1>0, <2>2, ReattachMoves, UnmovedKeepsPromise, BackedKeepsPromise
  <2>3. ASSUME NEW t \in Tools, RecheckOwnedTool(t)
        PROVE  Listing!Next \/ UNCHANGED Listing!listingVars
    BY <1>0, <2>3, JobMoves, UnmovedKeepsPromise
  <2> QED BY <1>3, <2>1, <2>2, <2>3 DEF CandidateStep
<1>4. CASE JobStep
  <2>1. ASSUME NEW j \in Jobs, Corroborate(j) PROVE Listing!Next \/ UNCHANGED Listing!listingVars
    BY <1>0, <2>1, CorroborateMoves, UnmovedKeepsPromise, BackedKeepsPromise
  <2>2. ASSUME NEW j \in Jobs, NEW documents \in BOOLEAN, ReadCandidate(j, documents)
        PROVE  Listing!Next \/ UNCHANGED Listing!listingVars
    BY <1>0, <2>2, JobMoves, UnmovedKeepsPromise
  <2>3. ASSUME NEW j \in Jobs, JobCrash(j) PROVE Listing!Next \/ UNCHANGED Listing!listingVars
    BY <1>0, <2>3, JobMoves, UnmovedKeepsPromise
  <2> QED BY <1>4, <2>1, <2>2, <2>3 DEF JobStep
<1>5. CASE LedgerStep
  BY <1>0, <1>5, DeployMoves, UnmovedKeepsPromise DEF LedgerStep
<1>6. CASE UNCHANGED offerVars
  <2>1. Unmoved
    BY <1>6 DEF Unmoved, Growing, offerVars, lifecycleVars, toolVars
  <2> QED BY <2>1, UnmovedKeepsPromise
<1> QED BY <1>1, <1>2, <1>3, <1>4, <1>5, <1>6 DEF OfferNext

\* A page may load its record between any two steps of the backend, and finds
\* it well formed.
THEOREM WellRecordedHolds == OfferSpec => []Listing!WellRecorded
<1>1. OfferInv => Listing!WellRecorded
  BY RecordFormed, LifecycleConstants
<1> QED BY <1>1, OfferInvariant, PTL

\* Every history of commands, candidates, jobs and publications is one of the
\* listing promise: an offering is drafted, prepared once, backed by a proof
\* of its own and opened once, and the last to open is the listed one.
THEOREM KeepsListingHolds == OfferSpec => KeepsListing
  BY ToolConstants, LifecycleConstants, OfferInvariant, PromiseOfListingInit, ListingStep, PTL
  DEF OfferSpec, KeepsListing, Listing!Spec
=============================================================================
