-------------------------- MODULE OfferingLifecycle --------------------------
(***************************************************************************)
(* An offering from its draft to its listing: offering.create,             *)
(* external.prepare of an ATS_CREATE, external.attachCandidate,            *)
(* the corroboration of the candidate against the ledger, and              *)
(* directory.publish.                                                      *)
(*                                                                         *)
(* A provider tool has one offering, named after it, so a tool stands for  *)
(* its offering as well. The legacy RiskScan subject may have several.     *)
(***************************************************************************)
EXTENDS ProviderTools

CONSTANTS
    LegacyOfferings,    \* public ids of the offerings of the legacy subject
    RiskScan,           \* the legacy subject, and its service slug
    Payloads,           \* signed offering.create payloads; a payload has one title
    Keys,               \* idempotency keys of ATS_CREATE attempts
    Txns,               \* ledger transactions
    ShortSpellings,     \* candidates whose short nanoseconds are read two ways
    Assets,             \* EVM addresses of assets
    DirectoryVersions,  \* directory version numbers a publisher may choose
    Records,            \* agent directory records a publisher may sign
    Jobs,               \* bound: verification actions in flight
    MaxRepeats,         \* bound: repeated or conflicting claims kept per kind
    HistoricPending     \* legacy offerings left pending by an earlier release

Offerings == Tools \cup LegacyOfferings
Subjects == Tools \cup {RiskScan}
Subject(o) == IF o \in Tools THEN o ELSE RiskScan
Slug(o) == Subject(o)

OfferingState == {"DRAFT", "ASSET_PENDING", "READY", "OPEN"}
Directories == Offerings \X DirectoryVersions
\* txn is the id the binding canonicalises a candidate to, read the
\* transaction the mirror finds under it. They differ for some ids with short
\* nanoseconds: the binding pads those on the right, the mirror reads a number.
Candidates == {[txn |-> txn, read |-> txn] : txn \in Txns} \cup ShortSpellings

Offering == [signer : Signers, identity : Identities, payload : Payloads,
             state : OfferingState, attempt : Keys \cup {None},
             asset : Assets \cup {None}, directory : Directories \cup {None}]
\* An attempt keeps the digest of the configuration it was prepared for.
Attempt == [signer : Signers, identity : Identities, subject : Subjects,
            payload : Payloads \cup {None}, state : {"PREPARED", "SUBMITTED"},
            candidate : Candidates \cup {None}, asset : Assets \cup {None},
            verified : Txns \cup {None}]
Binding == [offering : Offerings, attempt : Keys, txn : Txns,
            hash : Txns \cup {None}, asset : Assets]
Directory == [record : Records, signer : Signers, state : {"ACTIVE", "SUPERSEDED"}]
\* What the factory call of a transaction created, and for which configuration.
Deployment == [subject : Tools \cup {None}, signer : Signers,
               payload : Payloads, asset : Assets]
Job == [key : Keys, step : {"READ", "CORROBORATE"}]

ClaimRow ==
    [type : {"offering.create"}, outcome : {"NEW", "IDEMPOTENCY_REPLAYED"}, target : Offerings]
    \cup [type : {"external.prepare"}, outcome : {"NEW", "IDEMPOTENCY_REPLAYED"}, target : Keys]
    \cup [type : {"external.attachCandidate"}, outcome : {"NEW"}, target : Keys]
    \cup [type : {"directory.publish"}, outcome : {"NEW", "IDEMPOTENCY_REPLAYED"}, target : Directories]
    \cup [type : {"offering.create", "external.prepare", "directory.publish"},
          outcome : {"IDEMPOTENCY_CONFLICT"}, target : {None}]

ASSUME LifecycleConstants ==
    /\ LegacyOfferings \cap Tools = {} /\ RiskScan \notin Tools
    /\ HistoricPending \subseteq LegacyOfferings
    /\ HistoricPending /= {} => StageBIssuer \in Signers
    /\ ShortSpellings \subseteq [txn : Txns, read : Txns]
    /\ None \notin Offering \cup Attempt \cup Directory \cup Deployment \cup Job
    /\ None \notin Signers \cup Keys \cup Assets \cup Txns \cup Tools \cup Payloads
    /\ None \notin Candidates \cup Directories
    /\ MaxRepeats \in Nat

VARIABLES
    offerings,    \* offerings by public id
    attempts,     \* externalPrepareCommandAttempts of ATS_CREATE by key
    bindings,     \* providerToolReceiptBindings
    directories,  \* directoryVersions by offering and version
    claims,       \* how many nonces were spent on each kind of answer
    ledger,       \* successful factory calls
    jobs          \* verification actions in flight

lifecycleVars == <<offerings, attempts, bindings, directories, claims, ledger, jobs>>
offerVars == <<toolVars, lifecycleVars>>

OfferTypeOK ==
    /\ ToolTypeOK
    /\ offerings \in [Offerings -> Offering \cup {None}]
    /\ attempts \in [Keys -> Attempt \cup {None}]
    /\ bindings \subseteq Binding
    /\ directories \in [Directories -> Directory \cup {None}]
    /\ claims \in [ClaimRow -> Nat]
    /\ ledger \in [Txns -> Deployment \cup {None}]
    /\ jobs \in [Jobs -> Job \cup {None}]

\* A historic offering is still pending although its attempt carries a
\* candidate: earlier releases wrote the two separately.
OfferInit ==
    /\ ToolInit
    /\ bindings = {}
    /\ directories = [d \in Directories |-> None]
    /\ ledger = [t \in Txns |-> None]
    /\ jobs = [j \in Jobs |-> None]
    /\ \E keyOf \in [HistoricPending -> Keys], p \in Payloads :
         /\ \A o1, o2 \in HistoricPending : o1 /= o2 => keyOf[o1] /= keyOf[o2]
         /\ offerings = [o \in Offerings |->
               IF o \notin HistoricPending THEN None
               ELSE [signer |-> StageBIssuer, identity |-> "AUTHORITY", payload |-> p,
                     state |-> "ASSET_PENDING", attempt |-> keyOf[o],
                     asset |-> None, directory |-> None]]
         /\ attempts \in [Keys -> {None} \cup
               [signer : {StageBIssuer}, identity : {"AUTHORITY"}, subject : {RiskScan},
                payload : {None}, state : {"SUBMITTED"}, candidate : Candidates,
                asset : Assets, verified : {None}]]
         /\ \A k \in Keys : attempts[k] /= None <=> \E o \in HistoricPending : keyOf[o] = k
         /\ claims = [c \in ClaimRow |->
               IF /\ c.outcome = "NEW"
                  /\ \/ c.type = "offering.create" /\ c.target \in HistoricPending
                     \/ /\ c.type \in {"external.prepare", "external.attachCandidate"}
                        /\ \E o \in HistoricPending : c.target = keyOf[o]
               THEN 1 ELSE 0]

(***************************************************************************)
(* Admission                                                               *)
(***************************************************************************)

\* Every accepted command spends a fresh nonce on its answer. A command whose
\* nonce is spent changes nothing.
\* Mutant of Spend: records a repeated answer as a new one.
SpendAsNew(type, outcome, target) ==
    claims' = [claims EXCEPT ![[type |-> type, target |-> target,
                 outcome |-> IF target = None THEN outcome ELSE "NEW"]] = @ + 1]
Spend(type, outcome, target) ==
    LET row == [type |-> type, outcome |-> outcome, target |-> target] IN
    /\ outcome /= "NEW" => claims[row] < MaxRepeats
    /\ claims' = [claims EXCEPT ![row] = @ + 1]

Conflict(type) == Spend(type, "IDEMPOTENCY_CONFLICT", None)

\* A tool's commands come from the identity that owns it; the legacy subject
\* is in the seeded row of one issuer only.
Authorised(s, identity, subject) ==
    /\ Admitted(s, identity)
    /\ IF subject \in Tools THEN OwnsTool(s, identity, subject)
       ELSE s = StageBIssuer /\ identity = "AUTHORITY"

Exists(o) == offerings[o] /= None
InContext(o, s, identity) == offerings[o].signer = s /\ offerings[o].identity = identity

\* Mutant of NewDraft: a placeholder address for the asset that is not there.
DraftAtZeroAddress(s, identity, payload) ==
    [signer |-> s, identity |-> identity, payload |-> payload, state |-> "DRAFT",
     attempt |-> None, asset |-> "0x0", directory |-> None]
NewDraft(s, identity, payload) ==
    [signer |-> s, identity |-> identity, payload |-> payload, state |-> "DRAFT",
     attempt |-> None, asset |-> None, directory |-> None]

\* offering.create: a second draft under a public id is a replay while the
\* first is still the same draft, and a conflict from then on.
AdmitOfferingCreate(s, identity, o, payload) ==
    LET sameDraft == /\ InContext(o, s, identity)
                     /\ offerings[o].payload = payload /\ offerings[o].state = "DRAFT" IN
    /\ Authorised(s, identity, Subject(o))
    /\ \/ /\ ~Exists(o)
          /\ offerings' = [offerings EXCEPT ![o] = NewDraft(s, identity, payload)]
          /\ Spend("offering.create", "NEW", o)
       \/ /\ Exists(o)
          /\ IF sameDraft THEN Spend("offering.create", "IDEMPOTENCY_REPLAYED", o)
             ELSE Conflict("offering.create")
          /\ UNCHANGED offerings
    /\ UNCHANGED <<toolVars, attempts, bindings, directories, ledger, jobs>>

\* Mutant of Drafts: takes any draft of the issuer.
DraftsOfIssuer(s, identity, subject) ==
    {o \in Offerings : Exists(o) /\ InContext(o, s, identity) /\ offerings[o].state = "DRAFT"}
Drafts(s, identity, subject) ==
    {o \in Offerings : /\ Exists(o) /\ Subject(o) = subject
                       /\ InContext(o, s, identity) /\ offerings[o].state = "DRAFT"}

\* What a prepared ATS_CREATE must deploy: a tool's asset carries the title of
\* its offering, the legacy asset is fixed.
Configuration(subject) == IF subject \in Tools THEN offerings[subject].payload ELSE None

Configurable(s, identity, subject) ==
    subject \in Tools => /\ Exists(subject) /\ InContext(subject, s, identity)
                         /\ offerings[subject].state \in {"DRAFT", "ASSET_PENDING"}

\* Mutant of PendingFor: matches the subject, not the link.
PendingForSubject(o, k) ==
    /\ Exists(o) /\ offerings[o].state = "ASSET_PENDING"
    /\ Subject(o) = attempts[k].subject
    /\ InContext(o, attempts[k].signer, attempts[k].identity)
PendingFor(o, k) ==
    /\ Exists(o) /\ offerings[o].attempt = k /\ offerings[o].state = "ASSET_PENDING"
    /\ Subject(o) = attempts[k].subject
    /\ InContext(o, attempts[k].signer, attempts[k].identity)

\* external.prepare of an ATS_CREATE inserts the attempt and links it to the
\* one draft of its subject, or does neither. A reused key is a replay when
\* the signed command is the same, expiry included, and nothing moved since.
AdmitAtsCreate(s, identity, subject, k, sameCommand) ==
    LET replayed == /\ sameCommand
                    /\ attempts[k].state = "PREPARED" /\ attempts[k].subject = subject
                    /\ attempts[k].signer = s /\ attempts[k].identity = identity
                    /\ attempts[k].payload = Configuration(subject)
                    /\ \E o \in Offerings : PendingFor(o, k) IN
    /\ Authorised(s, identity, subject)
    /\ Configurable(s, identity, subject)
    /\ \/ /\ attempts[k] = None
          /\ \E o \in Drafts(s, identity, subject) :
                /\ Drafts(s, identity, subject) = {o}
                /\ offerings' = [offerings EXCEPT ![o].state = "ASSET_PENDING",
                                                  ![o].attempt = k]
          /\ attempts' = [attempts EXCEPT ![k] =
                [signer |-> s, identity |-> identity, subject |-> subject,
                 payload |-> Configuration(subject), state |-> "PREPARED",
                 candidate |-> None, asset |-> None, verified |-> None]]
          /\ Spend("external.prepare", "NEW", k)
       \/ /\ attempts[k] /= None
          /\ IF replayed THEN Spend("external.prepare", "IDEMPOTENCY_REPLAYED", k)
             ELSE Conflict("external.prepare")
          /\ UNCHANGED <<offerings, attempts>>
    /\ UNCHANGED <<toolVars, bindings, directories, ledger, jobs>>

(***************************************************************************)
(* Candidates                                                              *)
(***************************************************************************)

StartJob(k) ==
    \E j \in Jobs : /\ jobs[j] = None
                    /\ jobs' = [jobs EXCEPT ![j] = [key |-> k, step |-> "READ"]]

\* The attachment is durable whether or not its verification gets scheduled.
ScheduleVerification(k) == UNCHANGED jobs \/ StartJob(k)

\* claimAtsReceiptBinding: whoever shares the canonical transaction, the hash
\* or the asset must be this very binding.
\* Mutants of Bindable: each forgets some of the indexes.
BindableTransaction(binding) == \A b \in bindings : b.txn = binding.txn => b = binding
BindableHash(binding) ==
    \A b \in bindings : binding.hash /= None /\ b.hash = binding.hash => b = binding
Bindable(binding) ==
    \A b \in bindings :
       \/ b.txn = binding.txn
       \/ binding.hash /= None /\ b.hash = binding.hash
       \/ b.asset = binding.asset
       => b = binding

ClaimBinding(binding) == Bindable(binding) /\ bindings' = bindings \cup {binding}

MakeReady(o, asset) ==
    offerings' = [offerings EXCEPT ![o].state = "READY", ![o].asset = asset]

\* The legacy offering is ready on its candidate alone, which is never read.
ReadyLegacy(o, k, candidate, asset) ==
    /\ ClaimBinding([offering |-> o, attempt |-> k, txn |-> candidate.txn,
                     hash |-> None, asset |-> asset])
    /\ MakeReady(o, asset)

\* external.attachCandidate of a prepared attempt. The authority was checked
\* before the mutation, which does not look at it again.
AttachCandidate(k, candidate, asset) ==
    /\ attempts[k] /= None /\ attempts[k].state = "PREPARED"
    /\ \E o \in Offerings :
          /\ PendingFor(o, k)
          /\ IF o \in Tools THEN UNCHANGED <<offerings, bindings>>
             ELSE ReadyLegacy(o, k, candidate, asset)
    /\ attempts' = [attempts EXCEPT ![k].state = "SUBMITTED",
                                    ![k].candidate = candidate, ![k].asset = asset]
    /\ Spend("external.attachCandidate", "NEW", k)
    /\ ScheduleVerification(k)
    /\ UNCHANGED <<toolVars, directories, ledger>>

\* The same attachment once more, under a spent nonce or a fresh one: repairs
\* a historic legacy offering and verifies a tool's candidate again.
ReattachCandidate(k) ==
    /\ attempts[k] /= None /\ attempts[k].state = "SUBMITTED"
    /\ IF \E o \in LegacyOfferings : PendingFor(o, k)
       THEN \E o \in LegacyOfferings :
               PendingFor(o, k) /\ ReadyLegacy(o, k, attempts[k].candidate, attempts[k].asset)
       ELSE UNCHANGED <<offerings, bindings>>
    /\ ScheduleVerification(k)
    /\ UNCHANGED <<toolVars, attempts, directories, claims, ledger>>

\* The owner asks for the attached candidate to be verified once more,
\* whatever became of the membership.
RecheckOwnedTool(t) ==
    /\ Exists(t)
    /\ \E k \in Keys : /\ offerings[t].attempt = k
                       /\ attempts[k].state = "SUBMITTED"
                       /\ StartJob(k)
    /\ UNCHANGED <<toolVars, offerings, attempts, bindings, directories, claims, ledger>>

(***************************************************************************)
(* Corroboration                                                           *)
(***************************************************************************)

\* Anyone may call the factory at any time, with any configuration; what it
\* deploys has a fresh address. Failed calls leave nothing to find.
DeployAsset(txn, deployment) ==
    /\ ledger[txn] = None
    /\ \A other \in Txns : ledger[other] /= None => ledger[other].asset /= deployment.asset
    /\ ledger' = [ledger EXCEPT ![txn] = deployment]
    /\ UNCHANGED <<toolVars, offerings, attempts, bindings, directories, claims, jobs>>

EndJob(j) == jobs' = [jobs EXCEPT ![j] = None]

\* The mirror node and the RPC node have both documents, or the read tells
\* nothing. Legacy candidates are not read at all.
ReadCandidate(j, documents) ==
    /\ jobs[j] /= None /\ jobs[j].step = "READ"
    /\ LET attempt == attempts[jobs[j].key] IN
       documents => attempt.subject \in Tools /\ ledger[attempt.candidate.read] /= None
    /\ IF documents THEN jobs' = [jobs EXCEPT ![j].step = "CORROBORATE"] ELSE EndJob(j)
    /\ UNCHANGED <<toolVars, offerings, attempts, bindings, directories, claims, ledger>>

\* Mutant of Recoverable: checks what a new command would need.
RecoverableMember(s, identity) == Admitted(s, identity)
\* A row that was disabled stops the recovery of its candidates; an account
\* that was suspended or revoked does not.
Recoverable(s, identity) ==
    IF identity = "AUTHORITY" THEN rows[s] = "ENABLED" ELSE accounts[s] /= "ABSENT"

\* Mutant of Corroborates: forgets the configuration.
CorroboratesAsset(deployment, attempt) ==
    deployment /= None /\ deployment.asset = attempt.asset
\* verifyProviderToolReceipt: the factory was called by the signer with the
\* configuration of the attempt, and created the asset that was announced.
Corroborates(deployment, attempt) ==
    deployment = [subject |-> attempt.subject, signer |-> attempt.signer,
                  payload |-> attempt.payload, asset |-> attempt.asset]

Corroborable(o, k) ==
    LET attempt == attempts[k] IN
    /\ attempt.state = "SUBMITTED"
    /\ Recoverable(attempt.signer, attempt.identity)
    /\ OwnsTool(attempt.signer, attempt.identity, o)
    /\ Exists(o) /\ offerings[o].attempt = k /\ o = attempt.subject
    /\ InContext(o, attempt.signer, attempt.identity)
    /\ offerings[o].payload = attempt.payload
    /\ \/ offerings[o].state = "ASSET_PENDING"
       \/ offerings[o].state = "READY" /\ offerings[o].asset = attempt.asset
    /\ Corroborates(ledger[attempt.candidate.read], attempt)

Corroborate(j) ==
    LET k == jobs[j].key
        candidate == attempts[k].candidate
        binding(o) == [offering |-> o, attempt |-> k, txn |-> candidate.txn,
                       hash |-> candidate.read, asset |-> attempts[k].asset] IN
    /\ jobs[j] /= None /\ jobs[j].step = "CORROBORATE"
    /\ \/ \E o \in Tools : /\ Corroborable(o, k)
                           /\ ClaimBinding(binding(o))
                           /\ attempts' = [attempts EXCEPT ![k].verified = candidate.read]
                           /\ MakeReady(o, attempts[k].asset)
       \/ /\ \A o \in Tools : Corroborable(o, k) => ~Bindable(binding(o))
          /\ UNCHANGED <<offerings, attempts, bindings>>
    /\ EndJob(j)
    /\ UNCHANGED <<toolVars, directories, claims, ledger>>

\* Whatever runs an action may drop it between its steps.
JobCrash(j) ==
    /\ jobs[j] /= None
    /\ EndJob(j)
    /\ UNCHANGED <<toolVars, offerings, attempts, bindings, directories, claims, ledger>>

(***************************************************************************)
(* Publication                                                             *)
(***************************************************************************)

Published(d) == directories[d] /= None
ActiveFor(slug) ==
    {d \in Directories : Published(d) /\ Slug(d[1]) = slug /\ directories[d].state = "ACTIVE"}

\* Mutant of PriorVersions: supersedes versions of the same offering only.
PriorVersionsOfOffering(o) == {d \in ActiveFor(Slug(o)) : d[1] = o}
PriorVersions(o) == ActiveFor(Slug(o))

Publishable(o) == offerings[o].state = "READY" /\ offerings[o].directory = None

\* The version was published by this very command, and is still in force.
SamePublication(o, version, s, record) ==
    LET d == <<o, version>> IN
    /\ directories[d] = [record |-> record, signer |-> s, state |-> "ACTIVE"]
    /\ offerings[o].state = "OPEN" /\ offerings[o].directory = d
    /\ ActiveFor(Slug(o)) = {d}

\* directory.publish: a ready offering opens under a new version, which
\* takes the place of the version in force for the same service.
AdmitDirectoryPublish(s, identity, o, version, record) ==
    LET d == <<o, version>>
        active == PriorVersions(o) IN
    /\ Authorised(s, identity, Subject(o))
    /\ Exists(o)
    /\ \/ /\ ~Published(d)
          /\ InContext(o, s, identity)
          /\ Publishable(o)
          /\ Cardinality(active) <= 1
          /\ directories' = [e \in Directories |->
                IF e = d THEN [record |-> record, signer |-> s, state |-> "ACTIVE"]
                ELSE IF e \in active THEN [directories[e] EXCEPT !.state = "SUPERSEDED"]
                ELSE directories[e]]
          /\ offerings' = [offerings EXCEPT ![o].state = "OPEN", ![o].directory = d]
          /\ Spend("directory.publish", "NEW", d)
       \/ /\ Published(d)
          /\ IF InContext(o, s, identity) /\ SamePublication(o, version, s, record)
             THEN Spend("directory.publish", "IDEMPOTENCY_REPLAYED", d)
             ELSE Conflict("directory.publish")
          /\ UNCHANGED <<directories, offerings>>
    /\ UNCHANGED <<toolVars, attempts, bindings, ledger, jobs>>

CommandStep ==
    \E s \in Signers, identity \in Identities :
       \/ \E o \in Offerings, payload \in Payloads :
             AdmitOfferingCreate(s, identity, o, payload)
       \/ \E subject \in Subjects, k \in Keys, sameCommand \in BOOLEAN :
             AdmitAtsCreate(s, identity, subject, k, sameCommand)
       \/ \E o \in Offerings, version \in DirectoryVersions, record \in Records :
             AdmitDirectoryPublish(s, identity, o, version, record)

CandidateStep ==
    \/ \E k \in Keys, candidate \in Candidates, asset \in Assets :
          AttachCandidate(k, candidate, asset)
    \/ \E k \in Keys : ReattachCandidate(k)
    \/ \E t \in Tools : RecheckOwnedTool(t)

JobStep ==
    \E j \in Jobs :
       \/ \E documents \in BOOLEAN : ReadCandidate(j, documents)
       \/ Corroborate(j)
       \/ JobCrash(j)

LedgerStep == \E txn \in Txns, deployment \in Deployment : DeployAsset(txn, deployment)

OfferNext ==
    \/ ToolNext /\ UNCHANGED lifecycleVars
    \/ CommandStep
    \/ CandidateStep
    \/ JobStep
    \/ LedgerStep

OfferSpec == OfferInit /\ [][OfferNext]_offerVars

\* Owners keep asking, a mirror that has the documents ends up giving them,
\* and not every job is dropped before its mutation.
JobOf(j, k) == jobs[j] /= None /\ jobs[j].key = k
OfferFairness ==
    /\ \A t \in Tools : SF_offerVars(RecheckOwnedTool(t))
    /\ \A k \in Keys :
          /\ SF_offerVars(\E j \in Jobs : JobOf(j, k) /\ ReadCandidate(j, TRUE))
          /\ SF_offerVars(\E j \in Jobs : JobOf(j, k) /\ Corroborate(j))
FairOfferSpec == OfferSpec /\ OfferFairness

(***************************************************************************)
(* Properties                                                              *)
(***************************************************************************)

Backed(o) == Exists(o) /\ offerings[o].state \in {"READY", "OPEN"}
AttemptOf(o) == attempts[offerings[o].attempt]

\* Whatever candidates issuers attach and in whatever order jobs and repairs
\* bind them: one canonical transaction, one transaction read from the ledger
\* and one asset back one offering, legacy or tool.
ReceiptExclusive ==
    \A o1, o2 \in Offerings :
       Backed(o1) /\ Backed(o2) /\ o1 /= o2 =>
          /\ AttemptOf(o1).candidate.txn /= AttemptOf(o2).candidate.txn
          /\ AttemptOf(o1).verified = None \/ AttemptOf(o1).verified /= AttemptOf(o2).verified
          /\ offerings[o1].asset /= offerings[o2].asset

\* One transaction backs one offering, whatever the spelling of its id. The
\* code does not keep it: see the findings.
OneSpelling ==
    \A o1, o2 \in Offerings :
       Backed(o1) /\ Backed(o2) /\ o1 /= o2 =>
          AttemptOf(o1).candidate.read /= AttemptOf(o2).candidate.read

\* A tool is never offered on the word of its issuer: the asset was created by
\* a factory call the owner of the tool made for this tool and this title.
CorroboratedAsset ==
    \A t \in Tools :
       Backed(t) => LET deployment == ledger[AttemptOf(t).verified] IN
                    deployment = [subject |-> t, signer |-> tools[t].signer,
                                  payload |-> offerings[t].payload,
                                  asset |-> offerings[t].asset]

\* Two tables, one story: every attempt is linked from exactly one offering of
\* its own subject and identity, and the two advance together, through
\* retries, attachments, repairs and dropped jobs.
AttemptsLinked ==
    \A k \in Keys : attempts[k] /= None =>
       \E o \in Offerings :
          /\ {other \in Offerings : Exists(other) /\ offerings[other].attempt = k} = {o}
          /\ Subject(o) = attempts[k].subject
          /\ InContext(o, attempts[k].signer, attempts[k].identity)
          /\ offerings[o].state /= "DRAFT"
          /\ attempts[k].state = "PREPARED" => offerings[o].state = "ASSET_PENDING"
          /\ Backed(o) => offerings[o].asset = attempts[k].asset
          /\ attempts[k].verified /= None => Backed(o)

\* However publications race and replace each other, a service that ever
\* opened has exactly one version in force, and it is the one its offering
\* points at.
OneListing ==
    \A o \in Offerings :
       /\ Exists(o) => (offerings[o].state = "OPEN" <=> offerings[o].directory /= None)
       /\ Exists(o) /\ offerings[o].state = "OPEN" =>
             \E d \in Directories :
                /\ ActiveFor(Slug(o)) = {d}
                /\ offerings[d[1]].directory = d /\ offerings[d[1]].state = "OPEN"

\* Whatever is repeated, each row was created by exactly one command that was
\* answered NEW, and no answer NEW is without its row.
OneNewClaim ==
    \A c \in ClaimRow : c.outcome = "NEW" =>
       claims[c] = CASE c.type = "offering.create" -> IF Exists(c.target) THEN 1 ELSE 0
                     [] c.type = "external.prepare" -> IF attempts[c.target] /= None THEN 1 ELSE 0
                     [] c.type = "external.attachCandidate" ->
                           IF attempts[c.target] /= None /\ attempts[c.target].state = "SUBMITTED"
                           THEN 1 ELSE 0
                     [] OTHER -> IF Published(c.target) THEN 1 ELSE 0

\* An offering as the record of its deployment.
StageNumber(state) ==
    CASE state = "DRAFT" -> 1 [] state = "ASSET_PENDING" -> 2 [] state = "READY" -> 3 [] state = "OPEN" -> 4
StageOf(o) == IF Exists(o) THEN StageNumber(offerings[o].state) ELSE 0
IssuerOf(o) == IF Exists(o) THEN offerings[o].signer ELSE None
PreparedOf(o) == IF Exists(o) THEN offerings[o].attempt ELSE None
AttachedTo(o) == PreparedOf(o) /= None /\ AttemptOf(o).state = "SUBMITTED"

\* What the record and the listing promise, see ListingPromise.
Listing == INSTANCE ListingPromise WITH
    Deployments <- Offerings,
    Unread <- LegacyOfferings,
    Issuers <- Signers,
    Attempts <- Keys,
    SlugOf <- [o \in Offerings |-> Slug(o)],
    Slugs <- Subjects,
    record <- [o \in Offerings |-> StageOf(o)],
    owner <- [o \in Offerings |-> IssuerOf(o)],
    prepared <- [o \in Offerings |-> PreparedOf(o)],
    attached <- [o \in Offerings |-> AttachedTo(o)],
    proof <- [o \in Offerings |->
                IF Backed(o) THEN [txn |-> AttemptOf(o).candidate.txn, asset |-> offerings[o].asset]
                ELSE None],
    current <- [slug \in Subjects |->
                  IF ActiveFor(slug) = {} THEN None ELSE (CHOOSE d \in ActiveFor(slug) : TRUE)[1]]

\* Every step of the code is a step the listing promise allows, or none.
KeepsListing == Listing!Spec

\* The owner deployed what the attempt announced.
Genuine(t) ==
    /\ Exists(t) /\ tools[t].identity = "SELF_SERVICE"
    /\ \E k \in Keys : /\ offerings[t].attempt = k /\ attempts[k].state = "SUBMITTED"
                       /\ Corroborates(ledger[attempts[k].candidate.read], attempts[k])
\* Another offering took the transaction or the asset first.
Outrun(t) ==
    /\ PreparedOf(t) /= None /\ AttemptOf(t).candidate /= None
    /\ \E b \in bindings :
          /\ b.offering /= t
          /\ \/ b.txn = AttemptOf(t).candidate.txn
             \/ b.hash = AttemptOf(t).candidate.read
             \/ b.asset = AttemptOf(t).asset

\* A genuine deployment of a self-service issuer is accepted in the end, even
\* if the issuer is suspended or revoked, or the flag switched off, after the
\* asset was paid for, and however many jobs are lost; unless somebody else's
\* binding was there first.
Corroborated == \A t \in Tools : Genuine(t) ~> Backed(t) \/ Outrun(t)
=============================================================================
