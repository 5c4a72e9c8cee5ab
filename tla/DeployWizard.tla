---------------------------- MODULE DeployWizard ----------------------------
(***************************************************************************)
(* The deployment wizard of one browser tab: five pages of values, then    *)
(* four commands signed in order (draft, prepare, attach, publish) for the *)
(* legacy campaign or for one provider tool.                               *)
(*                                                                         *)
(* The wallet and the tool shown may change at any time. A change starts a *)
(* new session of the page: its requests and results are dropped and the   *)
(* durable record is read again. What was already asked of MetaMask, of    *)
(* the relay or of the server goes on, and answers the page later.         *)
(* Commands are decided by the server, modelled here by what it records.   *)
(***************************************************************************)
EXTENDS Integers

CONSTANTS
    Accounts,    \* addresses of the wallet
    Tools,       \* provider tools, each with a deployment of its own
    Legacy,      \* the campaign deployed without a tool
    None,
    MaxRequests, \* bound: signature requests opened
    MaxEvents    \* bound: changes of wallet or tool, edits, failed reads

Targets == Tools \cup {Legacy}
Pages == 0 .. 4
Review == 4
Stages == 0 .. 3

VARIABLES
    \* What the server holds of each target.
    record,     \* stages recorded: 0 none, 1 DRAFT, 2 ASSET_PENDING, 3 READY, 4 OPEN
    owner,      \* canonicalSignerAddress
    prepared,   \* the prepared attempt
    attached,   \* whether a candidate is attached
    \* The wizard.
    target, page, acknowledged, invalid, locked,
    \* The signing page.
    address,    \* the connected account
    loads,      \* reads of the durable record on their way; those of a session
                \* that is over are cancelled
    rechecks,   \* targets whose receipt recheck is on its way
    pending,    \* resumePending
    deployment, \* selectedDeploymentState
    results, attempt, candidate,
    complete,   \* whether the directory record has its configuration
    request,    \* the request shown by the dialog
    active,     \* whether activeRequestContext holds the current context: a
                \* change of account or tool clears it, a change of the wallet's
                \* generation alone leaves it behind
    flows,      \* signatures under way, also those whose dialog is gone
    asked,      \* requests opened
    late,       \* ghost: a result was taken for a request it does not answer
    events

\* The records of the server; the candidate of the legacy campaign is not read.
INSTANCE DeploymentRecord WITH Deployments <- Targets, Unread <- {Legacy}

serverVars == <<record, owner, prepared, attached>>
wizardVars == <<target, page, acknowledged, invalid, locked>>
signVars == <<address, loads, rechecks, pending, deployment, results,
              attempt, candidate, complete, request, active>>
deployVars == <<serverVars, wizardVars, signVars, flows, asked, late, events>>

NoResults == [s \in Stages |-> "none"]

DeployInit ==
    /\ record \in [Targets -> 0 .. 3]
    /\ owner \in [Targets -> Accounts \cup {None}]
    /\ prepared = [t \in Targets |-> IF record[t] >= 2 THEN t ELSE None]
    /\ attached \in [Targets -> BOOLEAN]
    /\ WellRecorded
    /\ target \in Targets
    /\ page = 0 /\ acknowledged = FALSE /\ invalid = None /\ locked = FALSE
    /\ address = None
    /\ loads = {} /\ rechecks = {} /\ pending = FALSE
    /\ deployment = None /\ results = NoResults
    /\ attempt = None /\ candidate = FALSE /\ complete = FALSE
    /\ request = None /\ active = FALSE
    /\ flows = {} /\ asked = 0 /\ late = FALSE /\ events = 0

(***************************************************************************)
(* The pages                                                               *)
(***************************************************************************)

\* The dialog covers the page.
Modal == request /= None /\ page = Review /\ address /= None

\* A field of the page shown becomes invalid, or valid again.
Edit ==
    /\ ~Modal /\ page < Review /\ ~locked /\ events < MaxEvents
    /\ invalid \in {None, page}
    /\ invalid' = IF invalid = page THEN None ELSE page
    /\ events' = events + 1
    /\ UNCHANGED <<serverVars, target, page, acknowledged, locked, signVars, flows, asked, late>>

Acknowledge ==
    /\ ~Modal /\ page = 3
    /\ acknowledged' = ~acknowledged
    /\ UNCHANGED <<serverVars, target, page, invalid, locked, signVars, flows, asked, late, events>>

FieldErrors(p) == invalid = p

CanAdvance == page /= 3 \/ acknowledged

MoveForward ==
    /\ ~Modal /\ page < Review
    /\ ~FieldErrors(page) /\ CanAdvance
    /\ page' = page + 1
    /\ UNCHANGED <<serverVars, target, acknowledged, invalid, locked, signVars, flows, asked, late, events>>

ReturnToStep(p) ==
    /\ ~Modal /\ p < page
    /\ page' = p
    /\ UNCHANGED <<serverVars, target, acknowledged, invalid, locked, signVars, flows, asked, late, events>>

(***************************************************************************)
(* The session of the page                                                 *)
(***************************************************************************)

\* The resume effect: forget everything, then read the durable record.
Restart(account, shown) ==
    /\ loads' = {[l EXCEPT !.cancelled = TRUE] : l \in loads} \cup
                (IF account = None THEN {}
                 ELSE {[target |-> shown, address |-> account, cancelled |-> FALSE]})
    /\ pending' = (account /= None)
    /\ active' = FALSE /\ request' = None
    /\ results' = NoResults
    /\ attempt' = None /\ candidate' = FALSE
    /\ complete' = FALSE
    /\ deployment' = None

\* A dialog still shown renders once more with the account that came in, and
\* compares it after the signature; one that is gone keeps what it last saw.
Moved(account) ==
    {IF account /= None /\ request /= None /\ f.id = request.id THEN [f EXCEPT !.same = FALSE] ELSE f : f \in flows}

ChangeWallet(account) ==
    /\ events < MaxEvents /\ account /= address
    /\ address' = account
    /\ flows' = Moved(account)
    /\ Restart(account, target)
    /\ events' = events + 1
    /\ UNCHANGED <<serverVars, wizardVars, rechecks, asked, late>>

\* Another connector with the same account is a new generation of the wallet.
\* The session of the page goes on and so does the dialog, but no answer to its
\* request will be taken any more.
RenewWallet ==
    /\ request /= None /\ events < MaxEvents
    /\ active' = FALSE
    /\ flows' = Moved(address)
    /\ events' = events + 1
    /\ UNCHANGED <<serverVars, wizardVars, address, loads, rechecks, pending, deployment, results,
                   attempt, candidate, complete, request, asked, late>>

\* Mutant of PageAfter: the page stays when another tool is shown.
SamePage == page
PageAfter == 0

ShowTarget(t) ==
    /\ events < MaxEvents /\ t /= target
    /\ target' = t
    /\ page' = PageAfter /\ acknowledged' = FALSE /\ invalid' = None /\ locked' = FALSE
    /\ Restart(address, t)
    /\ events' = events + 1
    /\ UNCHANGED <<serverVars, address, rechecks, flows, asked, late>>

\* Mutant of Current: an answer is taken whatever session asked.
Whichever(l) == TRUE
Current(l) == ~l.cancelled

Recovered(n) == [s \in Stages |-> IF s < n THEN "done" ELSE "none"]

\* loadProviderCampaignResume and its continuation.
Resumable(l) == record[Legacy] \in {2, 3} /\ owner[Legacy] = l.address

ResumeLegacy(l) ==
    /\ IF Resumable(l)
       THEN /\ results' = Recovered(record[Legacy])
            /\ attempt' = IF record[Legacy] = 2 THEN prepared[Legacy] ELSE attempt
            /\ page' = Review
       ELSE UNCHANGED <<results, attempt, page>>
    /\ UNCHANGED <<deployment, candidate, locked>>

\* What the server answers of a tool: its state, and while the asset is pending
\* its prepared attempt and attached candidate.
ToolDeployment(t) ==
    LET assetPending == record[t] = 2
    IN  [state |-> record[t],
         attempt |-> IF assetPending THEN prepared[t] ELSE None,
         candidate |-> assetPending /\ attached[t],
         durable |-> record[t] > 0]

\* The continuation of loadProviderToolDeployment.
ResumeTool(d) ==
    /\ deployment' = d.state
    /\ locked' = (locked \/ d.durable)
    /\ results' = IF d.candidate THEN [Recovered(2) EXCEPT ![2] = "recheck"] ELSE Recovered(d.state)
    /\ attempt' = d.attempt /\ candidate' = d.candidate
    /\ page' = IF d.state = 0 THEN page ELSE Review

Loaded(l) ==
    /\ l \in loads
    /\ loads' = loads \ {l}
    /\ IF Current(l)
       THEN /\ pending' = FALSE
            /\ IF l.target = Legacy THEN ResumeLegacy(l) ELSE ResumeTool(ToolDeployment(l.target))
       ELSE UNCHANGED <<pending, deployment, results, attempt, candidate, page, locked>>
    /\ UNCHANGED <<serverVars, target, acknowledged, invalid, address, rechecks, complete,
                   request, active, flows, asked, late, events>>

\* A read that fails answers nothing, which the legacy campaign cannot tell
\* from nothing recorded.
LoadFailed(l) ==
    /\ l \in loads /\ events < MaxEvents
    /\ loads' = loads \ {l}
    /\ pending' = (pending /\ ~Current(l))
    /\ events' = events + 1
    /\ UNCHANGED <<serverVars, wizardVars, address, rechecks, deployment, results, attempt,
                   candidate, complete, request, active, flows, asked, late>>

\* The directory configuration arrives for this session.
CompleteDirectoryRecord ==
    /\ address /= None /\ ~complete
    /\ complete' = TRUE
    /\ UNCHANGED <<serverVars, wizardVars, address, loads, rechecks, pending, deployment, results,
                   attempt, candidate, request, active, flows, asked, late, events>>

(***************************************************************************)
(* The stages                                                              *)
(***************************************************************************)

SessionStage(result, predecessor) ==
    IF result /= "none" THEN result
    ELSE IF predecessor = "done" THEN "actionable" ELSE "blocked"

\* The legacy configuration is compiled in; a tool's comes with its record.
Projected == target = Legacy \/ (deployment /= None /\ deployment > 0)

StageStates ==
    LET first == SessionStage(results[0], "done")
        second == IF Projected THEN SessionStage(results[1], first) ELSE "unavailable"
        third == IF candidate \/ results[2] /= "none" THEN SessionStage(results[2], second) ELSE "unavailable"
        fourth == IF complete THEN SessionStage(results[3], third) ELSE "unavailable"
    IN  IF address = None THEN [s \in Stages |-> "unavailable"]
        ELSE [s \in Stages |-> CASE s = 0 -> first [] s = 1 -> second [] s = 2 -> third [] s = 3 -> fourth]

FirstActionable(s) ==
    /\ StageStates[s] \in {"actionable", "recheck"}
    /\ \A before \in 0 .. s - 1 : StageStates[before] \notin {"actionable", "recheck"}

StageEnabled(s) ==
    /\ address /= None /\ request = None /\ ~pending
    /\ FirstActionable(s)
    /\ target /= Legacy => deployment /= None /\ ((deployment = 0) = (s = 0))

\* orderedStageStates: a stage is shown as blocked until the one right before it
\* is done.
Ordered(s) ==
    IF s = 0 \/ StageStates[s] = "unavailable" \/ StageStates[s - 1] = "done"
    THEN StageStates[s] ELSE "blocked"

\* The button of a stage: enabled for the first stage that can go on, unless it
\* is shown as blocked.
StageControl(s) == StageEnabled(s) /\ Ordered(s) \in {"actionable", "recheck"}

\* What a stage signs of the page: a draft carries its values, a prepare the
\* configuration, a publication the record, an attachment the attempt.
SignedRequest(s, id) ==
    [id |-> id, stage |-> s, target |-> target, attempt |-> IF s = 2 THEN attempt ELSE None]

\* buildStageSignatureRequest, which throws without these.
Buildable(s) ==
    CASE s = 0 -> invalid = None
      [] s = 1 -> Projected
      [] s = 2 -> candidate /\ attempt /= None
      [] s = 3 -> complete

Activate(s) ==
    /\ page = Review /\ StageControl(s) /\ results[s] /= "recheck"
    /\ Buildable(s) /\ asked < MaxRequests
    /\ asked' = asked + 1
    /\ request' = SignedRequest(s, asked')
    /\ active' = TRUE
    /\ UNCHANGED <<serverVars, wizardVars, address, loads, rechecks, pending, deployment, results,
                   attempt, candidate, complete, flows, late, events>>

ActivateRecheck ==
    /\ page = Review /\ StageControl(2) /\ results[2] = "recheck" /\ target /= Legacy
    /\ pending' = TRUE
    /\ rechecks' = rechecks \cup {target}
    /\ UNCHANGED <<serverVars, wizardVars, address, loads, deployment, results, attempt, candidate,
                   complete, request, active, flows, asked, late, events>>

\* An answer reads the record again; none only ends the wait, whoever waits.
Rechecked(t, answered) ==
    /\ t \in rechecks
    /\ rechecks' = rechecks \ {t}
    /\ IF answered THEN Restart(address, target)
       ELSE /\ pending' = FALSE
            /\ UNCHANGED <<loads, deployment, results, attempt, candidate, complete, request, active>>
    /\ UNCHANGED <<serverVars, wizardVars, address, flows, asked, late, events>>

\* The candidate of the create action of stage three.
ReceiveCandidate ==
    /\ page = Review /\ ~Modal /\ Ordered(1) = "done" /\ attempt /= None /\ ~candidate
    /\ candidate' = TRUE
    /\ UNCHANGED <<serverVars, wizardVars, address, loads, rechecks, pending, deployment, results,
                   attempt, complete, request, active, flows, asked, late, events>>

(***************************************************************************)
(* Signing                                                                 *)
(***************************************************************************)

Sign ==
    /\ Modal /\ \A f \in flows : f.id /= request.id
    /\ flows' = flows \cup {[id |-> request.id, stage |-> request.stage, target |-> request.target,
                             attempt |-> request.attempt, signer |-> address, same |-> TRUE,
                             outcome |-> "signing"]}
    /\ UNCHANGED <<serverVars, wizardVars, signVars, asked, late, events>>

StageKind(outcome) ==
    CASE outcome = "ACCEPTED" -> "done"
      [] outcome = "REPLAYED" -> "replayed"
      [] outcome = "REJECTED" -> "rejected"
      [] outcome = "not_configured" -> "unavailable"
      [] outcome = "transport_failure" -> "unknown"
      [] outcome = "declined" -> "actionable"

\* An attachment to a tool's attempt waits for its corroboration.
AfterResult(f) ==
    IF f.stage = 2 /\ f.target /= Legacy /\ f.outcome \in {"ACCEPTED", "REPLAYED"}
    THEN "recheck" ELSE StageKind(f.outcome)

\* finish: the closure's request, the context of whatever request is active.
Finish(f) ==
    IF ~active
    THEN UNCHANGED <<loads, pending, deployment, results, attempt, candidate, complete,
                     request, active, late>>
    ELSE /\ late' = (late \/ request = None \/ f.id /= request.id)
         /\ IF f.stage = 0 /\ f.outcome = "ACCEPTED" /\ f.target /= Legacy
            THEN Restart(address, target)
            ELSE /\ results' = [results EXCEPT ![f.stage] = AfterResult(f)]
                 /\ attempt' = IF f.stage = 1 /\ f.outcome = "ACCEPTED" THEN f.id ELSE attempt
                 /\ request' = None /\ active' = FALSE
                 /\ UNCHANGED <<loads, pending, deployment, candidate, complete>>

\* The dialog is cancelled before anything is asked of MetaMask.
Cancel ==
    /\ Modal /\ \A f \in flows : f.id /= request.id
    /\ Finish([id |-> request.id, stage |-> request.stage, target |-> request.target, outcome |-> "declined"])
    /\ UNCHANGED <<serverVars, wizardVars, address, rechecks, flows, asked, events>>

\* MetaMask declines or fails, the request expired, or the wallet moved.
Unsigned(f) ==
    /\ f \in flows /\ f.outcome = "signing"
    /\ flows' = flows \ {f}
    /\ Finish([f EXCEPT !.outcome = "declined"])
    /\ UNCHANGED <<serverVars, wizardVars, address, rechecks, asked, events>>

\* A stage is the issuer's that drafted, and a candidate is for the attempt
\* it was created for. Attached once more it repairs a legacy deployment that
\* was left pending.
Admissible(f) ==
    /\ owner[f.target] \in {None, f.signer}
    /\ f.stage = 2 => f.attempt = prepared[f.target]

Admit(f) ==
    \/ f.stage = 0 /\ RecordDraft(f.target, f.signer)
    \/ f.stage = 1 /\ RecordAttempt(f.target, f.id)
    \/ f.stage = 2 /\ RecordCandidate(f.target)
    \/ f.stage = 2 /\ f.target = Legacy /\ RecordAsset(f.target)
    \/ f.stage = 3 /\ RecordListing(f.target)

Relay(f, outcome) ==
    /\ f \in flows /\ f.outcome = "signing" /\ f.same
    /\ flows' = (flows \ {f}) \cup {[f EXCEPT !.outcome = outcome]}
    /\ \/ outcome \in {"ACCEPTED", "transport_failure"} /\ Admissible(f) /\ Admit(f)
       \/ outcome /= "ACCEPTED" /\ UNCHANGED serverVars
    /\ UNCHANGED <<wizardVars, signVars, asked, late, events>>

Relayed(f) ==
    /\ f \in flows /\ f.outcome /= "signing"
    /\ flows' = flows \ {f}
    /\ Finish(f)
    /\ UNCHANGED <<serverVars, wizardVars, address, rechecks, asked, events>>

\* The receipt of a tool's candidate is corroborated.
Corroborate(t) ==
    /\ t /= Legacy /\ RecordAsset(t)
    /\ UNCHANGED <<wizardVars, signVars, flows, asked, late, events>>

Outcomes == {"ACCEPTED", "REJECTED", "REPLAYED", "not_configured", "transport_failure"}

DeployNext ==
    \/ Edit \/ Acknowledge \/ MoveForward \/ \E p \in Pages : ReturnToStep(p)
    \/ \E a \in Accounts \cup {None} : ChangeWallet(a)
    \/ RenewWallet
    \/ \E t \in Targets : ShowTarget(t) \/ Corroborate(t) \/ \E ok \in BOOLEAN : Rechecked(t, ok)
    \/ \E l \in loads : Loaded(l) \/ LoadFailed(l)
    \/ CompleteDirectoryRecord
    \/ \E s \in Stages : Activate(s)
    \/ ActivateRecheck \/ ReceiveCandidate
    \/ Sign \/ Cancel
    \/ \E f \in flows : Unsigned(f) \/ Relayed(f) \/ \E o \in Outcomes : Relay(f, o)

DeploySpec == DeployInit /\ [][DeployNext]_deployVars

(***************************************************************************)
(* Properties                                                              *)
(***************************************************************************)

DeployTypeOK ==
    /\ record \in [Targets -> 0 .. 4]
    /\ page \in Pages /\ deployment \in {None} \cup 0 .. 4
    /\ results \in [Stages -> {"none", "done", "actionable", "recheck", "rejected", "replayed",
                               "unavailable", "unknown"}]
    /\ request /= None => request.stage \in Stages

\* A first draft is put before the issuer only on the page reached by
\* acknowledging the terms, whatever tools the tab showed and whatever
\* deployments it resumed before.
AcknowledgedDraft ==
    request /= None /\ request.stage = 0 /\ record[request.target] = 0 => acknowledged

\* A stage is put before the issuer only when the server holds the stage it
\* builds on, for the very target shown: reads that answer late, failed reads,
\* rechecks and refreshes never carry the progress of one deployment into
\* another. (A late result can: see LateResultIgnored.)
StagesInOrder ==
    request /= None /\ ~late =>
        /\ request.target = target
        /\ record[target] >= request.stage

\* A result changes the page only when it answers the request shown.
LateResultIgnored == ~late
=============================================================================
