--------------------------- MODULE SeparateParts ---------------------------
(***************************************************************************)
(* The parts that share no state with one another nor with the record of   *)
(* backings and offerings: the session of the dashboard, the RiskScan      *)
(* ledger and states, the checks of an entity, the paying agent, the       *)
(* one-use states and the economics of an offering. A behaviour is one of  *)
(* any of them, so that one run explores them all and none multiplies the  *)
(* states of another.                                                      *)
(***************************************************************************)
EXTENDS OfferingEconomics

CONSTANTS
    None,
    \* of the dashboard
    Accounts, Tabs, MaxSessions, MaxClicks,
    \* of the settlement ledger
    Spellings, Trimmed, Blank, Contents, Keys, Networks, Refs, MaxRows, MaxLedgerTime,
    \* of the one-use states and of RiskScan
    Digests, EventTimes, Rejected, MaxIssued, MaxCalls,
    References, SettlementRefs, Receipts, MaxObjects,
    \* of the entity checks
    Checks, Records, Normal, Lists, NoNumber, RegistryTimeout, SanctionsTimeout,
    Lifetime, MaxTime,
    \* of the paying agent
    Runs, Paths, Amounts, Maximum

VARIABLES
    part,
    \* of the dashboard
    wallet, view, cookie, sessions, lock, layout, matched, step, ending, steady,
    posted, clicks,
    \* of the settlement ledger
    ledgerTime, requests, attempts, records, answer,
    \* of the one-use states and of RiskScan
    issued, consumed, transitioning, calls, objects,
    \* of the entity checks
    now, cache, check,
    \* of the paying agent
    price, run, charged, files

Dash == INSTANCE DashboardSession
          WITH issued <- sessions, target <- ending, answer <- posted,
               events <- clicks, MaxEvents <- MaxClicks
Ledger == INSTANCE SettlementLedger WITH now <- ledgerTime, MaxTime <- MaxLedgerTime
OneUse == INSTANCE OneUseStates WITH Times <- EventTimes
Scan == INSTANCE RiskScanStates WITH
          Settlements <- SettlementRefs, MaxIssued <- MaxObjects
Entity == INSTANCE EntityChecks WITH Requests <- Checks
Agent == INSTANCE AgentPayment

\* What is not there is no account's session, run or diagnostic; trimming twice
\* trims no more; times are natural numbers.
ASSUME PartsConstants ==
    /\ None \notin Dash!Session /\ None \notin Accounts /\ None \notin Tabs
    /\ None \notin Checks /\ None \notin Runs /\ None \notin Agent!Early
    /\ MaxSessions \in Nat /\ MaxLedgerTime \in Nat /\ MaxTime \in Nat
    /\ RegistryTimeout \in Nat /\ SanctionsTimeout \in Nat /\ Lifetime \in Nat
    /\ \A s \in Spellings : Trimmed[s] /= Blank => Trimmed[Trimmed[s]] = Trimmed[s]

dashVars == <<wallet, view, cookie, sessions, lock, layout, matched, step, ending,
              steady, posted, clicks>>
ledgerVars == <<ledgerTime, requests, attempts, records, answer>>
oneUseVars == <<issued, consumed, transitioning, calls>>
entityVars == <<now, cache, check>>
agentVars == <<price, run, charged, files>>
coreVars == <<ledgerVars, oneUseVars, objects, entityVars, agentVars, economyVars>>
partsVars == <<part, dashVars, coreVars>>

\* The parts a behaviour is not about rest in one of their initial states. Of
\* two accounts, which are alike, one is the first wallet.
PartsInit ==
    /\ part \in {"dashboard", "ledger", "one use", "scan", "entity", "agent", "economy"}
    /\ Dash!DashInit
    /\ wallet = CHOOSE a \in Accounts : TRUE
    /\ Ledger!LedgerInit /\ OneUse!OneUseInit /\ Scan!RiskScanInit /\ Entity!EntityInit
    /\ Agent!AgentInit
    /\ part /= "agent" => price = Maximum
    /\ EconomyInit
    /\ part /= "economy" => terms = CHOOSE t \in TermsInputs : CreateOfferingTerms(t)

PartsNext ==
    /\ UNCHANGED part
    /\ \/ part = "dashboard" /\ Dash!DashNext /\ UNCHANGED coreVars
       \/ /\ UNCHANGED dashVars
          /\ \/ /\ part = "ledger" /\ Ledger!LedgerNext
                /\ UNCHANGED <<oneUseVars, objects, entityVars, agentVars, economyVars>>
             \/ /\ part = "one use" /\ OneUse!OneUseNext
                /\ UNCHANGED <<ledgerVars, objects, entityVars, agentVars, economyVars>>
             \/ /\ part = "scan" /\ Scan!RiskScanNext
                /\ UNCHANGED <<ledgerVars, oneUseVars, entityVars, agentVars, economyVars>>
             \/ /\ part = "entity" /\ Entity!EntityNext
                /\ UNCHANGED <<ledgerVars, oneUseVars, objects, agentVars, economyVars>>
             \/ /\ part = "agent" /\ Agent!AgentNext
                /\ UNCHANGED <<ledgerVars, oneUseVars, objects, entityVars, economyVars>>
             \/ /\ part = "economy" /\ EconomyNext
                /\ UNCHANGED <<ledgerVars, oneUseVars, objects, entityVars, agentVars>>

\* As in DashboardSession: effects run, answers arrive, the lock is granted.
PartsFairness ==
    \A t \in Tabs : /\ WF_dashVars(part = "dashboard" /\ Dash!Proceed(t))
                    /\ SF_dashVars(part = "dashboard" /\ Dash!Begin(t))

PartsSpec == PartsInit /\ [][PartsNext]_partsVars /\ PartsFairness

(***************************************************************************)
(* The properties of the parts; they are stated in their modules, but for  *)
(* WithinTerms, which comes with OfferingEconomics.                        *)
(***************************************************************************)

\* A session disappears only because its own tab logged it out.
LogoutEndsOwn == []Dash!DashTypeOK /\ Dash!LogoutEndsOwn

\* In the end every open dashboard is the connected account's.
DashboardFollowsWallet == Dash!DashboardFollowsWallet

\* One transfer settles one attempt, and a call made again is answered as the
\* first time.
SettledOnce == []Ledger!TransferSettlesOnce /\ Ledger!RetryReplays

\* An object has one successor, and a call that fails leaves it usable.
UsedOnce == OneUse!OneSuccessor /\ OneUse!StateSurvivesRejection

\* A completed scan rests on the settlement and the receipt of its request.
CompletedIsProven == Scan!CompletedIsProven

\* A screening list is recent, answers come in time, and what was read can be
\* assessed.
EntityAnswered ==
    /\ Entity!EntityTypeOK
    /\ Entity!ScreenIsRecent /\ Entity!AnswersInTime /\ Entity!ReadIsAssessable

\* The agent says it paid nothing only if so, is charged what was quoted, and
\* keeps the evidence it exported.
AgentAccounts ==
    /\ Agent!AgentTypeOK
    /\ Agent!EarlyFailureIsFree /\ Agent!ChargedAsQuoted /\ Agent!ExportedIsKept
=============================================================================
