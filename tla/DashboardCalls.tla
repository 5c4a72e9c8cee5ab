--------------------------- MODULE DashboardCalls ---------------------------
(***************************************************************************)
(* A dashboard is used either for calls through its server or for the      *)
(* deploy wizard of a page. They share no row and no storage, so a         *)
(* behaviour is one of either.                                             *)
(***************************************************************************)
EXTENDS SessionIngress

CONSTANTS Accounts, Deployed, Legacy, MaxRequests, MaxEvents  \* of the wizard

VARIABLES
    site,
    record, owner, preparedAttempts, attached,
    target, page, acknowledged, invalid, locked,
    address, loads, rechecks, pending, deployment, results, attempt, candidate, complete,
    request, active, flows, asked, late, events

Deploy == INSTANCE DeployWizard WITH
    Tools <- Deployed, prepared <- preparedAttempts

wizardVars == <<record, owner, preparedAttempts, attached,
                target, page, acknowledged, invalid, locked,
                address, loads, rechecks, pending, deployment, results, attempt, candidate,
                complete, request, active, flows, asked, late, events>>
siteVars == <<site, sessionVars, wizardVars>>

SiteInit == site \in {"calls", "wizard"} /\ SessionInit /\ Deploy!DeployInit

SiteNext ==
    /\ UNCHANGED site
    /\ \/ site = "calls" /\ SessionNext /\ UNCHANGED wizardVars
       \/ site = "wizard" /\ Deploy!DeployNext /\ UNCHANGED sessionVars

SiteSpec == SiteInit /\ [][SiteNext]_siteVars

\* What is signed is the draft its owner acknowledged, and the server takes
\* its stages in order.
DraftSignedInOrder == Deploy!DeployTypeOK /\ Deploy!AcknowledgedDraft /\ Deploy!StagesInOrder
=============================================================================
