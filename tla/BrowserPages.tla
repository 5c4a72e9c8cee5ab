---------------------------- MODULE BrowserPages ----------------------------
(***************************************************************************)
(* The two pages that ask MetaMask for a transaction: the deploy page,     *)
(* which creates the note of a prepared attempt, and the backing page,     *)
(* which pays for one. They share neither local storage keys nor locks, so *)
(* a behaviour is one of either page, open in several tabs.                *)
(***************************************************************************)
EXTENDS FiniteSets

CONSTANTS Tabs, None, MaxEvents, Fresh, Earlier, Foreign, Keys, Legacy, Outcomes

VARIABLES
    page,
    \* of the deploy page
    store, createStep, claim, hash, blocked, left, offered, requests, sent,
    mined, createEvents,
    \* of the backing page
    status, recorded, frozen, prepared, pending, legacy, step, work, view,
    viewed, payment, shown, moved, adrift, orphans, transfers, known,
    failing, refused, lost, events

Create == INSTANCE StageBCreate
            WITH step <- createStep, moved <- left, orphans <- requests, events <- createEvents
Back == INSTANCE BackingFlow

\* What is not there is no hash and no record; the attempt an earlier release
\* left is none of those prepared now. A verification may report any outcome.
ASSUME PagesConstants ==
    /\ IsFiniteSet(Tabs)
    /\ None \notin Create!Hashes /\ None \notin Create!Record
    /\ Legacy \notin Keys
    /\ Outcomes \subseteq Back!Verdicts

createVars == <<store, createStep, claim, hash, blocked, left, offered, requests,
                sent, mined, createEvents>>
backVars == <<status, recorded, frozen, prepared, pending, legacy, step, work, view,
              viewed, payment, shown, moved, adrift, orphans, transfers,
              known, failing, refused, lost, events>>
pagesVars == <<page, createVars, backVars>>

PagesInit ==
    /\ page \in {"DEPLOY", "BACK"}
    /\ Create!StageInit /\ (page = "BACK" => store = None)
    /\ Back!FlowInit /\ (page = "DEPLOY" => status[Legacy] = "NONE" /\ ~failing)

PagesNext ==
    \/ page = "DEPLOY" /\ Create!StageNext /\ UNCHANGED <<page, backVars>>
    \/ page = "BACK" /\ Back!FlowNext /\ UNCHANGED <<page, createVars>>

PagesSpec == PagesInit /\ [][PagesNext]_pagesVars

\* The properties of the two pages; they are stated in their modules. The
\* tabs sign one creation, and transfer once, whatever is reloaded or lost.
OneCreate == Create!OneCreate
OneTransfer == Back!OneTransfer

\* What a page shows, and what the browser knows of the ledger, is retained.
ShownIsRetained == Create!CandidateRetained /\ Back!HashKept

\* A hash in the record of a creation is never replaced or removed.
EvidenceKept == Create!EvidenceKept
=============================================================================
