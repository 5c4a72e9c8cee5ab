----------------------------- MODULE MCOfferings -----------------------------
(***************************************************************************)
(* Two instances of OfferingLifecycle in one run. The first has a tool and *)
(* a legacy offering of one issuer. The second, whose variables are "old", *)
(* has two offerings of the legacy subject, one of them left pending by an *)
(* earlier release, versions that replace each other, and repeats. A       *)
(* behaviour is one of either.                                             *)
(***************************************************************************)
EXTENDS MCOfferingLifecycle

VARIABLES
    era, oldAccounts, oldRows, oldSelfService, oldTools,
    oldOfferings, oldAttempts, oldBindings, oldDirectories, oldClaims, oldLedger, oldJobs

Legacy == INSTANCE OfferingLifecycle WITH
    Tools <- {}, Supervised <- {}, LegacyOfferings <- {l1, l2}, HistoricPending <- {l1},
    DirectoryVersions <- {1, 2}, Jobs <- {j1}, MaxRepeats <- 1,
    accounts <- oldAccounts, rows <- oldRows, selfService <- oldSelfService,
    tools <- oldTools, offerings <- oldOfferings, attempts <- oldAttempts,
    bindings <- oldBindings, directories <- oldDirectories, claims <- oldClaims,
    ledger <- oldLedger, jobs <- oldJobs

\* What the theorems about OfferingLifecycle ask of its constants.
ASSUME LegacyDeployment == Legacy!ToolConstants /\ Legacy!LifecycleConstants

oldVars == <<oldAccounts, oldRows, oldSelfService, oldTools, oldOfferings, oldAttempts,
             oldBindings, oldDirectories, oldClaims, oldLedger, oldJobs>>
eraVars == <<era, offerVars, oldVars>>

NoOldRows ==
    /\ oldAccounts = None /\ oldRows = None /\ oldSelfService = None /\ oldTools = None
    /\ oldOfferings = None /\ oldAttempts = None /\ oldBindings = None
    /\ oldDirectories = None /\ oldClaims = None /\ oldLedger = None /\ oldJobs = None

EraInit ==
    /\ era \in {"MIXED", "LEGACY"}
    /\ OfferInit
    /\ \/ era = "MIXED" /\ NoOldRows
       \/ era = "LEGACY" /\ ~selfService /\ Legacy!OfferInit

EraNext ==
    \/ era = "MIXED" /\ OfferNext /\ UNCHANGED <<era, oldVars>>
    \/ era = "LEGACY" /\ Legacy!OfferNext /\ UNCHANGED <<era, offerVars>>

EraSpec == EraInit /\ [][EraNext]_eraVars

\* Two kinds of repeat in one behaviour, or one next to a second version.
Repeated == {c \in Legacy!ClaimRow : c.outcome /= "NEW" /\ oldClaims[c] > 0}
Replacing == \E d \in Legacy!Directories : d[2] = 2 /\ oldDirectories[d] /= None
FewRepeats == era = "LEGACY" => Cardinality(Repeated) <= IF Replacing THEN 1 ELSE 2

\* The properties of offerings for what an earlier release left behind: repairs
\* bind its candidate as late as they like, two offerings of one service replace
\* each other's versions, and commands come again under fresh nonces.
LegacyRespected ==
    era = "LEGACY" =>
        /\ Legacy!OfferTypeOK /\ Legacy!ReceiptExclusive /\ Legacy!AttemptsLinked
        /\ Legacy!OneListing /\ Legacy!OneNewClaim
=============================================================================
