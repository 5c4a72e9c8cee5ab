----------------------------- MODULE MCPayments -----------------------------
(***************************************************************************)
(* Two instances of BackingPayments in one run. The first has two attempts *)
(* of a backer, two verification jobs, and transfers made by hand. In the  *)
(* second, whose variables are "old", a seeded backer holds two claims     *)
(* from before intents and offering scopes, in every state an earlier      *)
(* release may have left, and prepares a third. A behaviour is one of      *)
(* either.                                                                 *)
(***************************************************************************)
EXTENDS MCBackingPayments

CONSTANTS k4, k5, h4, h5

VARIABLES
    era, oldAccounts, oldAuthority, oldSelfService, oldOfferings, oldIntents,
    oldRateLimits, oldNow, oldOperatorSteps, oldAttempts, oldAttemptOrder, oldClaims,
    oldClaimOrder, oldPermits, oldLedger, oldJobs

\* What an earlier release may have left of a claim; one hash has one claim.
Left == {Historic(b1, "SUBMITTED", h4), Historic(b1, "OUTCOME_UNKNOWN", NoHash),
         Historic(b1, "CONFIRMED", h4), Historic(b1, "CONFIRMED", h5)}

Before == INSTANCE BackingPayments WITH
    Keys <- {k3, k4, k5}, HistoricKeys <- {k4, k5}, HistoricClaims <- Left,
    Hashes <- {h3, h4, h5}, Addresses <- {b1, treasury}, Offerings <- {riskscan},
    RecipientOf <- LegacyRecipientOf, SeededBackers <- {b1}, EnabledAtStart <- FALSE,
    MaxTime <- 0, ForeignTransfers <- {}, Verifiers <- {v1},
    accounts <- oldAccounts, backerAuthority <- oldAuthority,
    selfServiceEnabled <- oldSelfService, offerings <- oldOfferings,
    intents <- oldIntents, rateLimits <- oldRateLimits, now <- oldNow,
    operatorSteps <- oldOperatorSteps, attempts <- oldAttempts,
    attemptOrder <- oldAttemptOrder, claims <- oldClaims, claimOrder <- oldClaimOrder,
    permits <- oldPermits, ledger <- oldLedger, jobs <- oldJobs

\* What the theorems about BackingPayments ask of its constants.
ASSUME HistoricDeployment == Before!IntentConstants /\ Before!PaymentConstants

oldVars == <<oldAccounts, oldAuthority, oldSelfService, oldOfferings, oldIntents,
             oldRateLimits, oldNow, oldOperatorSteps, oldAttempts, oldAttemptOrder,
             oldClaims, oldClaimOrder, oldPermits, oldLedger, oldJobs>>
eraVars == <<era, allVars, oldVars>>

NoOldRows ==
    /\ oldAccounts = None /\ oldAuthority = None /\ oldSelfService = None
    /\ oldOfferings = None /\ oldIntents = None /\ oldRateLimits = None /\ oldNow = None
    /\ oldOperatorSteps = None /\ oldAttempts = None /\ oldAttemptOrder = None
    /\ oldClaims = None /\ oldClaimOrder = None /\ oldPermits = None
    /\ oldLedger = None /\ oldJobs = None

EraInit ==
    /\ PayInit
    /\ \/ era = "TODAY" /\ NoOldRows
       \/ era = "BEFORE" /\ Before!PayInit

EraNext ==
    \/ era = "TODAY" /\ PayNext /\ UNCHANGED <<era, oldVars>>
    \/ era = "BEFORE" /\ Before!PayNext /\ UNCHANGED <<era, allVars>>

EraSpec == EraInit /\ [][EraNext]_eraVars

\* HashExclusive and OneOpenDispatch next to history: no new claim takes the
\* transaction of an old one, and an old claim that is open blocks a dispatch.
HistoryRespected ==
    era = "BEFORE" => Before!PayTypeOK /\ Before!HashExclusive /\ Before!OneOpenDispatch
=============================================================================
