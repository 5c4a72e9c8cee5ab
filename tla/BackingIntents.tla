--------------------------- MODULE BackingIntents ---------------------------
(***************************************************************************)
(* Preparation of a backing payment: who may prepare one, what is frozen   *)
(* in the intent, and the two quotas that bound how many a self-service    *)
(* backer may prepare.                                                     *)
(*                                                                         *)
(* A Convex mutation is a serializable transaction, so one handler is one  *)
(* action. The tables are functions: a missing row is None.                *)
(***************************************************************************)
EXTENDS Integers, FiniteSets

CONSTANTS
    Keys,             \* idempotency keys: 128-bit nonces drawn by the server
    Backers,          \* canonical signer addresses of backers
    Addresses,        \* every EVM address that occurs, backers included
    Offerings,        \* offering public ids
    LegacyOffering,   \* riskscan_revenue_note_demo, which predates self-service
    RecipientOf,      \* funding recipient of each offering
    TermSheets,       \* the versions of terms an offering may carry
    None,             \* a missing row
    SeededBackers,    \* backers whose BACKER authority is seeded and enabled
    EnabledAtStart,   \* whether the deployment starts with self-service on
    MaxPending,       \* TOOL402_SELF_SERVICE_MAX_PENDING_ATTEMPTS
    MaxHourly,        \* TOOL402_SELF_SERVICE_MAX_BACKING_INTENTS_PER_HOUR
    MaxLifetime,      \* longest life of an intent (300 s in the code)
    WindowLength,     \* length of a rate window (one hour in the code)
    MaxTime,          \* bound: the clock stops here
    MaxOperatorSteps  \* bound: how many times operators intervene

AccountStatus == {"ABSENT", "ACTIVE", "SUSPENDED", "REVOKED"}
TermSheet == [price : Nat \ {0}, minimum : Nat \ {0}, maximum : Nat]
Windows == 0 .. MaxTime \div WindowLength
Time == 0 .. MaxTime

\* A frozen intent keeps the terms sheet (the code keeps its digest) and the
\* recipient the backer reviewed.
Intent == [signer : Backers, offering : Offerings, units : Nat, tinybars : Nat,
           terms : TermSheets, recipient : Addresses,
           createdAt : Nat, expiresAt : Nat]

ASSUME IntentConstants ==
    /\ IsFiniteSet(Keys)
    /\ Backers \subseteq Addresses /\ SeededBackers \subseteq Backers
    /\ EnabledAtStart \in BOOLEAN
    /\ RecipientOf \in [Offerings -> Addresses]
    /\ TermSheets \subseteq TermSheet
    /\ None \notin Intent
    /\ MaxPending \in Nat \ {0} /\ MaxHourly \in Nat \ {0}
    /\ MaxLifetime \in Nat /\ MaxTime \in Nat /\ MaxOperatorSteps \in Nat
    /\ WindowLength \in Nat \ {0}

VARIABLES
    accounts,            \* selfServiceAccounts.status by signer
    backerAuthority,     \* an enabled BACKER row in commandAuthorities
    selfServiceEnabled,  \* TOOL402_PUBLIC_TESTNET_SELF_SERVICE_ENABLED
    offerings,           \* state and terms of each offering
    intents,             \* backingIntents by idempotency key
    rateLimits,          \* selfServiceWriteRateLimits.count by signer, window
    now,                 \* the server clock
    operatorSteps        \* operator interventions so far

policyVars == <<accounts, backerAuthority, selfServiceEnabled, offerings>>
intentVars == <<intents, rateLimits>>
vars == <<policyVars, intentVars, now, operatorSteps>>

TypeOK ==
    /\ accounts \in [Backers -> AccountStatus]
    /\ backerAuthority \in [Backers -> BOOLEAN]
    /\ selfServiceEnabled \in BOOLEAN
    /\ offerings \in [Offerings -> [state : {"OPEN", "CLOSED"}, terms : TermSheets]]
    /\ intents \in [Keys -> Intent \cup {None}]
    /\ rateLimits \in [Backers -> [Windows -> Nat]]
    /\ now \in Time
    /\ operatorSteps \in 0 .. MaxOperatorSteps

Init ==
    /\ accounts = [s \in Backers |-> "ABSENT"]
    /\ backerAuthority = [s \in Backers |-> s \in SeededBackers]
    /\ selfServiceEnabled = EnabledAtStart
    /\ offerings \in [Offerings -> [state : {"OPEN"}, terms : TermSheets]]
    /\ intents = [k \in Keys |-> None]
    /\ rateLimits = [s \in Backers |-> [w \in Windows |-> 0]]
    /\ now = 0
    /\ operatorSteps = 0

-----------------------------------------------------------------------------
(* Admission and quotas                                                    *)

Window(t) == t \div WindowLength

\* An intent that has not expired and so may still be spent.
Live(k) == intents[k] /= None /\ intents[k].expiresAt > now

PendingOf(s) == {k \in Keys : Live(k) /\ intents[k].signer = s}

ActiveAccount(s) == selfServiceEnabled /\ accounts[s] = "ACTIVE"

\* The legacy offering admits only an enabled BACKER authority; every other
\* offering admits only an active self-service account.
MayReserveNewBackingPayment(s, o) ==
    IF o = LegacyOffering THEN backerAuthority[s] ELSE ActiveAccount(s)

\* Mutants of WithinQuota: an off-by-one, and a forgotten hourly limit.
WithinQuotaInclusive(s) ==
    /\ Cardinality(PendingOf(s)) <= MaxPending
    /\ rateLimits[s][Window(now)] < MaxHourly
WithinPendingQuotaOnly(s) == Cardinality(PendingOf(s)) < MaxPending

WithinQuota(s) ==
    /\ Cardinality(PendingOf(s)) < MaxPending
    /\ rateLimits[s][Window(now)] < MaxHourly

\* Mutant of FrozenIntent: keeps a reference to the offering, not its terms.
IntentByReference(s, o, u, e) ==
    [signer |-> s, offering |-> o, units |-> u,
     tinybars |-> u * offerings[o].terms.price,
     terms |-> o, recipient |-> RecipientOf[o],
     createdAt |-> now, expiresAt |-> e]

FrozenIntent(s, o, u, e) ==
    [signer |-> s, offering |-> o, units |-> u,
     tinybars |-> u * offerings[o].terms.price,
     terms |-> offerings[o].terms, recipient |-> RecipientOf[o],
     createdAt |-> now, expiresAt |-> e]

\* The only handler that writes an intent. A repeated request for a key that
\* already has one returns the stored intent, or is rejected, and writes
\* nothing. Legacy intents are outside both quotas, but do fill the pending
\* count of their signer.
FreezeBackingIntent(k, s, o, u, e) ==
    /\ intents[k] = None
    /\ now < e /\ e <= now + MaxLifetime
    /\ MayReserveNewBackingPayment(s, o)
    /\ offerings[o].state = "OPEN"
    /\ RecipientOf[o] /= s
    /\ offerings[o].terms.minimum <= u /\ u <= offerings[o].terms.maximum
    /\ o = LegacyOffering \/ WithinQuota(s)
    /\ intents' = [intents EXCEPT ![k] = FrozenIntent(s, o, u, e)]
    /\ rateLimits' = IF o = LegacyOffering THEN rateLimits
                     ELSE [rateLimits EXCEPT ![s][Window(now)] = @ + 1]
    /\ UNCHANGED <<policyVars, now, operatorSteps>>

\* Signing in provisions an account once and never revives a suspended one.
EnsureSelfServiceAccount(s) ==
    /\ selfServiceEnabled
    /\ accounts[s] = "ABSENT"
    /\ accounts' = [accounts EXCEPT ![s] = "ACTIVE"]
    /\ UNCHANGED <<backerAuthority, selfServiceEnabled, offerings, intentVars,
                   now, operatorSteps>>

-----------------------------------------------------------------------------
(* Operators and time                                                      *)

OperatorStep ==
    /\ operatorSteps < MaxOperatorSteps
    /\ operatorSteps' = operatorSteps + 1
    /\ UNCHANGED <<intentVars, now>>

SetSelfServiceAccountStatus(s, status) ==
    /\ OperatorStep
    /\ accounts[s] /= "ABSENT"
    /\ accounts' = [accounts EXCEPT ![s] = status]
    /\ UNCHANGED <<backerAuthority, selfServiceEnabled, offerings>>

\* The environment flag is read afresh by every handler.
SwitchSelfService ==
    /\ OperatorStep
    /\ selfServiceEnabled' = ~selfServiceEnabled
    /\ UNCHANGED <<accounts, backerAuthority, offerings>>

\* commandAuthorities rows are seeded and edited outside the code.
EditBackerAuthority(s) ==
    /\ OperatorStep
    /\ backerAuthority' = [backerAuthority EXCEPT ![s] = ~@]
    /\ UNCHANGED <<accounts, selfServiceEnabled, offerings>>

\* No handler closes an offering or edits its terms; the dispatch check is
\* written against both, so an operator may do either.
EditOffering(o, state, terms) ==
    /\ OperatorStep
    /\ offerings' = [offerings EXCEPT ![o] = [state |-> state, terms |-> terms]]
    /\ UNCHANGED <<accounts, backerAuthority, selfServiceEnabled>>

Tick ==
    /\ now < MaxTime
    /\ now' = now + 1
    /\ UNCHANGED <<policyVars, intentVars, operatorSteps>>

Prepare ==
    \/ \E s \in Backers : EnsureSelfServiceAccount(s)
    \/ \E k \in Keys, s \in Backers, o \in Offerings :
         \E u \in offerings[o].terms.minimum .. offerings[o].terms.maximum,
            e \in now + 1 .. now + MaxLifetime :
           FreezeBackingIntent(k, s, o, u, e)

Operate ==
    \/ \E s \in Backers, status \in AccountStatus \ {"ABSENT"} :
         SetSelfServiceAccountStatus(s, status)
    \/ SwitchSelfService
    \/ \E s \in Backers : EditBackerAuthority(s)
    \/ \E o \in Offerings, state \in {"OPEN", "CLOSED"}, terms \in TermSheets :
         EditOffering(o, state, terms)

Next == Prepare \/ Operate \/ Tick

Spec == Init /\ [][Next]_vars

-----------------------------------------------------------------------------
(* Properties                                                              *)

SelfServiceIntents(s) ==
    {k \in Keys : intents[k] /= None /\ intents[k].signer = s
                    /\ intents[k].offering /= LegacyOffering}

\* However requests, expiry and operators interleave, a self-service backer
\* never holds more unexpired intents than the configured pending limit.
PendingQuota ==
    \A s \in Backers :
        Cardinality({k \in SelfServiceIntents(s) : Live(k)}) <= MaxPending

IntentsInWindow(s, w) ==
    {k \in SelfServiceIntents(s) : Window(intents[k].createdAt) = w}

\* The rate row of a window counts exactly the intents prepared in it, so no
\* window ever holds more than the hourly limit: the row cannot be reset by
\* expiry, by suspension and reactivation, or by switching the flag.
HourlyQuota ==
    \A s \in Backers, w \in Windows :
        /\ Cardinality(IntentsInWindow(s, w)) = rateLimits[s][w]
        /\ rateLimits[s][w] <= MaxHourly
=============================================================================
