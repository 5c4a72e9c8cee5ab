---------------------------- MODULE ProviderTools ----------------------------
(***************************************************************************)
(* Who may act as an issuer, and the provider tools issuers allocate.      *)
(*                                                                         *)
(* A signer acts under a seeded authority row, or under a self-service     *)
(* account, or holds both. A tool belongs to the signer AND to the         *)
(* identity it was allocated under, whatever the signer acts as later.     *)
(***************************************************************************)
EXTENDS Integers, FiniteSets

CONSTANTS
    Signers,        \* canonical signer addresses
    StageBIssuer,   \* the signer of the planned Stage B authority
    Tools,          \* tool identities; the code draws them at random
    Requests,       \* request ids a dashboard may send
    None,           \* a missing row, an absent field
    MaxTools,       \* TOOL402_SELF_SERVICE_MAX_TOOLS
    SeededAtStart,  \* signers whose ISSUER row exists at the start
    Supervised      \* bound: signers whose row and status operators change

Identities == {"AUTHORITY", "SELF_SERVICE"}
AccountStatus == {"ABSENT", "ACTIVE", "SUSPENDED", "REVOKED"}
RowStatus == {"ABSENT", "ENABLED", "DISABLED"}
Tool == [signer : Signers, identity : Identities, request : Requests]

ASSUME ToolConstants ==
    /\ IsFiniteSet(Tools)
    /\ SeededAtStart \subseteq Signers /\ Supervised \subseteq Signers
    /\ None \notin Tool
    /\ MaxTools \in Nat \ {0}

VARIABLES
    accounts,     \* selfServiceAccounts.status by signer
    rows,         \* the ISSUER row of commandAuthorities by signer
    selfService,  \* TOOL402_PUBLIC_TESTNET_SELF_SERVICE_ENABLED
    tools         \* providerTools by identity

memberVars == <<accounts, rows, selfService>>
toolVars == <<memberVars, tools>>

ToolTypeOK ==
    /\ accounts \in [Signers -> AccountStatus]
    /\ rows \in [Signers -> RowStatus]
    /\ selfService \in BOOLEAN
    /\ tools \in [Tools -> Tool \cup {None}]

ToolInit ==
    /\ accounts = [s \in Signers |-> "ABSENT"]
    /\ rows = [s \in Signers |-> IF s \in SeededAtStart THEN "ENABLED" ELSE "ABSENT"]
    /\ selfService \in BOOLEAN
    /\ tools = [t \in Tools |-> None]

(***************************************************************************)
(* Membership                                                              *)
(***************************************************************************)

EnsureAccount(s) ==
    /\ selfService
    /\ accounts[s] = "ABSENT"
    /\ accounts' = [accounts EXCEPT ![s] = "ACTIVE"]
    /\ UNCHANGED <<rows, selfService, tools>>

SetAccountStatus(s, status) ==
    /\ accounts[s] /= "ABSENT"
    /\ status /= accounts[s]
    /\ accounts' = [accounts EXCEPT ![s] = status]
    /\ UNCHANGED <<rows, selfService, tools>>

\* Operators edit rows and flip the flag outside the code.
EditAuthorityRow(s, status) ==
    /\ status /= rows[s]
    /\ rows' = [rows EXCEPT ![s] = status]
    /\ UNCHANGED <<accounts, selfService, tools>>

FlipSelfService ==
    /\ selfService' = ~selfService
    /\ UNCHANGED <<accounts, rows, tools>>

\* Whether a command of s under an identity is admitted as an issuer's.
Admitted(s, identity) ==
    IF identity = "AUTHORITY" THEN rows[s] = "ENABLED"
    ELSE selfService /\ accounts[s] = "ACTIVE"

\* resolveSelectedProviderToolSubject: the tool is this identity's own.
OwnsTool(s, identity, t) ==
    tools[t] /= None /\ tools[t].signer = s /\ tools[t].identity = identity

(***************************************************************************)
(* Allocation                                                              *)
(***************************************************************************)

ToolsOf(s) == {t \in Tools : tools[t] /= None /\ tools[t].signer = s}
\* Mutant of AllocationIdentity: stores the status of the account.
AllocationStatus(s) ==
    IF s = StageBIssuer /\ Admitted(s, "AUTHORITY") THEN "AUTHORITY" ELSE accounts[s]

\* The planned issuer allocates under its row; every other signer under its
\* account, and the quota counts all tools of the signer.
AllocationIdentity(s) ==
    IF s = StageBIssuer /\ Admitted(s, "AUTHORITY") THEN "AUTHORITY" ELSE "SELF_SERVICE"

\* Mutant of RequestedBy: forgets tools of the signer's other identity.
RequestedAs(s, r) ==
    {t \in ToolsOf(s) : tools[t].request = r /\ tools[t].identity = AllocationIdentity(s)}
RequestedBy(s, r) == {t \in ToolsOf(s) : tools[t].request = r}

\* Mutant of WithinQuota: off by one.
WithinQuotaInclusive(s) == Cardinality(ToolsOf(s)) <= MaxTools
WithinQuota(s) == Cardinality(ToolsOf(s)) < MaxTools

AllocateForIssuer(s, r) ==
    LET identity == AllocationIdentity(s) IN
    /\ Admitted(s, identity)
    /\ RequestedBy(s, r) = {}
    /\ identity = "SELF_SERVICE" => WithinQuota(s)
    /\ \E t \in Tools :
          /\ tools[t] = None
          /\ tools' = [tools EXCEPT ![t] =
                          [signer |-> s, identity |-> identity, request |-> r]]
    /\ UNCHANGED memberVars

MemberStep ==
    \/ \E s \in Signers : EnsureAccount(s)
    \/ \E s \in Supervised, status \in {"ACTIVE", "SUSPENDED", "REVOKED"} :
          SetAccountStatus(s, status)
    \/ \E s \in Supervised, status \in {"ENABLED", "DISABLED"} : EditAuthorityRow(s, status)
    \/ Supervised /= {} /\ FlipSelfService

ToolNext == MemberStep \/ \E s \in Signers, r \in Requests : AllocateForIssuer(s, r)
ToolSpec == ToolInit /\ [][ToolNext]_toolVars

(***************************************************************************)
(* Properties                                                              *)
(***************************************************************************)

\* A dashboard that repeats a request, from another tab, after a lost answer,
\* or after the signer changed the identity it acts under, never gets a
\* second tool for it.
OneToolPerRequest ==
    \A s \in Signers, r \in Requests :
       Cardinality({t \in ToolsOf(s) : tools[t].request = r}) <= 1

\* However accounts are suspended and revived and rows come and go, a signer
\* never holds more self-service tools than the quota.
ToolQuota ==
    \A s \in Signers :
       Cardinality({t \in ToolsOf(s) : tools[t].identity = "SELF_SERVICE"}) <= MaxTools
=============================================================================
