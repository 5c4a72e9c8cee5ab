--------------------------- MODULE SessionIngress ---------------------------
(***************************************************************************)
(* Calls a signed-in dashboard makes through its own server.               *)
(*                                                                         *)
(* The web server holds no database. It turns the session cookie into an   *)
(* assertion, signs it under a fresh nonce and posts it to the backend,    *)
(* whose handler claims the nonce and then runs the call in transactions   *)
(* of its own: between any two of them another handler may run, or this    *)
(* one may end. Sessions are stateless, so signing out does not recall a   *)
(* post that is already on its way.                                        *)
(***************************************************************************)
EXTENDS ProviderTools

CONSTANTS
    PostIds,        \* nonces drawn by the web server, one for each post
    Offering,       \* the self-service offering that is open
    OfferedTerms,   \* its terms
    SessionLength,  \* life of a dashboard session
    IntentLifetime, \* life of a prepared intent (300 s)
    ClockSkew,      \* accepted distance between the two clocks (60 s)
    Drifts,         \* bound: how far ahead the clock of the web server may be
    MaxPending, MaxHourly, WindowLength,  \* the quotas of BackingIntents
    LastTime         \* bound: the clock stops here

VARIABLES
    clock,       \* the clock of the backend
    sessions,    \* when the session cookie of each signer expires, or None
    posts,       \* what the web server signed under each nonce
    serving,     \* how far the handler of each post has come
    intents,     \* backingIntents, by the key the web server drew
    rateLimits   \* selfServiceWriteRateLimits

serverVars == <<posts, serving>>
sessionVars == <<toolVars, clock, sessions, serverVars, intents, rateLimits>>

\* Neither signer holds a BACKER row, so the legacy offering is closed to both.
Intents == INSTANCE BackingIntents WITH
    Keys <- PostIds, Backers <- Signers, Addresses <- Signers \cup {"treasury"},
    Offerings <- {Offering}, LegacyOffering <- "riskscan",
    RecipientOf <- [o \in {Offering} |-> "treasury"], TermSheets <- {OfferedTerms},
    SeededBackers <- {}, EnabledAtStart <- TRUE, MaxLifetime <- IntentLifetime,
    MaxTime <- LastTime, now <- clock,
    MaxOperatorSteps <- 0, operatorSteps <- 0, selfServiceEnabled <- selfService,
    backerAuthority <- [s \in Signers |-> FALSE],
    offerings <- [o \in {Offering} |-> [state |-> "OPEN", terms |-> OfferedTerms]]

Calls == [kind : {"self_service_ensure", "backing_intent", "read"}]
            \cup [kind : {"allocate"}, request : Requests]
Assertion == [signer : Signers, call : Calls, stamp : Int, sessionExpiresAt : Int]
\* A handler has claimed its nonce, has provisioned the account, has ended.
Steps == {"NONE", "CLAIMED", "ENSURED", "ENDED"}

ASSUME SessionConstants ==
    /\ Drifts \subseteq 0 .. ClockSkew
    /\ {SessionLength, IntentLifetime, ClockSkew, LastTime} \subseteq Nat
    /\ None \notin Assertion
    /\ Intents!IntentConstants

SessionInit ==
    /\ ToolInit
    /\ clock = 0
    /\ sessions = [s \in Signers |-> None]
    /\ posts = [p \in PostIds |-> None]
    /\ serving = [p \in PostIds |-> "NONE"]
    /\ intents = [p \in PostIds |-> None]
    /\ rateLimits = [s \in Signers |-> [w \in Intents!Windows |-> 0]]

(***************************************************************************)
(* The web server                                                          *)
(***************************************************************************)

SignIn(s) ==
    /\ sessions[s] = None
    /\ sessions' = [sessions EXCEPT ![s] = clock + SessionLength]
    /\ UNCHANGED <<toolVars, clock, serverVars, intents, rateLimits>>

SignOut(s) ==
    /\ sessions[s] /= None
    /\ sessions' = [sessions EXCEPT ![s] = None]
    /\ UNCHANGED <<toolVars, clock, serverVars, intents, rateLimits>>

\* A dashboard that repeats a call, whatever became of the first, is given a
\* fresh nonce, and with it a fresh key for the intent it prepares.
ForwardAssertion(s, call, drift) ==
    /\ sessions[s] /= None /\ sessions[s] > clock + drift
    /\ \E p \in PostIds :
          /\ posts[p] = None
          /\ posts' = [posts EXCEPT ![p] =
                          [signer |-> s, call |-> call, stamp |-> clock + drift,
                           sessionExpiresAt |-> sessions[s]]]
    /\ UNCHANGED <<toolVars, clock, sessions, serving, intents, rateLimits>>

(***************************************************************************)
(* The backend                                                             *)
(***************************************************************************)

FreshPost(p) == serving[p] = "NONE"

Timely(p) ==
    /\ posts[p].sessionExpiresAt > clock
    /\ posts[p].stamp <= clock + ClockSkew /\ clock <= posts[p].stamp + ClockSkew

Advance(p, step) == serving' = [serving EXCEPT ![p] = step]

\* A copy of a post, or one that comes late, is rejected and changes nothing.
ReceivePost(p) ==
    /\ posts[p] /= None
    /\ Timely(p) /\ FreshPost(p)
    /\ Advance(p, IF posts[p].call.kind = "read" THEN "ENDED" ELSE "CLAIMED")
    /\ UNCHANGED <<toolVars, clock, sessions, posts, intents, rateLimits>>

\* Mutant of EnsuredStatus: signing in again revives the account.
EnsuredAlways(status) == "ACTIVE"
EnsuredStatus(status) == IF status = "ABSENT" THEN "ACTIVE" ELSE status

\* A prepared intent provisions its backer as signing in does, in a
\* transaction before its own.
EnsureSelfService(p) ==
    LET s == posts[p].signer IN
    /\ serving[p] = "CLAIMED"
    /\ posts[p].call.kind \in {"self_service_ensure", "backing_intent"}
    /\ accounts' = IF selfService
                   THEN [accounts EXCEPT ![s] = EnsuredStatus(@)] ELSE accounts
    /\ Advance(p, IF posts[p].call.kind = "backing_intent" THEN "ENSURED" ELSE "ENDED")
    /\ UNCHANGED <<rows, selfService, tools, clock, sessions, posts, intents, rateLimits>>

Allocate(p) ==
    /\ serving[p] = "CLAIMED" /\ posts[p].call.kind = "allocate"
    /\ AllocateForIssuer(posts[p].signer, posts[p].call.request)
    /\ Advance(p, "ENDED")
    /\ UNCHANGED <<clock, sessions, posts, intents, rateLimits>>

\* The intent lives as long as the clock of the web server says.
FreezeIntent(p) ==
    /\ serving[p] = "ENSURED"
    /\ Intents!FreezeBackingIntent(p, posts[p].signer, Offering, OfferedTerms.minimum,
                                   posts[p].stamp + IntentLifetime)
    /\ Advance(p, "ENDED")
    /\ UNCHANGED <<rows, tools, sessions, posts>>

\* A transaction refuses or throws, or the handler ends without its answer.
Abandon(p) ==
    /\ serving[p] \in {"CLAIMED", "ENSURED"}
    /\ Advance(p, "ENDED")
    /\ UNCHANGED <<toolVars, clock, sessions, posts, intents, rateLimits>>

Operate ==
    /\ \/ \E s \in Supervised, status \in {"ACTIVE", "SUSPENDED"} : SetAccountStatus(s, status)
       \/ \E s \in Supervised, status \in {"ENABLED", "DISABLED"} : EditAuthorityRow(s, status)
       \/ FlipSelfService
    /\ UNCHANGED <<clock, sessions, serverVars, intents, rateLimits>>

Elapse ==
    /\ clock < LastTime
    /\ clock' = clock + 1
    /\ UNCHANGED <<toolVars, sessions, serverVars, intents, rateLimits>>

SessionNext ==
    \/ \E s \in Signers : SignIn(s) \/ SignOut(s)
    \/ \E s \in Signers, call \in Calls, drift \in Drifts : ForwardAssertion(s, call, drift)
    \/ \E p \in PostIds :
          \/ ReceivePost(p) \/ EnsureSelfService(p) \/ Allocate(p)
          \/ FreezeIntent(p) \/ Abandon(p)
    \/ Operate
    \/ Elapse

SessionSpec == SessionInit /\ [][SessionNext]_sessionVars

(***************************************************************************)
(* Properties                                                              *)
(***************************************************************************)

SessionTypeOK ==
    /\ ToolTypeOK
    /\ clock \in 0 .. LastTime
    /\ sessions \in [Signers -> Int \cup {None}]
    /\ posts \in [PostIds -> Assertion \cup {None}]
    /\ serving \in [PostIds -> Steps]
    /\ intents \in [PostIds -> Intents!Intent \cup {None}]
    /\ rateLimits \in [Signers -> [Intents!Windows -> Nat]]

\* A dashboard that prepares again because an answer was lost draws a new key
\* each time, and two of its posts may be past every check when a third runs:
\* still a backer never holds more unexpired intents than the pending limit.
PendingQuota == Intents!PendingQuota

\* Nor does a window hold more intents than the hourly limit, and its row
\* counts exactly those prepared in it.
HourlyQuota == Intents!HourlyQuota

\* Rows stay well formed and no quota of a signer is passed: provider tools,
\* unexpired intents, intents of the hour.
Quotas == SessionTypeOK /\ ToolQuota /\ PendingQuota /\ HourlyQuota

\* Preparing a payment or signing in while an operator suspends the account
\* leaves it suspended: no post ever changes an account that exists.
EnsureNeverRevives ==
    [][serving' /= serving =>
         \A s \in Signers : accounts[s] /= "ABSENT" => accounts'[s] = accounts[s]]_sessionVars
=============================================================================
