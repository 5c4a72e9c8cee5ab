-------------------------- MODULE DashboardSession --------------------------
(***************************************************************************)
(* The dashboard session of one browser, and the wallet it belongs to.     *)
(*                                                                         *)
(* The session is one sealed cookie that every tab shares; the server      *)
(* keeps nothing. A tab signs the connected account in, or shows a         *)
(* dashboard rendered for the session it found and ends that session when  *)
(* the wallet leaves its account. Tabs learn of a wallet change each in    *)
(* its own time; an exclusive Web Lock serialises what they ask of the     *)
(* server, and is held while MetaMask waits for its user.                  *)
(*                                                                         *)
(* Two things are left out: a browser without Web Locks, where the page    *)
(* runs everything at once and LogoutEndsOwn does not hold (NoLocks is     *)
(* that browser), and the expiry of a cookie, after which the server finds *)
(* no session and there is none to end.                                    *)
(***************************************************************************)
EXTENDS Integers

CONSTANTS
    Tabs,
    Accounts,
    None,        \* no account connected, no cookie, nobody holding the lock
    MaxSessions, \* bound: sessions issued
    MaxEvents    \* bound: wallet changes and reloads

VARIABLES
    wallet,   \* the account connected in MetaMask
    view,     \* the account each tab believes connected
    cookie,   \* the session cookie
    issued,   \* sessions issued so far; the instant issuedAt of the next
    lock,     \* the tab holding tool402:dashboard-session
    layout,   \* the session a dashboard was rendered for, None on a sign-in page
    matched,  \* hasMatchedSessionWallet
    step,     \* what the tab is doing
    target,   \* the session a tab is establishing or ending
    steady,   \* whether the connection is still of the generation clicked on
    answer,   \* what the server answered, while the answer is on its way
    events    \* wallet changes and reloads so far

tabVars == <<layout, matched, step, target, steady, answer>>
dashVars == <<wallet, view, cookie, issued, lock, tabVars, events>>

Session == [address : Accounts, issuedAt : 0 .. MaxSessions]
Idle == {"IDLE", "FAILED", "STARTED"}
\* Waiting for the lock; then holding it, asking for a challenge, waiting for
\* MetaMask, posting the signature, or posting a logout.
Working == {"CHALLENGE", "SIGNING", "VERIFY", "LOGOUT"}

DashInit ==
    /\ wallet \in Accounts
    /\ view = [t \in Tabs |-> wallet]
    /\ cookie = None /\ issued = 0 /\ lock = None
    /\ layout = [t \in Tabs |-> None]
    /\ matched = [t \in Tabs |-> FALSE]
    /\ step = [t \in Tabs |-> "IDLE"]
    /\ target = [t \in Tabs |-> None]
    /\ steady = [t \in Tabs |-> TRUE]
    /\ answer = [t \in Tabs |-> None]
    /\ events = 0

(***************************************************************************)
(* The wallet, and tabs coming and going                                   *)
(***************************************************************************)

SwitchWallet(a) ==
    /\ events < MaxEvents /\ a /= wallet
    /\ wallet' = a
    /\ events' = events + 1
    /\ UNCHANGED <<view, cookie, issued, lock, tabVars>>

Matches(t, account) == layout[t] /= None /\ account = layout[t].address

\* Every change of the connection starts a new generation.
Notice(t) ==
    /\ view[t] /= wallet
    /\ view' = [view EXCEPT ![t] = wallet]
    /\ steady' = [steady EXCEPT ![t] = FALSE]
    /\ matched' = [matched EXCEPT ![t] = @ \/ Matches(t, wallet)]
    /\ UNCHANGED <<wallet, cookie, issued, lock, layout, step, target, answer, events>>

\* The server renders the dashboard for the session it reads, or sends the
\* tab to a sign-in page.
Show(t, session) ==
    /\ layout' = [layout EXCEPT ![t] = session]
    /\ matched' = [matched EXCEPT ![t] = session /= None /\ session.address = view[t]]

\* The browser applies the cookie of an answer whatever becomes of the tab.
AfterAnswer(t) ==
    IF answer[t] = None \/ answer[t].outcome = "NOT_CURRENT" THEN cookie
    ELSE answer[t].session

\* Closing or reloading a tab drops its lock and whatever it was doing.
Reload(t) ==
    /\ events < MaxEvents
    /\ cookie' \in {cookie, AfterAnswer(t)}
    /\ lock' = IF lock = t THEN None ELSE lock
    /\ Show(t, cookie')
    /\ step' = [step EXCEPT ![t] = "IDLE"]
    /\ answer' = [answer EXCEPT ![t] = None]
    /\ target' = [target EXCEPT ![t] = None]
    /\ events' = events + 1
    /\ UNCHANGED <<wallet, view, issued, steady>>

(***************************************************************************)
(* The lock                                                                *)
(***************************************************************************)

\* Mutant of LockFree: a browser without Web Locks runs everything at once.
NoLocks == TRUE
LockFree == lock = None

Take(t, next) ==
    /\ lock' = t
    /\ step' = [step EXCEPT ![t] = next]

Release(t, next) ==
    /\ lock' = IF lock = t THEN None ELSE lock
    /\ step' = [step EXCEPT ![t] = next]
    /\ answer' = [answer EXCEPT ![t] = None]
    /\ target' = [target EXCEPT ![t] = None]

(***************************************************************************)
(* Signing in                                                              *)
(***************************************************************************)

SignIn(t) ==
    /\ layout[t] = None /\ step[t] \in Idle /\ view[t] /= None
    /\ issued < MaxSessions
    /\ step' = [step EXCEPT ![t] = "WAITING"]
    /\ target' = [target EXCEPT ![t] = [address |-> view[t], issuedAt |-> 0]]
    /\ steady' = [steady EXCEPT ![t] = TRUE]
    /\ UNCHANGED <<wallet, view, cookie, issued, lock, layout, matched, answer, events>>

BeginSignIn(t) ==
    /\ step[t] = "WAITING" /\ layout[t] = None /\ LockFree
    /\ IF steady[t] /\ issued < MaxSessions
       THEN Take(t, "CHALLENGE") /\ UNCHANGED <<target, answer>>
       ELSE Release(t, "FAILED")
    /\ UNCHANGED <<wallet, view, cookie, issued, layout, matched, steady, events>>

\* The challenge is not consumed: the same one verifies again until it expires.
Challenged(t) ==
    /\ step[t] = "CHALLENGE"
    /\ \/ /\ steady[t]
          /\ step' = [step EXCEPT ![t] = "SIGNING"]
          /\ UNCHANGED <<lock, target, answer>>
       \/ Release(t, "FAILED")
    /\ UNCHANGED <<wallet, view, cookie, issued, layout, matched, steady, events>>

SignMessage(t) ==
    /\ step[t] = "SIGNING"
    /\ \/ /\ steady[t]
          /\ step' = [step EXCEPT ![t] = "VERIFY"]
          /\ UNCHANGED <<lock, target, answer>>
       \/ Release(t, "FAILED")
    /\ UNCHANGED <<wallet, view, cookie, issued, layout, matched, steady, events>>

VerifyChallenge(t) ==
    /\ step[t] = "VERIFY" /\ answer[t] = None
    /\ issued < MaxSessions
    /\ issued' = issued + 1
    /\ answer' = [answer EXCEPT ![t] =
                     [outcome |-> "AUTHENTICATED",
                      session |-> [target[t] EXCEPT !.issuedAt = issued + 1]]]
    /\ UNCHANGED <<wallet, view, cookie, lock, layout, matched, step, target, steady, events>>

\* A session whose wallet left while it was verified is ended at once.
Authenticated(t) ==
    /\ step[t] = "VERIFY" /\ answer[t] /= None
    /\ cookie' = AfterAnswer(t)
    /\ IF steady[t] THEN Release(t, "IDLE") /\ Show(t, cookie')
       ELSE /\ step' = [step EXCEPT ![t] = "LOGOUT"]
            /\ target' = [target EXCEPT ![t] = cookie']
            /\ answer' = [answer EXCEPT ![t] = None]
            /\ UNCHANGED <<lock, layout, matched>>
    /\ UNCHANGED <<wallet, view, issued, steady, events>>

\* The post fails, or its answer is lost; or the cookie arrives and the body
\* does not, and the page reports a failure although it is signed in.
VerifyFails(t) ==
    /\ step[t] = "VERIFY"
    /\ cookie' \in {cookie, AfterAnswer(t)}
    /\ Release(t, "FAILED")
    /\ UNCHANGED <<wallet, view, issued, layout, matched, steady, events>>

(***************************************************************************)
(* Ending a session                                                        *)
(***************************************************************************)

Left(t) == matched[t] \/ view[t] /= None

EndSession(t) ==
    /\ layout[t] /= None /\ step[t] = "IDLE"
    /\ ~Matches(t, view[t]) /\ Left(t)
    /\ step' = [step EXCEPT ![t] = "WAITING"]
    /\ target' = [target EXCEPT ![t] = layout[t]]
    /\ UNCHANGED <<wallet, view, cookie, issued, lock, layout, matched, steady, answer, events>>

\* Mutant of AfterRematch: logoutStarted stays set.
StillStarted == "STARTED"
AfterRematch == "IDLE"

BeginLogout(t) ==
    /\ step[t] = "WAITING" /\ layout[t] /= None /\ LockFree
    /\ IF Matches(t, view[t]) THEN Release(t, AfterRematch)
       ELSE Take(t, "LOGOUT") /\ UNCHANGED <<target, answer>>
    /\ UNCHANGED <<wallet, view, cookie, issued, layout, matched, steady, events>>

\* Mutant of IsCurrent: any session of the account.
SameAddress(session) == cookie /= None /\ cookie.address = session.address
IsCurrent(session) == cookie = session

HandleLogout(t) ==
    /\ step[t] = "LOGOUT" /\ answer[t] = None
    /\ answer' = [answer EXCEPT ![t] =
                     [outcome |-> IF IsCurrent(target[t]) THEN "CLEARED" ELSE "NOT_CURRENT",
                      session |-> None]]
    /\ UNCHANGED <<wallet, view, cookie, issued, lock, layout, matched, step,
                   target, steady, events>>

\* Either answer leads to a sign-in page; a sign-in that ended its own session
\* is on one and reports the failure.
LoggedOut(t) ==
    /\ step[t] = "LOGOUT" /\ answer[t] /= None
    /\ cookie' = AfterAnswer(t)
    /\ Release(t, IF layout[t] = None THEN "FAILED" ELSE "IDLE")
    /\ Show(t, None)
    /\ UNCHANGED <<wallet, view, issued, steady, events>>

LogoutFails(t) ==
    /\ step[t] = "LOGOUT"
    /\ cookie' \in {cookie, AfterAnswer(t)}
    /\ Release(t, "FAILED")
    /\ UNCHANGED <<wallet, view, issued, layout, matched, steady, events>>

RetryLogout(t) ==
    /\ layout[t] /= None /\ step[t] = "FAILED"
    /\ step' = [step EXCEPT ![t] = "WAITING"]
    /\ target' = [target EXCEPT ![t] = layout[t]]
    /\ UNCHANGED <<wallet, view, cookie, issued, lock, layout, matched, steady, answer, events>>

Server(t) == VerifyChallenge(t) \/ HandleLogout(t)
Proceed(t) ==
    \/ Notice(t) \/ Challenged(t) \/ Server(t) \/ Authenticated(t)
    \/ EndSession(t) \/ LoggedOut(t)
Fail(t) == VerifyFails(t) \/ LogoutFails(t)
Begin(t) == BeginSignIn(t) \/ BeginLogout(t)

DashNext ==
    \/ \E a \in Accounts \cup {None} : SwitchWallet(a)
    \/ \E t \in Tabs :
          \/ Reload(t) \/ SignIn(t) \/ SignMessage(t) \/ RetryLogout(t)
          \/ Proceed(t) \/ Fail(t) \/ Begin(t)

\* Effects run, answers arrive, and the lock is granted in the order asked
\* for. Nobody has to click, to retry or to answer MetaMask.
DashFairness == \A t \in Tabs : WF_dashVars(Proceed(t)) /\ SF_dashVars(Begin(t))

DashSpec == DashInit /\ [][DashNext]_dashVars /\ DashFairness

(***************************************************************************)
(* Properties                                                              *)
(***************************************************************************)

DashTypeOK ==
    /\ cookie \in Session \cup {None}
    /\ lock \in Tabs \cup {None}
    /\ \A t \in Tabs :
          /\ view[t] \in Accounts \cup {None}
          /\ layout[t] \in Session \cup {None}
          /\ step[t] \in Idle \cup Working \cup {"WAITING"}

\* A dashboard rendered for an older session, or a sign-in whose wallet left,
\* never ends the session another tab has just established, be it of the same
\* account: what disappears is the very session the tab set out to end.
LogoutEndsOwn ==
    [][cookie /= None /\ cookie' = None =>
         \E t \in Tabs : step[t] = "LOGOUT" /\ target[t] = cookie]_dashVars

\* Once the wallet rests, every open dashboard belongs to the connected
\* account and the others have ended their session, unless a dashboard keeps
\* reporting that it could not, or a tab keeps the lock because MetaMask
\* waits for its user.
DashboardFollowsWallet ==
    \/ <>[](\A t \in Tabs : layout[t] /= None => Matches(t, view[t]) \/ ~Left(t))
    \/ []<>(\E t \in Tabs : \/ step[t] = "SIGNING"
                            \/ step[t] = "FAILED" /\ layout[t] /= None)
=============================================================================
