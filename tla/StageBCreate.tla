---------------------------- MODULE StageBCreate ----------------------------
(***************************************************************************)
(* Creating the note of one prepared attempt from the deploy page.         *)
(*                                                                         *)
(* Nothing durable on the server guards the wallet request, so the browser *)
(* does: a record in local storage, shared by its tabs and changed only    *)
(* under a Web Lock, is reserved before MetaMask is asked and carries the  *)
(* transaction hash afterwards. Every await is a step of its own: between  *)
(* two of them another tab acts, the wallet session changes, or the page   *)
(* is reloaded while MetaMask still asks.                                  *)
(***************************************************************************)
EXTENDS Integers, FiniteSets

CONSTANTS
    Tabs,
    Fresh,      \* hashes of transactions these tabs may send
    Earlier,    \* hashes of deployments with the same call data sent before
    Foreign,    \* any other hash a user may type
    None,
    MaxEvents   \* bound: reloads and changes of the wallet session

Hashes == Fresh \cup Earlier \cup Foreign
\* Claims of records; a record of the first version has none. A tab that was
\* answered "existing" or "unavailable" holds neither.
LegacyClaim == 0
Claims == 1 .. Cardinality(Tabs) + 1
Existing == -1
Unavailable == -2

VARIABLES
    store,    \* the record of the attempt in local storage
    step,     \* what each tab is doing
    claim,    \* what beginStageBRecovery answered it
    hash,     \* the transaction it deals with
    blocked,  \* submitted or terminal: it asks MetaMask no more
    moved,    \* sessionChanged: the wallet is no longer the page's
    offered,  \* the transaction of the candidate it shows
    orphans,  \* MetaMask requests whose page was reloaded
    sent,     \* transactions MetaMask signed for these tabs
    mined,    \* transactions the mirror node can corroborate
    events

tabVars == <<step, claim, hash, blocked, moved, offered>>
ledgerVars == <<orphans, sent, mined>>
stageVars == <<store, tabVars, ledgerVars, events>>

\* A record is reserved; SUBMITTED with the hash of its own send; or still
\* reserved with a hash that was corroborated in its stead, RECOVERED.
Record == [claim : Claims \cup {LegacyClaim}, state : {"RESERVED", "SUBMITTED", "RECOVERED"},
           hash : Hashes \cup {None}]
Reserved(c) == [claim |-> c, state |-> "RESERVED", hash |-> None]
RetainedHash == IF store = None THEN None ELSE store.hash

StageInit ==
    /\ store \in {None, Reserved(LegacyClaim)}
                   \cup [claim : {LegacyClaim}, state : {"SUBMITTED"}, hash : Earlier]
    /\ step = [t \in Tabs |-> "IDLE"]
    /\ claim = [t \in Tabs |-> None]
    /\ hash = [t \in Tabs |-> None]
    /\ blocked = [t \in Tabs |-> store /= None]
    /\ moved = [t \in Tabs |-> FALSE]
    /\ offered = [t \in Tabs |-> None]
    /\ orphans = 0 /\ sent = {} /\ mined = Earlier
    /\ events = 0

Goto(t, s) == step' = [step EXCEPT ![t] = s]
Block(t) == blocked' = [blocked EXCEPT ![t] = TRUE]

(***************************************************************************)
(* The record                                                              *)
(***************************************************************************)

\* Claim ids are random: any that nobody holds.
NewClaim ==
    CHOOSE c \in Claims : /\ store /= None => store.claim /= c
                         /\ \A t \in Tabs : step[t] /= "IDLE" => claim[t] /= c

\* beginStageBRecovery, the first step of creating and of recovering.
BeginRecovery(t, next) ==
    /\ \/ /\ store = None
          /\ store' = Reserved(NewClaim)
          /\ claim' = [claim EXCEPT ![t] = NewClaim]
       \/ /\ store /= None
          /\ claim' = [claim EXCEPT ![t] = Existing]
          /\ UNCHANGED store
       \/ /\ claim' = [claim EXCEPT ![t] = Unavailable]
          /\ UNCHANGED store
    /\ Goto(t, next)
    /\ UNCHANGED <<hash, blocked, moved, offered, ledgerVars, events>>

Owns(t) == claim[t] \in Claims
OwnRecord(t) == store /= None /\ store.claim = claim[t]

\* Mutant of Persistable: overwrites what another tab corroborated.
PersistableByOwner(t) == OwnRecord(t)
Persistable(t) == OwnRecord(t) /\ store.hash \in {None, hash[t]}

PersistRecovery(t) ==
    store' = [store EXCEPT !.state = "SUBMITTED", !.hash = hash[t]]

\* A record without a hash takes the corroborated one; a record of the first
\* version is replaced by one of the second.
Reconcilable(t) == store /= None /\ store.hash \in {None, hash[t]}
ReconcileRecovery(t) ==
    store' = IF store.hash = hash[t] THEN store
             ELSE [claim |-> IF store.claim = LegacyClaim THEN NewClaim ELSE store.claim,
                   state |-> "RECOVERED", hash |-> hash[t]]

\* Mutant of Releasable: forgets that another tab may have added a hash.
ReleasableByOwner(t) == OwnRecord(t) /\ store.state /= "SUBMITTED"
Releasable(t) == OwnRecord(t) /\ store.state = "RESERVED"

\* A refused request may be made again; every other release leaves the tab
\* as it was.
ReleaseReservation(t) ==
    /\ step[t] \in {"RELEASE", "GIVE_UP"}
    /\ store' = IF Releasable(t) THEN None ELSE store
    /\ blocked' = [blocked EXCEPT ![t] = @ /\ (step[t] = "GIVE_UP" \/ moved[t])]
    /\ Goto(t, "IDLE")
    /\ UNCHANGED <<claim, hash, moved, offered, ledgerVars, events>>

(***************************************************************************)
(* Creating                                                                *)
(***************************************************************************)

RequestCandidate(t) ==
    /\ step[t] = "IDLE" /\ ~blocked[t] /\ ~moved[t] /\ store = None
    /\ Goto(t, "CLAIMING")
    /\ UNCHANGED <<store, claim, hash, blocked, moved, offered, ledgerVars, events>>

\* Only the holder of a fresh claim, its wallet unchanged, asks MetaMask.
Claimed(t) ==
    /\ step[t] = "CLAIMED"
    /\ IF moved[t] THEN Goto(t, IF Owns(t) THEN "GIVE_UP" ELSE "IDLE") /\ UNCHANGED blocked
       ELSE Goto(t, IF Owns(t) THEN "PROMPT" ELSE "IDLE") /\ Block(t)
    /\ UNCHANGED <<store, claim, hash, moved, offered, ledgerVars, events>>

\* Mutant of AfterError: takes every error of the wallet for a refusal.
ErrorIsRefusal == "RELEASE"
AfterError == "IDLE"

\* A transaction that was sent answers with its hash, or with an error.
Approve(t) ==
    /\ step[t] = "PROMPT"
    /\ \E h \in Fresh \ sent :
          /\ sent' = sent \cup {h}
          /\ \/ Goto(t, "HASHED") /\ hash' = [hash EXCEPT ![t] = h]
             \/ Goto(t, AfterError) /\ UNCHANGED hash
    /\ UNCHANGED <<store, claim, blocked, moved, offered, orphans, mined, events>>

\* A refusal releases the reservation only while the wallet is the page's.
Refuse(t) ==
    /\ step[t] = "PROMPT"
    /\ Goto(t, IF moved[t] THEN "IDLE" ELSE "RELEASE")
    /\ UNCHANGED <<store, claim, hash, blocked, moved, offered, ledgerVars, events>>

\* onTransactionHash, before anything is observed. A hash that could not be
\* retained is shown for recovery.
Persist(t) ==
    /\ step[t] = "HASHED"
    /\ \/ Persistable(t) /\ PersistRecovery(t) /\ Goto(t, "OBSERVING")
       \/ UNCHANGED store /\ Goto(t, "IDLE")
    /\ UNCHANGED <<claim, hash, blocked, moved, offered, ledgerVars, events>>

\* The mirror's contract result, the deployment event in it and the listed
\* transaction agree on one note.
Corroborated(h) == h \in mined

Offer(t) == offered' = [offered EXCEPT ![t] = hash[t]]

\* The receipt and three mirror reads agree on the deployed note, or the
\* outcome stays unknown; a page whose wallet moved shows neither.
Observe(t) ==
    /\ step[t] = "OBSERVING"
    /\ \/ Corroborated(hash[t]) /\ ~moved[t] /\ Offer(t)
       \/ UNCHANGED offered
    /\ Goto(t, "IDLE")
    /\ UNCHANGED <<store, claim, hash, blocked, moved, ledgerVars, events>>

(***************************************************************************)
(* Recovering                                                              *)
(***************************************************************************)

\* With a hash the page retained, was shown, or that its user typed.
RecoverCandidate(t, h) ==
    /\ step[t] = "IDLE" /\ ~moved[t] /\ offered[t] = None
    /\ h \in Fresh => h \in sent
    /\ hash' = [hash EXCEPT ![t] = h]
    /\ Goto(t, "R_CLAIMING")
    /\ UNCHANGED <<store, claim, blocked, moved, offered, ledgerVars, events>>

RecoveryClaimed(t) ==
    /\ step[t] = "R_CLAIMED"
    /\ LET conflict == claim[t] = Existing /\ RetainedHash \notin {None, hash[t]} IN
       /\ Goto(t, IF moved[t] THEN (IF Owns(t) THEN "GIVE_UP" ELSE "IDLE")
                  ELSE IF claim[t] = Unavailable \/ conflict THEN "IDLE"
                  ELSE "R_READING")
       /\ blocked' = [blocked EXCEPT ![t] = @ \/ (~moved[t] /\ conflict)]
    /\ UNCHANGED <<store, claim, hash, moved, offered, ledgerVars, events>>

\* A wallet session that changed meanwhile ends the recovery where it is.
Corroborate(t) ==
    /\ step[t] = "R_READING"
    /\ \/ moved[t] /\ Goto(t, "IDLE")
       \/ ~moved[t] /\ Corroborated(hash[t]) /\ Goto(t, "R_SAVING")
       \/ ~moved[t] /\ Goto(t, IF Owns(t) THEN "GIVE_UP" ELSE "IDLE")
    /\ UNCHANGED <<store, claim, hash, blocked, moved, offered, ledgerVars, events>>

\* What can be retained is offered; a conflict, or a failing storage, is not.
SaveRecovery(t) ==
    /\ step[t] = "R_SAVING"
    /\ \/ /\ IF Owns(t) THEN Persistable(t) /\ PersistRecovery(t)
             ELSE Reconcilable(t) /\ ReconcileRecovery(t)
          /\ IF moved[t] THEN UNCHANGED <<offered, blocked>> ELSE Offer(t) /\ Block(t)
       \/ UNCHANGED <<store, offered, blocked>>
    /\ Goto(t, "IDLE")
    /\ UNCHANGED <<claim, hash, moved, ledgerVars, events>>

(***************************************************************************)
(* The browser and the ledger                                              *)
(***************************************************************************)

Reload(t) ==
    /\ events < MaxEvents
    /\ events' = events + 1
    /\ orphans' = IF step[t] = "PROMPT" THEN orphans + 1 ELSE orphans
    /\ Goto(t, "IDLE")
    /\ claim' = [claim EXCEPT ![t] = None]
    /\ hash' = [hash EXCEPT ![t] = None]
    /\ blocked' = [blocked EXCEPT ![t] = store /= None]
    /\ moved' = [moved EXCEPT ![t] = FALSE]
    /\ offered' = [offered EXCEPT ![t] = None]
    /\ UNCHANGED <<store, sent, mined>>

MoveWallet(t) ==
    /\ events < MaxEvents /\ ~moved[t]
    /\ events' = events + 1
    /\ moved' = [moved EXCEPT ![t] = TRUE]
    /\ UNCHANGED <<store, step, claim, hash, blocked, offered, ledgerVars>>

\* MetaMask still holds the request of a page that is gone.
ApproveOrphan ==
    /\ orphans > 0
    /\ orphans' = orphans - 1
    /\ \E h \in Fresh \ sent : sent' = sent \cup {h}
    /\ UNCHANGED <<store, tabVars, mined, events>>

Mine(h) ==
    /\ h \in sent \ mined
    /\ mined' = mined \cup {h}
    /\ UNCHANGED <<store, tabVars, orphans, sent, events>>

StageNext ==
    \/ \E t \in Tabs :
          \/ RequestCandidate(t) \/ Claimed(t) \/ Approve(t) \/ Refuse(t) \/ Persist(t)
          \/ Observe(t) \/ ReleaseReservation(t)
          \/ step[t] = "CLAIMING" /\ BeginRecovery(t, "CLAIMED")
          \/ step[t] = "R_CLAIMING" /\ BeginRecovery(t, "R_CLAIMED")
          \/ \E h \in Hashes : RecoverCandidate(t, h)
          \/ RecoveryClaimed(t) \/ Corroborate(t) \/ SaveRecovery(t)
          \/ Reload(t) \/ MoveWallet(t)
    \/ ApproveOrphan
    \/ \E h \in Fresh : Mine(h)

StageSpec == StageInit /\ [][StageNext]_stageVars

(***************************************************************************)
(* Properties                                                              *)
(***************************************************************************)

\* While local storage lasts, the tabs of a browser sign at most one
\* transaction for a prepared attempt, although pages are reloaded under an
\* open MetaMask request and the wallet answers with errors.
OneCreate == Cardinality(sent) <= 1

\* Every candidate on a page is that of the one hash the browser retains, so
\* two tabs never offer two notes for one attempt.
CandidateRetained ==
    \A t \in Tabs : offered[t] /= None =>
       RetainedHash = offered[t] /\ offered[t] \in mined

\* A hash in the record is never replaced or removed, not by the tab whose
\* reservation it was added to and whose own request is then refused.
EvidenceKept == [][RetainedHash /= None => RetainedHash' = RetainedHash]_stageVars
=============================================================================
