---------------------------- MODULE BackingFlow ----------------------------
(***************************************************************************)
(* The backing page of one signed-in backer and one offering, open in      *)
(* several tabs: it prepares an intent, has the command signed, reserves   *)
(* the payment, asks for the Send permit, asks MetaMask for the transfer   *)
(* and records its hash. Tabs share local storage and the server record,   *)
(* and keep what they read when they were loaded. Every await is a step:   *)
(* answers get lost, the wallet changes, pages are reloaded and the calls  *)
(* they made arrive later. Local storage may refuse any read, write or     *)
(* removal, and the page goes on without it.                               *)
(*                                                                         *)
(* The offering is the legacy one, whose preparations the server never     *)
(* refuses for their age: what it allows includes what the others allow.   *)
(***************************************************************************)
EXTENDS Integers, FiniteSets

CONSTANTS
    Tabs,
    Keys,        \* attempts these tabs prepare
    Legacy,      \* the attempt of a hash an earlier release kept
    None,
    Outcomes,    \* what a verification may report
    MaxEvents    \* bound: reloads, moves of the wallet, late calls, and one
                 \* for storage that fails

Attempts == Keys \cup {Legacy}

\* The n-th transfer MetaMask sent for an attempt; and no hash.
MaxTransfers == 2
NoHash == 0
Hashes == NoHash .. MaxTransfers

VARIABLES
    status, recorded,   \* the server's record of each attempt, and its hash
    frozen,             \* the attempts whose intent the server froze
    prepared, pending,  \* local storage: prepared intents, unrecorded hashes
    legacy,             \* local storage: the key of the earlier release
    step, work,         \* what each tab is doing, for which attempt and hash
    view, viewed,       \* the kind of its view, and the attempt it offers;
                        \* "ENDED" is refused or unknown, with nothing to send
    payment,            \* the payment it shows, or how the read of it ended
    shown,              \* the pending hash it holds
    moved,              \* its connection is another than the one it started with
    adrift, orphans,    \* calls and MetaMask requests of pages that are gone
    transfers, known,   \* transfers sent, and the last hash a page was given
    failing,            \* local storage is full, or its use denied, at times
    refused, lost,      \* the hashes that it refused; those gone with a page
    events

server == <<status, recorded, frozen>>
storage == <<prepared, pending, legacy, failing>>
page == <<view, viewed, payment, shown, moved>>
wallet == <<orphans, transfers, known, refused, lost>>
flowVars == <<server, storage, step, work, page, adrift, wallet, events>>

NoWork == [key |-> None, hash |-> NoHash]

FlowInit ==
    /\ \E s \in {"NONE", "ADMITTED", "PREPARED"} :
          status = [k \in Attempts |-> IF k = Legacy THEN s ELSE "NONE"]
    /\ recorded = [k \in Attempts |-> NoHash]
    /\ legacy = (status[Legacy] /= "NONE")
    /\ transfers = [k \in Attempts |-> IF k = Legacy /\ legacy THEN 1 ELSE 0]
    /\ known = transfers
    /\ frozen = {} /\ prepared = {} /\ failing \in BOOLEAN
    /\ pending = [k \in Keys |-> NoHash]
    /\ step = [t \in Tabs |-> "LOADING"]
    /\ work = [t \in Tabs |-> NoWork]
    /\ view = [t \in Tabs |-> "CHOOSING"]
    /\ viewed = [t \in Tabs |-> None]
    /\ payment = [t \in Tabs |-> "UNAVAILABLE"]
    /\ shown = [t \in Tabs |-> NoWork]
    /\ moved = [t \in Tabs |-> FALSE]
    /\ adrift = {} /\ orphans = {} /\ refused = {} /\ lost = {}
    /\ events = IF failing THEN 1 ELSE 0

Goto(t, s) == step' = [step EXCEPT ![t] = s]
\* An operation ends.
Rest(t) ==
    /\ step' = [step EXCEPT ![t] = "IDLE"]
    /\ work' = [work EXCEPT ![t] = NoWork]
Start(t, s, k, h) == Goto(t, s) /\ work' = [work EXCEPT ![t] = [key |-> k, hash |-> h]]
Show(t, kind, k) == view' = [view EXCEPT ![t] = kind] /\ viewed' = [viewed EXCEPT ![t] = k]
\* A call of local storage is obeyed or, where it fails, may do nothing.
Stored(before, after) == IF failing THEN {before, after} ELSE {after}
\* The page holds another hash; one that storage refused goes with the page.
Hold(t, held) ==
    /\ shown' = [shown EXCEPT ![t] = held]
    /\ lost' = lost \cup {k \in refused : shown[t].key = k}

(***************************************************************************)
(* The server                                                              *)
(***************************************************************************)

\* Each call commits, if it does, in one transaction. All attempts are of one
\* backer and one offering; the record is the one the backend implements.
INSTANCE ClaimRecord WITH Keys <- Attempts, scope <- [k \in Attempts |-> None]

Commit(op, k, h) ==
    CASE op = "SIGNING" -> Admit(k)
      [] op = "RESERVING" -> Reserve(k)
      [] op = "BEGINNING" -> BeginDispatch(k)
      [] OTHER -> Record(k, h)

Calling == {"SIGNING", "RESERVING", "BEGINNING", "RECORDING", "RECOVERING"}

Event == events < MaxEvents /\ events' = events + 1

\* The call of a tab is committed and answered,
Answered(t) == Commit(step[t], work[t].key, work[t].hash) /\ UNCHANGED <<adrift, events>>
\* or its answer is lost, and it arrives later, if at all.
CallOf(t) == [op |-> step[t], key |-> work[t].key, hash |-> work[t].hash]
Lost(t) ==
    /\ \/ UNCHANGED <<adrift, events>>
       \/ Event /\ adrift' = adrift \cup {CallOf(t)}
    /\ UNCHANGED <<status, recorded>>

ServeLate ==
    \E c \in adrift :
      /\ adrift' = adrift \ {c}
      /\ Commit(c.op, c.key, c.hash)
      /\ UNCHANGED <<frozen, storage, step, work, page, wallet, events>>

Verify(k) ==
    /\ \E outcome \in Outcomes : Resolve(k, outcome)
    /\ UNCHANGED <<frozen, storage, step, work, page, adrift, wallet, events>>

(***************************************************************************)
(* Loading                                                                 *)
(***************************************************************************)

\* The read of the offering prefers an unresolved claim, and may fail.
Claimed == {k \in Attempts : status[k] \notin {"NONE", "ADMITTED"}}
PaymentRead ==
    LET claims == IF \E k \in Claimed : status[k] \in Unresolved
                  THEN {k \in Claimed : status[k] \in Unresolved} ELSE Claimed
    IN {"UNAVAILABLE"}
         \cup IF claims = {} THEN {"NONE"} ELSE {status[k] : k \in claims}

PendingKeys == {k \in Keys : pending[k] /= NoHash}

\* The prepared intent, rebuilt from what was stored; without one the pending
\* hash brings its own.
RecoveredIntent(p, i) == IF i = None THEN p ELSE i

RecoveredView(p, intent, durable) ==
    CASE intent = None -> [kind |-> "CHOOSING", key |-> None]
      [] intent /= None /\ p = intent -> [kind |-> "SUBMITTED", key |-> intent]
      [] OTHER -> IF durable \in Unresolved \cup Terminal
                  THEN [kind |-> "ENDED", key |-> None]
                  ELSE [kind |-> "PREPARED", key |-> intent]

\* The first key of each kind, in no order that the page controls; a prepared
\* intent that has expired is passed over, and storage that cannot be read
\* hides everything. A read of the server that failed hides as much as one
\* made before other tabs went on.
Load(t) ==
    /\ step[t] = "LOADING"
    /\ \E read \in PaymentRead,
          p \in IF failing \/ PendingKeys = {} THEN PendingKeys \cup {None} ELSE PendingKeys,
          i \in prepared \cup {None} :
          LET first == RecoveredView(p, RecoveredIntent(p, i), read) IN
          /\ Show(t, first.kind, first.key)
          /\ payment' = [payment EXCEPT ![t] = read]
          /\ Hold(t, IF p = None THEN NoWork ELSE [key |-> p, hash |-> pending[p]])
    /\ Goto(t, "IDLE")
    /\ UNCHANGED <<server, storage, work, moved, adrift, orphans, transfers, known,
                   refused, events>>

(***************************************************************************)
(* Preparing                                                               *)
(***************************************************************************)

CanPrepare(t) ==
    /\ step[t] = "IDLE" /\ view[t] = "CHOOSING"
    /\ payment[t] = "NONE" /\ ~moved[t]

\* The intent is stored before it is signed, if storage takes it. An answer
\* that is lost leaves the frozen intent behind.
Prepare(t) ==
    /\ CanPrepare(t)
    /\ \E k \in Keys \ frozen :
          /\ frozen' = frozen \cup {k}
          /\ \/ prepared' \in Stored(prepared, prepared \cup {k}) /\ Start(t, "SIGNING", k, NoHash)
             \/ UNCHANGED <<prepared, step, work>>
    /\ UNCHANGED <<status, recorded, pending, legacy, failing, page, adrift, wallet, events>>

\* Only an accepted command leads to Send; any other end forgets the intent,
\* that of a command whose answer is lost included.
OnSignature(t) ==
    /\ step[t] = "SIGNING"
    /\ LET k == work[t].key IN
       \/ Answered(t) /\ Show(t, "PREPARED", k) /\ UNCHANGED prepared
       \/ /\ \/ Lost(t) /\ Show(t, "ENDED", None)
             \/ /\ UNCHANGED <<status, recorded, adrift, events>>
                /\ Show(t, "CHOOSING", None) \/ Show(t, "ENDED", None)
          /\ prepared' \in Stored(prepared, prepared \ {k})
    /\ Rest(t)
    /\ UNCHANGED <<frozen, pending, legacy, failing, payment, shown, moved, wallet>>

(***************************************************************************)
(* Sending                                                                 *)
(***************************************************************************)

\* Balance and connection are checked before each call: that a check fails
\* is a step back to IDLE.
Send(t) ==
    /\ step[t] = "IDLE" /\ view[t] = "PREPARED" /\ ~moved[t]
    /\ Start(t, "RESERVING", viewed[t], NoHash)
    /\ UNCHANGED <<server, storage, page, adrift, wallet, events>>

ReservePayment(t) ==
    /\ step[t] = "RESERVING"
    /\ \/ /\ Answered(t)
          /\ IF status'[work[t].key] = "PREPARED" /\ ~moved[t]
             THEN Goto(t, "BEGINNING") /\ UNCHANGED work ELSE Rest(t)
       \/ Lost(t) /\ Rest(t)
    /\ UNCHANGED <<frozen, storage, page, wallet>>

DispatchAnswer(k) ==
    IF Siblings(k) /= {} THEN "RECOVERY_REQUIRED"
    ELSE IF status[k] = "PREPARED" THEN "OUTCOME_UNKNOWN" ELSE "REFUSED"

\* Mutant of Permits: any answer that speaks of a dispatch.
PermitsOnRecovery == {"OUTCOME_UNKNOWN", "RECOVERY_REQUIRED"}
Permits == {"OUTCOME_UNKNOWN"}

\* A permit is lost with its answer, or when the wallet has moved. One that
\* sends the backer to recovery reloads the page.
BeginPaymentDispatch(t) ==
    /\ step[t] = "BEGINNING"
    /\ LET answer == DispatchAnswer(work[t].key) IN
       \/ /\ answer \in Permits /\ Answered(t)
          /\ IF moved[t] THEN Rest(t) /\ Show(t, "ENDED", None)
             ELSE Goto(t, "PROMPT") /\ UNCHANGED <<work, view, viewed>>
       \/ /\ answer \notin Permits /\ Answered(t)
          /\ IF answer = "RECOVERY_REQUIRED"
             THEN Start(t, "LOADING", None, NoHash) /\ Show(t, "CHOOSING", None)
             ELSE Rest(t) /\ UNCHANGED <<view, viewed>>
       \/ Lost(t) /\ Rest(t) /\ UNCHANGED <<view, viewed>>
    /\ UNCHANGED <<frozen, storage, payment, shown, moved, wallet>>

Transfer(k) ==
    /\ transfers[k] < MaxTransfers
    /\ transfers' = [transfers EXCEPT ![k] = @ + 1]

\* The hash is stored before it is recorded; where storage refuses it, only
\* the page holds it. Without one, or declined, the page offers nothing to send.
Approve(t) ==
    /\ step[t] = "PROMPT"
    /\ LET k == work[t].key IN
       /\ Transfer(k)
       /\ \/ /\ known' = [known EXCEPT ![k] = transfers'[k]]
             /\ \/ pending' = [pending EXCEPT ![k] = transfers'[k]] /\ UNCHANGED refused
                \/ failing /\ refused' = refused \cup {k} /\ UNCHANGED pending
             /\ Hold(t, [key |-> k, hash |-> transfers'[k]])
             /\ Show(t, "SUBMITTED", k)
             /\ Start(t, "RECORDING", k, transfers'[k])
          \/ /\ Show(t, "ENDED", None) /\ Rest(t)
             /\ UNCHANGED <<known, pending, shown, refused, lost>>
    /\ UNCHANGED <<server, prepared, legacy, failing, payment, moved, adrift, orphans, events>>

Decline(t) ==
    /\ step[t] = "PROMPT"
    /\ Show(t, "ENDED", None) /\ Rest(t)
    /\ UNCHANGED <<server, storage, payment, shown, moved,
                   adrift, wallet, events>>

(***************************************************************************)
(* Recording                                                               *)
(***************************************************************************)

\* "Attach recorded transaction", and "Retry payment verification" while the
\* page still holds the hash; afterwards the latter only verifies again.
Attach(t) ==
    /\ step[t] = "IDLE" /\ shown[t] /= NoWork /\ payment[t] \notin Terminal
    /\ Start(t, "RECORDING", shown[t].key, shown[t].hash)
    /\ UNCHANGED <<server, storage, page, adrift, wallet, events>>

\* Mutant of MayForget: the hash was posted, so it may be forgotten.
ForgetPosted(answered, k, h) == TRUE
MayForget(answered, k, h) == answered /\ Recordable(k, h)

PersistPayment(t) ==
    /\ step[t] = "RECORDING"
    /\ LET k == work[t].key IN
       \E answered \in BOOLEAN :
          /\ IF answered THEN Answered(t) ELSE Lost(t)
          /\ IF MayForget(answered, k, work[t].hash)
             THEN /\ pending' \in Stored(pending, [pending EXCEPT ![k] = NoHash])
                  /\ prepared' \in Stored(prepared, prepared \ {k})
                  /\ payment' = [payment EXCEPT ![t] = status'[k]]
                  /\ shown' = [shown EXCEPT ![t] = NoWork]
             ELSE UNCHANGED <<pending, prepared, payment, shown>>
    /\ Rest(t)
    /\ UNCHANGED <<frozen, legacy, failing, view, viewed, moved, wallet>>

\* The hash an earlier release kept. The answer counts only while the wallet
\* is still the dashboard's.
BeginLegacyRecovery(t) ==
    /\ step[t] = "IDLE" /\ legacy /\ shown[t] = NoWork /\ ~moved[t]
    /\ payment[t] \in {"NONE", "UNAVAILABLE", "PREPARED"}
    /\ Start(t, "RECOVERING", Legacy, known[Legacy])
    /\ UNCHANGED <<server, storage, page, adrift, wallet, events>>

RecoverLegacyPayment(t) ==
    /\ step[t] = "RECOVERING"
    /\ \E answered \in BOOLEAN :
          /\ IF answered THEN Answered(t) ELSE Lost(t)
          /\ IF MayForget(answered, Legacy, work[t].hash) /\ ~moved[t]
             THEN /\ payment' = [payment EXCEPT ![t] = status'[Legacy]]
                  /\ legacy' \in Stored(legacy, FALSE)
             ELSE UNCHANGED <<payment, legacy>>
    /\ Rest(t)
    /\ UNCHANGED <<frozen, prepared, pending, failing, view, viewed, shown, moved, wallet>>

(***************************************************************************)
(* The browser                                                             *)
(***************************************************************************)

\* What the page had asked for still arrives, at the server or in MetaMask.
Reload(t) ==
    /\ Event
    /\ adrift' = IF step[t] \in Calling THEN adrift \cup {CallOf(t)} ELSE adrift
    /\ orphans' = IF step[t] = "PROMPT" THEN orphans \cup {work[t].key} ELSE orphans
    /\ Start(t, "LOADING", None, NoHash)
    /\ Show(t, "CHOOSING", None)
    /\ payment' = [payment EXCEPT ![t] = "UNAVAILABLE"]
    /\ Hold(t, NoWork)
    /\ moved' = [moved EXCEPT ![t] = FALSE]
    /\ UNCHANGED <<server, storage, transfers, known, refused>>

\* Back on its account the wallet has a new generation, so what was started
\* before does not go on.
MoveWallet(t) ==
    /\ Event
    /\ moved[t] => step[t] = "IDLE"
    /\ moved' = [moved EXCEPT ![t] = ~@]
    /\ UNCHANGED <<server, storage, step, work, view, viewed, payment, shown,
                   adrift, wallet>>

ApproveOrphan(k) ==
    /\ k \in orphans
    /\ orphans' = orphans \ {k}
    /\ Transfer(k)
    /\ UNCHANGED <<server, storage, step, work, page, adrift, known, refused, lost, events>>

FlowNext ==
    \/ \E t \in Tabs :
          \/ Load(t) \/ Prepare(t) \/ OnSignature(t)
          \/ Send(t) \/ ReservePayment(t) \/ BeginPaymentDispatch(t)
          \/ Approve(t) \/ Decline(t) \/ Attach(t) \/ PersistPayment(t)
          \/ BeginLegacyRecovery(t) \/ RecoverLegacyPayment(t)
          \/ Reload(t) \/ MoveWallet(t)
    \/ ServeLate
    \/ \E k \in Attempts : Verify(k) \/ ApproveOrphan(k)

FlowSpec == FlowInit /\ [][FlowNext]_flowVars

(***************************************************************************)
(* Properties                                                              *)
(***************************************************************************)

\* However many tabs are open, whatever answers are lost and whichever pages
\* are reloaded under an open MetaMask request: a backer transfers once for an
\* attempt, and never for a second attempt while the first is undecided.
OneTransfer ==
    /\ \A k \in Attempts : transfers[k] <= 1
    /\ Cardinality({k \in Keys : transfers[k] > 0 /\ status[k] \in Unresolved}) <= 1

\* A hash that MetaMask gave a page is stored by the browser until the server
\* has recorded it for that attempt. One that storage refused is held by the
\* page that was given it, until that page is left.
HeldByPage(k) ==
    /\ k \in refused
    /\ k \in lost \/ \E t \in Tabs : shown[t] = [key |-> k, hash |-> known[k]]
HashKept ==
    \A k \in Attempts : known[k] /= NoHash =>
       \/ recorded[k] = known[k]
       \/ IF k = Legacy THEN legacy ELSE pending[k] = known[k]
       \/ HeldByPage(k)
=============================================================================
