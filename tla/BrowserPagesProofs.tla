------------------------- MODULE BrowserPagesProofs -------------------------
(***************************************************************************)
(* The pages that ask MetaMask for a transaction, for any number of tabs,  *)
(* hashes, attempts, reloads and moves of the wallet. The right to ask is  *)
(* a token: on the deploy page the reservation in local storage, on the    *)
(* backing page the permit of the server. Who holds it has not sent yet,   *)
(* and it is never held twice.                                             *)
(***************************************************************************)
EXTENDS BrowserPages, Integers, FiniteSetTheorems, TLAPS

LEMMA OnePageMoves ==
    ASSUME [PagesNext]_pagesVars
    PROVE  [Create!StageNext]_createVars /\ [Back!FlowNext]_backVars
  BY DEF PagesNext, pagesVars

(***************************************************************************)
(* The deploy page                                                         *)
(***************************************************************************)

CreateSteps == {"IDLE", "CLAIMING", "CLAIMED", "PROMPT", "HASHED", "OBSERVING", "RELEASE",
                "GIVE_UP", "R_CLAIMING", "R_CLAIMED", "R_READING", "R_SAVING"}

\* A tab that acts on a reservation of its own: it holds the record's claim.
Reserving(t) ==
    /\ createStep[t] \notin {"IDLE", "CLAIMING", "R_CLAIMING"}
    /\ claim[t] \in Create!Claims

CreateTypes ==
    /\ createStep \in [Tabs -> CreateSteps]
    /\ claim = [t \in Tabs |-> claim[t]]
    /\ hash \in [Tabs -> Create!Hashes \cup {None}]
    /\ offered \in [Tabs -> Create!Hashes \cup {None}]
    /\ requests \in Nat

\* A record has a hash unless it is reserved.
RecordOK ==
    store /= None =>
       /\ store \in Create!Record
       /\ store.state = "RESERVED" <=> store.hash = None

OneReserves ==
    /\ \A t \in Tabs : Reserving(t) => store /= None /\ store.claim = claim[t]
    /\ \A t, u \in Tabs : Reserving(t) /\ Reserving(u) => t = u
    /\ \A t \in Tabs :
          createStep[t] \in {"PROMPT", "HASHED", "OBSERVING", "RELEASE", "GIVE_UP"} => Reserving(t)

\* A reservation is made before anything was asked; who asked and was refused,
\* or has not asked yet, has sent nothing.
NothingAsked == sent = {} /\ requests = 0
SentOnce ==
    /\ store = None => NothingAsked
    /\ \A t \in Tabs : Reserving(t) /\ createStep[t] \notin {"HASHED", "OBSERVING"} => NothingAsked
    /\ requests = 0 \/ (requests = 1 /\ sent = {})
    /\ \A h, g \in sent : h = g

\* What is observed or offered is in the record, and what is saved was read
\* from the mirror node.
HashesRetained ==
    /\ \A t \in Tabs :
          createStep[t] \in {"HASHED", "OBSERVING", "R_CLAIMING", "R_CLAIMED", "R_READING", "R_SAVING"}
             => hash[t] /= None
    /\ \A t \in Tabs : createStep[t] = "OBSERVING" => store /= None /\ store.hash = hash[t]
    /\ \A t \in Tabs : createStep[t] = "R_SAVING" => hash[t] \in mined
    /\ \A t \in Tabs : offered[t] /= None =>
          store /= None /\ store.hash = offered[t] /\ offered[t] \in mined

CreateInv == CreateTypes /\ RecordOK /\ OneReserves /\ SentOnce /\ HashesRetained

\* A tab that has claimed nothing, or is about to.
Unclaimed == {"IDLE", "CLAIMING", "R_CLAIMING"}
Recovering == {"R_CLAIMING", "R_CLAIMED", "R_READING", "R_SAVING"}

\* A tab goes on and changes nothing but what it is doing.
LEMMA QuietInv ==
    ASSUME CreateInv, NEW t \in Tabs, NEW s \in CreateSteps \ {"HASHED", "OBSERVING"},
           createStep' = [createStep EXCEPT ![t] = s],
           UNCHANGED <<store, claim, hash, offered, requests, sent, mined>>,
           s \in Unclaimed \/ createStep[t] \notin Unclaimed \cup {"HASHED", "OBSERVING"},
           s \in {"PROMPT", "RELEASE", "GIVE_UP"} => claim[t] \in Create!Claims,
           s \in Recovering => hash[t] /= None,
           s = "R_SAVING" => hash[t] \in mined
    PROVE  CreateInv'
<1>1. \A u \in Tabs : createStep'[u] = IF u = t THEN s ELSE createStep[u]
  BY DEF CreateInv, CreateTypes
<1>2. \A u \in Tabs : Reserving(u)' =>
         Reserving(u) /\ (u = t => createStep[t] \notin {"HASHED", "OBSERVING"})
  BY <1>1 DEF Reserving, Unclaimed
<1>3. CreateTypes' /\ RecordOK'
  BY DEF CreateInv, CreateTypes, RecordOK
<1>4. OneReserves'
  BY <1>1, <1>2 DEF CreateInv, OneReserves, Reserving, Unclaimed
<1>5. SentOnce'
  BY <1>1, <1>2 DEF CreateInv, SentOnce, NothingAsked
<1>6. HashesRetained'
  BY <1>1 DEF CreateInv, HashesRetained, Recovering
<1> QED
  BY <1>3, <1>4, <1>5, <1>6 DEF CreateInv

\* There are more claims than tabs, so one is held by nobody.
LEMMA FreshClaim ==
    ASSUME claim = [t \in Tabs |-> claim[t]], store = None \/ store.claim = Create!LegacyClaim
    PROVE  Create!NewClaim \in Create!Claims
<1> DEFINE n == Cardinality(Tabs)
           held == {claim[t] : t \in Tabs}
<1>1. IsFiniteSet(Tabs) /\ n \in Nat
  BY PagesConstants, FS_CardinalityType
<1>2. IsFiniteSet(held) /\ Cardinality(held) <= n
  <2>1. claim \in Surjection(Tabs, held)
    BY DEF Surjection
  <2> QED
    BY <1>1, <2>1, FS_Surjection
<1>3. Cardinality(1 .. n + 1) = n + 1
  BY <1>1, FS_Interval
<1>4. ~(1 .. n + 1 \subseteq held)
  <2> SUFFICES ASSUME 1 .. n + 1 \subseteq held
               PROVE  FALSE
    OBVIOUS
  <2>1. Cardinality(1 .. n + 1) <= Cardinality(held)
    BY <1>2, FS_Subset
  <2>2. Cardinality(held) \in Nat
    BY <1>2, FS_CardinalityType
  <2> HIDE DEF held, n
  <2> QED
    BY <1>1, <1>2, <1>3, <2>1, <2>2
<1>5. PICK c \in 1 .. n + 1 : c \notin held
  <2> HIDE DEF held, n
  <2> QED
    BY <1>4
<1>6. c \in Create!Claims /\ \A t \in Tabs : claim[t] /= c
  <2>1. Create!Cardinality(Tabs) = n
    BY DEF Cardinality, Create!Cardinality
  <2> QED
    BY <1>5, <2>1 DEF Create!Claims
<1>7. store /= None => store.claim /= c
  BY <1>6 DEF Create!LegacyClaim, Create!Claims
<1> QED
  BY <1>6, <1>7 DEF Create!NewClaim

\* beginStageBRecovery: only one tab is answered with a fresh claim while the
\* record is there, and it was made when nothing had been asked.
LEMMA BeginInv ==
    ASSUME CreateInv, NEW t \in Tabs,
           \/ createStep[t] = "CLAIMING" /\ Create!BeginRecovery(t, "CLAIMED")
           \/ createStep[t] = "R_CLAIMING" /\ Create!BeginRecovery(t, "R_CLAIMED")
    PROVE  CreateInv'
<1>1. PICK s \in {"CLAIMED", "R_CLAIMED"} :
         /\ createStep' = [createStep EXCEPT ![t] = s]
         /\ createStep[t] \in Unclaimed
         /\ s = "R_CLAIMED" => createStep[t] = "R_CLAIMING"
         /\ UNCHANGED <<hash, offered, requests, sent, mined>>
         /\ \/ store = None /\ store' = Create!Reserved(Create!NewClaim) /\ claim'[t] = Create!NewClaim
            \/ UNCHANGED store /\ claim'[t] \notin Create!Claims
         /\ claim' = [u \in Tabs |-> claim'[u]]
         /\ \A u \in Tabs \ {t} : claim'[u] = claim[u]
  <2>1. Create!Existing \notin Create!Claims /\ Create!Unavailable \notin Create!Claims
    BY DEF Create!Existing, Create!Unavailable, Create!Claims
  <2>2. ASSUME NEW c, claim' = [claim EXCEPT ![t] = c]
        PROVE  /\ claim'[t] = c /\ claim' = [u \in Tabs |-> claim'[u]]
               /\ \A u \in Tabs \ {t} : claim'[u] = claim[u]
    BY <2>2 DEF CreateInv, CreateTypes
  <2> QED
    BY <2>1, <2>2 DEF Create!BeginRecovery, Create!Goto, Create!ledgerVars, Unclaimed
<1>2. \A u \in Tabs : createStep'[u] = IF u = t THEN s ELSE createStep[u]
  BY <1>1 DEF CreateInv, CreateTypes
<1>3. CreateTypes'
  BY <1>1 DEF CreateInv, CreateTypes, CreateSteps
<1>4. CASE store = None /\ store' = Create!Reserved(Create!NewClaim) /\ claim'[t] = Create!NewClaim
  <2>0. store' \in Create!Record /\ store' /= None
    <3>1. Create!NewClaim \in Create!Claims
      BY <1>4, FreshClaim DEF CreateInv, CreateTypes
    <3> QED
      BY <1>4, <3>1, PagesConstants DEF Create!Record, Create!Reserved
  <2>1. /\ store' /= None /\ store'.claim = claim'[t] /\ store'.state = "RESERVED"
        /\ store'.hash = None
    BY <1>4, <2>0 DEF Create!Reserved
  <2>2. NothingAsked' /\ \A u \in Tabs : ~Reserving(u) /\ offered[u] = None
    BY <1>1, <1>4 DEF CreateInv, SentOnce, NothingAsked, OneReserves, HashesRetained
  <2>3. \A u \in Tabs : Reserving(u)' => u = t
    BY <1>1, <1>2, <2>2 DEF Reserving
  <2>4. OneReserves'
    BY <1>1, <1>2, <2>1, <2>2, <2>3 DEF CreateInv, OneReserves
  <2>5. SentOnce'
    BY <1>1, <1>2, <2>1, <2>2 DEF CreateInv, SentOnce, NothingAsked
  <2>6. HashesRetained'
    BY <1>1, <1>2, <1>4, <2>2 DEF CreateInv, HashesRetained
  <2>7. RecordOK'
    BY <2>0, <2>1 DEF RecordOK
  <2> QED
    BY <1>3, <2>4, <2>5, <2>6, <2>7 DEF CreateInv
<1>5. CASE UNCHANGED store /\ claim'[t] \notin Create!Claims
  <2>1. \A u \in Tabs : Reserving(u)' => Reserving(u) /\ u /= t
    BY <1>1, <1>2, <1>5 DEF Reserving
  <2>2. OneReserves'
    BY <1>1, <1>2, <1>5, <2>1 DEF CreateInv, OneReserves, Reserving, Unclaimed
  <2>3. SentOnce' /\ HashesRetained' /\ RecordOK'
    BY <1>1, <1>2, <1>5, <2>1 DEF CreateInv, SentOnce, NothingAsked, HashesRetained, RecordOK
  <2> QED
    BY <1>3, <2>2, <2>3 DEF CreateInv
<1> QED
  BY <1>1, <1>4, <1>5

\* A reservation is given back by the tab that holds it, unless a hash was
\* added to it.
LEMMA ReleaseInv ==
    ASSUME CreateInv, NEW t \in Tabs, Create!ReleaseReservation(t)
    PROVE  CreateInv'
<1>1. /\ createStep[t] \in {"RELEASE", "GIVE_UP"}
      /\ createStep' = [createStep EXCEPT ![t] = "IDLE"]
      /\ UNCHANGED <<claim, hash, offered, requests, sent, mined>>
      /\ \/ UNCHANGED store
         \/ store' = None /\ store /= None /\ store.state = "RESERVED"
  BY DEF Create!ReleaseReservation, Create!Goto, Create!ledgerVars, Create!Releasable, Create!OwnRecord
<1>2. CASE UNCHANGED store
  BY <1>1, <1>2, QuietInv DEF Unclaimed, Recovering, CreateSteps
<1>3. CASE store' = None /\ store /= None /\ store.state = "RESERVED"
  <2>1. \A u \in Tabs : createStep'[u] = IF u = t THEN "IDLE" ELSE createStep[u]
    BY <1>1 DEF CreateInv, CreateTypes
  <2>2. Reserving(t) /\ NothingAsked
    BY <1>1 DEF CreateInv, OneReserves, SentOnce
  <2>3. \A u \in Tabs : ~Reserving(u)'
    BY <1>1, <2>1, <2>2 DEF CreateInv, OneReserves, Reserving
  <2>4. \A u \in Tabs : offered[u] = None
    BY <1>3 DEF CreateInv, HashesRetained, RecordOK
  <2>5. CreateTypes' /\ RecordOK'
    BY <1>1, <1>3 DEF CreateInv, CreateTypes, CreateSteps, RecordOK
  <2>6. OneReserves' /\ SentOnce'
    BY <1>1, <2>1, <2>2, <2>3 DEF CreateInv, OneReserves, SentOnce, NothingAsked, Reserving
  <2>7. HashesRetained'
    BY <1>1, <2>1, <2>2, <2>4 DEF CreateInv, HashesRetained, OneReserves, Reserving
  <2> QED
    BY <2>5, <2>6, <2>7 DEF CreateInv
<1> QED
  BY <1>1, <1>2, <1>3

\* A request that is answered, by the page that made it or after it is gone.
LEMMA ApproveInv ==
    ASSUME CreateInv, NEW t \in Tabs, Create!Approve(t)
    PROVE  CreateInv'
<1>1. PICK h \in Fresh, s \in {"HASHED", "IDLE"}, g \in Fresh \cup {hash[t]} :
         /\ g \in {h, hash[t]} /\ createStep[t] = "PROMPT" /\ createStep' = [createStep EXCEPT ![t] = s]
         /\ sent' = sent \cup {h} /\ hash' = [hash EXCEPT ![t] = g]
         /\ s = "HASHED" => g = h
         /\ UNCHANGED <<store, claim, offered, requests, mined>>
  <2>1. hash = [hash EXCEPT ![t] = hash[t]]
    BY DEF CreateInv, CreateTypes
  <2> QED
    BY <2>1 DEF Create!Approve, Create!Goto, Create!AfterError
<1>2. /\ \A u \in Tabs : createStep'[u] = IF u = t THEN s ELSE createStep[u]
      /\ \A u \in Tabs : hash'[u] = IF u = t THEN g ELSE hash[u]
      /\ g \in Create!Hashes \cup {None} /\ h /= None
  BY <1>1, PagesConstants DEF CreateInv, CreateTypes, Create!Hashes
<1>3. Reserving(t) /\ NothingAsked
  BY <1>1 DEF CreateInv, OneReserves, SentOnce
<1>4. \A u \in Tabs : Reserving(u)' => Reserving(u) /\ u = t /\ createStep'[u] = "HASHED"
  BY <1>1, <1>2, <1>3 DEF CreateInv, OneReserves, Reserving
<1>5. CreateTypes' /\ RecordOK'
  BY <1>1, <1>2 DEF CreateInv, CreateTypes, CreateSteps, RecordOK
<1>6. OneReserves'
  BY <1>1, <1>2, <1>3, <1>4 DEF CreateInv, OneReserves, Reserving
<1>7. SentOnce'
  BY <1>1, <1>3, <1>4 DEF CreateInv, SentOnce, NothingAsked, OneReserves
<1>8. HashesRetained'
  BY <1>1, <1>2 DEF CreateInv, HashesRetained
<1> QED
  BY <1>5, <1>6, <1>7, <1>8 DEF CreateInv

LEMMA OrphanInv ==
    ASSUME CreateInv, Create!ApproveOrphan
    PROVE  CreateInv'
<1>1. PICK h \in Fresh :
         /\ requests > 0 /\ requests' = requests - 1 /\ sent' = sent \cup {h}
         /\ UNCHANGED <<store, createStep, claim, hash, offered, mined>>
  BY DEF Create!ApproveOrphan, Create!tabVars
<1>2. requests = 1 /\ sent = {} /\ requests' = 0
  BY <1>1 DEF CreateInv, SentOnce, CreateTypes
<1>3. CreateTypes' /\ RecordOK' /\ OneReserves' /\ HashesRetained'
  BY <1>1, <1>2 DEF CreateInv, CreateTypes, RecordOK, OneReserves, Reserving, HashesRetained
<1>4. SentOnce'
  BY <1>1, <1>2 DEF CreateInv, SentOnce, NothingAsked, Reserving
<1> QED
  BY <1>3, <1>4 DEF CreateInv

\* A hash that goes into the record replaces none, and leaves the claim to
\* the tab that holds it.
LEMMA RetainInv ==
    ASSUME CreateInv, NEW t \in Tabs, NEW s \in {"OBSERVING", "IDLE"}, NEW o \in {hash[t], offered[t]},
           createStep[t] \in {"HASHED", "R_SAVING"}, s = "OBSERVING" => createStep[t] = "HASHED",
           o /= offered[t] => hash[t] \in mined,
           createStep' = [createStep EXCEPT ![t] = s], offered' = [offered EXCEPT ![t] = o],
           UNCHANGED <<claim, hash, requests, sent, mined>>,
           store /= None, store.hash \in {None, hash[t]},
           store' \in Create!Record, store'.hash = hash[t], store'.state /= "RESERVED",
           store.claim \in Create!Claims => store'.claim = store.claim
    PROVE  CreateInv'
<1>1. /\ \A u \in Tabs : createStep'[u] = IF u = t THEN s ELSE createStep[u]
      /\ \A u \in Tabs : offered'[u] = IF u = t THEN o ELSE offered[u]
      /\ hash[t] \in Create!Hashes /\ hash[t] /= None
  BY DEF CreateInv, CreateTypes, HashesRetained
<1>2. \A u \in Tabs : Reserving(u)' => Reserving(u) /\ (u = t => s = "OBSERVING")
  BY <1>1 DEF Reserving
<1>3. CreateTypes' /\ RecordOK' /\ store' /= None
  BY <1>1, PagesConstants DEF CreateInv, CreateTypes, CreateSteps, RecordOK
<1>4. OneReserves'
  BY <1>1, <1>2, <1>3 DEF CreateInv, OneReserves, Reserving
<1>5. SentOnce'
  BY <1>1, <1>2, <1>3 DEF CreateInv, SentOnce, NothingAsked
<1>6. HashesRetained'
  BY <1>1, <1>3 DEF CreateInv, HashesRetained
<1> QED
  BY <1>3, <1>4, <1>5, <1>6 DEF CreateInv

LEMMA PersistInv ==
    ASSUME CreateInv, NEW t \in Tabs, Create!Persist(t)
    PROVE  CreateInv'
<1>1. /\ createStep[t] = "HASHED" /\ UNCHANGED <<claim, hash, offered, requests, sent, mined>>
      /\ offered = [offered EXCEPT ![t] = offered[t]] /\ hash[t] /= None
  BY DEF Create!Persist, Create!ledgerVars, CreateInv, CreateTypes, HashesRetained
<1>2. CASE Create!Persistable(t) /\ Create!PersistRecovery(t) /\ Create!Goto(t, "OBSERVING")
  <2>1. /\ store /= None /\ store.hash \in {None, hash[t]}
        /\ store' = [store EXCEPT !.state = "SUBMITTED", !.hash = hash[t]]
        /\ createStep' = [createStep EXCEPT ![t] = "OBSERVING"]
    BY <1>2 DEF Create!Persistable, Create!OwnRecord, Create!PersistRecovery, Create!Goto
  <2>2. /\ store'.hash = hash[t] /\ store'.state /= "RESERVED" /\ store'.claim = store.claim
        /\ store' \in Create!Record
    BY <1>1, <2>1 DEF CreateInv, CreateTypes, RecordOK, Create!Record
  <2> QED
    BY <1>1, <2>1, <2>2, RetainInv
<1>3. CASE UNCHANGED store /\ Create!Goto(t, "IDLE")
  BY <1>1, <1>3, QuietInv DEF Create!Goto, Unclaimed, Recovering, CreateSteps
<1> QED
  BY <1>2, <1>3 DEF Create!Persist

LEMMA SaveInv ==
    ASSUME CreateInv, NEW t \in Tabs, Create!SaveRecovery(t)
    PROVE  CreateInv'
<1>1. PICK o \in {hash[t], offered[t]} :
         /\ createStep[t] = "R_SAVING" /\ createStep' = [createStep EXCEPT ![t] = "IDLE"]
         /\ UNCHANGED <<claim, hash, requests, sent, mined>>
         /\ offered' = [offered EXCEPT ![t] = o]
         /\ \/ UNCHANGED <<store, offered>>
            \/ /\ store /= None /\ store.hash \in {None, hash[t]}
               /\ \/ Create!PersistRecovery(t)
                  \/ Create!ReconcileRecovery(t)
  <2>1. offered = [offered EXCEPT ![t] = offered[t]]
    BY DEF CreateInv, CreateTypes
  <2> QED
    BY <2>1 DEF Create!SaveRecovery, Create!Goto, Create!ledgerVars, Create!Offer,
                Create!Persistable, Create!OwnRecord, Create!Reconcilable
<1>2. hash[t] \in mined /\ hash[t] /= None
  BY <1>1 DEF CreateInv, HashesRetained
<1>3. CASE UNCHANGED <<store, offered>>
  BY <1>1, <1>3, QuietInv DEF Unclaimed, Recovering, CreateSteps
<1>4. ASSUME store /= None, store.hash \in {None, hash[t]},
             Create!PersistRecovery(t) \/ Create!ReconcileRecovery(t)
      PROVE  CreateInv'
  <2>1. store \in Create!Record /\ hash[t] \in Create!Hashes
    BY <1>2, <1>4 DEF CreateInv, CreateTypes, RecordOK
  <2>2. /\ store'.hash = hash[t] /\ store'.state /= "RESERVED" /\ store' \in Create!Record
        /\ store.claim /= Create!LegacyClaim => store'.claim = store.claim
    <3>1. CASE Create!PersistRecovery(t)
      BY <2>1, <3>1 DEF Create!PersistRecovery, Create!Record
    <3>2. CASE Create!ReconcileRecovery(t) /\ store.hash = hash[t]
      BY <1>2, <1>4, <2>1, <3>2 DEF Create!ReconcileRecovery, CreateInv, RecordOK
    <3>3. ASSUME NEW c, store' = [claim |-> c, state |-> "RECOVERED", hash |-> hash[t]],
                 c \in Create!Claims \cup {Create!LegacyClaim},
                 store.claim /= Create!LegacyClaim => c = store.claim
          PROVE  /\ store'.hash = hash[t] /\ store'.state /= "RESERVED" /\ store' \in Create!Record
                 /\ store.claim /= Create!LegacyClaim => store'.claim = store.claim
      BY <2>1, <3>3 DEF Create!Record
    <3>4. store.claim = Create!LegacyClaim => Create!NewClaim \in Create!Claims
      BY FreshClaim DEF CreateInv, CreateTypes
    <3>5. store.claim \in Create!Claims \cup {Create!LegacyClaim}
      BY <2>1 DEF Create!Record
    <3> QED
      BY <1>4, <3>1, <3>2, <3>3, <3>4, <3>5 DEF Create!ReconcileRecovery
  <2>3. Create!LegacyClaim \notin Create!Claims
    BY DEF Create!LegacyClaim, Create!Claims
  <2> QED
    BY <1>1, <1>2, <1>4, <2>2, <2>3, RetainInv
<1> QED
  BY <1>1, <1>3, <1>4

LEMMA ReloadInv ==
    ASSUME CreateInv, NEW t \in Tabs, Create!Reload(t)
    PROVE  CreateInv'
<1>1. /\ \A u \in Tabs : createStep'[u] = IF u = t THEN "IDLE" ELSE createStep[u]
      /\ \A u \in Tabs : claim'[u] = IF u = t THEN None ELSE claim[u]
      /\ \A u \in Tabs : hash'[u] = IF u = t THEN None ELSE hash[u]
      /\ \A u \in Tabs : offered'[u] = IF u = t THEN None ELSE offered[u]
      /\ requests' = IF createStep[t] = "PROMPT" THEN requests + 1 ELSE requests
      /\ UNCHANGED <<store, sent, mined>>
  BY DEF Create!Reload, Create!Goto, CreateInv, CreateTypes
<1>2. CreateTypes' /\ RecordOK'
  BY <1>1 DEF Create!Reload, Create!Goto, CreateInv, CreateTypes, CreateSteps, RecordOK
<1>3. \A u \in Tabs : Reserving(u)' => Reserving(u) /\ u /= t
  BY <1>1 DEF Reserving
<1>4. createStep[t] = "PROMPT" => Reserving(t) /\ NothingAsked /\ store /= None
  BY DEF CreateInv, OneReserves, SentOnce
<1>5. OneReserves' /\ HashesRetained'
  BY <1>1, <1>3 DEF CreateInv, OneReserves, HashesRetained, Reserving
<1>6. SentOnce'
  BY <1>1, <1>3, <1>4 DEF CreateInv, SentOnce, NothingAsked, OneReserves
<1> QED
  BY <1>2, <1>5, <1>6 DEF CreateInv

LEMMA CreateInitInv == Create!StageInit => CreateInv
<1> SUFFICES ASSUME Create!StageInit PROVE CreateInv
  OBVIOUS
<1>1. CreateTypes
  BY DEF Create!StageInit, CreateTypes, CreateSteps
<1>2. RecordOK
  BY PagesConstants DEF Create!StageInit, RecordOK, Create!Reserved, Create!Hashes, Create!Record
<1>3. OneReserves /\ SentOnce /\ HashesRetained
  BY DEF Create!StageInit, OneReserves, SentOnce, HashesRetained, NothingAsked, Reserving
<1> QED
  BY <1>1, <1>2, <1>3 DEF CreateInv

LEMMA CreateStepInv == CreateInv /\ [Create!StageNext]_createVars => CreateInv'
<1> SUFFICES ASSUME CreateInv, [Create!StageNext]_createVars PROVE CreateInv'
  OBVIOUS
<1> USE DEF Create!ledgerVars, Create!tabVars, Create!Goto
<1>1. CASE UNCHANGED createVars
  BY <1>1 DEF createVars, CreateInv, CreateTypes, RecordOK, OneReserves, SentOnce, HashesRetained,
              Reserving, NothingAsked
<1>2. ASSUME NEW t \in Tabs,
             \/ Create!RequestCandidate(t) \/ Create!Claimed(t) \/ Create!Refuse(t)
             \/ Create!RecoveryClaimed(t) \/ Create!Corroborate(t)
      PROVE  CreateInv'
  <2>1. CASE Create!RequestCandidate(t)
    BY <2>1, QuietInv DEF Create!RequestCandidate, Unclaimed, Recovering, CreateSteps
  <2>2. CASE Create!Claimed(t)
    BY <2>2, QuietInv DEF Create!Claimed, Create!Owns, Unclaimed, Recovering, CreateSteps
  <2>3. CASE Create!Refuse(t)
    <3>1. claim[t] \in Create!Claims
      BY <2>3 DEF Create!Refuse, CreateInv, OneReserves, Reserving
    <3> QED
      BY <2>3, <3>1, QuietInv DEF Create!Refuse, Unclaimed, Recovering, CreateSteps
  <2>4. CASE Create!RecoveryClaimed(t)
    <3>1. hash[t] /= None
      BY <2>4 DEF Create!RecoveryClaimed, CreateInv, HashesRetained
    <3> QED
      BY <2>4, <3>1, QuietInv DEF Create!RecoveryClaimed, Create!Owns, Unclaimed, Recovering, CreateSteps
  <2>5. CASE Create!Corroborate(t)
    <3>1. hash[t] /= None
      BY <2>5 DEF Create!Corroborate, CreateInv, HashesRetained
    <3> QED
      BY <2>5, <3>1, QuietInv
         DEF Create!Corroborate, Create!Owns, Create!Corroborated, Unclaimed, Recovering, CreateSteps
  <2> QED
    BY <1>2, <2>1, <2>2, <2>3, <2>4, <2>5
<1>3. ASSUME NEW t \in Tabs, Create!Observe(t)
      PROVE  CreateInv'
  <2>1. CASE UNCHANGED offered
    BY <1>3, <2>1, QuietInv DEF Create!Observe, Unclaimed, Recovering, CreateSteps
  <2>2. ASSUME hash[t] \in mined, offered' = [offered EXCEPT ![t] = hash[t]]
        PROVE  CreateInv'
    <3>1. /\ createStep[t] = "OBSERVING" /\ createStep' = [createStep EXCEPT ![t] = "IDLE"]
          /\ UNCHANGED <<store, claim, hash, requests, sent, mined>>
      BY <1>3 DEF Create!Observe
    <3>2. /\ \A u \in Tabs : createStep'[u] = IF u = t THEN "IDLE" ELSE createStep[u]
          /\ \A u \in Tabs : offered'[u] = IF u = t THEN hash[t] ELSE offered[u]
      BY <2>2, <3>1 DEF CreateInv, CreateTypes
    <3>3. \A u \in Tabs : Reserving(u)' => Reserving(u) /\ u /= t
      BY <3>1, <3>2 DEF Reserving
    <3>4. CreateTypes' /\ RecordOK'
      BY <2>2, <3>1 DEF CreateInv, CreateTypes, CreateSteps, RecordOK
    <3>5. OneReserves' /\ SentOnce'
      BY <3>1, <3>2, <3>3 DEF CreateInv, OneReserves, SentOnce, NothingAsked, Reserving
    <3>6. HashesRetained'
      BY <2>2, <3>1, <3>2 DEF CreateInv, HashesRetained
    <3> QED
      BY <3>4, <3>5, <3>6 DEF CreateInv
  <2> QED
    BY <1>3, <2>1, <2>2 DEF Create!Observe, Create!Offer, Create!Corroborated
<1>4. ASSUME NEW t \in Tabs, NEW h \in Create!Hashes, Create!RecoverCandidate(t, h)
      PROVE  CreateInv'
  <2>1. /\ createStep[t] = "IDLE" /\ h /= None
        /\ \A u \in Tabs : createStep'[u] = IF u = t THEN "R_CLAIMING" ELSE createStep[u]
        /\ \A u \in Tabs : hash'[u] = IF u = t THEN h ELSE hash[u]
        /\ UNCHANGED <<store, claim, offered, requests, sent, mined>>
    BY <1>4, PagesConstants DEF Create!RecoverCandidate, CreateInv, CreateTypes
  <2>2. CreateTypes' /\ RecordOK'
    BY <1>4 DEF Create!RecoverCandidate, CreateInv, CreateTypes, CreateSteps, RecordOK
  <2>3. OneReserves' /\ SentOnce' /\ HashesRetained'
    BY <2>1 DEF CreateInv, OneReserves, SentOnce, NothingAsked, HashesRetained, Reserving
  <2> QED
    BY <2>2, <2>3 DEF CreateInv
<1>5. ASSUME NEW t \in Tabs, Create!MoveWallet(t)
      PROVE  CreateInv'
  BY <1>5 DEF Create!MoveWallet, CreateInv, CreateTypes, RecordOK, OneReserves, SentOnce,
              HashesRetained, Reserving, NothingAsked
<1>6. ASSUME NEW h \in Fresh, Create!Mine(h)
      PROVE  CreateInv'
  BY <1>6 DEF Create!Mine, CreateInv, CreateTypes, RecordOK, OneReserves, SentOnce,
              HashesRetained, Reserving, NothingAsked
<1> QED
  BY <1>1, <1>2, <1>3, <1>4, <1>5, <1>6, BeginInv, ReleaseInv, ApproveInv, OrphanInv, PersistInv,
     SaveInv, ReloadInv DEF Create!StageNext, createVars, Create!stageVars

\* A hash of the record stays: whoever writes the record finds none in it, or
\* the same.
LEMMA EvidenceStep ==
    ASSUME CreateInv, [Create!StageNext]_createVars, Create!RetainedHash /= None
    PROVE  Create!RetainedHash' = Create!RetainedHash
<1> USE DEF Create!RetainedHash
<1>1. store /= None /\ store.hash /= None /\ store.state /= "RESERVED"
  BY DEF CreateInv, RecordOK
<1>2. CASE UNCHANGED store
  BY <1>2
<1>3. ASSUME NEW t \in Tabs, createStep[t] \in {"HASHED", "R_SAVING"}, store.hash = hash[t],
             Create!PersistRecovery(t) \/ Create!ReconcileRecovery(t)
      PROVE  Create!RetainedHash' = Create!RetainedHash
  <2>1. CASE Create!PersistRecovery(t)
    <3>1. store' \in Create!Record /\ store'.hash = store.hash
      BY <1>1, <1>3, <2>1 DEF Create!PersistRecovery, CreateInv, RecordOK, Create!Record
    <3> QED
      BY <1>1, <3>1, PagesConstants
  <2>2. CASE Create!ReconcileRecovery(t)
    BY <1>3, <2>2 DEF Create!ReconcileRecovery
  <2> QED
    BY <1>3, <2>1, <2>2
<1>4. ASSUME NEW t \in Tabs, Create!Persist(t) \/ Create!SaveRecovery(t)
      PROVE  Create!RetainedHash' = Create!RetainedHash
  BY <1>1, <1>2, <1>3, <1>4
     DEF Create!Persist, Create!SaveRecovery, Create!Persistable, Create!OwnRecord, Create!Reconcilable
<1>5. ASSUME NEW t \in Tabs, Create!ReleaseReservation(t)
      PROVE  UNCHANGED store
  BY <1>1, <1>5 DEF Create!ReleaseReservation, Create!Releasable
<1>6. ASSUME NEW t \in Tabs, NEW s, Create!BeginRecovery(t, s)
      PROVE  UNCHANGED store
  BY <1>1, <1>6 DEF Create!BeginRecovery
<1>7. ASSUME NEW t \in Tabs,
             \/ Create!RequestCandidate(t) \/ Create!Claimed(t) \/ Create!Approve(t) \/ Create!Refuse(t)
             \/ Create!Observe(t) \/ Create!RecoveryClaimed(t) \/ Create!Corroborate(t)
             \/ Create!Reload(t) \/ Create!MoveWallet(t)
             \/ \E h \in Create!Hashes : Create!RecoverCandidate(t, h)
      PROVE  UNCHANGED store
  BY <1>7 DEF Create!RequestCandidate, Create!Claimed, Create!Approve, Create!Refuse, Create!Observe,
              Create!RecoveryClaimed, Create!Corroborate, Create!Reload, Create!MoveWallet,
              Create!RecoverCandidate
<1>8. ASSUME Create!ApproveOrphan \/ \E h \in Fresh : Create!Mine(h)
      PROVE  UNCHANGED store
  BY <1>8 DEF Create!ApproveOrphan, Create!Mine
<1>9. CASE UNCHANGED createVars
  BY <1>2, <1>9 DEF createVars
<1> QED
  BY <1>2, <1>4, <1>5, <1>6, <1>7, <1>8, <1>9 DEF Create!StageNext

(***************************************************************************)
(* The backing page                                                        *)
(***************************************************************************)

BackSteps == {"LOADING", "IDLE", "SIGNING", "RESERVING", "BEGINNING", "PROMPT", "RECORDING",
              "RECOVERING"}
OfNewAttempt == {"SIGNING", "RESERVING", "BEGINNING", "PROMPT", "RECORDING"}
Hashed == {"RECORDING", "RECOVERING"}
Early == {"NONE", "ADMITTED", "PREPARED"}
Statuses == Early \cup Back!Unresolved \cup Back!Terminal

\* A hash that MetaMask gave for an attempt, which is never given another.
Given(k, h) == h /= Back!NoHash /\ h = known[k]

\* At most one new attempt is unresolved, and a record has the hash given.
OneUnresolved ==
    \A k, l \in Keys : status[k] \in Back!Unresolved /\ status[l] \in Back!Unresolved => k = l
ServerOK ==
    /\ status \in [Back!Attempts -> Statuses]
    /\ recorded = [k \in Back!Attempts |-> recorded[k]]
    /\ \A k \in Back!Attempts : recorded[k] /= Back!NoHash => Given(k, recorded[k])
    /\ OneUnresolved

StorageOK ==
    /\ prepared \subseteq Keys
    /\ pending = [k \in Keys |-> pending[k]]
    /\ \A k \in Keys : pending[k] /= Back!NoHash => Given(k, pending[k])
    /\ legacy => known[Legacy] /= Back!NoHash
    /\ Back!HashKept

\* A tab deals with new attempts, except where it recovers the legacy one, and
\* holds only hashes that were given.
TabOK(t) ==
    /\ step[t] \in BackSteps
    /\ step[t] \in OfNewAttempt => work[t].key \in Keys
    /\ step[t] = "RECOVERING" => work[t].key = Legacy
    /\ step[t] \in Hashed => Given(work[t].key, work[t].hash)
    /\ step[t] = "RECORDING" => work[t].key = shown[t].key
    /\ view[t] \in {"PREPARED", "SUBMITTED"} => viewed[t] \in Keys
    /\ shown[t] /= Back!NoWork => shown[t].key \in Keys /\ Given(shown[t].key, shown[t].hash)
TabsOK ==
    /\ step = [t \in Tabs |-> step[t]] /\ work = [t \in Tabs |-> work[t]]
    /\ view = [t \in Tabs |-> view[t]] /\ viewed = [t \in Tabs |-> viewed[t]]
    /\ shown = [t \in Tabs |-> shown[t]]
    /\ \A t \in Tabs : TabOK(t)

\* The same of calls whose page is gone.
CallOK(c) ==
    /\ c.op \in Back!Calling
    /\ c.op = "RECOVERING" => c.key = Legacy
    /\ c.op /= "RECOVERING" => c.key \in Keys
    /\ c.op \in Hashed => Given(c.key, c.hash)
CallsOK == \A c \in adrift : CallOK(c)

\* A permit to send: an attempt has one at most, which is used by the transfer,
\* and has none before its dispatch.
Spendable(k) == transfers[k] = 0 /\ status[k] \notin Early
WalletOK ==
    /\ transfers \in [Back!Attempts -> 0 .. 1]
    /\ known \in [Back!Attempts -> Nat]
    /\ \A k \in Back!Attempts : known[k] <= transfers[k]
    /\ orphans \subseteq Keys
    /\ \A k \in Keys : status[k] \in Early => transfers[k] = 0
    /\ \A k \in orphans : Spendable(k)
    /\ \A t \in Tabs : step[t] = "PROMPT" => Spendable(work[t].key) /\ work[t].key \notin orphans
    /\ \A t, u \in Tabs :
          step[t] = "PROMPT" /\ step[u] = "PROMPT" /\ work[t].key = work[u].key => t = u

BackInv == ServerOK /\ StorageOK /\ TabsOK /\ CallsOK /\ WalletOK

LEMMA BackInitInv == Back!FlowInit => BackInv
<1> SUFFICES ASSUME Back!FlowInit PROVE BackInv
  OBVIOUS
<1> USE DEF Back!FlowInit
<1>1. /\ \A k \in Keys : status[k] = "NONE" /\ transfers[k] = 0
      /\ transfers[Legacy] = IF legacy THEN 1 ELSE 0
      /\ status \in [Back!Attempts -> Statuses] /\ transfers \in [Back!Attempts -> 0 .. 1]
  <2>1. PICK s \in Early : status = [k \in Back!Attempts |-> IF k = Legacy THEN s ELSE "NONE"]
    BY DEF Early
  <2>2. transfers = [k \in Back!Attempts |-> IF k = Legacy /\ legacy THEN 1 ELSE 0]
    OBVIOUS
  <2>3. \A k \in Back!Attempts : transfers[k] = 0 \/ transfers[k] = 1
    BY <2>2
  <2>4. transfers \in [Back!Attempts -> 0 .. 1]
    BY <2>2, <2>3
  <2>5. status \in [Back!Attempts -> Statuses] /\ \A k \in Keys : status[k] = "NONE"
    BY <2>1, PagesConstants DEF Back!Attempts, Statuses, Early
  <2> QED
    BY <2>2, <2>4, <2>5, PagesConstants DEF Back!Attempts
<1>2. ServerOK
  BY <1>1 DEF ServerOK, OneUnresolved, Back!Unresolved
<1>3. StorageOK
  BY <1>1 DEF StorageOK, Back!HashKept, Back!NoHash, Back!Attempts
<1>4. TabsOK /\ CallsOK
  BY DEF TabsOK, TabOK, BackSteps, OfNewAttempt, Hashed, CallsOK
<1>5. WalletOK
  BY <1>1 DEF WalletOK
<1> QED
  BY <1>2, <1>3, <1>4, <1>5 DEF BackInv

\* What a commit on the server does: no attempt goes back before its dispatch,
\* and a hash that is recorded is the one given.
ServerGoesOn ==
    /\ status' \in [Back!Attempts -> Statuses]
    /\ recorded' = [k \in Back!Attempts |-> recorded'[k]]
    /\ \A k \in Back!Attempts : recorded'[k] \in {recorded[k], known[k]}
    /\ \A k \in Back!Attempts : status'[k] \in Early => status[k] \in Early
    /\ OneUnresolved'

LEMMA CommitGoesOn ==
    ASSUME BackInv, NEW c, CallOK(c), Back!Commit(c.op, c.key, c.hash)
    PROVE  ServerGoesOn
<1> DEFINE k == c.key
<1>1. k \in Back!Attempts
  BY DEF CallOK, Back!Attempts
<1>2. ASSUME NEW s \in Statuses, status' = [status EXCEPT ![k] = s], UNCHANGED recorded,
             status[k] \in Early,
             s \in Back!Unresolved => Back!Siblings(k) = {} \/ k \notin Keys
      PROVE  ServerGoesOn
  <2>1. \A l \in Back!Attempts : status'[l] = IF l = k THEN s ELSE status[l]
    BY <1>2 DEF BackInv, ServerOK
  <2>2. OneUnresolved'
    BY <1>1, <1>2, <2>1 DEF BackInv, ServerOK, OneUnresolved, Back!Siblings, Back!Attempts
  <2> QED
    BY <1>1, <1>2, <2>1, <2>2 DEF ServerGoesOn, BackInv, ServerOK
<1>3. CASE UNCHANGED <<status, recorded>>
  BY <1>3 DEF ServerGoesOn, BackInv, ServerOK, OneUnresolved
<1>4. CASE c.op \notin Hashed
  BY <1>2, <1>3, <1>4
     DEF CallOK, Back!Calling, Hashed, Back!Commit, Back!Admit, Back!Reserve, Back!BeginDispatch,
         Statuses, Early, Back!Unresolved
<1>5. CASE c.op \in Hashed
  <2>1. Back!Record(k, c.hash) /\ Given(k, c.hash)
    BY <1>5 DEF Hashed, Back!Commit, CallOK
  <2>2. k \in Keys => status[k] \notin Early
    BY <1>1, <2>1 DEF Given, Back!NoHash, BackInv, WalletOK
  <2>3. CASE Back!Recordable(k, c.hash)
    <3>1. /\ recorded' = [recorded EXCEPT ![k] = c.hash]
          /\ status' = IF status[k] \in {"ADMITTED", "PREPARED"}
                       THEN [status EXCEPT ![k] = "SUBMITTED"] ELSE status
      BY <2>1, <2>3 DEF Back!Record
    <3>2. /\ \A l \in Back!Attempts : recorded'[l] = IF l = k THEN known[k] ELSE recorded[l]
          /\ recorded' = [l \in Back!Attempts |-> recorded'[l]]
      BY <2>1, <3>1 DEF Given, BackInv, ServerOK
    <3>3. /\ \A l \in Back!Attempts : status'[l] = status[l] \/ (l = k /\ status'[l] = "SUBMITTED")
          /\ \A l \in Keys : status'[l] = status[l]
          /\ status' \in [Back!Attempts -> Statuses]
      BY <1>1, <2>2, <3>1
         DEF BackInv, ServerOK, Statuses, Early, Back!Unresolved, Back!Attempts
    <3> QED
      BY <3>2, <3>3 DEF ServerGoesOn, BackInv, ServerOK, OneUnresolved, Early
  <2> QED
    BY <1>3, <2>1, <2>3 DEF Back!Record
<1> QED
  BY <1>4, <1>5

\* One tab goes on, the server may, and nothing else is touched but local
\* storage and the calls under way.
LEMMA TabInv ==
    ASSUME BackInv, NEW t \in Tabs, ServerGoesOn, UNCHANGED <<known, transfers, orphans>>,
           StorageOK', CallsOK', TabOK(t)',
           step' = [u \in Tabs |-> step'[u]], work' = [u \in Tabs |-> work'[u]],
           view' = [u \in Tabs |-> view'[u]], viewed' = [u \in Tabs |-> viewed'[u]],
           shown' = [u \in Tabs |-> shown'[u]],
           \A u \in Tabs \ {t} : /\ step'[u] = step[u] /\ work'[u] = work[u] /\ view'[u] = view[u]
                                 /\ viewed'[u] = viewed[u] /\ shown'[u] = shown[u],
           step'[t] = "PROMPT" =>
              /\ Spendable(work[t].key)' /\ work'[t].key \notin orphans
              /\ \A u \in Tabs \ {t} : step[u] = "PROMPT" => work[u].key /= work'[t].key
    PROVE  BackInv'
<1>1. ServerOK'
  BY DEF BackInv, ServerOK, ServerGoesOn, Given
<1>2. TabsOK'
  <2>1. \A u \in Tabs \ {t} : TabOK(u)'
    BY DEF BackInv, TabsOK, TabOK, Given
  <2> QED
    BY <2>1 DEF TabsOK
<1>3. WalletOK'
  <2>1. \A k \in Keys : k \in Back!Attempts
    BY DEF Back!Attempts
  <2>2. \A u \in Tabs \ {t} : step[u] = "PROMPT" => work[u].key \in Keys
    BY DEF BackInv, TabsOK, TabOK, OfNewAttempt
  <2>3. \A k \in Keys : Spendable(k) => Spendable(k)'
    BY <2>1 DEF Spendable, ServerGoesOn
  <2>4. \A k \in Keys : status'[k] \in Early => transfers'[k] = 0
    BY <2>1 DEF BackInv, WalletOK, ServerGoesOn
  <2>5. \A u \in Tabs : step'[u] = "PROMPT" => Spendable(work[u].key)' /\ work'[u].key \notin orphans'
    <3>1. \A u \in Tabs \ {t} : step[u] = "PROMPT" => Spendable(work[u].key)' /\ work[u].key \notin orphans
      BY <2>2, <2>3 DEF BackInv, WalletOK, Spendable
    <3> QED
      BY <3>1
  <2>6. \A u, v \in Tabs :
           step'[u] = "PROMPT" /\ step'[v] = "PROMPT" /\ work'[u].key = work'[v].key => u = v
    BY DEF BackInv, WalletOK
  <2> QED
    BY <2>3, <2>4, <2>5, <2>6 DEF BackInv, WalletOK
<1> QED
  BY <1>1, <1>2, <1>3 DEF BackInv

\* What a tab does next, with which work, and what it shows.
Aims(s, w, v, k, h) ==
    /\ s \in BackSteps
    /\ s \in OfNewAttempt => w.key \in Keys
    /\ s = "RECOVERING" => w.key = Legacy
    /\ s \in Hashed => Given(w.key, w.hash)
    /\ s = "RECORDING" => w.key = h.key
    /\ v \in {"PREPARED", "SUBMITTED"} => k \in Keys
    /\ h /= Back!NoWork => h.key \in Keys /\ Given(h.key, h.hash)
Goes(t, s, w, v, k, h) ==
    /\ step' = [step EXCEPT ![t] = s] /\ work' = [work EXCEPT ![t] = w]
    /\ view' = [view EXCEPT ![t] = v] /\ viewed' = [viewed EXCEPT ![t] = k]
    /\ shown' = [shown EXCEPT ![t] = h]
\* Nobody else has sent, or may send, for the attempt.
MayAsk(t, k) ==
    /\ transfers[k] = 0 /\ status'[k] \notin Early /\ k \notin orphans
    /\ \A u \in Tabs \ {t} : step[u] = "PROMPT" => work[u].key /= k

LEMMA TabGoes ==
    ASSUME BackInv, NEW t \in Tabs, NEW s, NEW w, NEW v, NEW k, NEW h,
           ServerGoesOn, UNCHANGED <<known, transfers, orphans>>, StorageOK', CallsOK',
           Goes(t, s, w, v, k, h), Aims(s, w, v, k, h), s = "PROMPT" => MayAsk(t, w.key)
    PROVE  BackInv'
<1> USE DEF Goes, Aims, MayAsk
<1>1. /\ step = [u \in Tabs |-> step[u]] /\ work = [u \in Tabs |-> work[u]]
      /\ view = [u \in Tabs |-> view[u]] /\ viewed = [u \in Tabs |-> viewed[u]]
      /\ shown = [u \in Tabs |-> shown[u]]
  BY DEF BackInv, TabsOK
<1>2. /\ step' = [u \in Tabs |-> step'[u]] /\ work' = [u \in Tabs |-> work'[u]]
      /\ view' = [u \in Tabs |-> view'[u]] /\ viewed' = [u \in Tabs |-> viewed'[u]]
      /\ shown' = [u \in Tabs |-> shown'[u]]
  BY <1>1
<1>3. /\ step'[t] = s /\ work'[t] = w /\ view'[t] = v /\ viewed'[t] = k /\ shown'[t] = h
      /\ \A u \in Tabs \ {t} : /\ step'[u] = step[u] /\ work'[u] = work[u] /\ view'[u] = view[u]
                               /\ viewed'[u] = viewed[u] /\ shown'[u] = shown[u]
  BY <1>1
<1>4. TabOK(t)'
  BY <1>3 DEF TabOK, Given
<1> QED
  BY <1>2, <1>3, <1>4, TabInv DEF Spendable

LEMMA Stays ==
    ASSUME BackInv, NEW t \in Tabs
    PROVE  /\ Aims(step[t], work[t], view[t], viewed[t], shown[t]) /\ prepared \subseteq Keys
           /\ step = [step EXCEPT ![t] = step[t]] /\ work = [work EXCEPT ![t] = work[t]]
           /\ view = [view EXCEPT ![t] = view[t]] /\ viewed = [viewed EXCEPT ![t] = viewed[t]]
           /\ shown = [shown EXCEPT ![t] = shown[t]]
  BY DEF BackInv, TabsOK, TabOK, StorageOK, Aims

LEMMA ServerRests ==
    ASSUME BackInv, UNCHANGED <<status, recorded>>
    PROVE  ServerGoesOn
  BY DEF BackInv, ServerOK, ServerGoesOn, OneUnresolved

\* A hash that only a page holds is held on to, or has been recorded.
Retained ==
    \A k \in Back!Attempts : Back!HeldByPage(k) => Back!HeldByPage(k)' \/ recorded'[k] = known[k]

LEMMA HeldOn == UNCHANGED <<shown, known, refused, lost>> => Retained
  BY DEF Retained, Back!HeldByPage

\* What a page gives up by holding another hash counts as left with it.
LEMMA HeldElsewhere ==
    ASSUME BackInv, NEW t \in Tabs, NEW x, Back!Hold(t, x), refused \subseteq refused',
           NEW k \in Back!Attempts, known'[k] = known[k], Back!HeldByPage(k)
    PROVE  Back!HeldByPage(k)'
<1>1. k \in refused' /\ lost \subseteq lost'
  BY DEF Back!HeldByPage, Back!Hold
<1>2. ASSUME NEW u \in Tabs, shown[u] = [key |-> k, hash |-> known[k]]
      PROVE  Back!HeldByPage(k)'
  <2>1. CASE u = t
    BY <1>1, <1>2, <2>1 DEF Back!HeldByPage, Back!Hold
  <2>2. CASE u /= t
    <3>1. shown'[u] = shown[u]
      BY <2>2 DEF Back!Hold, BackInv, TabsOK
    <3> QED
      BY <1>1, <1>2, <3>1 DEF Back!HeldByPage
  <2> QED
    BY <2>1, <2>2
<1> QED
  BY <1>1, <1>2 DEF Back!HeldByPage

\* Local storage keeps what it holds, or forgets a hash that is recorded.
LEMMA StorageStays ==
    ASSUME BackInv, ServerGoesOn, UNCHANGED <<pending, legacy, known>>, prepared' \subseteq Keys, Retained
    PROVE  StorageOK'
  BY DEF BackInv, StorageOK, Given, ServerGoesOn, Back!HashKept, Retained

LEMMA HashForgotten ==
    ASSUME BackInv, ServerGoesOn, UNCHANGED <<legacy, known>>, prepared' \subseteq Keys, Retained,
           NEW k \in Keys, pending' = [pending EXCEPT ![k] = Back!NoHash], recorded'[k] = known[k]
    PROVE  StorageOK'
<1>1. \A l \in Keys : pending'[l] = IF l = k THEN Back!NoHash ELSE pending[l]
  BY DEF BackInv, StorageOK
<1> QED
  BY <1>1, PagesConstants
     DEF BackInv, StorageOK, Given, ServerGoesOn, Back!HashKept, Back!Attempts, Retained

LEMMA LegacyForgotten ==
    ASSUME BackInv, ServerGoesOn, UNCHANGED <<prepared, pending, known>>, Retained,
           legacy' = FALSE, recorded'[Legacy] = known[Legacy]
    PROVE  StorageOK'
  BY PagesConstants
     DEF BackInv, StorageOK, Given, ServerGoesOn, Back!HashKept, Back!Attempts, Retained

LEMMA CallOfOK ==
    ASSUME BackInv, NEW t \in Tabs, step[t] \in Back!Calling
    PROVE  CallOK(Back!CallOf(t))
  BY DEF BackInv, TabsOK, TabOK, CallOK, Back!CallOf, OfNewAttempt, Back!Calling, Hashed

\* A tab's call is committed and answered, lost, or arrives later.
LEMMA CallMade ==
    ASSUME BackInv, NEW t \in Tabs, step[t] \in Back!Calling, UNCHANGED known,
           Back!Answered(t) \/ Back!Lost(t)
    PROVE  ServerGoesOn /\ CallsOK'
<1>1. CallOK(Back!CallOf(t))
  BY CallOfOK
<1>2. CASE Back!Answered(t)
  <2>1. Back!Commit(Back!CallOf(t).op, Back!CallOf(t).key, Back!CallOf(t).hash)
    BY <1>2 DEF Back!Answered, Back!CallOf
  <2> QED
    BY <1>1, <1>2, <2>1, CommitGoesOn DEF Back!Answered, BackInv, CallsOK, CallOK, Given
<1>3. CASE Back!Lost(t)
  <2>1. \A c \in adrift' : CallOK(c)
    BY <1>1, <1>3 DEF Back!Lost, BackInv, CallsOK
  <2> QED
    BY <1>3, <2>1, ServerRests DEF Back!Lost, CallsOK, CallOK, Given
<1> QED
  BY <1>2, <1>3

\* Steps of a tab that ask nothing of the server.
LEMMA QuietTab ==
    ASSUME BackInv, NEW t \in Tabs, NEW s, NEW w, NEW v, NEW k, NEW h,
           UNCHANGED <<status, recorded, pending, legacy, adrift, orphans, transfers, known>>,
           prepared' \subseteq Keys, Retained,
           Goes(t, s, w, v, k, h), Aims(s, w, v, k, h), s /= "PROMPT"
    PROVE  BackInv'
<1>1. ServerGoesOn
  BY ServerRests
<1>2. StorageOK' /\ CallsOK'
  BY <1>1, StorageStays DEF BackInv, CallsOK, CallOK, Given
<1> QED
  BY <1>1, <1>2, TabGoes

LEMMA LoadInv ==
    ASSUME BackInv, NEW t \in Tabs, Back!Load(t)
    PROVE  BackInv'
<1>1. PICK read \in Back!PaymentRead,
           p \in Back!PendingKeys \cup {None}, i \in prepared \cup {None} :
         LET first == Back!RecoveredView(p, Back!RecoveredIntent(p, i), read) IN
         /\ view' = [view EXCEPT ![t] = first.kind] /\ viewed' = [viewed EXCEPT ![t] = first.key]
         /\ Back!Hold(t, IF p = None THEN Back!NoWork ELSE [key |-> p, hash |-> pending[p]])
  BY DEF Back!Load, Back!Show
<1> DEFINE first == Back!RecoveredView(p, Back!RecoveredIntent(p, i), read)
           held == IF p = None THEN Back!NoWork ELSE [key |-> p, hash |-> pending[p]]
<1>2. /\ first.kind \in {"PREPARED", "SUBMITTED"} => first.key \in Keys
      /\ held /= Back!NoWork => held.key \in Keys /\ Given(held.key, held.hash)
  <2>1. p \in Keys \cup {None} /\ i \in Keys \cup {None}
    BY DEF Back!PendingKeys, BackInv, StorageOK
  <2>2. p /= None => Given(p, pending[p]) /\ p \in Keys
    BY DEF Back!PendingKeys, BackInv, StorageOK
  <2> QED
    BY <2>1, <2>2 DEF Back!RecoveredView, Back!RecoveredIntent
<1>3. /\ step' = [step EXCEPT ![t] = "IDLE"] /\ UNCHANGED <<work, prepared>>
      /\ UNCHANGED <<status, recorded, pending, legacy, adrift, orphans, transfers, known, refused>>
  BY DEF Back!Load, Back!Goto, Back!server, Back!storage
<1> HIDE DEF first, held
<1>4. /\ view' = [view EXCEPT ![t] = first.kind] /\ viewed' = [viewed EXCEPT ![t] = first.key]
      /\ Back!Hold(t, held) /\ shown' = [shown EXCEPT ![t] = held]
  BY <1>1 DEF first, held, Back!Hold
<1>5. Goes(t, "IDLE", work[t], first.kind, first.key, held)
  BY <1>3, <1>4, Stays DEF Goes
<1>6. Aims("IDLE", work[t], first.kind, first.key, held)
  BY <1>2 DEF Aims, BackSteps, OfNewAttempt, Hashed
<1>7. prepared' \subseteq Keys
  BY <1>3, Stays
<1>8. Retained
  BY <1>3, <1>4, HeldElsewhere DEF Retained
<1> QED
  BY <1>3, <1>5, <1>6, <1>7, <1>8, QuietTab

\* Steps that ask nothing of the server: a tab that begins something, or a
\* request that is declined.
LEMMA BeginsInv ==
    ASSUME BackInv, NEW t \in Tabs,
           \/ Back!Prepare(t) \/ Back!Send(t) \/ Back!Decline(t) \/ Back!Attach(t)
           \/ Back!BeginLegacyRecovery(t)
    PROVE  BackInv'
<1> USE DEF Back!server, Back!storage, Back!wallet, Back!page, Back!Goto, Back!Start, Back!Rest, Back!Show
<1> DEFINE Work(s, k, h) == Goes(t, s, [key |-> k, hash |-> h], view[t], viewed[t], shown[t])
<1>0. /\ UNCHANGED <<status, recorded, pending, legacy, adrift, orphans, transfers, known>>
      /\ prepared' \subseteq Keys /\ Retained
  BY Stays, HeldOn
     DEF Back!Prepare, Back!Stored, Back!Send, Back!Decline, Back!Attach, Back!BeginLegacyRecovery
<1>1. ASSUME NEW s \in {"SIGNING", "RESERVING", "RECORDING", "RECOVERING"}, NEW k, NEW h, Work(s, k, h),
             s /= "RECOVERING" => k \in Keys, s = "RECOVERING" => k = Legacy,
             s \in {"RECORDING", "RECOVERING"} => Given(k, h), s = "RECORDING" => k = shown[t].key
      PROVE  BackInv'
  <2>1. Aims(s, [key |-> k, hash |-> h], view[t], viewed[t], shown[t])
    BY <1>1, Stays DEF Aims, BackSteps, OfNewAttempt, Hashed
  <2> QED
    BY <1>0, <1>1, <2>1, QuietTab
<1>2. CASE Back!Prepare(t)
  <2>1. CASE UNCHANGED <<step, work>>
    <3>1. Goes(t, step[t], work[t], view[t], viewed[t], shown[t])
      BY <1>2, <2>1, Stays DEF Back!Prepare, Goes
    <3>2. step[t] = "IDLE"
      BY <1>2 DEF Back!Prepare, Back!CanPrepare
    <3> QED
      BY <1>0, <3>1, <3>2, Stays, QuietTab
  <2>2. ASSUME NEW k \in Keys, step' = [step EXCEPT ![t] = "SIGNING"],
               work' = [work EXCEPT ![t] = [key |-> k, hash |-> Back!NoHash]]
        PROVE  BackInv'
    <3>1. Work("SIGNING", k, Back!NoHash)
      BY <1>2, <2>2, Stays DEF Back!Prepare, Goes
    <3> QED
      BY <3>1, <1>1
  <2> QED
    BY <1>2, <2>1, <2>2 DEF Back!Prepare
<1>3. CASE Back!Send(t)
  <2>1. viewed[t] \in Keys
    BY <1>3, Stays DEF Back!Send, Aims
  <2>2. Work("RESERVING", viewed[t], Back!NoHash)
    BY <1>3, Stays DEF Back!Send, Goes
  <2> QED
    BY <2>1, <2>2, <1>1
<1>4. CASE Back!Decline(t)
  <2>1. Goes(t, "IDLE", Back!NoWork, "ENDED", None, shown[t])
    BY <1>4, Stays DEF Back!Decline, Goes
  <2>2. Aims("IDLE", Back!NoWork, "ENDED", None, shown[t])
    BY Stays DEF Aims, BackSteps, OfNewAttempt, Hashed
  <2> QED
    BY <1>0, <2>1, <2>2, QuietTab
<1>5. CASE Back!Attach(t)
  <2>1. shown[t].key \in Keys /\ Given(shown[t].key, shown[t].hash)
    BY <1>5, Stays DEF Back!Attach, Aims
  <2>2. Work("RECORDING", shown[t].key, shown[t].hash)
    BY <1>5, Stays DEF Back!Attach, Goes
  <2> QED
    BY <2>1, <2>2, <1>1
<1>6. CASE Back!BeginLegacyRecovery(t)
  <2>1. Given(Legacy, known[Legacy])
    BY <1>6 DEF Back!BeginLegacyRecovery, BackInv, StorageOK, Given
  <2>2. Work("RECOVERING", Legacy, known[Legacy])
    BY <1>6, Stays DEF Back!BeginLegacyRecovery, Goes
  <2> QED
    BY <2>1, <2>2, <1>1
<1> QED
  BY <1>2, <1>3, <1>4, <1>5, <1>6

\* The call for a signature, for a reservation.
LEMMA SignatureInv ==
    ASSUME BackInv, NEW t \in Tabs, Back!OnSignature(t)
    PROVE  BackInv'
<1> USE DEF Back!Goto, Back!Rest, Back!Show, Back!wallet
<1>1. /\ step[t] = "SIGNING" /\ step' = [step EXCEPT ![t] = "IDLE"]
      /\ work' = [work EXCEPT ![t] = Back!NoWork]
      /\ UNCHANGED <<pending, legacy, shown, orphans, transfers, known, refused, lost>>
  BY DEF Back!OnSignature
<1>2. ServerGoesOn /\ CallsOK'
  <2>1. CASE Back!Answered(t) \/ Back!Lost(t)
    BY <1>1, <2>1, CallMade DEF Back!Calling
  <2>2. CASE UNCHANGED <<status, recorded, adrift>>
    BY <1>1, <2>2, ServerRests DEF BackInv, CallsOK, CallOK, Given
  <2> QED
    BY <2>1, <2>2 DEF Back!OnSignature
<1>3. StorageOK'
  <2>1. prepared' \subseteq Keys
    BY Stays DEF Back!OnSignature, Back!Stored
  <2> QED
    BY <1>1, <1>2, <2>1, StorageStays, HeldOn
<1>4. work[t].key \in Keys
  BY <1>1, Stays DEF Aims, OfNewAttempt
<1>5. ASSUME NEW v \in {"PREPARED", "CHOOSING", "ENDED"}, NEW k, Back!Show(t, v, k),
             v = "PREPARED" => k \in Keys
      PROVE  BackInv'
  <2>1. Goes(t, "IDLE", Back!NoWork, v, k, shown[t])
    BY <1>1, <1>5, Stays DEF Goes
  <2>2. Aims("IDLE", Back!NoWork, v, k, shown[t])
    BY <1>5, Stays DEF Aims, BackSteps, OfNewAttempt, Hashed
  <2> QED
    BY <1>1, <1>2, <1>3, <2>1, <2>2, TabGoes
<1> HIDE DEF Back!Show
<1> QED
  BY <1>4, <1>5 DEF Back!OnSignature

LEMMA ReserveInv ==
    ASSUME BackInv, NEW t \in Tabs, Back!ReservePayment(t)
    PROVE  BackInv'
<1> USE DEF Back!Goto, Back!Rest, Back!wallet, Back!storage, Back!page
<1>1. /\ step[t] = "RESERVING" /\ (Back!Answered(t) \/ Back!Lost(t))
      /\ UNCHANGED <<prepared, pending, legacy, view, viewed, shown, orphans, transfers, known, refused, lost>>
      /\ \/ step' = [step EXCEPT ![t] = "IDLE"] /\ work' = [work EXCEPT ![t] = Back!NoWork]
         \/ step' = [step EXCEPT ![t] = "BEGINNING"] /\ UNCHANGED work
  BY DEF Back!ReservePayment
<1>2. ServerGoesOn /\ CallsOK'
  BY <1>1, CallMade DEF Back!Calling
<1>3. StorageOK'
  BY <1>1, <1>2, Stays, StorageStays, HeldOn
<1>4. PICK s \in {"IDLE", "BEGINNING"}, w \in {Back!NoWork, work[t]} :
         Goes(t, s, w, view[t], viewed[t], shown[t]) /\ (s = "BEGINNING" => w = work[t])
  BY <1>1, Stays DEF Goes
<1>5. Aims(s, w, view[t], viewed[t], shown[t])
  BY <1>1, <1>4, Stays DEF Aims, BackSteps, OfNewAttempt, Hashed
<1> QED
  BY <1>1, <1>2, <1>3, <1>4, <1>5, TabGoes

\* The permit: whose answer it is, nobody may send for the attempt.
LEMMA DispatchInv ==
    ASSUME BackInv, NEW t \in Tabs, Back!BeginPaymentDispatch(t)
    PROVE  BackInv'
<1> USE DEF Back!Goto, Back!Rest, Back!Start, Back!Show, Back!wallet, Back!storage
<1> DEFINE k == work[t].key
<1>1. /\ step[t] = "BEGINNING" /\ (Back!Answered(t) \/ Back!Lost(t))
      /\ UNCHANGED <<prepared, pending, legacy, shown, orphans, transfers, known, refused, lost>>
  BY DEF Back!BeginPaymentDispatch
<1>2. ServerGoesOn /\ CallsOK'
  BY <1>1, CallMade DEF Back!Calling
<1>3. StorageOK'
  BY <1>1, <1>2, Stays, StorageStays, HeldOn
<1>4. CASE /\ Back!DispatchAnswer(k) \in Back!Permits /\ Back!Answered(t)
           /\ step' = [step EXCEPT ![t] = "PROMPT"] /\ UNCHANGED <<work, view, viewed>>
  <2>1. k \in Keys /\ k \in Back!Attempts
    BY <1>1, Stays DEF Back!Attempts, Aims, OfNewAttempt
  <2>2. status[k] = "PREPARED" /\ status' = [status EXCEPT ![k] = "OUTCOME_UNKNOWN"]
    BY <1>1, <1>4 DEF Back!DispatchAnswer, Back!Permits, Back!Answered, Back!Commit, Back!BeginDispatch
  <2>3. MayAsk(t, k)
    BY <2>1, <2>2 DEF BackInv, WalletOK, ServerOK, Spendable, Early, MayAsk
  <2>4. Goes(t, "PROMPT", work[t], view[t], viewed[t], shown[t])
    BY <1>1, <1>4, Stays DEF Goes
  <2>5. Aims("PROMPT", work[t], view[t], viewed[t], shown[t])
    BY <2>1, Stays DEF Aims, BackSteps, OfNewAttempt, Hashed
  <2> QED
    BY <1>1, <1>2, <1>3, <2>3, <2>4, <2>5, TabGoes
<1>5. ASSUME NEW s \in {"IDLE", "LOADING"}, NEW w, step' = [step EXCEPT ![t] = s],
             work' = [work EXCEPT ![t] = w],
             NEW v, NEW l, view' = [view EXCEPT ![t] = v], viewed' = [viewed EXCEPT ![t] = l],
             v \in {"PREPARED", "SUBMITTED"} => l \in Keys
      PROVE  BackInv'
  <2>1. Goes(t, s, w, v, l, shown[t])
    BY <1>1, <1>5, Stays DEF Goes
  <2>2. Aims(s, w, v, l, shown[t])
    BY <1>5, Stays DEF Aims, BackSteps, OfNewAttempt, Hashed
  <2> QED
    BY <1>1, <1>2, <1>3, <2>1, <2>2, TabGoes
<1>6. /\ view = [view EXCEPT ![t] = view[t]] /\ viewed = [viewed EXCEPT ![t] = viewed[t]]
      /\ view[t] \in {"PREPARED", "SUBMITTED"} => viewed[t] \in Keys
  BY Stays DEF Aims
<1> QED
  BY <1>4, <1>5, <1>6 DEF Back!BeginPaymentDispatch

\* The calls that record a hash. What is forgotten has been recorded.
LEMMA RecordInv ==
    ASSUME BackInv, NEW t \in Tabs,
           Back!PersistPayment(t) \/ Back!RecoverLegacyPayment(t)
    PROVE  BackInv'
<1> USE DEF Back!wallet
<1> DEFINE k == work[t].key
           h == work[t].hash
<1>1. /\ step[t] \in Hashed /\ (Back!Answered(t) \/ Back!Lost(t))
      /\ UNCHANGED <<view, viewed, orphans, transfers, known, refused, lost>>
      /\ step' = [step EXCEPT ![t] = "IDLE"] /\ work' = [work EXCEPT ![t] = Back!NoWork]
      /\ shown' \in {shown, [shown EXCEPT ![t] = Back!NoWork]}
  BY DEF Back!PersistPayment, Back!RecoverLegacyPayment, Back!Rest, Hashed
<1>2. ServerGoesOn /\ CallsOK'
  BY <1>1, CallMade DEF Back!Calling, Hashed
<1>3. k \in Back!Attempts /\ Given(k, h)
  BY <1>1, Stays DEF Aims, Hashed, OfNewAttempt, Back!Attempts
<1>4. ASSUME Back!Answered(t), Back!Recordable(k, h)
      PROVE  recorded'[k] = known[k]
  <2>1. recorded' = [recorded EXCEPT ![k] = h]
    BY <1>1, <1>4 DEF Back!Answered, Back!Commit, Back!Record, Hashed
  <2> QED
    BY <1>3, <2>1 DEF BackInv, ServerOK, Given
<1>5. Retained
  <2>1. CASE UNCHANGED shown
    BY <1>1, <2>1, HeldOn
  <2>2. CASE ~UNCHANGED shown
    <3>1. /\ step[t] = "RECORDING" /\ Back!Answered(t) /\ Back!Recordable(k, h)
          /\ shown' = [shown EXCEPT ![t] = Back!NoWork]
      BY <2>2 DEF Back!PersistPayment, Back!MayForget, Back!RecoverLegacyPayment
    <3>2. \A u \in Tabs \ {t} : shown'[u] = shown[u]
      BY <3>1 DEF BackInv, TabsOK
    <3>3. k = shown[t].key /\ recorded'[k] = known[k]
      BY <1>4, <3>1, Stays DEF Aims
    <3>4. ASSUME NEW l \in Back!Attempts, l \in refused,
                 NEW u \in Tabs, shown[u] = [key |-> l, hash |-> known[l]]
          PROVE  Back!HeldByPage(l)' \/ recorded'[l] = known[l]
      <4>1. CASE u = t
        BY <3>3, <3>4, <4>1
      <4>2. CASE u /= t
        BY <1>1, <3>2, <3>4, <4>2 DEF Back!HeldByPage
      <4> QED
        BY <4>1, <4>2
    <3> QED
      BY <1>1, <3>4 DEF Retained, Back!HeldByPage
  <2> QED
    BY <2>1, <2>2
<1>6. prepared' \subseteq Keys
  BY Stays DEF Back!PersistPayment, Back!RecoverLegacyPayment, Back!Stored
<1>7. StorageOK'
  <2>1. CASE UNCHANGED <<pending, legacy>>
    BY <1>1, <1>2, <1>5, <1>6, <2>1, StorageStays
  <2>2. CASE Back!PersistPayment(t) /\ ~UNCHANGED <<pending, legacy>>
    <3>1. /\ step[t] = "RECORDING" /\ pending' = [pending EXCEPT ![k] = Back!NoHash]
          /\ UNCHANGED legacy /\ Back!Answered(t) /\ Back!Recordable(k, h)
      BY <2>2 DEF Back!PersistPayment, Back!MayForget, Back!Stored
    <3>2. k \in Keys
      BY <3>1, Stays DEF Aims, OfNewAttempt
    <3> QED
      BY <1>1, <1>2, <1>4, <1>5, <1>6, <3>1, <3>2, HashForgotten
  <2>3. CASE Back!RecoverLegacyPayment(t) /\ ~UNCHANGED <<pending, legacy>>
    <3>1. /\ step[t] = "RECOVERING" /\ legacy' = FALSE /\ UNCHANGED <<prepared, pending>>
          /\ Back!Answered(t) /\ Back!Recordable(Legacy, h)
      BY <2>3 DEF Back!RecoverLegacyPayment, Back!MayForget, Back!Stored
    <3>2. k = Legacy
      BY <3>1, Stays DEF Aims
    <3> QED
      BY <1>1, <1>2, <1>4, <1>5, <3>1, <3>2, LegacyForgotten
  <2> QED
    BY <2>1, <2>2, <2>3
<1>8. PICK x \in {shown[t], Back!NoWork} : Goes(t, "IDLE", Back!NoWork, view[t], viewed[t], x)
  BY <1>1, Stays DEF Goes
<1>9. Aims("IDLE", Back!NoWork, view[t], viewed[t], x)
  BY <1>8, Stays DEF Aims, BackSteps, OfNewAttempt, Hashed
<1> QED
  BY <1>1, <1>2, <1>7, <1>8, <1>9, TabGoes

\* A transfer uses up the permit; an attempt without a transfer has no hash
\* yet, so whatever hash is held elsewhere is of another attempt.
LEMMA TransferWallet ==
    ASSUME BackInv, NEW k \in Keys, Spendable(k), Back!Transfer(k),
           UNCHANGED <<status, recorded>>, orphans' \subseteq orphans, k \notin orphans',
           known' \in {known, [known EXCEPT ![k] = 1]},
           \A t \in Tabs : step'[t] = "PROMPT" => step[t] = "PROMPT" /\ work'[t] = work[t] /\ work[t].key /= k
    PROVE  /\ WalletOK' /\ known[k] = 0
           /\ transfers'[k] = 1
           /\ \A l \in Back!Attempts \ {k} : known'[l] = known[l]
           /\ \A l \in Back!Attempts : \A h : Given(l, h) => Given(l, h)'
<1>1. k \in Back!Attempts /\ transfers[k] = 0
  BY DEF Spendable, Back!Attempts
<1>2. \A l \in Back!Attempts : transfers'[l] = IF l = k THEN 1 ELSE transfers[l]
  BY <1>1 DEF Back!Transfer, BackInv, WalletOK
<1>3. known[k] = 0
  BY <1>1 DEF BackInv, WalletOK
<1>4. /\ known' \in [Back!Attempts -> Nat] /\ known'[k] \in 0 .. 1
      /\ \A l \in Back!Attempts \ {k} : known'[l] = known[l]
  BY <1>1, <1>3 DEF BackInv, WalletOK
<1>5. \A l \in Back!Attempts : \A h : Given(l, h) => Given(l, h)'
  BY <1>3, <1>4 DEF Given, Back!NoHash
<1>6. transfers' \in [Back!Attempts -> 0 .. 1]
  BY <1>1, <1>2 DEF Back!Transfer, BackInv, WalletOK
<1>7. /\ \A l \in Back!Attempts : known'[l] <= transfers'[l]
      /\ \A l \in Keys : status'[l] \in Early => transfers'[l] = 0
  BY <1>1, <1>2, <1>4 DEF BackInv, WalletOK, Spendable, Back!Attempts
<1>8. \A l \in Keys \ {k} : Spendable(l) => Spendable(l)'
  BY <1>2 DEF Spendable, Back!Attempts
<1>9. \A t \in Tabs : step[t] = "PROMPT" => work[t].key \in Keys
  BY Stays DEF Aims, OfNewAttempt
<1>10. \A t \in Tabs : step'[t] = "PROMPT" => Spendable(work[t].key)' /\ work'[t].key \notin orphans'
  <2>1. \A t \in Tabs : step'[t] = "PROMPT" =>
           /\ work'[t].key \in Keys \ {k} /\ work'[t].key = work[t].key
           /\ Spendable(work[t].key) /\ work[t].key \notin orphans
    BY <1>9 DEF BackInv, WalletOK
  <2> SUFFICES ASSUME NEW t \in Tabs, step'[t] = "PROMPT"
               PROVE  Spendable(work[t].key)' /\ work'[t].key \notin orphans'
    OBVIOUS
  <2> DEFINE l == work[t].key
  <2>2. l \in Keys \ {k} /\ work'[t].key = l /\ Spendable(l) /\ l \notin orphans
    BY <2>1
  <2>3. l \in Back!Attempts /\ transfers'[l] = transfers[l]
    BY <1>2, <2>2 DEF Back!Attempts
  <2> QED
    BY <2>2, <2>3 DEF Spendable
<1>11. \A t, u \in Tabs :
          step'[t] = "PROMPT" /\ step'[u] = "PROMPT" /\ work'[t].key = work'[u].key => t = u
  BY DEF BackInv, WalletOK
<1>12. WalletOK'
  BY <1>4, <1>6, <1>7, <1>8, <1>10, <1>11 DEF BackInv, WalletOK
<1> QED
  BY <1>1, <1>2, <1>3, <1>4, <1>5, <1>12

LEMMA TransferInv ==
    ASSUME BackInv, NEW t \in Tabs, Back!Approve(t)
    PROVE  BackInv'
<1> USE DEF Back!server, Back!Goto, Back!Rest, Back!Start, Back!Show
<1> DEFINE k == work[t].key
<1>1. /\ step[t] = "PROMPT" /\ Back!Transfer(k)
      /\ UNCHANGED <<status, recorded, prepared, legacy, adrift, orphans>>
  BY DEF Back!Approve
<1>2. k \in Keys /\ k \in Back!Attempts /\ Spendable(k) /\ k \notin orphans
  BY <1>1, Stays DEF Aims, OfNewAttempt, BackInv, WalletOK, Back!Attempts
<1>3. \A u \in Tabs \ {t} : step[u] = "PROMPT" => work[u].key /= k
  BY <1>1 DEF BackInv, WalletOK
<1>4. ASSUME NEW s \in {"IDLE", "RECORDING"}, NEW w, NEW v, NEW l, NEW x, Goes(t, s, w, v, l, x),
             known' \in {known, [known EXCEPT ![k] = 1]}
      PROVE  /\ WalletOK' /\ known[k] = 0 /\ transfers'[k] = 1
             /\ \A m \in Back!Attempts \ {k} : known'[m] = known[m]
             /\ \A m \in Back!Attempts : \A h : Given(m, h) => Given(m, h)'
             /\ \A u \in Tabs \ {t} : TabOK(u)'
             /\ step'[t] = s /\ work'[t] = w /\ view'[t] = v /\ viewed'[t] = l /\ shown'[t] = x
             /\ TabOK(t)' => TabsOK'
             /\ ServerOK' /\ CallsOK'
  <2>1. /\ \A u \in Tabs \ {t} : /\ step'[u] = step[u] /\ work'[u] = work[u] /\ view'[u] = view[u]
                                 /\ viewed'[u] = viewed[u] /\ shown'[u] = shown[u]
        /\ step'[t] = s /\ work'[t] = w /\ view'[t] = v /\ viewed'[t] = l /\ shown'[t] = x
    BY <1>4 DEF Goes, BackInv, TabsOK
  <2>2. \A u \in Tabs : step'[u] = "PROMPT" => step[u] = "PROMPT" /\ work'[u] = work[u] /\ work[u].key /= k
    BY <1>3, <2>1
  <2>3. /\ WalletOK' /\ known[k] = 0 /\ transfers'[k] = 1
        /\ \A m \in Back!Attempts \ {k} : known'[m] = known[m]
        /\ \A m \in Back!Attempts : \A h : Given(m, h) => Given(m, h)'
    BY <1>1, <1>2, <1>4, <2>2, TransferWallet
  <2>4. \A u \in Tabs \ {t} : TabOK(u)'
    <3> SUFFICES ASSUME NEW u \in Tabs \ {t} PROVE TabOK(u)'
      OBVIOUS
    <3>1. TabOK(u)
      BY DEF BackInv, TabsOK
    <3>2. \A m \in Keys \cup {Legacy} : \A h : Given(m, h) => Given(m, h)'
      BY <2>3 DEF Back!Attempts
    <3>3. /\ step[u] \in Hashed => work[u].key \in Keys \cup {Legacy}
          /\ step[u] \in Hashed => Given(work[u].key, work[u].hash)
      BY <3>1 DEF TabOK, Hashed, OfNewAttempt
    <3> QED
      BY <2>1, <3>1, <3>2, <3>3 DEF TabOK, Given
  <2>5. ServerOK' /\ CallsOK'
    <3>1. \A m \in Keys \cup {Legacy} : \A h : Given(m, h) => Given(m, h)'
      BY <2>3 DEF Back!Attempts
    <3>2. ServerOK'
      BY <1>1, <2>3 DEF BackInv, ServerOK, OneUnresolved
    <3>3. ASSUME NEW c \in adrift PROVE CallOK(c)'
      <4>1. CallOK(c) /\ (c.op \in Hashed => c.key \in Keys \cup {Legacy})
        BY <3>3 DEF BackInv, CallsOK, CallOK
      <4> QED
        BY <3>1, <4>1 DEF CallOK, Given
    <3> QED
      BY <1>1, <3>2, <3>3 DEF CallsOK
  <2>6. TabOK(t)' => TabsOK'
    BY <1>4, <2>4 DEF Goes, TabsOK, BackInv
  <2> QED
    BY <2>1, <2>3, <2>4, <2>5, <2>6
<1>5. transfers'[k] = 1
  BY <1>1, <1>2 DEF Back!Transfer, Spendable, BackInv, WalletOK
<1>6. CASE /\ known' = [known EXCEPT ![k] = transfers'[k]]
           /\ \/ pending' = [pending EXCEPT ![k] = transfers'[k]] /\ UNCHANGED refused
              \/ refused' = refused \cup {k} /\ UNCHANGED pending
           /\ Back!Hold(t, [key |-> k, hash |-> transfers'[k]])
           /\ Back!Show(t, "SUBMITTED", k)
           /\ Back!Start(t, "RECORDING", k, transfers'[k])
  <2>1. Goes(t, "RECORDING", [key |-> k, hash |-> 1], "SUBMITTED", k, [key |-> k, hash |-> 1])
    BY <1>5, <1>6 DEF Goes, Back!Hold
  <2>2. /\ WalletOK' /\ known[k] = 0 /\ ServerOK' /\ CallsOK'
        /\ \A m \in Back!Attempts \ {k} : known'[m] = known[m]
        /\ step'[t] = "RECORDING" /\ work'[t] = [key |-> k, hash |-> 1]
        /\ view'[t] = "SUBMITTED" /\ viewed'[t] = k /\ shown'[t] = [key |-> k, hash |-> 1]
        /\ TabOK(t)' => TabsOK'
    BY <1>4, <1>5, <1>6, <2>1
  <2>3. /\ known'[k] = 1 /\ pending'[k] \in {1, pending[k]} /\ pending' = [l \in Keys |-> pending'[l]]
        /\ \A l \in Keys \ {k} : pending'[l] = pending[l]
        /\ pending'[k] = 1 \/ k \in refused'
    BY <1>2, <1>5, <1>6 DEF BackInv, WalletOK, StorageOK
  <2>4. TabsOK'
    BY <1>2, <2>2, <2>3 DEF TabOK, BackSteps, OfNewAttempt, Hashed, Given, Back!NoHash
  <2>5. StorageOK'
    <3>1. Legacy \in Back!Attempts \ {k} /\ \A l \in Keys : l \in Back!Attempts
      BY <1>2, PagesConstants DEF Back!Attempts
    <3>2. pending'[k] = 1 \/ Back!HeldByPage(k)'
      BY <2>2, <2>3 DEF Back!HeldByPage
    <3>3. \A l \in Back!Attempts \ {k} : Back!HeldByPage(l) => Back!HeldByPage(l)'
      BY <1>6, <2>2, HeldElsewhere
    <3>4. Back!HashKept'
      BY <1>1, <1>2, <2>2, <2>3, <3>1, <3>2, <3>3, PagesConstants
         DEF BackInv, StorageOK, Back!HashKept, Back!Attempts
    <3>5. pending[k] = Back!NoHash
      BY <1>2, <2>2 DEF BackInv, StorageOK, Given, Back!NoHash
    <3> QED
      BY <1>1, <2>2, <2>3, <3>1, <3>4, <3>5 DEF BackInv, StorageOK, Given, Back!NoHash
  <2> QED
    BY <2>2, <2>4, <2>5 DEF BackInv
<1>7. CASE Back!Show(t, "ENDED", None) /\ Back!Rest(t) /\ UNCHANGED <<known, pending, shown, refused, lost>>
  <2>1. Goes(t, "IDLE", Back!NoWork, "ENDED", None, shown[t])
    BY <1>7, Stays DEF Goes
  <2>2. /\ WalletOK' /\ ServerOK' /\ CallsOK' /\ step'[t] = "IDLE" /\ view'[t] = "ENDED" /\ shown'[t] = shown[t]
        /\ TabOK(t)' => TabsOK'
    BY <1>4, <1>7, <2>1
  <2>3. TabsOK'
    BY <1>7, <2>2, Stays DEF Aims, TabOK, BackSteps, OfNewAttempt, Hashed, Given
  <2>4. StorageOK'
    BY <1>1, <1>7 DEF BackInv, StorageOK, Given, Back!HashKept, Back!HeldByPage
  <2> QED
    BY <2>2, <2>3, <2>4 DEF BackInv
<1> QED
  BY <1>6, <1>7 DEF Back!Approve

LEMMA LateTransferInv ==
    ASSUME BackInv, NEW k \in Back!Attempts, Back!ApproveOrphan(k)
    PROVE  BackInv'
<1>1. /\ k \in orphans /\ orphans' = orphans \ {k} /\ Back!Transfer(k)
      /\ UNCHANGED <<status, recorded, prepared, pending, legacy, step, work, view, viewed, shown,
                     adrift, known, refused, lost>>
  BY DEF Back!ApproveOrphan, Back!server, Back!storage, Back!page
<1>2. k \in Keys /\ Spendable(k) /\ \A t \in Tabs : step[t] = "PROMPT" => work[t].key /= k
  BY <1>1 DEF BackInv, WalletOK
<1>3. WalletOK'
  BY <1>1, <1>2, TransferWallet
<1>4. ServerOK' /\ StorageOK' /\ TabsOK' /\ CallsOK'
  BY <1>1 DEF BackInv, ServerOK, OneUnresolved, StorageOK, Back!HashKept, Back!HeldByPage, TabsOK,
                TabOK, CallsOK, CallOK, Given
<1> QED
  BY <1>3, <1>4 DEF BackInv

\* A page that is reloaded leaves its calls and requests behind.
LEMMA PageReloadInv ==
    ASSUME BackInv, NEW t \in Tabs, Back!Reload(t)
    PROVE  BackInv'
<1> USE DEF Back!server, Back!storage, Back!Goto, Back!Start, Back!Show
<1>1. /\ adrift' = IF step[t] \in Back!Calling THEN adrift \cup {Back!CallOf(t)} ELSE adrift
      /\ orphans' = IF step[t] = "PROMPT" THEN orphans \cup {work[t].key} ELSE orphans
      /\ Goes(t, "LOADING", [key |-> None, hash |-> Back!NoHash], "CHOOSING", None, Back!NoWork)
      /\ UNCHANGED <<status, recorded, prepared, pending, legacy, transfers, known, refused>>
      /\ Back!Hold(t, Back!NoWork)
  BY DEF Back!Reload, Back!Hold, Goes
<1>2. /\ \A u \in Tabs \ {t} : /\ step'[u] = step[u] /\ work'[u] = work[u] /\ view'[u] = view[u]
                               /\ viewed'[u] = viewed[u] /\ shown'[u] = shown[u]
      /\ step'[t] = "LOADING" /\ view'[t] = "CHOOSING" /\ shown'[t] = Back!NoWork
  BY <1>1 DEF Goes, BackInv, TabsOK
<1>3. ServerOK' /\ StorageOK'
  <2>1. Retained
    BY <1>1, HeldElsewhere DEF Retained
  <2>2. ServerOK' /\ ServerGoesOn
    BY <1>1, ServerRests DEF BackInv, ServerOK, OneUnresolved, Given
  <2> QED
    BY <1>1, <2>1, <2>2, Stays, StorageStays
<1>4. TabsOK'
  <2>1. \A u \in Tabs : TabOK(u)'
    BY <1>1, <1>2 DEF BackInv, TabsOK, TabOK, BackSteps, OfNewAttempt, Hashed, Given
  <2> QED
    BY <1>1, <2>1 DEF TabsOK, Goes, BackInv
<1>5. CallsOK'
  <2>1. step[t] \in Back!Calling => CallOK(Back!CallOf(t))
    BY CallOfOK
  <2> QED
    BY <1>1, <2>1 DEF BackInv, CallsOK, CallOK, Given
<1>6. WalletOK'
  <2>1. step[t] = "PROMPT" => work[t].key \in Keys
    BY Stays DEF Aims, OfNewAttempt
  <2>2. \A k \in orphans' : Spendable(k)
    BY <1>1 DEF BackInv, WalletOK
  <2>3. \A u \in Tabs : step'[u] = "PROMPT" =>
           u /= t /\ step[u] = "PROMPT" /\ work'[u] = work[u] /\ Spendable(work[u].key)
    BY <1>2 DEF BackInv, WalletOK
  <2>4. \A u \in Tabs : step'[u] = "PROMPT" => work'[u].key \notin orphans'
    BY <1>1, <2>3 DEF BackInv, WalletOK
  <2> QED
    BY <1>1, <2>1, <2>2, <2>3, <2>4 DEF BackInv, WalletOK, Spendable
<1> QED
  BY <1>3, <1>4, <1>5, <1>6 DEF BackInv

\* What happens without a page: late calls, verifications.
LEMMA ServerInv ==
    ASSUME BackInv, ServerGoesOn, adrift' \subseteq adrift,
           UNCHANGED <<prepared, pending, legacy, step, work, view, viewed, shown, orphans, transfers, known,
                       refused, lost>>
    PROVE  BackInv'
<1>1. ServerOK'
  BY DEF BackInv, ServerOK, ServerGoesOn, Given
<1>2. StorageOK'
  BY StorageStays, HeldOn DEF BackInv, StorageOK
<1>3. TabsOK' /\ CallsOK'
  BY DEF BackInv, TabsOK, TabOK, CallsOK, CallOK, Given
<1>4. WalletOK'
  <2>1. \A k \in Keys : k \in Back!Attempts
    BY DEF Back!Attempts
  <2>2. \A k \in Keys : Spendable(k) => Spendable(k)'
    BY <2>1 DEF Spendable, ServerGoesOn
  <2>3. \A t \in Tabs : step[t] = "PROMPT" => work[t].key \in Keys
    BY Stays DEF Aims, OfNewAttempt
  <2>4. \A t \in Tabs : step'[t] = "PROMPT" => Spendable(work[t].key)' /\ work'[t].key \notin orphans'
    BY <2>2, <2>3 DEF BackInv, WalletOK
  <2> QED
    BY <2>1, <2>2, <2>4 DEF BackInv, WalletOK, ServerGoesOn
<1> QED
  BY <1>1, <1>2, <1>3, <1>4 DEF BackInv

LEMMA BackStepInv == BackInv /\ [Back!FlowNext]_backVars => BackInv'
<1> SUFFICES ASSUME BackInv, [Back!FlowNext]_backVars PROVE BackInv'
  OBVIOUS
<1>1. CASE UNCHANGED backVars
  <2>1. ServerGoesOn
    BY <1>1, ServerRests DEF backVars
  <2> QED
    BY <1>1, <2>1, ServerInv DEF backVars
<1>2. CASE Back!ServeLate
  <2>1. PICK c \in adrift : adrift' = adrift \ {c} /\ Back!Commit(c.op, c.key, c.hash)
    BY <1>2 DEF Back!ServeLate
  <2>2. ServerGoesOn
    BY <2>1, CommitGoesOn DEF BackInv, CallsOK
  <2> QED
    BY <1>2, <2>1, <2>2, ServerInv DEF Back!ServeLate, Back!storage, Back!page, Back!wallet
<1>3. ASSUME NEW k \in Back!Attempts, Back!Verify(k)
      PROVE  BackInv'
  <2>1. PICK outcome \in Outcomes : Back!Resolve(k, outcome)
    BY <1>3 DEF Back!Verify
  <2>2. /\ status[k] \in Back!Unresolved /\ UNCHANGED recorded
        /\ \A l \in Back!Attempts : status'[l] = IF l = k THEN outcome ELSE status[l]
        /\ status' \in [Back!Attempts -> Statuses] /\ outcome \notin Early
    BY <2>1, PagesConstants DEF Back!Resolve, BackInv, ServerOK, Statuses, Early,
                                Back!Verdicts, Back!Terminal, Back!Unresolved
  <2>3. ServerGoesOn
    BY <2>2 DEF ServerGoesOn, BackInv, ServerOK, OneUnresolved, Back!Attempts
  <2> QED
    BY <1>3, <2>3, ServerInv DEF Back!Verify, Back!storage, Back!page, Back!wallet
<1>4. ASSUME NEW t \in Tabs, Back!MoveWallet(t)
      PROVE  BackInv'
  <2>1. ServerGoesOn
    BY <1>4, ServerRests DEF Back!MoveWallet, Back!server
  <2> QED
    BY <1>4, <2>1, ServerInv DEF Back!MoveWallet, Back!storage, Back!wallet
<1> QED
  BY <1>1, <1>2, <1>3, <1>4, LoadInv, BeginsInv, SignatureInv, ReserveInv, DispatchInv, TransferInv,
     RecordInv, PageReloadInv, LateTransferInv DEF Back!FlowNext, backVars, Back!flowVars

(***************************************************************************)
(* The theorems                                                            *)
(***************************************************************************)

LEMMA AtMostOne ==
    ASSUME NEW S, \A x, y \in S : x = y
    PROVE  Cardinality(S) <= 1
<1>1. CASE S = {}
  BY <1>1, FS_EmptySet
<1>2. ASSUME NEW x \in S PROVE Cardinality(S) <= 1
  <2>1. S = {x}
    BY <1>2
  <2> QED
    BY <2>1, FS_Singleton
<1> QED
  BY <1>1, <1>2

\* The invariant of the two pages: who may ask the wallet is the only one who
\* may, and every hash that is shown or stored is the one that was given.
THEOREM PagesInvariant == PagesSpec => [](CreateInv /\ BackInv)
<1>1. PagesInit => CreateInv /\ BackInv
  BY CreateInitInv, BackInitInv DEF PagesInit
<1>2. CreateInv /\ BackInv /\ [PagesNext]_pagesVars => CreateInv' /\ BackInv'
  BY OnePageMoves, CreateStepInv, BackStepInv
<1> QED
  BY <1>1, <1>2, PTL DEF PagesSpec

\* The tabs of a browser sign one creation, however many there are, whichever
\* pages are reloaded under an open request and whatever errors answer it.
THEOREM OneCreateHolds == PagesSpec => []OneCreate
<1>1. CreateInv => OneCreate
  <2>1. CreateInv => Cardinality(sent) <= 1
    BY AtMostOne DEF CreateInv, SentOnce
  <2>2. Create!Cardinality(sent) = Cardinality(sent)
    BY DEF Cardinality, Create!Cardinality
  <2> QED
    BY <2>1, <2>2 DEF OneCreate, Create!OneCreate
<1> QED
  BY <1>1, PagesInvariant, PTL

\* A backer transfers once for an attempt, and for no second one while the
\* first is undecided, for any number of tabs and attempts.
THEOREM OneTransferHolds == PagesSpec => []OneTransfer
<1>1. BackInv => OneTransfer
  <2> SUFFICES ASSUME BackInv PROVE OneTransfer
    OBVIOUS
  <2> DEFINE S == {k \in Keys : transfers[k] > 0 /\ status[k] \in Back!Unresolved}
  <2>1. Cardinality(S) <= 1
    BY AtMostOne DEF BackInv, ServerOK, OneUnresolved
  <2>2. Back!Cardinality(S) = Cardinality(S)
    BY DEF Cardinality, Back!Cardinality
  <2>3. \A k \in Back!Attempts : transfers[k] <= 1
    BY DEF BackInv, WalletOK
  <2> QED
    BY <2>1, <2>2, <2>3 DEF OneTransfer, Back!OneTransfer
<1> QED
  BY <1>1, PagesInvariant, PTL

\* What a page shows is what the browser retains, and what MetaMask gave is
\* retained until the server has recorded it.
THEOREM ShownIsRetainedHolds == PagesSpec => []ShownIsRetained
<1>1. CreateInv /\ BackInv => ShownIsRetained
  BY DEF CreateInv, HashesRetained, BackInv, StorageOK, ShownIsRetained, Create!CandidateRetained,
         Create!RetainedHash
<1> QED
  BY <1>1, PagesInvariant, PTL

\* A hash in the record of a creation is never replaced or removed.
THEOREM EvidenceKeptHolds == PagesSpec => EvidenceKept
<1>1. CreateInv /\ [PagesNext]_pagesVars =>
         [Create!RetainedHash /= None => Create!RetainedHash' = Create!RetainedHash]_Create!stageVars
  BY OnePageMoves, EvidenceStep
<1> QED
  BY <1>1, PagesInvariant, PTL DEF PagesSpec, EvidenceKept, Create!EvidenceKept
=============================================================================
