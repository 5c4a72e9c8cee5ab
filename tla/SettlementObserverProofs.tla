----------------------- MODULE SettlementObserverProofs -----------------------
(***************************************************************************)
(* What the settlement observer guarantees for any number of requests,     *)
(* headers, inputs, handlers, restarts and any size of the sink. Two facts *)
(* carry the rest: a handler that is being built or ready is the cached    *)
(* one, and a request is registered at most once, under its own header, in *)
(* the handler that serves it.                                             *)
(***************************************************************************)
EXTENDS SettlementObserver, SequenceTheorems, FiniteSetTheorems, TLAPS

-----------------------------------------------------------------------------
(* The inductive invariant                                                 *)

Serving == {"evaluating", "observing", "settling", "settled", "unsettled", "canceled"}
PastRegistration == {"settling", "settled", "unsettled", "released", "refused", "lost"}

\* A request that has arrived has its inputs, and while it is served its
\* handler is ready.
ArrivedRequests ==
    \A r \in Requests :
       /\ phase[r] /= "idle" =>
             header[r] \in Headers /\ input[r] \in Inputs /\ handlerOf[r] \in Handlers
       /\ phase[r] \in Serving => built[handlerOf[r]] = "ready"

OneObserver == \A n \in Handlers : built[n] \in {"building", "ready"} => cache = n

\* An entry is a request under its own header, in its own handler.
OwnEntries ==
    \A n \in Handlers, h \in Headers :
       entries[n][h] /= None =>
          /\ handlerOf[entries[n][h]] = n /\ header[entries[n][h]] = h
          /\ phase[entries[n][h]] \in PastRegistration
          /\ built[n] = "ready"

SettledPaid == \A r \in Requests : phase[r] \in {"settled", "released"} => r \in genuine

\* A settlement speaks of requests that are past their registration, and what
\* it was issued from is registered no more.
IssuedOnce ==
    \A k \in 1..Len(issued) :
       /\ phase[issued[k].by] /= "idle"
       /\ phase[issued[k].from] \in PastRegistration
       /\ \A n \in Handlers, h \in Headers : entries[n][h] /= issued[k].from

ObserverInv ==
    /\ ObserverTypeOK
    /\ ArrivedRequests
    /\ OneObserver
    /\ OwnEntries
    /\ TimersMatchEntries
    /\ SettledPaid
    /\ IssuedOnce
    /\ EvidenceFaithful
    /\ OneIssuePerRegistration
    /\ SinkKeepsNewest

-----------------------------------------------------------------------------
(* The sink                                                                *)

\* How many settlements the sink holds after one more.
Room(s) == IF Len(s) + 1 > MaxSettlements THEN MaxSettlements ELSE Len(s) + 1

\* Recording drops nothing while there is room, and the oldest one otherwise.
LEMMA RecordedIsSubSeq ==
    ASSUME ObserverConstants, NEW s \in Seq(Evidence), NEW e \in Evidence
    PROVE  /\ Recorded(s, e) \in Seq(Evidence)
           /\ Len(Recorded(s, e)) = Room(s)
           /\ \A i \in 1..Room(s) :
                 Recorded(s, e)[i] = Append(s, e)[(Len(s) + 1) - Room(s) + i]
<1> DEFINE all == Append(s, e)
           size == Len(s) + 1
           kept == Room(s)
<1>1. /\ all \in Seq(Evidence) /\ Len(all) = size
      /\ Len(s) \in Nat
  BY AppendProperties, LenProperties
<1>2. MaxSettlements \in Nat \ {0}
  BY DEF ObserverConstants
<1>3. /\ kept \in Nat /\ kept <= size /\ 1 <= kept
      /\ size \in Nat
  BY <1>1, <1>2 DEF Room
<1>4. Recorded(s, e) = SubSeq(all, size - kept + 1, size)
  <2>1. (IF size > MaxSettlements THEN size - MaxSettlements ELSE 0) = size - kept
    BY <1>1, <1>2 DEF Room
  <2> QED BY <1>1, <2>1 DEF Recorded
<1>5. \A i \in (size - kept + 1)..size : all[i] \in Evidence
  <2> TAKE i \in (size - kept + 1)..size
  <2>1. i \in 1..Len(all)
    BY <1>1, <1>3
  <2> QED BY <1>1, <2>1, ElementOfSeq
<1> HIDE DEF all, size, kept
<1>6. size - kept + 1 \in Int /\ size \in Int
  BY <1>3
<1>7. /\ SubSeq(all, size - kept + 1, size) \in Seq(Evidence)
      /\ Len(SubSeq(all, size - kept + 1, size)) =
            IF size - kept + 1 <= size THEN size - (size - kept + 1) + 1 ELSE 0
      /\ \A i \in 1..(size - (size - kept + 1) + 1) :
            SubSeq(all, size - kept + 1, size)[i] = all[(size - kept + 1) + i - 1]
  BY <1>5, <1>6, SubSeqProperties
<1>8. Len(SubSeq(all, size - kept + 1, size)) = kept
  BY <1>3, <1>7
<1>9. \A i \in 1..kept : SubSeq(all, size - kept + 1, size)[i] = all[size - kept + i]
  BY <1>3, <1>7
<1>10. /\ Recorded(s, e) \in Seq(Evidence)
       /\ Len(Recorded(s, e)) = kept
       /\ \A i \in 1..kept : Recorded(s, e)[i] = all[size - kept + i]
  BY <1>4, <1>7, <1>8, <1>9
<1> QED BY <1>10 DEF all, size, kept

\* The last m elements of a sequence, element by element.
LEMMA LastOnes ==
    ASSUME NEW s \in Seq(Evidence), NEW m \in 0..Len(s)
    PROVE  /\ SubSeq(s, Len(s) - m + 1, Len(s)) \in Seq(Evidence)
           /\ Len(SubSeq(s, Len(s) - m + 1, Len(s))) = m
           /\ \A i \in 1..m : SubSeq(s, Len(s) - m + 1, Len(s))[i] = s[Len(s) - m + i]
<1>1. Len(s) \in Nat
  BY LenProperties
<1>2. \A i \in (Len(s) - m + 1)..Len(s) : s[i] \in Evidence
  <2> TAKE i \in (Len(s) - m + 1)..Len(s)
  <2>1. i \in 1..Len(s)
    BY <1>1
  <2> QED BY <2>1, ElementOfSeq
<1>3. Len(s) - m + 1 \in Int /\ Len(s) \in Int
  BY <1>1
<1>4. /\ SubSeq(s, Len(s) - m + 1, Len(s)) \in Seq(Evidence)
      /\ Len(SubSeq(s, Len(s) - m + 1, Len(s))) =
            IF Len(s) - m + 1 <= Len(s) THEN Len(s) - (Len(s) - m + 1) + 1 ELSE 0
      /\ \A i \in 1..(Len(s) - (Len(s) - m + 1) + 1) :
            SubSeq(s, Len(s) - m + 1, Len(s))[i] = s[(Len(s) - m + 1) + i - 1]
  BY <1>2, <1>3, SubSeqProperties
<1> QED BY <1>1, <1>4

\* Recording keeps the newest: if the sink holds the last ones of all that
\* this process issued, it still does after one more.
LEMMA RecordingKeepsNewest ==
    ASSUME ObserverConstants,
           NEW s \in Seq(Evidence), NEW a \in Seq(Evidence), NEW e \in Evidence,
           NEW first \in 0..Len(a), s = Newest(a, first)
    PROVE  Recorded(s, e) = Newest(Append(a, e), first)
<1> DEFINE mine == Len(a) - first
           kept == IF mine < MaxSettlements THEN mine ELSE MaxSettlements
           b == Append(a, e)
           next == IF mine + 1 < MaxSettlements THEN mine + 1 ELSE MaxSettlements
           room == Room(s)
<1>1. MaxSettlements \in Nat \ {0}
  BY DEF ObserverConstants
<1>2. /\ b \in Seq(Evidence) /\ Len(b) = Len(a) + 1 /\ Len(a) \in Nat
      /\ \A i \in 1..Len(a) : b[i] = a[i]
      /\ b[Len(a) + 1] = e
  BY AppendProperties, LenProperties
<1>3. kept \in 0..Len(a) /\ next \in 0..Len(b)
  BY <1>1, <1>2
<1>4. s = SubSeq(a, Len(a) - kept + 1, Len(a))
  BY DEF Newest
<1>5. Len(s) = kept /\ \A i \in 1..kept : s[i] = a[Len(a) - kept + i]
  <2> HIDE DEF kept
  <2> QED BY <1>3, <1>4, LastOnes
<1>6. /\ Append(s, e) \in Seq(Evidence)
      /\ \A i \in 1..Len(s) : Append(s, e)[i] = s[i]
      /\ Append(s, e)[Len(s) + 1] = e
  BY AppendProperties
<1>7. /\ Recorded(s, e) \in Seq(Evidence) /\ Len(Recorded(s, e)) = room
      /\ \A i \in 1..room : Recorded(s, e)[i] = Append(s, e)[(Len(s) + 1) - room + i]
  BY RecordedIsSubSeq
<1>8. /\ SubSeq(b, Len(b) - next + 1, Len(b)) \in Seq(Evidence)
      /\ Len(SubSeq(b, Len(b) - next + 1, Len(b))) = next
      /\ \A i \in 1..next :
            SubSeq(b, Len(b) - next + 1, Len(b))[i] = b[Len(b) - next + i]
  BY <1>2, <1>3, LastOnes
<1>9. room = next
  BY <1>1, <1>2, <1>5 DEF Room
<1>10. Len(b) - first = mine + 1
  BY <1>2
<1>11. /\ kept \in Nat /\ kept <= Len(a) /\ room \in Nat /\ room <= kept + 1
  BY <1>1, <1>2, <1>3, <1>5 DEF Room
<1> HIDE DEF b, room, next, kept, mine
<1>12. \A i \in 1..room : Append(s, e)[(kept + 1) - room + i] = b[Len(a) + 1 - room + i]
  <2> TAKE i \in 1..room
  <2>1. CASE i = room
    <3>1. (kept + 1) - room + i = kept + 1 /\ Len(a) + 1 - room + i = Len(a) + 1
      BY <1>2, <1>11, <2>1
    <3> QED BY <1>2, <1>5, <1>6, <3>1
  <2>2. CASE i /= room
    <3> DEFINE j == (kept + 1) - room + i
    <3>1. j \in 1..kept
      BY <1>11, <2>2
    <3>2. Len(a) - kept + j = Len(a) + 1 - room + i
      BY <1>2, <1>11
    <3>3. Len(a) - kept + j \in 1..Len(a)
      BY <1>2, <1>11, <3>1
    <3>4. Append(s, e)[j] = a[Len(a) - kept + j]
      BY <1>5, <1>6, <3>1
    <3> QED BY <1>2, <3>2, <3>3, <3>4
  <2> QED BY <2>1, <2>2
<1>13. \A i \in 1..room :
          Recorded(s, e)[i] = SubSeq(b, Len(b) - next + 1, Len(b))[i]
  <2> TAKE i \in 1..room
  <2>1. Recorded(s, e)[i] = Append(s, e)[(kept + 1) - room + i]
    BY <1>5, <1>7
  <2>2. SubSeq(b, Len(b) - next + 1, Len(b))[i] = b[Len(a) + 1 - room + i]
    BY <1>2, <1>8, <1>9
  <2> QED BY <1>12, <2>1, <2>2
<1>14. Recorded(s, e) = SubSeq(b, Len(b) - next + 1, Len(b))
  BY <1>7, <1>8, <1>9, <1>13, SeqEqual
<1> QED BY <1>10, <1>14 DEF b, next, mine, Newest

-----------------------------------------------------------------------------
(* Pieces of steps                                                         *)

\* Removing an entry takes its timeout along and touches no other.
LEMMA DiscardFacts ==
    ASSUME ObserverTypeOK, OwnEntries, TimersMatchEntries,
           NEW n \in Handlers, NEW h \in Headers, Discard(n, h)
    PROVE  /\ entries' \in [Handlers -> [Headers -> Requests \cup {None}]]
           /\ \A m \in Handlers, g \in Headers :
                 entries'[m][g] = IF m = n /\ g = h THEN None ELSE entries[m][g]
           /\ timers' \subseteq Requests
           /\ TimersMatchEntries'
<1>1. entries \in [Handlers -> [Headers -> Requests \cup {None}]]
  BY DEF ObserverTypeOK
<1>2. entries' = [entries EXCEPT ![n] = [entries[n] EXCEPT ![h] = None]]
  BY DEF Discard
<1>3. /\ entries' \in [Handlers -> [Headers -> Requests \cup {None}]]
      /\ \A m \in Handlers, g \in Headers :
            entries'[m][g] = IF m = n /\ g = h THEN None ELSE entries[m][g]
  BY <1>1, <1>2
<1>4. timers' = timers \ {entries[n][h]} /\ timers \subseteq Requests
  BY DEF Discard, ObserverTypeOK
<1>5. timers = {entries[m][g] : m \in Handlers, g \in Headers} \ {None}
  BY DEF TimersMatchEntries
<1>6. \A m \in Handlers, g \in Headers :
         entries[m][g] = entries[n][h] /\ entries[n][h] /= None => m = n /\ g = h
  BY DEF OwnEntries
<1>7. timers' = {entries'[m][g] : m \in Handlers, g \in Headers} \ {None}
  BY <1>3, <1>4, <1>5, <1>6
<1>8. TimersMatchEntries'
  BY <1>7 DEF TimersMatchEntries
<1>9. timers' \subseteq Requests
  BY <1>4
<1> QED BY <1>3, <1>8, <1>9

LEMMA IssuedTypes ==
    ASSUME ObserverTypeOK
    PROVE  \A k \in 1..Len(issued) :
              /\ issued[k] \in Evidence
              /\ issued[k].by \in Requests /\ issued[k].from \in Requests
<1> TAKE k \in 1..Len(issued)
<1>1. issued \in Seq(Evidence)
  BY DEF ObserverTypeOK
<1>2. issued[k] \in Evidence
  BY <1>1, ElementOfSeq
<1> QED BY <1>2 DEF Evidence

\* A request that moves on without registering, discarding or recording.
LEMMA MoveKeeps ==
    ASSUME ObserverInv, NEW r \in Requests, NEW p \in Phases,
           phase[r] /= "idle", p /= "idle",
           phase[r] \in PastRegistration => p \in PastRegistration,
           p \in Serving => built[handlerOf[r]] = "ready",
           p \in {"settled", "released"} => r \in genuine',
           Move(r, p), genuine \subseteq genuine', genuine' \subseteq Requests,
           UNCHANGED <<header, input, handlerOf, routeVars, observerVars, sinkVars,
                       missed, restarts>>
    PROVE  ObserverInv'
<1> USE DEF ObserverInv, routeVars, observerVars, sinkVars, Move
<1>1. /\ phase' \in [Requests -> Phases]
      /\ \A q \in Requests : phase'[q] = IF q = r THEN p ELSE phase[q]
  BY DEF ObserverTypeOK
<1>2. ObserverTypeOK'
  BY <1>1 DEF ObserverTypeOK
<1>3. ArrivedRequests'
  BY <1>1 DEF ArrivedRequests
<1>4. OneObserver' /\ TimersMatchEntries' /\ SinkKeepsNewest' /\ OneIssuePerRegistration'
  BY DEF OneObserver, TimersMatchEntries, SinkKeepsNewest, OneIssuePerRegistration
<1>5. OwnEntries'
  BY <1>1 DEF OwnEntries, ObserverTypeOK
<1>6. SettledPaid'
  BY <1>1 DEF SettledPaid
<1>7. \A k \in 1..Len(issued) :
         issued[k] \in Evidence /\ issued[k].by \in Requests /\ issued[k].from \in Requests
  BY IssuedTypes
<1>8. IssuedOnce'
  BY <1>1, <1>7 DEF IssuedOnce
<1>9. EvidenceFaithful'
  BY DEF EvidenceFaithful
<1> QED BY <1>2, <1>3, <1>4, <1>5, <1>6, <1>8, <1>9

\* A request that moves on and discards the entry of its header.
LEMMA DiscardKeeps ==
    ASSUME ObserverInv, NEW r \in Requests, NEW p \in PastRegistration,
           phase[r] /= "idle",
           p \in Serving => built[handlerOf[r]] = "ready",
           p \in {"settled", "released"} => r \in genuine,
           Move(r, p), Discard(handlerOf[r], header[r]), missed' \subseteq Requests,
           UNCHANGED <<header, input, handlerOf, routeVars, sinkVars, genuine, restarts>>
    PROVE  ObserverInv'
<1> USE DEF ObserverInv, routeVars, sinkVars, Move
<1>1. /\ phase' \in [Requests -> Phases]
      /\ \A q \in Requests : phase'[q] = IF q = r THEN p ELSE phase[q]
  BY DEF ObserverTypeOK, PastRegistration, Phases
<1>2. handlerOf[r] \in Handlers /\ header[r] \in Headers
  BY DEF ArrivedRequests, Serving
<1>3. /\ entries' \in [Handlers -> [Headers -> Requests \cup {None}]]
      /\ \A m \in Handlers, g \in Headers :
            entries'[m][g] =
               IF m = handlerOf[r] /\ g = header[r] THEN None ELSE entries[m][g]
      /\ timers' \subseteq Requests
      /\ TimersMatchEntries'
  BY <1>2, DiscardFacts
<1>4. ObserverTypeOK'
  BY <1>1, <1>3 DEF ObserverTypeOK
<1>5. ArrivedRequests'
  BY <1>1 DEF ArrivedRequests, PastRegistration, Serving
<1>6. OneObserver' /\ SinkKeepsNewest' /\ OneIssuePerRegistration' /\ EvidenceFaithful'
  BY DEF OneObserver, SinkKeepsNewest, OneIssuePerRegistration, EvidenceFaithful
<1>7. OwnEntries'
  BY <1>1, <1>3 DEF OwnEntries, ObserverTypeOK
<1>8. SettledPaid'
  BY <1>1 DEF SettledPaid
<1>9. \A k \in 1..Len(issued) :
         issued[k] \in Evidence /\ issued[k].by \in Requests /\ issued[k].from \in Requests
  BY IssuedTypes
<1>10. None \notin Requests
  BY ObserverConstants DEF Requests
<1>11. IssuedOnce'
  BY <1>1, <1>3, <1>9, <1>10 DEF IssuedOnce, PastRegistration
<1> QED BY <1>3, <1>4, <1>5, <1>6, <1>7, <1>8, <1>11

-----------------------------------------------------------------------------
(* The steps                                                               *)

LEMMA ObserverInvInit == ObserverInit => ObserverInv
<1> SUFFICES ASSUME ObserverInit PROVE ObserverInv
  OBVIOUS
<1> USE ObserverConstants DEF ObserverInit
<1>1. \A n \in Handlers, h \in Headers : entries[n][h] = None
  BY DEF NoEntries
<1>2. <<>> \in Seq(Evidence) /\ Len(<<>>) = 0
  BY EmptySeq
<1>3. ObserverTypeOK
  BY <1>2 DEF ObserverTypeOK, NoEntries, Phases
<1>4. ArrivedRequests /\ OneObserver /\ SettledPaid
  BY DEF ArrivedRequests, OneObserver, SettledPaid, Serving
<1>5. OwnEntries /\ TimersMatchEntries
  BY <1>1 DEF OwnEntries, TimersMatchEntries
<1>6. IssuedOnce /\ EvidenceFaithful /\ OneIssuePerRegistration
  BY <1>2 DEF IssuedOnce, EvidenceFaithful, OneIssuePerRegistration
<1>7. SinkKeepsNewest
  <2>1. Newest(<<>>, 0) = SubSeq(<<>>, 1, 0)
    BY <1>2 DEF Newest
  <2>2. SubSeq(<<>>, 1, 0) = <<>>
    BY SubSeqEmpty
  <2> QED BY <2>1, <2>2 DEF SinkKeepsNewest
<1> QED BY <1>3, <1>4, <1>5, <1>6, <1>7 DEF ObserverInv

LEMMA ArriveKeeps ==
    ASSUME ObserverInv, NEW r \in Requests, NEW h \in Headers, NEW i \in Inputs,
           Arrive(r, h, i)
    PROVE  ObserverInv'
<1> USE DEF ObserverInv, Arrive, observerVars, sinkVars, historyVars, Move
<1>1. /\ phase' \in [Requests -> Phases]
      /\ header' \in [Requests -> Headers \cup {None}]
      /\ input' \in [Requests -> Inputs \cup {None}]
      /\ \A q \in Requests : /\ phase'[q] = IF q = r THEN "opening" ELSE phase[q]
                             /\ header'[q] = IF q = r THEN h ELSE header[q]
                             /\ input'[q] = IF q = r THEN i ELSE input[q]
  BY DEF ObserverTypeOK, Phases
<1>2. PICK n \in Handlers :
         /\ handlerOf' = [handlerOf EXCEPT ![r] = n]
         /\ \/ cache = n /\ UNCHANGED routeVars
            \/ /\ cache = None /\ built[n] = "no"
               /\ built' = [built EXCEPT ![n] = "building"] /\ cache' = n
  BY DEF ObserverTypeOK, CachedWhileBuilding
<1>3. /\ handlerOf' \in [Requests -> Handlers \cup {None}]
      /\ \A q \in Requests : handlerOf'[q] = IF q = r THEN n ELSE handlerOf[q]
  BY <1>2 DEF ObserverTypeOK
<1>4. /\ built' \in [Handlers -> {"no", "building", "ready", "failed", "gone"}]
      /\ cache' \in Handlers \cup {None}
      /\ \A m \in Handlers : built[m] = "ready" => built'[m] = "ready"
  BY <1>2 DEF ObserverTypeOK, routeVars
<1>5. ObserverTypeOK'
  BY <1>1, <1>3, <1>4 DEF ObserverTypeOK
<1>6. ArrivedRequests'
  BY <1>1, <1>3, <1>4 DEF ArrivedRequests, Serving
<1>7. OneObserver'
  BY <1>2, ObserverConstants DEF OneObserver, ObserverTypeOK, routeVars, Handlers
<1>8. OwnEntries'
  BY <1>1, <1>3, <1>4 DEF OwnEntries, ObserverTypeOK, PastRegistration
<1>9. SettledPaid'
  BY <1>1 DEF SettledPaid
<1>10. TimersMatchEntries' /\ SinkKeepsNewest' /\ OneIssuePerRegistration'
  BY DEF TimersMatchEntries, SinkKeepsNewest, OneIssuePerRegistration
<1>11. IssuedOnce'
  BY <1>1, IssuedTypes DEF IssuedOnce, PastRegistration
<1>12. EvidenceFaithful'
  BY <1>1, IssuedTypes DEF EvidenceFaithful, IssuedOnce
<1> QED BY <1>5, <1>6, <1>7, <1>8, <1>9, <1>10, <1>11, <1>12

LEMMA HandlerKeeps ==
    ASSUME ObserverInv, NEW n \in Handlers, HandlerStep(n)
    PROVE  ObserverInv'
<1> USE DEF ObserverInv, requestVars, observerVars, sinkVars, historyVars
<1>1. /\ built' \in [Handlers -> {"no", "building", "ready", "failed", "gone"}]
      /\ cache' \in Handlers \cup {None}
      /\ \A m \in Handlers : built[m] = "ready" => built'[m] = "ready"
      /\ \A m \in Handlers : built'[m] \in {"building", "ready"} => cache' = m
      /\ UNCHANGED <<requestVars, observerVars, sinkVars, historyVars, restarts>>
  <2>1. CASE HandlerReady(n)
    BY <2>1 DEF HandlerReady, ObserverTypeOK, OneObserver
  <2>2. CASE HandlerFails(n)
    BY <2>2 DEF HandlerFails, ObserverTypeOK, OneObserver
  <2>3. CASE ForgetFailed(n)
    BY <2>3 DEF ForgetFailed, Forgotten, ObserverTypeOK, OneObserver
  <2> QED BY <2>1, <2>2, <2>3 DEF HandlerStep
<1>2. ObserverTypeOK'
  BY <1>1 DEF ObserverTypeOK
<1>3. ArrivedRequests' /\ OneObserver' /\ OwnEntries'
  BY <1>1 DEF ArrivedRequests, OneObserver, OwnEntries, Serving
<1>4. SettledPaid' /\ TimersMatchEntries' /\ SinkKeepsNewest'
  BY <1>1 DEF SettledPaid, TimersMatchEntries, SinkKeepsNewest
<1>5. OneIssuePerRegistration' /\ IssuedOnce' /\ EvidenceFaithful'
  BY <1>1 DEF OneIssuePerRegistration, IssuedOnce, EvidenceFaithful
<1> QED BY <1>2, <1>3, <1>4, <1>5

LEMMA ObserveKeeps ==
    ASSUME ObserverInv, NEW r \in Requests, Observe(r)
    PROVE  ObserverInv'
<1> USE DEF ObserverInv, routeVars, sinkVars, historyVars, Move
<1> DEFINE n == handlerOf[r]
           h == header[r]
<1>1. /\ phase[r] = "observing" /\ phase' = [phase EXCEPT ![r] = "settling"]
      /\ entries' = [entries EXCEPT ![n][h] = Registered(entries[n][h], r)]
      /\ timers' = timers \cup Armed(n, r)
      /\ UNCHANGED <<header, input, handlerOf, routeVars, sinkVars, historyVars, restarts>>
  BY DEF Observe
<1>2. n \in Handlers /\ h \in Headers /\ built[n] = "ready"
  BY <1>1 DEF ArrivedRequests, Serving
<1>3. /\ phase' \in [Requests -> Phases]
      /\ \A q \in Requests : phase'[q] = IF q = r THEN "settling" ELSE phase[q]
  BY <1>1 DEF ObserverTypeOK, Phases
<1>4. /\ entries' \in [Handlers -> [Headers -> Requests \cup {None}]]
      /\ \A m \in Handlers, g \in Headers :
            entries'[m][g] = IF m = n /\ g = h /\ entries[n][h] = None
                             THEN r ELSE entries[m][g]
  <2>1. entries \in [Handlers -> [Headers -> Requests \cup {None}]]
    BY DEF ObserverTypeOK
  <2>2. Registered(entries[n][h], r) \in Requests \cup {None}
    BY <1>2, <2>1 DEF Registered
  <2> HIDE DEF n, h
  <2> QED BY <1>1, <1>2, <2>1, <2>2 DEF Registered
<1>5. timers' = timers \cup (IF entries[n][h] = None THEN {r} ELSE {})
  BY <1>1 DEF Armed
<1>6. None \notin Requests
  BY ObserverConstants DEF Requests
<1>7. ObserverTypeOK'
  BY <1>1, <1>3, <1>4, <1>5 DEF ObserverTypeOK
<1>8. ArrivedRequests'
  BY <1>1, <1>2, <1>3 DEF ArrivedRequests, Serving
<1>9. OwnEntries'
  BY <1>1, <1>2, <1>3, <1>4 DEF OwnEntries, ObserverTypeOK, PastRegistration
<1>10. TimersMatchEntries'
  <2>1. timers = {entries[m][g] : m \in Handlers, g \in Headers} \ {None}
    BY DEF TimersMatchEntries
  <2> HIDE DEF n, h
  <2>2. timers' = {entries'[m][g] : m \in Handlers, g \in Headers} \ {None}
    BY <1>2, <1>4, <1>5, <1>6, <2>1
  <2> QED BY <2>2 DEF TimersMatchEntries
<1>11. OneObserver' /\ SinkKeepsNewest' /\ OneIssuePerRegistration' /\ EvidenceFaithful'
  BY <1>1 DEF OneObserver, SinkKeepsNewest, OneIssuePerRegistration, EvidenceFaithful
<1>12. SettledPaid'
  BY <1>1, <1>3 DEF SettledPaid
<1>13. IssuedOnce'
  BY <1>1, <1>3, <1>4, IssuedTypes DEF IssuedOnce, PastRegistration
<1> QED BY <1>7, <1>8, <1>9, <1>10, <1>11, <1>12, <1>13

LEMMA TimerKeeps ==
    ASSUME ObserverInv, NEW r \in Requests, TimerFires(r)
    PROVE  ObserverInv'
<1>1. /\ Discard(handlerOf[r], header[r]) /\ missed' = missed \cup {r}
      /\ UNCHANGED <<header, input, handlerOf, routeVars, sinkVars, genuine, restarts>>
      /\ phase' = phase /\ r \in timers
  BY DEF TimerFires, requestVars
<1>2. PICK n \in Handlers, h \in Headers : entries[n][h] = r /\ r /= None
  BY <1>1 DEF ObserverInv, TimersMatchEntries
<1>3. phase[r] \in PastRegistration
  BY <1>2 DEF ObserverInv, OwnEntries
<1>4. Move(r, phase[r])
  BY <1>1 DEF Move, ObserverInv, ObserverTypeOK
<1>5. phase[r] /= "idle"
  BY <1>3 DEF PastRegistration
<1>6. phase[r] \in Serving => built[handlerOf[r]] = "ready"
  BY DEF ObserverInv, ArrivedRequests
<1>7. phase[r] \in {"settled", "released"} => r \in genuine
  BY DEF ObserverInv, SettledPaid
<1>8. missed' \subseteq Requests
  BY <1>1 DEF ObserverInv, ObserverTypeOK
<1> QED BY <1>1, <1>3, <1>4, <1>5, <1>6, <1>7, <1>8, DiscardKeeps

\* The settlement that is recorded speaks of the request that was settled, and
\* its registration is the one that goes.
LEMMA RecordKeeps ==
    ASSUME ObserverInv, NEW r \in Requests, AfterSettle(r),
           SameResponse(entries[handlerOf[r]][header[r]], r)
    PROVE  ObserverInv'
<1> USE DEF ObserverInv, routeVars, historyVars, Move
<1> DEFINE n == handlerOf[r]
           h == header[r]
           e == entries[n][h]
           settlement == [input |-> input[e], transaction |-> h, by |-> r, from |-> e]
<1>1. /\ phase[r] = "settled" /\ phase' = [phase EXCEPT ![r] = "released"]
      /\ Discard(n, h)
      /\ sink' = Recorded(sink, settlement) /\ issued' = Append(issued, settlement)
      /\ sinkFrom' = sinkFrom
      /\ UNCHANGED <<header, input, handlerOf, routeVars, historyVars, restarts>>
  BY DEF AfterSettle, Consume
<1>2. n \in Handlers /\ h \in Headers
  BY <1>1 DEF ArrivedRequests
<1>3. /\ e /= None /\ input[e] = input[r]
  BY DEF SameResponse
<1>4. /\ e \in Requests
      /\ handlerOf[e] = n /\ header[e] = h /\ phase[e] \in PastRegistration
  BY <1>2, <1>3 DEF ObserverTypeOK, OwnEntries
<1>5. settlement \in Evidence
  BY <1>1, <1>2, <1>3, <1>4 DEF Evidence, ArrivedRequests
<1>6. /\ settlement.by = r /\ settlement.from = e
      /\ settlement.input = input[r] /\ settlement.transaction = header[r]
  BY <1>3
<1>7. /\ issued \in Seq(Evidence) /\ sink \in Seq(Evidence)
      /\ sinkFrom \in 0..Len(issued) /\ Len(sink) <= MaxSettlements
  BY DEF ObserverTypeOK
<1>8. /\ phase' \in [Requests -> Phases]
      /\ \A q \in Requests : phase'[q] = IF q = r THEN "released" ELSE phase[q]
  BY <1>1 DEF ObserverTypeOK, Phases
<1>9. /\ entries' \in [Handlers -> [Headers -> Requests \cup {None}]]
      /\ \A m \in Handlers, g \in Headers :
            entries'[m][g] = IF m = n /\ g = h THEN None ELSE entries[m][g]
      /\ timers' \subseteq Requests
      /\ TimersMatchEntries'
  BY <1>1, <1>2, DiscardFacts
<1>10. /\ \A k \in 1..Len(issued) :
              /\ issued[k] \in Evidence
              /\ issued[k].by \in Requests /\ issued[k].from \in Requests
       /\ Len(issued) \in Nat
  BY <1>7, IssuedTypes, LenProperties
<1> HIDE DEF settlement, e, n, h
<1>11. /\ issued' \in Seq(Evidence) /\ Len(issued') = Len(issued) + 1
       /\ \A k \in 1..Len(issued) : issued'[k] = issued[k]
       /\ issued'[Len(issued) + 1] = settlement
  BY <1>1, <1>5, <1>7, AppendProperties
<1>12. sink' \in Seq(Evidence) /\ Len(sink') <= MaxSettlements
  <2>1. sink' \in Seq(Evidence) /\ Len(sink') = Room(sink)
    BY <1>1, <1>5, <1>7, ObserverConstants, RecordedIsSubSeq
  <2>2. Room(sink) <= MaxSettlements
    BY <1>7, LenProperties, ObserverConstants DEF Room
  <2> QED BY <2>1, <2>2
<1>13. SinkKeepsNewest'
  <2>1. sink = Newest(issued, sinkFrom)
    BY DEF SinkKeepsNewest
  <2>2. Recorded(sink, settlement) = Newest(Append(issued, settlement), sinkFrom)
    BY <1>5, <1>7, <2>1, ObserverConstants, RecordingKeepsNewest
  <2> QED BY <1>1, <2>2 DEF SinkKeepsNewest
<1>14. ObserverTypeOK'
  <2>1. sinkFrom' \in 0..Len(issued')
    BY <1>1, <1>7, <1>10, <1>11
  <2> QED BY <1>1, <1>8, <1>9, <1>11, <1>12, <2>1 DEF ObserverTypeOK
<1>15. ArrivedRequests' /\ OneObserver' /\ SettledPaid'
  BY <1>1, <1>8 DEF ArrivedRequests, OneObserver, SettledPaid, Serving
<1>16. OwnEntries'
  BY <1>1, <1>8, <1>9 DEF OwnEntries, ObserverTypeOK, PastRegistration
<1>17. \A k \in 1..Len(issued') : k \in 1..Len(issued) \/ k = Len(issued) + 1
  BY <1>10, <1>11
<1>18. None \notin Requests
  BY ObserverConstants DEF Requests
<1>19. IssuedOnce'
  <2> SUFFICES ASSUME NEW k \in 1..Len(issued')
               PROVE  /\ phase'[issued'[k].by] /= "idle"
                      /\ phase'[issued'[k].from] \in PastRegistration
                      /\ \A m \in Handlers, g \in Headers : entries'[m][g] /= issued'[k].from
    BY DEF IssuedOnce
  <2>1. CASE k \in 1..Len(issued)
    BY <1>8, <1>9, <1>10, <1>11, <1>18, <2>1 DEF IssuedOnce, PastRegistration
  <2>2. CASE k = Len(issued) + 1
    <3>1. issued'[k].by = r /\ issued'[k].from = e
      BY <1>6, <1>11, <2>2
    <3>2. \A m \in Handlers, g \in Headers : entries[m][g] = e => m = n /\ g = h
      BY <1>3, <1>4 DEF OwnEntries
    <3> QED BY <1>4, <1>8, <1>9, <1>18, <3>1, <3>2 DEF PastRegistration
  <2> QED BY <1>17, <2>1, <2>2
<1>20. EvidenceFaithful'
  <2>1. r \in genuine
    BY <1>1 DEF SettledPaid
  <2> QED BY <1>1, <1>6, <1>11, <1>17, <2>1 DEF EvidenceFaithful
<1>21. OneIssuePerRegistration'
  <2>1. \A k \in 1..Len(issued) : issued[k].from /= e
    BY <1>2, <1>3 DEF IssuedOnce, e
  <2> QED BY <1>6, <1>10, <1>11, <1>17, <2>1 DEF OneIssuePerRegistration
<1> QED BY <1>9, <1>13, <1>14, <1>15, <1>16, <1>19, <1>20, <1>21

LEMMA RestartKeeps ==
    ASSUME ObserverInv, Restart
    PROVE  ObserverInv'
<1> USE ObserverConstants DEF ObserverInv, Restart, historyVars
<1>1. \A n \in Handlers, h \in Headers : entries'[n][h] = None
  BY DEF NoEntries
<1>2. /\ phase' \in [Requests -> Phases]
      /\ \A r \in Requests :
            /\ phase'[r] \notin Serving /\ phase'[r] /= "opening"
            /\ phase'[r] = "idle" <=> phase[r] = "idle"
            /\ phase[r] \in PastRegistration => phase'[r] \in PastRegistration
            /\ phase'[r] = "released" => phase[r] = "released"
            /\ phase'[r] /= "settled"
  BY DEF ObserverTypeOK, Phases, Finished, Serving, PastRegistration
<1>3. /\ built' \in [Handlers -> {"no", "building", "ready", "failed", "gone"}]
      /\ \A n \in Handlers : built'[n] \notin {"building", "ready"}
  BY DEF ObserverTypeOK
<1>4. issued \in Seq(Evidence) /\ Len(issued) \in Nat
  BY LenProperties DEF ObserverTypeOK
<1>5. ObserverTypeOK'
  <2>1. <<>> \in Seq(Evidence) /\ Len(<<>>) = 0
    BY EmptySeq
  <2>2. sinkFrom' \in 0..Len(issued')
    BY <1>4
  <2>3. restarts' \in 0..MaxRestarts
    BY DEF ObserverTypeOK
  <2> QED BY <1>2, <1>3, <2>1, <2>2, <2>3 DEF ObserverTypeOK, NoEntries
<1>6. ArrivedRequests' /\ OneObserver' /\ OwnEntries'
  BY <1>1, <1>2, <1>3 DEF ArrivedRequests, OneObserver, OwnEntries
<1>7. SettledPaid'
  BY <1>2 DEF SettledPaid
<1>8. TimersMatchEntries'
  BY <1>1 DEF TimersMatchEntries
<1>9. IssuedOnce' /\ EvidenceFaithful' /\ OneIssuePerRegistration'
  <2>1. None \notin Requests
    BY DEF Requests
  <2> QED BY <1>1, <1>2, <2>1, IssuedTypes
          DEF IssuedOnce, EvidenceFaithful, OneIssuePerRegistration
<1>10. SinkKeepsNewest'
  <2>1. Newest(issued, Len(issued)) = SubSeq(issued, Len(issued) + 1, Len(issued))
    BY <1>4 DEF Newest
  <2>2. SubSeq(issued, Len(issued) + 1, Len(issued)) = <<>>
    BY <1>4, SubSeqEmpty
  <2> QED BY <2>1, <2>2 DEF SinkKeepsNewest
<1> QED BY <1>5, <1>6, <1>7, <1>8, <1>9, <1>10

LEMMA AfterSettleKeeps ==
    ASSUME ObserverInv, NEW r \in Requests, AfterSettle(r)
    PROVE  ObserverInv'
<1>1. CASE SameResponse(entries[handlerOf[r]][header[r]], r)
  BY <1>1, RecordKeeps
<1>2. CASE ~SameResponse(entries[handlerOf[r]][header[r]], r)
  <2>1. /\ phase[r] = "settled" /\ Move(r, "released")
        /\ Discard(handlerOf[r], header[r])
        /\ UNCHANGED <<header, input, handlerOf, routeVars, sinkVars, historyVars, restarts>>
    BY <1>2 DEF AfterSettle, Consume
  <2>2. r \in genuine
    BY <2>1 DEF ObserverInv, SettledPaid
  <2>3. missed' \subseteq Requests /\ UNCHANGED genuine
    BY <2>1 DEF ObserverInv, ObserverTypeOK, historyVars
  <2>4. "released" \in PastRegistration /\ "released" \notin Serving
    BY DEF PastRegistration, Serving
  <2> QED BY <2>1, <2>2, <2>3, <2>4, DiscardKeeps
<1> QED BY <1>1, <1>2

LEMMA RequestKeeps ==
    ASSUME ObserverInv, NEW r \in Requests, RequestStep(r)
    PROVE  ObserverInv'
<1>1. CASE \E h \in Headers, i \in Inputs : Arrive(r, h, i)
  BY <1>1, ArriveKeeps
<1>2. ASSUME NEW p \in {"refused", "evaluating", "observing", "canceled"},
             Move(r, p), phase[r] \in {"opening", "evaluating"},
             p \in Serving => built[handlerOf[r]] = "ready",
             UNCHANGED <<header, input, handlerOf, routeVars, observerVars, sinkVars,
                         historyVars, restarts>>
      PROVE  ObserverInv'
  <2>1. /\ p \in Phases /\ p /= "idle" /\ phase[r] /= "idle"
        /\ phase[r] \notin PastRegistration /\ p \notin {"settled", "released"}
    BY <1>2 DEF Phases, PastRegistration
  <2>2. /\ genuine \subseteq genuine' /\ genuine' \subseteq Requests
        /\ missed' = missed
    BY <1>2 DEF historyVars, ObserverInv, ObserverTypeOK
  <2> QED BY <1>2, <2>1, <2>2, MoveKeeps
<1>3. CASE Unavailable(r) \/ VerifyRefused(r)
  BY <1>2, <1>3 DEF Unavailable, VerifyRefused, Serving
<1>4. CASE Verified(r)
  BY <1>2, <1>4 DEF Verified
<1>5. CASE Evaluate(r)
  <2>1. built[handlerOf[r]] = "ready"
    BY <1>5 DEF Evaluate, ObserverInv, ArrivedRequests, Serving
  <2> QED BY <1>2, <1>5, <2>1 DEF Evaluate
<1>6. CASE Observe(r)
  BY <1>6, ObserveKeeps
<1>7. CASE ObserveThrows(r)
  <2>1. /\ phase[r] /= "idle" /\ "settling" \in PastRegistration
        /\ built[handlerOf[r]] = "ready"
    BY <1>7 DEF ObserveThrows, ObserverInv, ArrivedRequests, Serving, PastRegistration
  <2>2. missed' \subseteq Requests
    BY <1>7 DEF ObserveThrows, ObserverInv, ObserverTypeOK
  <2> QED BY <1>7, <2>1, <2>2, DiscardKeeps DEF ObserveThrows
<1>8. CASE TimerFires(r)
  BY <1>8, TimerKeeps
<1>9. CASE \E result \in {"success", "malformed", "failure"} : SettleAnswers(r, result)
  <2>1. PICK result \in {"success", "malformed", "failure"} : SettleAnswers(r, result)
    BY <1>9
  <2> DEFINE p == IF Accepts(result) THEN "settled" ELSE "unsettled"
  <2>2. /\ p \in Phases /\ p /= "idle" /\ p /= "released"
        /\ phase[r] /= "idle" /\ p \in PastRegistration
    BY <2>1 DEF SettleAnswers, Phases, PastRegistration
  <2>3. built[handlerOf[r]] = "ready"
    BY <2>1 DEF SettleAnswers, ObserverInv, ArrivedRequests, Serving
  <2>4. /\ genuine \subseteq genuine' /\ genuine' \subseteq Requests
        /\ p = "settled" => r \in genuine'
    BY <2>1 DEF SettleAnswers, Accepts, ObserverInv, ObserverTypeOK
  <2>5. /\ Move(r, p)
        /\ UNCHANGED <<header, input, handlerOf, routeVars, observerVars, sinkVars,
                       missed, restarts>>
    BY <2>1 DEF SettleAnswers
  <2> HIDE DEF p
  <2> QED BY <2>2, <2>3, <2>4, <2>5, MoveKeeps
<1>10. CASE AfterSettle(r)
  BY <1>10, AfterSettleKeeps
<1>11. CASE Refuse(r)
  <2>1. /\ phase[r] /= "idle" /\ "refused" \in PastRegistration /\ "refused" \notin Serving
    BY <1>11 DEF Refuse, PastRegistration, Serving
  <2>2. missed' \subseteq Requests /\ UNCHANGED genuine
    BY <1>11 DEF Refuse, historyVars, ObserverInv, ObserverTypeOK
  <2> QED BY <1>11, <2>1, <2>2, DiscardKeeps DEF Refuse
<1> QED BY <1>1, <1>3, <1>4, <1>5, <1>6, <1>7, <1>8, <1>9, <1>10, <1>11 DEF RequestStep

LEMMA ObserverStutters ==
    ASSUME ObserverInv, UNCHANGED observationVars
    PROVE  ObserverInv'
<1> USE DEF observationVars, requestVars, routeVars, observerVars, sinkVars, historyVars
<1>1. ObserverTypeOK' /\ ArrivedRequests' /\ OneObserver' /\ OwnEntries'
  BY DEF ObserverInv, ObserverTypeOK, ArrivedRequests, OneObserver, OwnEntries
<1>2. TimersMatchEntries' /\ SettledPaid' /\ IssuedOnce'
  BY DEF ObserverInv, TimersMatchEntries, SettledPaid, IssuedOnce
<1>3. EvidenceFaithful' /\ OneIssuePerRegistration' /\ SinkKeepsNewest'
  BY DEF ObserverInv, EvidenceFaithful, OneIssuePerRegistration, SinkKeepsNewest
<1> QED BY <1>1, <1>2, <1>3 DEF ObserverInv

LEMMA ObserverInvStep ==
    ASSUME ObserverInv, [ObserverNext]_observationVars
    PROVE  ObserverInv'
  BY RequestKeeps, HandlerKeeps, RestartKeeps, ObserverStutters DEF ObserverNext

\* No step replaces an active entry: it stays, or it goes.
LEMMA EntriesStayOrGo ==
    ASSUME ObserverInv, [ObserverNext]_observationVars,
           NEW n \in Handlers, NEW h \in Headers, entries[n][h] /= None
    PROVE  entries'[n][h] \in {entries[n][h], None}
<1>1. entries \in [Handlers -> [Headers -> Requests \cup {None}]]
  BY DEF ObserverInv, ObserverTypeOK
<1>2. ASSUME NEW m \in Handlers, NEW g \in Headers, Discard(m, g)
      PROVE  entries'[n][h] \in {entries[n][h], None}
  BY <1>2, DiscardFacts DEF ObserverInv
<1>3. CASE \E r \in Requests : RequestStep(r)
  <2>1. PICK r \in Requests : RequestStep(r)
    BY <1>3
  <2>2. phase[r] /= "idle" => handlerOf[r] \in Handlers /\ header[r] \in Headers
    BY DEF ObserverInv, ArrivedRequests
  <2>3. CASE Observe(r)
    <3>1. entries' = [entries EXCEPT ![handlerOf[r]][header[r]] =
                         Registered(entries[handlerOf[r]][header[r]], r)]
      BY <2>3 DEF Observe
    <3>2. handlerOf[r] \in Handlers /\ header[r] \in Headers
      BY <2>2, <2>3 DEF Observe
    <3> QED BY <1>1, <3>1, <3>2 DEF Registered
  <2>4. CASE ObserveThrows(r) \/ AfterSettle(r) \/ Refuse(r)
    <3>1. Discard(handlerOf[r], header[r]) /\ phase[r] /= "idle"
      BY <2>4 DEF ObserveThrows, AfterSettle, Consume, Refuse
    <3> QED BY <1>2, <2>2, <3>1
  <2>5. CASE TimerFires(r)
    <3>1. PICK m \in Handlers, g \in Headers : entries[m][g] = r /\ r /= None
      BY <2>5 DEF TimerFires, ObserverInv, TimersMatchEntries
    <3>2. handlerOf[r] \in Handlers /\ header[r] \in Headers
      BY <3>1 DEF ObserverInv, OwnEntries
    <3> QED BY <1>2, <2>5, <3>2 DEF TimerFires
  <2>6. CASE UNCHANGED entries
    BY <2>6
  <2> QED BY <2>1, <2>3, <2>4, <2>5, <2>6
          DEF RequestStep, Arrive, Unavailable, VerifyRefused, Verified, Evaluate,
              SettleAnswers, observerVars
<1>4. CASE \E m \in Handlers : HandlerStep(m)
  BY <1>4 DEF HandlerStep, HandlerReady, HandlerFails, ForgetFailed, observerVars
<1>5. CASE Restart
  BY <1>5 DEF Restart, NoEntries
<1>6. CASE UNCHANGED observationVars
  BY <1>6 DEF observationVars, observerVars
<1> QED BY <1>3, <1>4, <1>5, <1>6 DEF ObserverNext

-----------------------------------------------------------------------------
(* What is settled undisturbed is recorded                                 *)

Arrived(r) == phase[r] /= "idle"

\* A request whose header no other request that arrived has, and whose
\* registration neither expired nor threw.
Undisturbed(r) ==
    /\ Arrived(r) /\ r \notin missed
    /\ \A q \in Requests \ {r} : Arrived(q) => header[q] /= header[r]

RegistrationStays ==
    \A r \in Requests :
       Undisturbed(r) /\ phase[r] \in {"settling", "settled"} =>
          entries[handlerOf[r]][header[r]] = r

RecordsReleased ==
    \A k \in 1..Len(issued) : issued[k].by \in Requests /\ phase[issued[k].by] = "released"

RecordedOnce ==
    \A j, k \in 1..Len(issued) : issued[j].by = issued[k].by => j = k

ReleasedRecorded ==
    \A r \in Requests :
       Undisturbed(r) /\ phase[r] = "released" =>
          \E k \in 1..Len(issued) : issued[k].by = r

RecordedInv == RegistrationStays /\ RecordsReleased /\ RecordedOnce /\ ReleasedRecorded

\* Every step is one request moving from one phase to a later one, or moves
\* none but those a restart ends; what a request came with never changes.
LEMMA ArrivedStays ==
    ASSUME ObserverInv, [ObserverNext]_observationVars, NEW r \in Requests, Arrived(r)
    PROVE  /\ Arrived(r)' /\ header'[r] = header[r] /\ handlerOf'[r] = handlerOf[r]
           /\ missed \subseteq missed'
           /\ phase[r] = "released" => phase'[r] = "released"
           /\ phase'[r] = "settled" => phase[r] \in {"settling", "settled"}
           /\ phase'[r] = "settling" => phase[r] \in {"observing", "settling"}
<1> USE DEF Arrived
<1>1. /\ phase \in [Requests -> Phases]
      /\ header \in [Requests -> Headers \cup {None}]
      /\ handlerOf \in [Requests -> Handlers \cup {None}]
  BY DEF ObserverInv, ObserverTypeOK
<1>2. CASE \E q \in Requests : RequestStep(q)
  <2>1. PICK q \in Requests : RequestStep(q)
    BY <1>2
  <2>2. CASE \E h \in Headers, i \in Inputs : Arrive(q, h, i)
    BY <1>1, <2>2 DEF Arrive, Move, historyVars
  <2>3. CASE Unavailable(q) \/ VerifyRefused(q) \/ Verified(q) \/ Evaluate(q)
    BY <1>1, <2>3 DEF Unavailable, VerifyRefused, Verified, Evaluate, Move, historyVars
  <2>4. CASE Observe(q) \/ ObserveThrows(q)
    BY <1>1, <2>4 DEF Observe, ObserveThrows, Move, historyVars
  <2>5. CASE TimerFires(q)
    BY <1>1, <2>5 DEF TimerFires, requestVars
  <2>6. CASE \E result \in {"success", "malformed", "failure"} : SettleAnswers(q, result)
    BY <1>1, <2>6 DEF SettleAnswers, Move
  <2>7. CASE AfterSettle(q) \/ Refuse(q)
    BY <1>1, <2>7 DEF AfterSettle, Refuse, Move, historyVars
  <2> QED BY <2>1, <2>2, <2>3, <2>4, <2>5, <2>6, <2>7 DEF RequestStep
<1>3. CASE \E n \in Handlers : HandlerStep(n)
  BY <1>1, <1>3 DEF HandlerStep, HandlerReady, HandlerFails, ForgetFailed, requestVars,
                    historyVars
<1>4. CASE Restart
  BY <1>1, <1>4 DEF Restart, Finished, historyVars
<1>5. CASE UNCHANGED observationVars
  BY <1>5 DEF observationVars, requestVars, historyVars
<1> QED BY <1>2, <1>3, <1>4, <1>5 DEF ObserverNext

\* Nobody becomes undisturbed again.
LEMMA UndisturbedBefore ==
    ASSUME ObserverInv, [ObserverNext]_observationVars, NEW r \in Requests, Arrived(r),
           Undisturbed(r)'
    PROVE  Undisturbed(r)
<1>1. Arrived(r)' /\ header'[r] = header[r] /\ missed \subseteq missed'
  BY ArrivedStays
<1>2. \A q \in Requests : Arrived(q) => Arrived(q)' /\ header'[q] = header[q]
  BY ArrivedStays
<1>3. r \notin missed' /\ \A q \in Requests \ {r} : Arrived(q)' => header'[q] /= header'[r]
  BY DEF Undisturbed
<1> QED BY <1>1, <1>2, <1>3 DEF Undisturbed

\* The entry under the header of an undisturbed request is its own, and
\* another request that discards an entry discards another one.
LEMMA OwnEntry ==
    ASSUME ObserverInv, NEW r \in Requests, Undisturbed(r)
    PROVE  /\ handlerOf[r] \in Handlers /\ header[r] \in Headers
           /\ entries[handlerOf[r]][header[r]] \in {r, None}
           /\ \A q \in Requests \ {r} : Arrived(q) => header[q] /= header[r]
<1>1. handlerOf[r] \in Handlers /\ header[r] \in Headers
  BY DEF ObserverInv, ArrivedRequests, Undisturbed, Arrived
<1>2. entries[handlerOf[r]][header[r]] \in Requests \cup {None}
  BY <1>1 DEF ObserverInv, ObserverTypeOK
<1>3. entries[handlerOf[r]][header[r]] /= None =>
         /\ header[entries[handlerOf[r]][header[r]]] = header[r]
         /\ phase[entries[handlerOf[r]][header[r]]] \in PastRegistration
  BY <1>1 DEF ObserverInv, OwnEntries
<1> QED BY <1>1, <1>2, <1>3 DEF Undisturbed, Arrived, PastRegistration

LEMMA RegistrationKept ==
    ASSUME ObserverInv, RegistrationStays, [ObserverNext]_observationVars
    PROVE  RegistrationStays'
<1> SUFFICES ASSUME NEW r \in Requests, Undisturbed(r)', phase'[r] \in {"settling", "settled"}
             PROVE  entries'[handlerOf'[r]][header'[r]] = r
  BY DEF RegistrationStays
<1>1. Arrived(r)
  <2>1. phase[r] \in Phases /\ phase \in [Requests -> Phases]
    BY DEF ObserverInv, ObserverTypeOK
  <2>2. CASE \E q \in Requests : RequestStep(q)
    <3>1. PICK q \in Requests : RequestStep(q)
      BY <2>2
    <3>2. CASE \E h \in Headers, i \in Inputs : Arrive(q, h, i)
      BY <2>1, <3>2 DEF Arrive, Move, Arrived
    <3>3. CASE Unavailable(q) \/ VerifyRefused(q) \/ Verified(q) \/ Evaluate(q)
      BY <2>1, <3>3 DEF Unavailable, VerifyRefused, Verified, Evaluate, Move, Arrived
    <3>4. CASE \/ Observe(q) \/ ObserveThrows(q) \/ AfterSettle(q) \/ Refuse(q)
               \/ \E result \in {"success", "malformed", "failure"} : SettleAnswers(q, result)
      BY <2>1, <3>4 DEF Observe, ObserveThrows, AfterSettle, Refuse, SettleAnswers, Move, Arrived
    <3>5. CASE TimerFires(q)
      BY <3>5 DEF TimerFires, requestVars, Arrived
    <3> QED BY <3>1, <3>2, <3>3, <3>4, <3>5 DEF RequestStep
  <2>3. CASE \E n \in Handlers : HandlerStep(n)
    BY <2>3 DEF HandlerStep, HandlerReady, HandlerFails, ForgetFailed, requestVars, Arrived
  <2>4. CASE Restart
    BY <2>1, <2>4 DEF Restart, Arrived
  <2>5. CASE UNCHANGED observationVars
    BY <2>5 DEF observationVars, requestVars, Arrived
  <2> QED BY <2>2, <2>3, <2>4, <2>5 DEF ObserverNext
<1> DEFINE n == handlerOf[r]
           h == header[r]
<1>2. /\ Undisturbed(r)
      /\ header'[r] = h /\ handlerOf'[r] = n
      /\ phase'[r] = "settled" => phase[r] \in {"settling", "settled"}
      /\ phase'[r] = "settling" => phase[r] \in {"observing", "settling"}
  BY <1>1, UndisturbedBefore, ArrivedStays
<1>3. /\ n \in Handlers /\ h \in Headers /\ entries[n][h] \in {r, None}
      /\ \A q \in Requests \ {r} : Arrived(q) => header[q] /= h
  BY <1>2, OwnEntry
<1>4. r /= None /\ r \notin missed'
  BY ObserverConstants DEF Requests, Undisturbed
<1>5. entries \in [Handlers -> [Headers -> Requests \cup {None}]]
  BY DEF ObserverInv, ObserverTypeOK
<1>6. CASE Observe(r)
  <2>1. entries' = [entries EXCEPT ![n][h] = Registered(entries[n][h], r)]
    BY <1>6 DEF Observe
  <2>2. Registered(entries[n][h], r) = r
    BY <1>3, <1>4 DEF Registered
  <2> HIDE DEF n, h
  <2> QED BY <1>2, <1>3, <1>5, <2>1, <2>2
<1>7. CASE ~Observe(r)
  <2>1. phase[r] \in {"settling", "settled"}
    <3>1. SUFFICES ASSUME phase[r] = "observing", phase'[r] = "settling"
                   PROVE  FALSE
      BY <1>2
    <3>2. phase \in [Requests -> Phases]
      BY DEF ObserverInv, ObserverTypeOK
    <3>3. CASE \E q \in Requests : RequestStep(q)
      <4>1. PICK q \in Requests : RequestStep(q)
        BY <3>3
      <4>2. CASE q /= r
        <5>1. phase'[r] = phase[r]
          BY <3>2, <4>1, <4>2
             DEF RequestStep, Arrive, Unavailable, VerifyRefused, Verified, Evaluate, Observe,
                 ObserveThrows, TimerFires, SettleAnswers, AfterSettle, Refuse, Move, requestVars
        <5> QED BY <3>1, <5>1
      <4>3. CASE q = r
        <5>1. ~ObserveThrows(r)
          BY <1>4 DEF ObserveThrows
        <5> QED BY <1>7, <3>1, <4>1, <4>3, <5>1
                DEF RequestStep, Arrive, Unavailable, VerifyRefused, Verified, Evaluate,
                    TimerFires, SettleAnswers, AfterSettle, Refuse, Move, requestVars
      <4> QED BY <4>2, <4>3
    <3>4. CASE \E m \in Handlers : HandlerStep(m)
      BY <3>1, <3>4 DEF HandlerStep, HandlerReady, HandlerFails, ForgetFailed, requestVars
    <3>5. CASE Restart
      BY <3>1, <3>2, <3>5 DEF Restart, Finished
    <3>6. CASE UNCHANGED observationVars
      BY <3>1, <3>6 DEF observationVars, requestVars
    <3> QED BY <3>3, <3>4, <3>5, <3>6 DEF ObserverNext
  <2>2. entries[n][h] = r
    BY <1>2, <2>1 DEF RegistrationStays
  <2>3. ASSUME NEW q \in Requests \ {r}, Arrived(q), Discard(handlerOf[q], header[q])
        PROVE  entries'[n][h] = r
    <3>1. header[q] /= h /\ handlerOf[q] \in Handlers /\ header[q] \in Headers
      BY <1>3, <2>3 DEF ObserverInv, ArrivedRequests, Arrived
    <3> QED BY <1>3, <2>2, <2>3, <3>1, DiscardFacts DEF ObserverInv
  <2>4. CASE \E q \in Requests : RequestStep(q)
    <3>1. PICK q \in Requests : RequestStep(q)
      BY <2>4
    <3>2. CASE Observe(q)
      <4>1. q /= r /\ Arrived(q)
        BY <1>7, <3>2 DEF Observe, Arrived
      <4>2. /\ header[q] /= h /\ handlerOf[q] \in Handlers /\ header[q] \in Headers
            /\ entries' = [entries EXCEPT ![handlerOf[q]][header[q]] =
                              Registered(entries[handlerOf[q]][header[q]], q)]
        BY <1>3, <3>2, <4>1 DEF Observe, ObserverInv, ArrivedRequests, Arrived
      <4> QED BY <1>2, <1>3, <1>5, <2>2, <4>2
    <3>3. CASE ObserveThrows(q)
      <4>1. Arrived(q) /\ Discard(handlerOf[q], header[q]) /\ q \in missed'
        BY <3>3 DEF ObserveThrows, Arrived
      <4> QED BY <1>2, <1>4, <2>3, <4>1
    <3>4. CASE TimerFires(q)
      <4>1. Discard(handlerOf[q], header[q]) /\ q \in missed' /\ q \in timers
        BY <3>4 DEF TimerFires
      <4>2. PICK m \in Handlers, g \in Headers : entries[m][g] = q /\ q /= None
        BY <4>1 DEF ObserverInv, TimersMatchEntries
      <4>3. Arrived(q)
        BY <4>2 DEF ObserverInv, OwnEntries, Arrived, PastRegistration
      <4> QED BY <1>2, <1>4, <2>3, <4>1, <4>3
    <3>5. CASE AfterSettle(q) \/ Refuse(q)
      <4>1. /\ Arrived(q) /\ Discard(handlerOf[q], header[q])
            /\ phase'[q] \in {"released", "refused"}
        BY <3>5 DEF AfterSettle, Refuse, Consume, Arrived, Move, ObserverInv, ObserverTypeOK
      <4> QED BY <1>2, <2>3, <4>1
    <3>6. CASE UNCHANGED entries
      BY <1>2, <2>2, <3>6
    <3> QED BY <3>1, <3>2, <3>3, <3>4, <3>5, <3>6
            DEF RequestStep, Arrive, Unavailable, VerifyRefused, Verified, Evaluate,
                SettleAnswers, observerVars
  <2>5. CASE \E m \in Handlers : HandlerStep(m)
    BY <1>2, <2>2, <2>5 DEF HandlerStep, HandlerReady, HandlerFails, ForgetFailed, observerVars
  <2>6. CASE Restart
    <3>1. phase'[r] = "lost"
      BY <2>1, <2>6 DEF Restart, Finished
    <3> QED BY <3>1
  <2>7. CASE UNCHANGED observationVars
    BY <1>2, <2>2, <2>7 DEF observationVars, observerVars
  <2> QED BY <2>4, <2>5, <2>6, <2>7 DEF ObserverNext
<1> QED BY <1>6, <1>7

\* What a step does to the record: nothing, or one settlement more, of the
\* request that is released by it.
LEMMA IssuedGrows ==
    ASSUME ObserverInv, [ObserverNext]_observationVars
    PROVE  \/ issued' = issued
           \/ \E r \in Requests, e \in Evidence :
                 /\ e.by = r /\ phase[r] = "settled" /\ phase'[r] = "released"
                 /\ issued' = Append(issued, e)
<1>1. CASE \E r \in Requests : RequestStep(r)
  <2>1. PICK r \in Requests : RequestStep(r)
    BY <1>1
  <2>2. CASE AfterSettle(r)
    <3> DEFINE e == entries[handlerOf[r]][header[r]]
    <3>1. /\ phase[r] = "settled" /\ phase'[r] = "released"
          /\ header[r] \in Headers /\ handlerOf[r] \in Handlers
      BY <2>2 DEF AfterSettle, Move, ObserverInv, ObserverTypeOK, ArrivedRequests
    <3>2. CASE SameResponse(e, r)
      <4>1. e \in Requests
        BY <3>1, <3>2 DEF SameResponse, ObserverInv, ObserverTypeOK
      <4>2. input[e] \in Inputs
        BY <3>1, <3>2, <4>1
           DEF SameResponse, ObserverInv, OwnEntries, ArrivedRequests, PastRegistration
      <4> DEFINE settlement == [input |-> input[e], transaction |-> header[r],
                                by |-> r, from |-> e]
      <4>3. settlement \in Evidence /\ settlement.by = r
        BY <3>1, <4>1, <4>2 DEF Evidence
      <4>4. issued' = Append(issued, settlement)
        BY <2>2, <3>2 DEF AfterSettle
      <4> QED BY <3>1, <4>3, <4>4
    <3>3. CASE ~SameResponse(e, r)
      BY <2>2, <3>3 DEF AfterSettle, sinkVars
    <3> QED BY <3>2, <3>3
  <2>3. CASE ~AfterSettle(r)
    BY <2>1, <2>3 DEF RequestStep, Arrive, Unavailable, VerifyRefused, Verified, Evaluate, Observe,
                 ObserveThrows, TimerFires, SettleAnswers, Refuse, sinkVars
  <2> QED BY <2>2, <2>3
<1>2. CASE \E n \in Handlers : HandlerStep(n)
  BY <1>2 DEF HandlerStep, HandlerReady, HandlerFails, ForgetFailed, sinkVars
<1>3. CASE Restart
  BY <1>3 DEF Restart
<1>4. CASE UNCHANGED observationVars
  BY <1>4 DEF observationVars, sinkVars
<1> QED BY <1>1, <1>2, <1>3, <1>4 DEF ObserverNext

\* The elements of a record that may have grown by one.
LEMMA IssuedElements ==
    ASSUME ObserverInv, NEW e \in Evidence, issued' = Append(issued, e)
    PROVE  /\ Len(issued) \in Nat /\ Len(issued') = Len(issued) + 1
           /\ \A k \in 1..Len(issued) : issued'[k] = issued[k]
           /\ issued'[Len(issued) + 1] = e
<1>1. issued \in Seq(Evidence)
  BY DEF ObserverInv, ObserverTypeOK
<1> QED BY <1>1, AppendProperties, LenProperties

LEMMA RecordsKept ==
    ASSUME ObserverInv, RecordsReleased, RecordedOnce, [ObserverNext]_observationVars
    PROVE  RecordsReleased' /\ RecordedOnce'
<1>1. \A r \in Requests : phase[r] = "released" => phase'[r] = "released"
  BY ArrivedStays DEF Arrived
<1>2. CASE issued' = issued
  BY <1>1, <1>2 DEF RecordsReleased, RecordedOnce
<1>3. ASSUME NEW r \in Requests, NEW e \in Evidence, e.by = r,
             phase[r] = "settled", phase'[r] = "released", issued' = Append(issued, e)
      PROVE  RecordsReleased' /\ RecordedOnce'
  <2>1. /\ Len(issued) \in Nat /\ Len(issued') = Len(issued) + 1
        /\ \A k \in 1..Len(issued) : issued'[k] = issued[k]
        /\ issued'[Len(issued) + 1] = e
    BY <1>3, IssuedElements
  <2>2. \A k \in 1..Len(issued) : issued[k].by \in Requests /\ issued[k].by /= r
                                  /\ phase[issued[k].by] = "released"
    BY <1>3 DEF RecordsReleased
  <2>3. \A k \in 1..Len(issued') : k \in 1..Len(issued) \/ k = Len(issued) + 1
    BY <2>1
  <2>4. RecordsReleased'
    BY <1>1, <1>3, <2>1, <2>2, <2>3 DEF RecordsReleased
  <2>5. RecordedOnce'
    BY <1>3, <2>1, <2>2, <2>3 DEF RecordedOnce
  <2> QED BY <2>4, <2>5
<1> QED BY <1>2, <1>3, IssuedGrows

\* An undisturbed request is released with its own registration, so it is
\* recorded; and what is recorded stays.
LEMMA ReleasedKept ==
    ASSUME ObserverInv, RegistrationStays, ReleasedRecorded, [ObserverNext]_observationVars
    PROVE  ReleasedRecorded'
<1> SUFFICES ASSUME NEW r \in Requests, Undisturbed(r)', phase'[r] = "released"
             PROVE  \E k \in 1..Len(issued') : issued'[k].by = r
  BY DEF ReleasedRecorded
<1>1. phase \in [Requests -> Phases]
  BY DEF ObserverInv, ObserverTypeOK
<1>2. CASE phase[r] = "released"
  <2>1. Arrived(r)
    BY <1>2 DEF Arrived
  <2>2. Undisturbed(r)
    BY <2>1, UndisturbedBefore
  <2>3. PICK k \in 1..Len(issued) : issued[k].by = r
    BY <1>2, <2>2 DEF ReleasedRecorded
  <2>4. CASE issued' = issued
    BY <2>3, <2>4
  <2>5. ASSUME NEW e \in Evidence, issued' = Append(issued, e)
        PROVE  \E j \in 1..Len(issued') : issued'[j].by = r
    <3>1. /\ Len(issued) \in Nat /\ Len(issued') = Len(issued) + 1
          /\ issued'[k] = issued[k]
      BY <2>5, IssuedElements
    <3>2. k \in 1..Len(issued')
      BY <3>1
    <3> QED BY <2>3, <3>1, <3>2
  <2> QED BY <2>4, <2>5, IssuedGrows
<1>3. CASE phase[r] /= "released"
  <2>1. AfterSettle(r)
    <3>1. CASE \E q \in Requests : RequestStep(q)
      <4>1. PICK q \in Requests : RequestStep(q)
        BY <3>1
      <4>2. CASE q /= r
        <5>1. phase'[r] = phase[r]
          BY <1>1, <4>1, <4>2
             DEF RequestStep, Arrive, Unavailable, VerifyRefused, Verified, Evaluate, Observe,
                 ObserveThrows, TimerFires, SettleAnswers, AfterSettle, Refuse, Move, requestVars
        <5> QED BY <1>3, <5>1
      <4>3. CASE q = r
        BY <1>1, <1>3, <4>1, <4>3
           DEF RequestStep, Arrive, Unavailable, VerifyRefused, Verified, Evaluate, Observe,
               ObserveThrows, TimerFires, SettleAnswers, Refuse, Move, requestVars
      <4> QED BY <4>2, <4>3
    <3>2. CASE \E n \in Handlers : HandlerStep(n)
      BY <1>3, <3>2 DEF HandlerStep, HandlerReady, HandlerFails, ForgetFailed, requestVars
    <3>3. CASE Restart
      BY <1>1, <1>3, <3>3 DEF Restart, Finished
    <3>4. CASE UNCHANGED observationVars
      BY <1>3, <3>4 DEF observationVars, requestVars
    <3> QED BY <3>1, <3>2, <3>3, <3>4 DEF ObserverNext
  <2>2. phase[r] = "settled" /\ Undisturbed(r)
    BY <2>1, UndisturbedBefore DEF AfterSettle, Arrived
  <2>3. entries[handlerOf[r]][header[r]] = r /\ r /= None
    BY <2>2, ObserverConstants DEF RegistrationStays, Requests
  <2>4. SameResponse(entries[handlerOf[r]][header[r]], r)
    BY <2>3 DEF SameResponse
  <2>5. input[r] \in Inputs /\ header[r] \in Headers
    BY <2>2 DEF ObserverInv, ArrivedRequests
  <2> DEFINE settlement == [input |-> input[r], transaction |-> header[r], by |-> r, from |-> r]
  <2>6. settlement \in Evidence /\ settlement.by = r
    BY <2>5 DEF Evidence
  <2>7. issued' = Append(issued, settlement)
    BY <2>1, <2>3, <2>4 DEF AfterSettle
  <2> HIDE DEF settlement
  <2>8. /\ Len(issued) \in Nat /\ Len(issued') = Len(issued) + 1
        /\ issued'[Len(issued) + 1] = settlement
    BY <2>6, <2>7, IssuedElements
  <2>9. Len(issued) + 1 \in 1..Len(issued')
    BY <2>8
  <2> QED BY <2>6, <2>8, <2>9
<1> QED BY <1>2, <1>3

-----------------------------------------------------------------------------
(* Theorems                                                                *)

\* The inductive invariant holds in every reachable state.
THEOREM ObserverInvariant == ObserverSpec => []ObserverInv
<1>1. ObserverInit => ObserverInv
  BY ObserverInvInit
<1>2. ObserverInv /\ [ObserverNext]_observationVars => ObserverInv'
  BY ObserverInvStep
<1> QED BY <1>1, <1>2, PTL DEF ObserverSpec

\* The state of the route is well formed, and the sink never holds more than
\* maximumRecordedSettlements.
THEOREM ObserverTypes == ObserverSpec => []ObserverTypeOK
<1>1. ObserverInv => ObserverTypeOK
  BY DEF ObserverInv
<1> QED BY <1>1, ObserverInvariant, PTL

\* A verified settlement names the input of the request that was settled.
THEOREM EvidenceIsFaithful == ObserverSpec => []EvidenceFaithful
<1>1. ObserverInv => EvidenceFaithful
  BY DEF ObserverInv
<1> QED BY <1>1, ObserverInvariant, PTL

\* One registration yields at most one verified settlement.
THEOREM IssuedAtMostOnce == ObserverSpec => []OneIssuePerRegistration
<1>1. ObserverInv => OneIssuePerRegistration
  BY DEF ObserverInv
<1> QED BY <1>1, ObserverInvariant, PTL

\* A timeout is armed exactly for the active entries.
THEOREM TimersAreOfEntries == ObserverSpec => []TimersMatchEntries
<1>1. ObserverInv => TimersMatchEntries
  BY DEF ObserverInv
<1> QED BY <1>1, ObserverInvariant, PTL

\* The bounded sink always holds the newest settlements, in order.
THEOREM SinkIsNewest == ObserverSpec => []SinkKeepsNewest
<1>1. ObserverInv => SinkKeepsNewest
  BY DEF ObserverInv
<1> QED BY <1>1, ObserverInvariant, PTL

\* No assessment is released on a settlement that did not take place.
THEOREM ReleasedIsPaid == ObserverSpec => []PaidRelease
<1>1. ObserverInv => PaidRelease
  BY DEF ObserverInv, SettledPaid, PaidRelease
<1> QED BY <1>1, ObserverInvariant, PTL

\* Timeouts, sink and releases agree with what happened.
THEOREM ConsistencyHolds == ObserverSpec => []ObserverConsistent
<1>1. TimersMatchEntries /\ SinkKeepsNewest /\ PaidRelease => ObserverConsistent
  BY DEF ObserverConsistent
<1> QED BY <1>1, TimersAreOfEntries, SinkIsNewest, ReleasedIsPaid, PTL

\* The process holds at most one active entry for a header, in the observer of
\* the cached handler, and no step replaces it.
THEOREM EntryPerHeader == ObserverSpec => OneEntryPerHeader
<1> DEFINE active(h) == {n \in Handlers : entries[n][h] /= None}
<1>1. ASSUME ObserverInv, [ObserverNext]_observationVars, NEW h \in Headers
      PROVE  /\ Cardinality(active(h)) <= 1
             /\ \A n \in active(h) : entries'[n][h] \in {entries[n][h], None}
  <2>1. active(h) \subseteq {cache}
    BY <1>1 DEF ObserverInv, OwnEntries, OneObserver
  <2>2. IsFiniteSet({cache}) /\ Cardinality({cache}) = 1
    BY FS_Singleton
  <2>3. Cardinality(active(h)) <= 1
    BY <2>1, <2>2, FS_Subset
  <2> QED BY <1>1, <2>3, EntriesStayOrGo
<1>2. ObserverInv /\ [ObserverNext]_observationVars =>
         [\A h \in Headers :
             LET active_h == {n \in Handlers : entries[n][h] /= None} IN
             /\ Cardinality(active_h) <= 1
             /\ \A n \in active_h : entries'[n][h] \in {entries[n][h], None}]_observationVars
  BY <1>1
<1> QED BY <1>2, ObserverInvariant, PTL DEF ObserverSpec, OneEntryPerHeader

\* An undisturbed request keeps its registration until it is released with it.
THEOREM RecordInvariant == ObserverSpec => []RecordedInv
<1>1. ObserverInit => RecordedInv
  <2> SUFFICES ASSUME ObserverInit
               PROVE  RecordedInv
    OBVIOUS
  <2>1. \A r \in Requests : phase[r] = "idle"
    BY DEF ObserverInit
  <2>2. Len(issued) = 0
    BY EmptySeq DEF ObserverInit
  <2> QED BY <2>1, <2>2 DEF RecordedInv, RegistrationStays, RecordsReleased, RecordedOnce,
                            ReleasedRecorded
<1>2. ObserverInv /\ RecordedInv /\ [ObserverNext]_observationVars => RecordedInv'
  BY RegistrationKept, RecordsKept, ReleasedKept DEF RecordedInv
<1> QED BY <1>1, <1>2, ObserverInvariant, PTL DEF ObserverSpec

\* A settled request that nobody disturbed is recorded exactly once.
THEOREM UndisturbedRecordedHolds == ObserverSpec => []UndisturbedRecorded
<1>1. ObserverInv /\ RecordedInv => UndisturbedRecorded
  <2> SUFFICES ASSUME RecordedInv,
                      NEW r \in Requests, phase[r] = "released", r \notin missed,
                      \A q \in Requests \ {r} : header[q] /= header[r]
               PROVE  Cardinality({k \in 1..Len(issued) : issued[k].by = r}) = 1
    BY DEF UndisturbedRecorded
  <2>1. Undisturbed(r)
    BY DEF Undisturbed, Arrived
  <2>2. PICK k \in 1..Len(issued) : issued[k].by = r
    BY <2>1 DEF RecordedInv, ReleasedRecorded
  <2>3. {j \in 1..Len(issued) : issued[j].by = r} = {k}
    BY <2>2 DEF RecordedInv, RecordedOnce
  <2> QED BY <2>3, FS_Singleton
<1> QED BY <1>1, ObserverInvariant, RecordInvariant, PTL

-----------------------------------------------------------------------------
(* The route implements the promise                                        *)

\* What the promise calls asked and released.
AskedBy ==
    [r \in Requests |-> IF phase[r] = "idle" THEN None
                        ELSE [input |-> input[r], transaction |-> header[r]]]
ReleasedOnes == {r \in Requests : phase[r] = "released"}

\* A sink that is full drops its oldest settlement, another drops none.
LEMMA RecordingAppends ==
    ASSUME ObserverConstants, NEW s \in Seq(Evidence), Len(s) <= MaxSettlements,
           NEW e \in Evidence
    PROVE  Recorded(s, e) = Append(IF Len(s) = MaxSettlements THEN Tail(s) ELSE s, e)
<1> DEFINE rest == IF Len(s) = MaxSettlements THEN Tail(s) ELSE s
           dropped == IF Len(s) = MaxSettlements THEN 1 ELSE 0
           all == Append(s, e)
<1>1. /\ Len(s) \in Nat /\ MaxSettlements \in Nat \ {0}
      /\ s = <<>> <=> Len(s) = 0
  BY LenProperties, EmptySeq DEF ObserverConstants
<1>2. /\ rest \in Seq(Evidence) /\ Len(rest) = Len(s) - dropped
      /\ \A i \in 1..Len(rest) : rest[i] = s[i + dropped]
  <2>1. CASE Len(s) = MaxSettlements
    <3>1. s /= <<>>
      BY <1>1, <2>1
    <3>2. /\ Tail(s) \in Seq(Evidence) /\ Len(Tail(s)) = Len(s) - 1
          /\ \A i \in 1..Len(Tail(s)) : Tail(s)[i] = s[i + 1]
      BY <3>1, HeadTailProperties
    <3> QED BY <2>1, <3>2
  <2>2. CASE Len(s) /= MaxSettlements
    BY <1>1, <2>2
  <2> QED BY <2>1, <2>2
<1>3. /\ all \in Seq(Evidence) /\ Len(all) = Len(s) + 1
      /\ \A i \in 1..Len(s) : all[i] = s[i]
      /\ all[Len(s) + 1] = e
  BY AppendProperties
<1>4. /\ Append(rest, e) \in Seq(Evidence) /\ Len(Append(rest, e)) = Len(rest) + 1
      /\ \A i \in 1..Len(rest) : Append(rest, e)[i] = rest[i]
      /\ Append(rest, e)[Len(rest) + 1] = e
  BY <1>2, AppendProperties
<1>5. /\ Recorded(s, e) \in Seq(Evidence) /\ Len(Recorded(s, e)) = Room(s)
      /\ \A i \in 1..Room(s) : Recorded(s, e)[i] = all[(Len(s) + 1) - Room(s) + i]
  BY RecordedIsSubSeq
<1>6. Room(s) = Len(rest) + 1 /\ (Len(s) + 1) - Room(s) = dropped /\ dropped \in {0, 1}
  <2>1. Len(rest) \in Nat /\ Len(rest) = Len(s) - dropped
    BY <1>2, LenProperties
  <2> HIDE DEF rest
  <2>2. CASE Len(s) = MaxSettlements
    <3>1. dropped = 1 /\ Room(s) = MaxSettlements
      BY <1>1, <2>2 DEF Room
    <3> QED BY <1>1, <2>1, <2>2, <3>1
  <2>3. CASE Len(s) /= MaxSettlements
    <3>1. dropped = 0 /\ Room(s) = Len(s) + 1
      BY <1>1, <2>3 DEF Room
    <3> QED BY <1>1, <2>1, <3>1
  <2> QED BY <2>2, <2>3
<1> HIDE DEF rest, dropped, all
<1>7. \A i \in 1..Room(s) : Recorded(s, e)[i] = Append(rest, e)[i]
  <2> TAKE i \in 1..Room(s)
  <2>1. Recorded(s, e)[i] = all[dropped + i]
    BY <1>5, <1>6
  <2>2. CASE i \in 1..Len(rest)
    <3>1. dropped + i \in 1..Len(s) /\ dropped + i = i + dropped
      BY <1>1, <1>2, <1>6, <2>2
    <3> QED BY <1>2, <1>3, <1>4, <2>1, <2>2, <3>1
  <2>3. CASE i = Len(rest) + 1
    <3>1. dropped + i = Len(s) + 1
      BY <1>1, <1>2, <1>6, <2>3
    <3> QED BY <1>3, <1>4, <2>1, <2>3, <3>1
  <2>4. i \in 1..Len(rest) \/ i = Len(rest) + 1
    BY <1>1, <1>2, <1>6
  <2> QED BY <2>2, <2>3, <2>4
<1>8. Recorded(s, e) = Append(rest, e)
  BY <1>4, <1>5, <1>6, <1>7, SeqEqual
<1> QED BY <1>8 DEF rest

\* A request that moves on still asks for the same.
LEMMA MoveAsksSame ==
    ASSUME ObserverTypeOK, NEW r \in Requests, NEW p \in Phases, Move(r, p),
           phase[r] \notin {"idle", "released"}, p /= "idle", UNCHANGED <<header, input>>
    PROVE  /\ AskedBy' = AskedBy
           /\ ReleasedOnes' = IF p = "released" THEN ReleasedOnes \cup {r} ELSE ReleasedOnes
<1>1. /\ phase' \in [Requests -> Phases]
      /\ \A q \in Requests : phase'[q] = IF q = r THEN p ELSE phase[q]
  BY DEF ObserverTypeOK, Move
<1>2. AskedBy' = AskedBy
  BY <1>1 DEF AskedBy
<1>3. ReleasedOnes' = IF p = "released" THEN ReleasedOnes \cup {r} ELSE ReleasedOnes
  BY <1>1 DEF ReleasedOnes
<1> QED BY <1>2, <1>3

\* A request that has arrived asked for a payment.
LEMMA AskedPayment ==
    ASSUME ObserverConstants, ObserverInv, NEW r \in Requests, Arrived(r)
    PROVE  /\ AskedBy[r] = [input |-> input[r], transaction |-> header[r]]
           /\ AskedBy[r] /= None
<1>1. input[r] \in Inputs /\ header[r] \in Headers
  BY DEF ObserverInv, ArrivedRequests, Arrived
<1>2. [input |-> input[r], transaction |-> header[r]] \in Payments
  BY <1>1 DEF Payments
<1>3. AskedBy[r] = [input |-> input[r], transaction |-> header[r]]
  BY DEF AskedBy, Arrived
<1> QED BY <1>2, <1>3 DEF ObserverConstants

LEMMA SettlementInit == ObserverInit => Settlement!Init
  BY DEF ObserverInit, Settlement!Init

LEMMA SettlementStutters ==
    ASSUME AskedBy' = AskedBy, ReleasedOnes' = ReleasedOnes,
           UNCHANGED <<genuine, missed, issued, sink>>
    PROVE  UNCHANGED Settlement!settlementVars
  BY DEF AskedBy, ReleasedOnes, Settlement!settlementVars

\* A request that arrives asks.
LEMMA ArriveAsks ==
    ASSUME ObserverConstants, ObserverInv, NEW r \in Requests,
           NEW h \in Headers, NEW i \in Inputs, Arrive(r, h, i)
    PROVE  Settlement!Next
<1> DEFINE payment == [input |-> i, transaction |-> h]
<1>1. /\ phase \in [Requests -> Phases] /\ header \in [Requests -> Headers \cup {None}]
      /\ input \in [Requests -> Inputs \cup {None}]
  BY DEF ObserverInv, ObserverTypeOK
<1>2. /\ phase[r] = "idle" /\ phase' = [phase EXCEPT ![r] = "opening"]
      /\ header' = [header EXCEPT ![r] = h] /\ input' = [input EXCEPT ![r] = i]
      /\ UNCHANGED <<genuine, missed, issued, sink>>
  BY DEF Arrive, Move, historyVars, sinkVars
<1>3. AskedBy[r] = None
  BY <1>2 DEF AskedBy
<1>4. AskedBy' = [AskedBy EXCEPT ![r] = payment]
  BY <1>1, <1>2 DEF AskedBy
<1>5. ReleasedOnes' = ReleasedOnes
  BY <1>1, <1>2 DEF ReleasedOnes
<1>6. payment \in Payments
  BY DEF Payments
<1>7. Settlement!Ask(r, payment)
  BY <1>2, <1>3, <1>4, <1>5 DEF Settlement!Ask, AskedBy, ReleasedOnes
<1> QED BY <1>6, <1>7 DEF Settlement!Next

\* A registration that expires or throws lapses.
LEMMA LapseStep ==
    ASSUME ObserverConstants, ObserverInv, NEW r \in Requests, Arrived(r),
           AskedBy' = AskedBy, ReleasedOnes' = ReleasedOnes,
           missed' = missed \cup {r}, UNCHANGED <<genuine, issued, sink>>
    PROVE  Settlement!Next
<1>1. AskedBy[r] /= None
  BY AskedPayment
<1>2. Settlement!Lapse(r)
  BY <1>1 DEF Settlement!Lapse, AskedBy, ReleasedOnes
<1> QED BY <1>2 DEF Settlement!Next

\* A settlement that took place pays.
LEMMA PayStep ==
    ASSUME ObserverConstants, ObserverInv, NEW r \in Requests, Arrived(r),
           AskedBy' = AskedBy, ReleasedOnes' = ReleasedOnes,
           genuine' = genuine \cup {r}, UNCHANGED <<missed, issued, sink>>
    PROVE  Settlement!Next
<1>1. AskedBy[r] /= None
  BY AskedPayment
<1>2. Settlement!Pay(r)
  BY <1>1 DEF Settlement!Pay, AskedBy, ReleasedOnes
<1> QED BY <1>2 DEF Settlement!Next

\* A request without a registration of its own payment lapsed or is contended.
LEMMA UnprovenExcused ==
    ASSUME ObserverConstants, ObserverInv, RegistrationStays, NEW r \in Requests,
           phase[r] = "settled", ~SameResponse(entries[handlerOf[r]][header[r]], r)
    PROVE  r \in missed \/ \E q \in Requests \ {r} :
              AskedBy[q] /= None /\ AskedBy[q].transaction = AskedBy[r].transaction
<1> SUFFICES ASSUME r \notin missed
             PROVE  \E q \in Requests \ {r} :
                       AskedBy[q] /= None /\ AskedBy[q].transaction = AskedBy[r].transaction
  OBVIOUS
<1>1. Arrived(r)
  BY DEF Arrived
<1>2. ~Undisturbed(r)
  BY ObserverConstants DEF RegistrationStays, SameResponse, Requests
<1>3. PICK q \in Requests \ {r} : Arrived(q) /\ header[q] = header[r]
  BY <1>1, <1>2 DEF Undisturbed
<1>4. /\ AskedBy[q] /= None /\ AskedBy[q] = [input |-> input[q], transaction |-> header[q]]
      /\ AskedBy[r] = [input |-> input[r], transaction |-> header[r]]
  BY <1>1, <1>3, AskedPayment
<1> QED BY <1>3, <1>4

\* What is released is proven by its registration, or excused.
LEMMA ReleaseStep ==
    ASSUME ObserverConstants, ObserverInv, RecordedInv, NEW r \in Requests, AfterSettle(r)
    PROVE  Settlement!Next
<1> DEFINE e == entries[handlerOf[r]][header[r]]
           settlement == [input |-> input[e], transaction |-> header[r], by |-> r, from |-> e]
           promised == [input |-> AskedBy[r].input, transaction |-> AskedBy[r].transaction,
                        by |-> r, from |-> e]
<1>1. /\ ObserverTypeOK /\ phase[r] = "settled" /\ Move(r, "released")
      /\ UNCHANGED <<header, input, genuine, missed>>
  BY DEF AfterSettle, ObserverInv, historyVars
<1>2. AskedBy' = AskedBy /\ ReleasedOnes' = ReleasedOnes \cup {r}
  BY <1>1, MoveAsksSame DEF Phases
<1>3. r \in genuine /\ r \notin ReleasedOnes
  BY <1>1 DEF ObserverInv, SettledPaid, ReleasedOnes
<1>4. Arrived(r) /\ handlerOf[r] \in Handlers /\ header[r] \in Headers /\ input[r] \in Inputs
  BY <1>1 DEF Arrived, ObserverInv, ArrivedRequests
<1>5. AskedBy[r] = [input |-> input[r], transaction |-> header[r]]
  BY <1>4, AskedPayment
<1>6. CASE ~SameResponse(e, r)
  <2>1. UNCHANGED <<issued, sink>>
    BY <1>6 DEF AfterSettle, sinkVars
  <2>2. r \in missed \/ \E q \in Requests \ {r} :
           AskedBy[q] /= None /\ AskedBy[q].transaction = AskedBy[r].transaction
    BY <1>1, <1>6, UnprovenExcused DEF RecordedInv
  <2>3. Settlement!Unproven(r)
    BY <2>1, <2>2 DEF Settlement!Unproven, Settlement!Contended, AskedBy
  <2>4. Settlement!Release(r)
    BY <1>1, <1>2, <1>3, <2>3 DEF Settlement!Release, AskedBy, ReleasedOnes
  <2> QED BY <2>4 DEF Settlement!Next
<1>7. CASE SameResponse(e, r)
  <2>1. e \in Requests /\ input[e] = input[r]
    BY <1>4, <1>7 DEF SameResponse, ObserverInv, ObserverTypeOK
  <2>2. Arrived(e) /\ header[e] = header[r]
    BY <1>4, <1>7 DEF SameResponse, ObserverInv, OwnEntries, Arrived, PastRegistration
  <2>3. AskedBy[e] = AskedBy[r]
    BY <1>5, <2>1, <2>2, AskedPayment
  <2>4. sink' = Recorded(sink, settlement) /\ issued' = Append(issued, settlement)
    BY <1>7 DEF AfterSettle
  <2>5. settlement = promised /\ settlement \in Evidence
    BY <1>4, <1>5, <2>1 DEF Evidence
  <2>6. \A k \in 1..Len(issued) : issued[k].by /= r /\ issued[k].from /= e
    BY <1>1, <1>4 DEF RecordedInv, RecordsReleased, ObserverInv, IssuedOnce
  <2>7. sink \in Seq(Evidence) /\ Len(sink) <= MaxSettlements
    BY <1>1 DEF ObserverTypeOK
  <2> HIDE DEF settlement
  <2>8. sink' = Append(IF Len(sink) = MaxSettlements THEN Tail(sink) ELSE sink, settlement)
    BY <2>4, <2>5, <2>7, RecordingAppends
  <2> HIDE DEF e
  <2>9. Settlement!Prove(r, e)
    BY <2>3, <2>4, <2>5, <2>6, <2>8 DEF Settlement!Prove, Settlement!Fresh, AskedBy
  <2>10. Settlement!Release(r)
    BY <1>1, <1>2, <1>3, <2>1, <2>9 DEF Settlement!Release, AskedBy, ReleasedOnes
  <2> QED BY <2>10 DEF Settlement!Next
<1> QED BY <1>6, <1>7

\* Every step of a request is a step of the promise, or leaves it unchanged.
LEMMA RequestPromises ==
    ASSUME ObserverConstants, ObserverInv, RecordedInv, NEW r \in Requests, RequestStep(r)
    PROVE  Settlement!Next \/ UNCHANGED Settlement!settlementVars
<1>1. ObserverTypeOK
  BY DEF ObserverInv
<1>2. CASE \E h \in Headers, i \in Inputs : Arrive(r, h, i)
  BY <1>2, ArriveAsks
<1>3. ASSUME NEW p \in Phases \ {"idle", "released"}, phase[r] \notin {"idle", "released"},
             Move(r, p), UNCHANGED <<header, input>>
      PROVE  AskedBy' = AskedBy /\ ReleasedOnes' = ReleasedOnes /\ Arrived(r)
  BY <1>1, <1>3, MoveAsksSame DEF Arrived
<1>4. CASE Unavailable(r) \/ VerifyRefused(r) \/ Verified(r) \/ Evaluate(r) \/ Observe(r)
           \/ Refuse(r)
  <2>1. PICK p \in Phases \ {"idle", "released"} :
           phase[r] \notin {"idle", "released"} /\ Move(r, p)
    BY <1>4 DEF Unavailable, VerifyRefused, Verified, Evaluate, Observe, Refuse, Phases
  <2>2. UNCHANGED <<header, input, genuine, missed, issued, sink>>
    BY <1>4 DEF Unavailable, VerifyRefused, Verified, Evaluate, Observe, Refuse,
                sinkVars, historyVars
  <2>3. AskedBy' = AskedBy /\ ReleasedOnes' = ReleasedOnes
    BY <1>3, <2>1, <2>2
  <2> QED BY <2>2, <2>3, SettlementStutters
<1>5. CASE ObserveThrows(r)
  <2>1. /\ phase[r] = "observing" /\ Move(r, "settling") /\ missed' = missed \cup {r}
        /\ UNCHANGED <<header, input, genuine, issued, sink>>
    BY <1>5 DEF ObserveThrows, sinkVars
  <2>2. AskedBy' = AskedBy /\ ReleasedOnes' = ReleasedOnes /\ Arrived(r)
    BY <1>3, <2>1 DEF Phases
  <2> QED BY <2>1, <2>2, LapseStep
<1>6. CASE TimerFires(r)
  <2>1. missed' = missed \cup {r} /\ UNCHANGED <<phase, header, input, genuine, issued, sink>>
    BY <1>6 DEF TimerFires, requestVars, sinkVars
  <2>2. PICK n \in Handlers, h \in Headers : entries[n][h] = r /\ r /= None
    BY <1>6 DEF TimerFires, ObserverInv, TimersMatchEntries
  <2>3. Arrived(r)
    BY <2>2 DEF ObserverInv, OwnEntries, Arrived, PastRegistration
  <2>4. AskedBy' = AskedBy /\ ReleasedOnes' = ReleasedOnes
    BY <2>1 DEF AskedBy, ReleasedOnes
  <2> QED BY <2>1, <2>3, <2>4, LapseStep
<1>7. CASE \E result \in {"success", "malformed", "failure"} : SettleAnswers(r, result)
  <2>1. PICK result \in {"success", "malformed", "failure"} : SettleAnswers(r, result)
    BY <1>7
  <2>2. PICK p \in Phases \ {"idle", "released"} :
           phase[r] \notin {"idle", "released"} /\ Move(r, p)
    BY <2>1 DEF SettleAnswers, Phases
  <2>3. /\ genuine' = genuine \cup {r} \/ genuine' = genuine
        /\ UNCHANGED <<header, input, missed, issued, sink>>
    BY <2>1 DEF SettleAnswers, sinkVars
  <2>4. AskedBy' = AskedBy /\ ReleasedOnes' = ReleasedOnes /\ Arrived(r)
    BY <1>3, <2>2, <2>3
  <2> QED BY <2>3, <2>4, PayStep, SettlementStutters
<1>8. CASE AfterSettle(r)
  BY <1>8, ReleaseStep
<1> QED BY <1>2, <1>4, <1>5, <1>6, <1>7, <1>8 DEF RequestStep

\* A restart forgets what was shown; it releases nothing and unasks nothing.
LEMMA RestartForgets ==
    ASSUME ObserverTypeOK, Restart
    PROVE  Settlement!Next
<1>1. /\ \A r \in Requests : /\ phase'[r] = "idle" <=> phase[r] = "idle"
                             /\ phase'[r] = "released" <=> phase[r] = "released"
      /\ sink' = <<>> /\ UNCHANGED <<header, input, genuine, missed, issued>>
  BY DEF Restart, Finished, historyVars
<1>2. AskedBy' = AskedBy /\ ReleasedOnes' = ReleasedOnes
  BY <1>1 DEF AskedBy, ReleasedOnes
<1>3. Settlement!Forget
  BY <1>1, <1>2 DEF Settlement!Forget, AskedBy, ReleasedOnes
<1> QED BY <1>3 DEF Settlement!Next

LEMMA SettlementStep ==
    ASSUME ObserverConstants, ObserverInv, RecordedInv, [ObserverNext]_observationVars
    PROVE  [Settlement!Next]_(Settlement!settlementVars)
<1>1. CASE \E r \in Requests : RequestStep(r)
  BY <1>1, RequestPromises
<1>2. CASE Restart
  BY <1>2, RestartForgets DEF ObserverInv
<1>3. CASE (\E n \in Handlers : HandlerStep(n)) \/ UNCHANGED observationVars
  <2>1. UNCHANGED <<phase, header, input, genuine, missed, issued, sink>>
    BY <1>3 DEF HandlerStep, HandlerReady, HandlerFails, ForgetFailed, requestVars, sinkVars,
                historyVars, observationVars
  <2>2. AskedBy' = AskedBy /\ ReleasedOnes' = ReleasedOnes
    BY <2>1 DEF AskedBy, ReleasedOnes
  <2> QED BY <2>1, <2>2, SettlementStutters
<1> QED BY <1>1, <1>2, <1>3 DEF ObserverNext

\* The paid route implements SettlementPromise: an answer is released once,
\* paid for and proven by a registration of its own payment, or excused, in any
\* order of requests, timeouts, failures and restarts.
THEOREM KeepsSettlementHolds == ObserverSpec => KeepsSettlement
  BY ObserverConstants, ObserverInvariant, RecordInvariant, SettlementInit, SettlementStep, PTL
  DEF ObserverSpec, KeepsSettlement, Settlement!Spec
===============================================================================
