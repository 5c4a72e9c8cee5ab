---------------------------- MODULE IngressProofs ----------------------------
(***************************************************************************)
(* The two ways into the backend, for any operations, keys, nonces,        *)
(* envelopes, handlers, signers and posts.                                 *)
(*                                                                         *)
(* Commands: claims and records tell one story, an envelope has one        *)
(* handler, and the channel implements CommandPromise. A handler forms its *)
(* answer, and reads its authority, several steps before they take effect. *)
(* The invariant says what of it stays true meanwhile: signatures,         *)
(* envelopes and the operation recorded under a key never change once they *)
(* are there.                                                              *)
(*                                                                         *)
(* Session calls: tools and intents keep their quotas when they are made   *)
(* by posts whose transactions interleave, and provisioning revives        *)
(* nobody.                                                                 *)
(*                                                                         *)
(* The deploy wizard: what it puts before its issuer is in order, for any  *)
(* tools, accounts and signatures.                                         *)
(***************************************************************************)
EXTENDS CommandIngress, DashboardCalls, ProviderToolsProofs

-----------------------------------------------------------------------------
(* Commands                                                                *)

\* What a body carries was signed, what a handler serves was sent, and only a
\* handler that claimed its envelope is at work.
WireSound ==
    /\ \A e \in EnvelopeIds : envelopes[e] /= None => signed[envelopes[e].nonce] /= None
    /\ \A h \in Handlers : handlers[h] /= None =>
         /\ envelopes[handlers[h].envelope] /= None
         /\ handlers[h].step \in {"CLAIMED", "AUTHORISED"} => handlers[h].envelope \in ingressClaims
         /\ handlers[h].step = "AUTHORISED" => handlers[h].identity \in Identities
         /\ handlers[h].step = "ANSWERED" => handlers[h].outcome \in Outcomes

RecordedUnderKey == \A k \in Keys : records[k] /= None => KeyOf[records[k].operation] = k

\* A spent nonce was signed, and leads to a record; a candidate's nonce is
\* spent on its attachment only.
SpentSound ==
    \A n \in Nonces : replayClaims[n] /= None =>
       /\ signed[n] /= None
       /\ records[KeyOf[signed[n]]] /= None
       /\ KindOf[signed[n]] = "ATTACH" => replayClaims[n] = "NEW"

\* An attempt has its candidate exactly if it was submitted.
CandidatesAttached ==
    \A o \in Operations : KindOf[o] = "ATTACH" =>
       (records[KeyOf[o]] /= None
          <=> records[ParentOf[o]] /= None /\ records[ParentOf[o]].state = "SUBMITTED")

\* A handler that may attach has an attempt to attach to.
ParentRead(h) ==
    handlers[h] /= None /\ handlers[h].step = "AUTHORISED" /\ KindOf[Operation(h)] = "ATTACH"
      => records[ParentOf[Operation(h)]] /= None

\* An answer under way is borne out by the record of its operation.
TruthfulAnswer(h) ==
    LET entry == records[KeyOf[Operation(h)]] IN
    handlers[h] /= None /\ handlers[h].step = "ANSWERED" =>
       /\ handlers[h].outcome = "ACCEPTED" => entry /= None /\ entry.operation = Operation(h)
       /\ handlers[h].outcome \in {"REPLAYED", "CONFLICT"} => entry /= None

HandlersSound == \A h \in Handlers : ParentRead(h) /\ TruthfulAnswer(h)

\* The histories count exactly the claims: an envelope was served if it is
\* claimed, a body decided if its nonce is spent, and neither twice.
Counted ==
    /\ \A e \in EnvelopeIds : serves[e] = IF e \in ingressClaims THEN 1 ELSE 0
    /\ \A n \in Nonces : decisions[n] = IF replayClaims[n] = None THEN 0 ELSE 1

RecordsSound == RecordedUnderKey /\ SpentSound /\ CandidatesAttached /\ ClaimsMatchRecords
ChannelSound == WireSound /\ Counted /\ RecordsSound /\ HandlersSound
ChannelInv == CommandTypeOK /\ ChannelSound

-----------------------------------------------------------------------------
(* Types                                                                   *)

LEMMA Commands == IngressConstants =>
    /\ \A o \in Operations : /\ KindOf[o] \in Kinds /\ SignerOf[o] \in Signers
                             /\ SubjectOf[o] \in Subjects /\ KeyOf[o] \in Keys
                             /\ KindOf[o] = "ATTACH" => ParentOf[o] \in Keys
  BY DEF IngressConstants

LEMMA CommandTypeInit == ToolConstants /\ IngressConstants /\ IngressInit => CommandTypeOK
<1> SUFFICES ASSUME ToolConstants, IngressConstants, IngressInit PROVE CommandTypeOK
  OBVIOUS
<1>1. ToolTypeOK
  BY DEF IngressConstants, IngressInit, ToolTypeOK, AccountStatus, RowStatus
<1>2. MaxTime \in Nat
  BY DEF IngressConstants
<1> QED BY <1>1, <1>2 DEF IngressInit, CommandTypeOK, Dialog

\* The parts of the state a step may change while the rest stays as it is.
LEMMA PageType ==
    ASSUME IngressConstants, CommandTypeOK, NEW o \in Operations, PageStep(o)
    PROVE  CommandTypeOK'
<1> USE DEF CommandTypeOK, ToolTypeOK, toolVars, memberVars, pageVars, wireVars, durableVars, spending
<1>0. MaxTime \in Nat
  BY DEF IngressConstants
<1>1. CASE Prepare(o)
  BY <1>0, <1>1 DEF Prepare
<1>2. CASE AskWallet(o)
  BY <1>2 DEF AskWallet, ShowOn, Dialog
<1>3. CASE GiveUp(o)
  BY <1>3 DEF GiveUp, ShowOn, Dialog
<1>4. CASE SignCommand(o)
  BY <1>4 DEF SignCommand, ShowOn, Dialog
<1>5. CASE LoseOutcome(o)
  BY <1>5 DEF LoseOutcome, ShowOn, Dialog
<1> QED BY <1>1, <1>2, <1>3, <1>4, <1>5 DEF PageStep

LEMMA HandlerFields ==
    ASSUME CommandTypeOK, NEW h \in Handlers, handlers[h] /= None
    PROVE  /\ handlers[h] \in Handler
           /\ handlers[h].envelope \in EnvelopeIds /\ handlers[h].at \in Nat
           /\ handlers[h].identity \in Identities \cup {None}
           /\ handlers[h].outcome \in Outcomes \cup {None}
  BY DEF CommandTypeOK, Handler

LEMMA ServedFields ==
    ASSUME IngressConstants, CommandTypeOK, WireSound, NEW h \in Handlers, handlers[h] /= None
    PROVE  /\ Nonce(h) \in Nonces
           /\ Operation(h) \in Operations
           /\ KeyOf[Operation(h)] \in Keys
           /\ KindOf[Operation(h)] = "ATTACH" => ParentOf[Operation(h)] \in Keys
<1>1. handlers[h].envelope \in EnvelopeIds /\ envelopes[handlers[h].envelope] /= None
  BY HandlerFields DEF WireSound
<1>2. Nonce(h) \in Nonces
  BY <1>1 DEF CommandTypeOK, Envelope, Nonce
<1>3. Operation(h) \in Operations
  BY <1>1, <1>2 DEF CommandTypeOK, WireSound, Operation, Nonce
<1> QED BY <1>2, <1>3, Commands

\* Whatever a handler answers, its row stays one.
LEMMA AnswerType ==
    ASSUME CommandTypeOK, NEW h \in Handlers, handlers[h] /= None,
           NEW outcome \in Outcomes, AnswerWith(h, outcome)
    PROVE  handlers' \in [Handlers -> Handler \cup {None}]
<1>1. [handlers[h] EXCEPT !.step = "ANSWERED", !.outcome = outcome] \in Handler
  BY HandlerFields DEF Handler
<1>2. handlers' = [handlers EXCEPT ![h] =
                     [handlers[h] EXCEPT !.step = "ANSWERED", !.outcome = outcome]]
  BY DEF AnswerWith, CommandTypeOK
<1> QED BY <1>1, <1>2 DEF CommandTypeOK

LEMMA AuthorisedType ==
    ASSUME CommandTypeOK, NEW h \in Handlers, handlers[h] /= None, NEW o,
           NEW i \in ReadAuthorities(o),
           handlers' = [handlers EXCEPT ![h].step = "AUTHORISED", ![h].identity = i]
    PROVE  handlers' \in [Handlers -> Handler \cup {None}]
<1>1. i \in Identities
  BY DEF ReadAuthorities, Identities
<1>2. [handlers[h] EXCEPT !.step = "AUTHORISED", !.identity = i] \in Handler
  BY <1>1, HandlerFields DEF Handler
<1>3. handlers' = [handlers EXCEPT ![h] =
                     [handlers[h] EXCEPT !.step = "AUTHORISED", !.identity = i]]
  BY DEF CommandTypeOK
<1> QED BY <1>2, <1>3 DEF CommandTypeOK

LEMMA WireType ==
    ASSUME IngressConstants, CommandTypeOK,
           \/ \E n \in Nonces : RelayPost(n)
           \/ \E h \in Handlers, e \in EnvelopeIds : ReceiveEnvelope(h, e)
           \/ \E h \in Handlers : ReadAuthority(h) \/ Vanish(h)
           \/ Tick
    PROVE  CommandTypeOK'
<1> USE DEF CommandTypeOK, ToolTypeOK, toolVars, memberVars, pageVars, wireVars, durableVars, spending
<1>0. MaxTime \in Nat /\ now \in Nat
  BY DEF IngressConstants
<1>1. ASSUME NEW n \in Nonces, RelayPost(n) PROVE CommandTypeOK'
  BY <1>0, <1>1 DEF RelayPost, Envelope
<1>2. ASSUME NEW h \in Handlers, NEW e \in EnvelopeIds, ReceiveEnvelope(h, e)
      PROVE  CommandTypeOK'
  BY <1>0, <1>2 DEF ReceiveEnvelope, Handler, Outcomes
<1>3. ASSUME NEW h \in Handlers, ReadAuthority(h) PROVE CommandTypeOK'
  <2>1. ASSUME NEW i \in ReadAuthorities(Operation(h)),
               handlers' = [handlers EXCEPT ![h].step = "AUTHORISED", ![h].identity = i]
        PROVE  handlers' \in [Handlers -> Handler \cup {None}]
    BY <1>3, <2>1, AuthorisedType DEF ReadAuthority
  <2>2. handlers' \in [Handlers -> Handler \cup {None}]
    BY <1>3, <2>1, AnswerType DEF ReadAuthority, Outcomes
  <2> QED BY <1>3, <2>2 DEF ReadAuthority
<1>4. ASSUME NEW h \in Handlers, Vanish(h) PROVE CommandTypeOK'
  BY <1>4 DEF Vanish
<1>5. CASE Tick
  BY <1>0, <1>5 DEF Tick
<1> QED BY <1>1, <1>2, <1>3, <1>4, <1>5

-----------------------------------------------------------------------------
(* What a transaction of the backend does to the records                   *)

\* What is recorded stays: neither its operation nor its nonce changes.
RecordsKept ==
    \A k \in Keys : records[k] /= None =>
       /\ records'[k] /= None
       /\ records'[k].operation = records[k].operation
       /\ records'[k].nonce = records[k].nonce

\* The handler answers from what is recorded and writes nothing.
Told(h, outcome) ==
    LET entry == records[KeyOf[Operation(h)]] IN
    /\ UNCHANGED <<spending, records>>
    /\ outcome = "ACCEPTED" => entry /= None /\ entry.operation = Operation(h)
    /\ outcome \in {"REPLAYED", "CONFLICT"} => entry /= None

\* The key is taken: the fresh nonce is spent on a repetition or a conflict.
Repeated(h, outcome) ==
    LET entry == records[KeyOf[Operation(h)]] IN
    /\ outcome \in {"REPLAYED", "CONFLICT"} /\ KindOf[Operation(h)] /= "ATTACH"
    /\ UNCHANGED records
    /\ replayClaims[Nonce(h)] = None /\ entry /= None
    /\ \/ Spend(h, "IDEMPOTENCY_CONFLICT")
       \/ Spend(h, "IDEMPOTENCY_REPLAYED") /\ entry.operation = Operation(h)

\* The operation is recorded under its free key and spends its fresh nonce.
Recorded(h, outcome) ==
    LET key == KeyOf[Operation(h)] IN
    /\ outcome = "ACCEPTED"
    /\ replayClaims[Nonce(h)] = None /\ records[key] = None
    /\ Spend(h, "NEW")
    /\ records'[key] /= None
    /\ records'[key].operation = Operation(h) /\ records'[key].nonce = Nonce(h)
    /\ RecordsKept
    /\ \A k \in Keys \ {key} : records[k] = None => records'[k] = None

Settlement(h, outcome) ==
    /\ handlers[h] /= None /\ handlers[h].step = "AUTHORISED"
    /\ AnswerWith(h, outcome)
    /\ Told(h, outcome) \/ Repeated(h, outcome) \/ Recorded(h, outcome)
    /\ records' \in [Keys -> Record \cup {None}]
    /\ CandidatesAttached'
    /\ UNCHANGED <<toolVars, now, pageVars, envelopes, ingressClaims, serves>>

LEMMA RecordFields ==
    ASSUME CommandTypeOK, NEW k \in Keys, records[k] /= None
    PROVE  /\ records[k] \in Record
           /\ records[k].operation \in Operations /\ records[k].nonce \in Nonces
  BY DEF CommandTypeOK, Record

\* A prepared command inserts an attempt under a free key, and no candidate
\* lives under the key of an attempt.
LEMMA InsertSettles ==
    ASSUME IngressConstants, CommandTypeOK, WireSound, CandidatesAttached,
           NEW h \in Handlers, handlers[h] /= None, handlers[h].step = "AUTHORISED",
           KindOf[Operation(h)] /= "ATTACH", replayClaims[Nonce(h)] = None,
           records[KeyOf[Operation(h)]] = None, Insert(h), Spend(h, "NEW")
    PROVE  /\ Recorded(h, "ACCEPTED")
           /\ records' \in [Keys -> Record \cup {None}]
           /\ CandidatesAttached'
<1> DEFINE o == Operation(h)
           new == [operation |-> o, nonce |-> Nonce(h), identity |-> handlers[h].identity,
                   state |-> "PREPARED"]
<1>1. o \in Operations /\ Nonce(h) \in Nonces /\ KeyOf[o] \in Keys
  BY ServedFields
<1>2. new \in Record /\ new /= None
  BY <1>1 DEF WireSound, Record, IngressConstants
<1>3. records' = [records EXCEPT ![KeyOf[o]] = new]
  BY DEF Insert
<1>4. \A k \in Keys : records'[k] = IF k = KeyOf[o] THEN new ELSE records[k]
  BY <1>3 DEF CommandTypeOK
<1>5. records' \in [Keys -> Record \cup {None}]
  BY <1>2, <1>3 DEF CommandTypeOK
<1>6. ASSUME NEW c \in Operations, KindOf[c] = "ATTACH"
      PROVE  records'[KeyOf[c]] /= None
               <=> records'[ParentOf[c]] /= None /\ records'[ParentOf[c]].state = "SUBMITTED"
  <2>1. KeyOf[c] /= KeyOf[o] /\ KeyOf[c] \in Keys /\ ParentOf[c] \in Keys
    BY <1>1, <1>6, Commands DEF IngressConstants
  <2>2. records'[KeyOf[c]] = records[KeyOf[c]]
    BY <1>4, <2>1
  <2>3. CASE ParentOf[c] = KeyOf[o]
    BY <1>4, <1>6, <2>1, <2>2, <2>3 DEF CandidatesAttached
  <2>4. CASE ParentOf[c] /= KeyOf[o]
    BY <1>4, <1>6, <2>1, <2>2, <2>4 DEF CandidatesAttached
  <2> QED BY <2>3, <2>4
<1>7. Recorded(h, "ACCEPTED")
  BY <1>1, <1>2, <1>4 DEF Recorded, RecordsKept
<1> QED BY <1>5, <1>6, <1>7 DEF CandidatesAttached

LEMMA AdmissionSettles ==
    ASSUME IngressConstants, CommandTypeOK, WireSound, CandidatesAttached, SpentSound,
           NEW h \in Handlers, AdmitCommand(h)
    PROVE  \E outcome \in Outcomes : Settlement(h, outcome)
<1> DEFINE o == Operation(h)
<1> USE DEF AdmitCommand, Settlement, Outcomes, Spent
<1>0. /\ handlers[h] /= None /\ handlers[h].step = "AUTHORISED" /\ KindOf[o] /= "ATTACH"
      /\ UNCHANGED <<toolVars, now, pageVars, envelopes, ingressClaims, serves>>
  OBVIOUS
<1>1. o \in Operations /\ Nonce(h) \in Nonces /\ KeyOf[o] \in Keys
  BY <1>0, ServedFields
<1>2. ASSUME UNCHANGED records
      PROVE  CandidatesAttached' /\ records' \in [Keys -> Record \cup {None}]
  BY <1>2 DEF CandidatesAttached, CommandTypeOK
<1>3. CASE ~(Unexpired(o, now) /\ StillAuthorised(o, handlers[h].identity))
  <2>1. AnswerWith(h, "REJECTED") /\ Told(h, "REJECTED")
    BY <1>3 DEF Told
  <2> QED BY <1>0, <1>2, <2>1 DEF Told
<1>4. CASE Unexpired(o, now) /\ StillAuthorised(o, handlers[h].identity)
           /\ replayClaims[Nonce(h)] /= None
  <2>1. records[KeyOf[o]] /= None
    BY <1>1, <1>4 DEF SpentSound, Operation
  <2>2. PICK outcome \in {"REPLAYED", "REJECTED"} :
          AnswerWith(h, outcome) /\ UNCHANGED <<spending, records>>
    BY <1>4 DEF ReplayCommand
  <2>3. Told(h, outcome)
    BY <2>1, <2>2 DEF Told
  <2> QED BY <1>0, <1>2, <2>2, <2>3
<1>5. CASE Unexpired(o, now) /\ StillAuthorised(o, handlers[h].identity)
           /\ replayClaims[Nonce(h)] = None
  <2>0. AdmitPrepare(h)
    BY <1>5
  <2>1. CASE records[KeyOf[o]] = None
    <3>1. Insert(h) /\ Spend(h, "NEW") /\ AnswerWith(h, "ACCEPTED")
      BY <2>0, <2>1 DEF AdmitPrepare
    <3> QED BY <1>0, <1>5, <2>1, <3>1, InsertSettles
  <2>2. CASE records[KeyOf[o]] /= None
    <3>1. UNCHANGED records
      BY <2>0, <2>2 DEF AdmitPrepare
    <3>2. CASE SameCommand(o, handlers[h].identity)
      <4>1. /\ Spend(h, "IDEMPOTENCY_REPLAYED") /\ AnswerWith(h, "REPLAYED")
            /\ records[KeyOf[o]].operation = o
        BY <2>0, <2>2, <3>2 DEF AdmitPrepare, SameCommand
      <4>2. Repeated(h, "REPLAYED")
        BY <1>0, <1>5, <2>2, <3>1, <4>1 DEF Repeated
      <4> QED BY <1>0, <1>2, <3>1, <4>1, <4>2
    <3>3. CASE ~SameCommand(o, handlers[h].identity)
      <4>1. Spend(h, "IDEMPOTENCY_CONFLICT") /\ AnswerWith(h, "CONFLICT")
        BY <2>0, <2>2, <3>3 DEF AdmitPrepare
      <4>2. Repeated(h, "CONFLICT")
        BY <1>0, <1>5, <2>2, <3>1, <4>1 DEF Repeated
      <4> QED BY <1>0, <1>2, <3>1, <4>1, <4>2
    <3> QED BY <3>2, <3>3
  <2> QED BY <2>1, <2>2
<1> QED BY <1>3, <1>4, <1>5

\* The candidate and its attempt after an attachment.
Attachment(h) ==
    LET o == Operation(h)
        key == KeyOf[o]
        parent == ParentOf[o] IN
    /\ records[key] = None /\ records[parent] /= None /\ key /= parent
    /\ records'[key] /= None /\ records'[key].state = "PREPARED"
    /\ records'[key].operation = o /\ records'[key].nonce = Nonce(h)
    /\ records'[parent] /= None /\ records'[parent].state = "SUBMITTED"
    /\ records'[parent].operation = records[parent].operation
    /\ records'[parent].nonce = records[parent].nonce
    /\ \A k \in Keys \ {key, parent} : records'[k] = records[k]

\* A candidate is recorded only while its attempt has none.
LEMMA AttachmentRows ==
    ASSUME IngressConstants, CommandTypeOK, WireSound, CandidatesAttached,
           NEW h \in Handlers, handlers[h] /= None, handlers[h].step = "AUTHORISED",
           KindOf[Operation(h)] = "ATTACH",
           records[ParentOf[Operation(h)]] /= None,
           records[ParentOf[Operation(h)]].state /= "SUBMITTED",
           records' = [records EXCEPT
              ![KeyOf[Operation(h)]] = [operation |-> Operation(h), nonce |-> Nonce(h),
                                        identity |-> handlers[h].identity, state |-> "PREPARED"],
              ![ParentOf[Operation(h)]].state = "SUBMITTED"]
    PROVE  Attachment(h) /\ records' \in [Keys -> Record \cup {None}]
<1> DEFINE o == Operation(h)
           key == KeyOf[o]
           parent == ParentOf[o]
           new == [operation |-> o, nonce |-> Nonce(h), identity |-> handlers[h].identity,
                   state |-> "PREPARED"]
           submitted == [records[parent] EXCEPT !.state = "SUBMITTED"]
<1>1. o \in Operations /\ Nonce(h) \in Nonces /\ key \in Keys /\ parent \in Keys
  BY ServedFields
<1>2. /\ new \in Record /\ new /= None
      /\ new.operation = o /\ new.nonce = Nonce(h) /\ new.state = "PREPARED"
  BY <1>1 DEF WireSound, Record, IngressConstants
<1>3. records[key] = None /\ key /= parent
  BY <1>1 DEF CandidatesAttached
<1>4. /\ submitted \in Record /\ submitted /= None
      /\ submitted.operation = records[parent].operation
      /\ submitted.nonce = records[parent].nonce /\ submitted.state = "SUBMITTED"
  BY <1>1, RecordFields DEF Record, IngressConstants
<1>5. records' = [[records EXCEPT ![key] = new] EXCEPT ![parent] = submitted]
  BY <1>1, <1>3 DEF CommandTypeOK
<1> HIDE DEF new, submitted
<1>6. \A k \in Keys : records'[k] = IF k = parent THEN submitted
                                    ELSE IF k = key THEN new ELSE records[k]
  BY <1>1, <1>5 DEF CommandTypeOK
<1>7. records' \in [Keys -> Record \cup {None}]
  <2>1. records \in [Keys -> Record \cup {None}]
    BY DEF CommandTypeOK
  <2> QED BY <1>1, <1>2, <1>4, <1>5, <2>1
<1>8. Attachment(h)
  <2>1. records'[key] = new /\ records'[parent] = submitted
    BY <1>1, <1>3, <1>6
  <2>2. \A k \in Keys \ {key, parent} : records'[k] = records[k]
    BY <1>6
  <2> QED BY <1>2, <1>3, <1>4, <2>1, <2>2 DEF Attachment
<1> QED BY <1>7, <1>8

LEMMA AttachmentRecords ==
    ASSUME IngressConstants, CommandTypeOK, WireSound, CandidatesAttached,
           NEW h \in Handlers, handlers[h] /= None, KindOf[Operation(h)] = "ATTACH",
           replayClaims[Nonce(h)] = None, Attachment(h), Spend(h, "NEW")
    PROVE  Recorded(h, "ACCEPTED") /\ CandidatesAttached'
<1> DEFINE o == Operation(h)
           key == KeyOf[o]
           parent == ParentOf[o]
<1>1. o \in Operations /\ Nonce(h) \in Nonces /\ key \in Keys /\ parent \in Keys
  BY ServedFields
<1>2. Recorded(h, "ACCEPTED")
  <2>1. RecordsKept
    BY <1>1 DEF Attachment, RecordsKept
  <2> QED BY <1>1, <2>1 DEF Attachment, Recorded
<1>3. ASSUME NEW c \in Operations, KindOf[c] = "ATTACH"
      PROVE  records'[KeyOf[c]] /= None
               <=> records'[ParentOf[c]] /= None /\ records'[ParentOf[c]].state = "SUBMITTED"
  <2>1. /\ KeyOf[c] \in Keys /\ ParentOf[c] \in Keys
        /\ KeyOf[c] = key <=> ParentOf[c] = parent
    BY <1>1, <1>3, Commands DEF IngressConstants
  <2>2. CASE ParentOf[c] = parent
    BY <2>1, <2>2 DEF Attachment
  <2>3. CASE ParentOf[c] /= parent
    <3>1. records'[KeyOf[c]] /= None <=> records[KeyOf[c]] /= None
      BY <1>1, <2>1, <2>3 DEF Attachment
    <3>2. CASE ParentOf[c] = key
      BY <1>1, <1>3, <2>1, <2>3, <3>1, <3>2 DEF Attachment, CandidatesAttached
    <3>3. CASE ParentOf[c] /= key
      BY <1>1, <1>3, <2>1, <2>3, <3>1, <3>3 DEF Attachment, CandidatesAttached
    <3> QED BY <3>2, <3>3
  <2> QED BY <2>2, <2>3
<1> QED BY <1>2, <1>3 DEF CandidatesAttached

LEMMA AttachmentSettles ==
    ASSUME IngressConstants, CommandTypeOK, WireSound, RecordsSound, HandlersSound,
           NEW h \in Handlers, AttachCandidate(h)
    PROVE  \E outcome \in Outcomes : Settlement(h, outcome)
<1> DEFINE o == Operation(h)
           parent == records[ParentOf[o]]
<1> USE DEF AttachCandidate, Settlement, Outcomes, RecordsSound, Spent
<1>0. /\ handlers[h] /= None /\ handlers[h].step = "AUTHORISED" /\ KindOf[o] = "ATTACH"
      /\ UNCHANGED <<toolVars, now, pageVars, envelopes, ingressClaims, serves>>
      /\ parent /= None
  BY DEF HandlersSound, ParentRead
<1>1. o \in Operations /\ Nonce(h) \in Nonces /\ KeyOf[o] \in Keys
  BY <1>0, ServedFields
<1>2. ASSUME UNCHANGED records
      PROVE  CandidatesAttached' /\ records' \in [Keys -> Record \cup {None}]
  BY <1>2 DEF CandidatesAttached, CommandTypeOK
<1>3. CASE replayClaims[Nonce(h)] /= None
  <2>1. records[KeyOf[o]] /= None /\ records[KeyOf[o]].operation = o
    BY <1>0, <1>1, <1>3 DEF SpentSound, ClaimsMatchRecords, Operation
  <2>2. PICK outcome \in {"ACCEPTED", "REJECTED"} :
          AnswerWith(h, outcome) /\ UNCHANGED <<spending, records>>
    BY <1>3
  <2>3. Told(h, outcome)
    BY <2>1, <2>2 DEF Told
  <2> QED BY <1>0, <1>2, <2>2, <2>3
<1>4. CASE replayClaims[Nonce(h)] = None /\ parent.state = "SUBMITTED"
  <2>1. records[KeyOf[o]] /= None
    BY <1>0, <1>1, <1>4 DEF CandidatesAttached
  <2>2. PICK outcome \in {"REPLAYED", "REJECTED"} :
          AnswerWith(h, outcome) /\ UNCHANGED <<spending, records>>
    BY <1>4
  <2>3. Told(h, outcome)
    BY <2>1, <2>2 DEF Told
  <2> QED BY <1>0, <1>2, <2>2, <2>3
<1>5. CASE replayClaims[Nonce(h)] = None /\ parent.state /= "SUBMITTED"
  <2>1. /\ records' = [records EXCEPT
              ![KeyOf[o]] = [operation |-> o, nonce |-> Nonce(h),
                             identity |-> handlers[h].identity, state |-> "PREPARED"],
              ![ParentOf[o]].state = "SUBMITTED"]
        /\ Spend(h, "NEW") /\ AnswerWith(h, "ACCEPTED")
    BY <1>5
  <2>2. /\ Recorded(h, "ACCEPTED") /\ CandidatesAttached'
        /\ records' \in [Keys -> Record \cup {None}]
    BY <1>0, <1>5, <2>1, AttachmentRows, AttachmentRecords DEF RecordsSound
  <2> QED BY <1>0, <2>1, <2>2
<1> QED BY <1>3, <1>4, <1>5

-----------------------------------------------------------------------------
(* Settlements keep the invariant                                          *)

LEMMA SettlementType ==
    ASSUME IngressConstants, CommandTypeOK, WireSound,
           NEW h \in Handlers, NEW outcome \in Outcomes, Settlement(h, outcome)
    PROVE  CommandTypeOK'
<1>1. handlers' \in [Handlers -> Handler \cup {None}]
  BY AnswerType DEF Settlement
<1>2. replayClaims' \in [Nonces -> {"NEW", "IDEMPOTENCY_REPLAYED",
                                    "IDEMPOTENCY_CONFLICT", None}]
  BY DEF Settlement, Told, Repeated, Recorded, Spend, CommandTypeOK, spending
<1>3. decisions' \in [Nonces -> Nat]
  BY DEF Settlement, Told, Repeated, Recorded, Spend, CommandTypeOK, spending
<1> QED
  BY <1>1, <1>2, <1>3 DEF Settlement, CommandTypeOK, ToolTypeOK, toolVars, memberVars, pageVars

LEMMA SettlementKeepsRecords ==
    ASSUME IngressConstants, CommandTypeOK, WireSound, RecordsSound,
           NEW h \in Handlers, NEW outcome \in Outcomes, Settlement(h, outcome)
    PROVE  RecordsSound' /\ RecordsKept /\ \A n \in Nonces : replayClaims[n] /= None => replayClaims'[n] = replayClaims[n]
<1> DEFINE o == Operation(h)
           m == Nonce(h)
           key == KeyOf[o]
<1>0. /\ o \in Operations /\ m \in Nonces /\ key \in Keys
      /\ signed[m] = o /\ o /= None
      /\ UNCHANGED signed /\ CandidatesAttached'
  BY ServedFields DEF Settlement, Operation, pageVars, IngressConstants
<1>1. CASE Told(h, outcome)
  BY <1>0, <1>1 DEF spending, Told, RecordsSound, RecordsKept, RecordedUnderKey, SpentSound,
                    ClaimsMatchRecords
<1>2. CASE Repeated(h, outcome)
  <2>1. PICK answer \in {"IDEMPOTENCY_CONFLICT", "IDEMPOTENCY_REPLAYED"} :
          /\ \A n \in Nonces : replayClaims'[n] = IF n = m THEN answer ELSE replayClaims[n]
          /\ answer = "IDEMPOTENCY_REPLAYED" => records[key].operation = o
    BY <1>2 DEF Repeated, Spend, CommandTypeOK
  <2>2. UNCHANGED records /\ replayClaims[m] = None /\ records[key] /= None
        /\ KindOf[o] /= "ATTACH"
    BY <1>2 DEF Repeated
  <2>3. RecordedUnderKey' /\ RecordsKept
    BY <2>2 DEF RecordsSound, RecordedUnderKey, RecordsKept
  <2>4. SpentSound'
    BY <1>0, <2>1, <2>2 DEF RecordsSound, SpentSound
  <2>5. ClaimsMatchRecords'
    <3>1. \A k \in Keys : records[k] /= None => records[k].nonce /= m
      BY <2>2 DEF RecordsSound, ClaimsMatchRecords, IngressConstants
    <3>2. \A k \in Keys : records[k] /= None => replayClaims'[records[k].nonce] = "NEW"
      BY <2>1, <3>1, RecordFields DEF RecordsSound, ClaimsMatchRecords
    <3>3. ASSUME NEW n \in Nonces, replayClaims'[n] \in {"NEW", "IDEMPOTENCY_REPLAYED"}
          PROVE  LET entry == records[KeyOf[signed[n]]] IN
                 /\ entry /= None /\ entry.operation = signed[n]
                 /\ entry.nonce = n <=> replayClaims'[n] = "NEW"
      <4>1. CASE n = m
        BY <1>0, <2>1, <2>2, <3>1, <3>3, <4>1
      <4>2. CASE n /= m
        BY <2>1, <3>3, <4>2 DEF RecordsSound, ClaimsMatchRecords
      <4> QED BY <4>1, <4>2
    <3>4. \A k \in Keys : records[k] /= None => signed[records[k].nonce] = records[k].operation
      BY DEF RecordsSound, ClaimsMatchRecords
    <3> QED BY <1>0, <2>2, <3>2, <3>3, <3>4 DEF ClaimsMatchRecords
  <2> QED BY <1>0, <2>1, <2>2, <2>3, <2>4, <2>5 DEF RecordsSound
<1>3. CASE Recorded(h, outcome)
  <2>1. /\ replayClaims[m] = None /\ records[key] = None
        /\ records'[key] /= None /\ records'[key].operation = o /\ records'[key].nonce = m
        /\ RecordsKept
        /\ \A k \in Keys \ {key} : records[k] = None => records'[k] = None
    BY <1>3 DEF Recorded
  <2>2. \A n \in Nonces : replayClaims'[n] = IF n = m THEN "NEW" ELSE replayClaims[n]
    BY <1>3 DEF Recorded, Spend, CommandTypeOK
  <2>3. RecordedUnderKey'
    BY <1>0, <2>1 DEF RecordsSound, RecordedUnderKey, RecordsKept
  <2>4. \A n \in Nonces : signed[n] /= None => KeyOf[signed[n]] \in Keys
    BY Commands DEF CommandTypeOK
  <2>5. SpentSound'
    BY <1>0, <2>1, <2>2, <2>4 DEF RecordsSound, SpentSound, RecordsKept
  <2>6. ClaimsMatchRecords'
    <3>1. ASSUME NEW k \in Keys, records'[k] /= None
          PROVE  /\ signed[records'[k].nonce] = records'[k].operation
                 /\ replayClaims'[records'[k].nonce] = "NEW"
      <4>1. CASE k = key
        BY <1>0, <2>1, <2>2, <4>1
      <4>2. CASE k /= key
        <5>1. /\ records[k] /= None /\ records'[k].nonce = records[k].nonce
              /\ records'[k].operation = records[k].operation
          BY <2>1, <3>1, <4>2 DEF RecordsKept
        <5> QED BY <2>2, <5>1, RecordFields DEF RecordsSound, ClaimsMatchRecords
      <4> QED BY <4>1, <4>2
    <3>2. ASSUME NEW n \in Nonces, replayClaims'[n] \in {"NEW", "IDEMPOTENCY_REPLAYED"}
          PROVE  LET entry == records'[KeyOf[signed[n]]] IN
                 /\ entry /= None /\ entry.operation = signed[n]
                 /\ entry.nonce = n <=> replayClaims'[n] = "NEW"
      <4>1. CASE n = m
        BY <1>0, <2>1, <2>2, <4>1
      <4>2. CASE n /= m
        <5>1. /\ replayClaims'[n] = replayClaims[n] /\ replayClaims[n] /= None
          BY <2>2, <3>2, <4>2 DEF IngressConstants
        <5>2. signed[n] /= None /\ KeyOf[signed[n]] \in Keys
              /\ records[KeyOf[signed[n]]] /= None
          BY <2>4, <3>2, <5>1 DEF RecordsSound, SpentSound, ClaimsMatchRecords
        <5> QED BY <2>1, <3>2, <5>1, <5>2
                DEF RecordsSound, ClaimsMatchRecords, RecordsKept
      <4> QED BY <4>1, <4>2
    <3> QED BY <1>0, <3>1, <3>2 DEF ClaimsMatchRecords
  <2> QED BY <1>0, <2>1, <2>2, <2>3, <2>5, <2>6 DEF RecordsSound
<1> QED BY <1>1, <1>2, <1>3 DEF Settlement

\* What was signed and sent stays: no signature or envelope is replaced.
TrafficKept ==
    /\ \A n \in Nonces : signed[n] /= None => signed'[n] = signed[n]
    /\ \A e \in EnvelopeIds : envelopes[e] /= None => envelopes'[e] = envelopes[e]

\* A handler that did not move stands where it stood.
LEMMA IdleHandlerSound ==
    ASSUME IngressConstants, CommandTypeOK, WireSound, HandlersSound, TrafficKept, RecordsKept,
           NEW g \in Handlers, handlers'[g] = handlers[g]
    PROVE  ParentRead(g)' /\ TruthfulAnswer(g)'
<1>1. CASE handlers[g] = None
  BY <1>1 DEF ParentRead, TruthfulAnswer
<1>2. CASE handlers[g] /= None
  <2>1. envelopes[handlers[g].envelope] /= None /\ handlers[g].envelope \in EnvelopeIds
    BY <1>2, HandlerFields DEF WireSound
  <2>2. Nonce(g)' = Nonce(g) /\ Nonce(g) \in Nonces
    BY <1>2, <2>1, ServedFields DEF TrafficKept, Nonce
  <2>3. Operation(g)' = Operation(g) /\ Operation(g) \in Operations
    BY <1>2, <2>2, ServedFields DEF TrafficKept, Operation, IngressConstants
  <2>4. KeyOf[Operation(g)] \in Keys
        /\ (KindOf[Operation(g)] = "ATTACH" => ParentOf[Operation(g)] \in Keys)
    BY <1>2, ServedFields
  <2>5. ParentRead(g)'
    BY <2>3, <2>4 DEF HandlersSound, ParentRead, RecordsKept
  <2>6. TruthfulAnswer(g)'
    BY <2>3, <2>4 DEF HandlersSound, TruthfulAnswer, RecordsKept
  <2> QED BY <2>5, <2>6
<1> QED BY <1>1, <1>2

LEMMA SettlementSound ==
    ASSUME IngressConstants, CommandTypeOK, ChannelSound,
           NEW h \in Handlers, NEW outcome \in Outcomes, Settlement(h, outcome)
    PROVE  ChannelSound'
<1> USE DEF ChannelSound
<1>1. RecordsSound' /\ RecordsKept
  BY SettlementKeepsRecords
<1>2. /\ \A g \in Handlers \ {h} : handlers'[g] = handlers[g]
      /\ handlers'[h].step = "ANSWERED" /\ handlers'[h].outcome = outcome
      /\ handlers'[h].envelope = handlers[h].envelope
      /\ handlers[h] /= None
  BY HandlerFields DEF Settlement, AnswerWith, CommandTypeOK, Handler
<1>3. UNCHANGED <<signed, envelopes, ingressClaims, serves>>
  BY DEF Settlement, pageVars
<1>4. WireSound'
  BY <1>2, <1>3 DEF WireSound
<1>5. Counted'
  <2>1. CASE Told(h, outcome)
    BY <1>3, <2>1 DEF Counted, Told, spending
  <2>2. ASSUME NEW answer \in {"NEW", "IDEMPOTENCY_REPLAYED", "IDEMPOTENCY_CONFLICT"},
               Spend(h, answer), replayClaims[Nonce(h)] = None
        PROVE  Counted'
    <3>1. Nonce(h) \in Nonces
      BY <1>2, ServedFields
    <3>2. \A n \in Nonces :
            /\ replayClaims'[n] = IF n = Nonce(h) THEN answer ELSE replayClaims[n]
            /\ decisions'[n] = IF n = Nonce(h) THEN decisions[n] + 1 ELSE decisions[n]
      BY <2>2 DEF Spend, CommandTypeOK
    <3>3. decisions[Nonce(h)] = 0 /\ answer /= None
      BY <2>2, <3>1 DEF Counted, IngressConstants
    <3> QED BY <1>3, <3>2, <3>3 DEF Counted
  <2> QED BY <2>1, <2>2 DEF Settlement, Repeated, Recorded
<1>6. TrafficKept
  BY <1>3 DEF TrafficKept
<1>7. ParentRead(h)'
  BY <1>2 DEF ParentRead
<1>8. TruthfulAnswer(h)'
  <2>1. Operation(h)' = Operation(h) /\ KeyOf[Operation(h)] \in Keys
    BY <1>2, <1>3, ServedFields DEF Operation, Nonce
  <2>2. CASE Told(h, outcome)
    BY <1>2, <2>1, <2>2 DEF Told, TruthfulAnswer
  <2>3. CASE Repeated(h, outcome)
    BY <1>2, <2>1, <2>3 DEF Repeated, TruthfulAnswer
  <2>4. CASE Recorded(h, outcome)
    BY <1>2, <2>1, <2>4 DEF Recorded, TruthfulAnswer
  <2> QED BY <2>2, <2>3, <2>4 DEF Settlement
<1>9. HandlersSound'
  BY <1>1, <1>2, <1>6, <1>7, <1>8, IdleHandlerSound DEF HandlersSound
<1> QED BY <1>1, <1>4, <1>5, <1>9

-----------------------------------------------------------------------------
(* The other steps                                                         *)

LEMMA QuietSound ==
    ASSUME ChannelSound, UNCHANGED <<signed, envelopes, handlers, durableVars>>
    PROVE  ChannelSound'
<1> USE DEF ChannelSound, durableVars, spending
<1>1. WireSound' /\ Counted'
  BY DEF WireSound, Counted
<1>2. RecordsSound'
  BY DEF RecordsSound, RecordedUnderKey, SpentSound, CandidatesAttached, ClaimsMatchRecords
<1>3. HandlersSound'
  BY DEF HandlersSound, ParentRead, TruthfulAnswer, Operation, Nonce
<1> QED BY <1>1, <1>2, <1>3

\* A fresh signature is no signature that anything rests on yet.
LEMMA SignatureSound ==
    ASSUME IngressConstants, CommandTypeOK, ChannelSound,
           NEW o \in Operations, SignCommand(o)
    PROVE  ChannelSound'
<1> USE DEF ChannelSound
<1>1. PICK n \in Nonces : signed[n] = None /\ signed' = [signed EXCEPT ![n] = o]
  BY DEF SignCommand
<1>2. /\ \A m \in Nonces : signed[m] /= None => signed'[m] = signed[m]
      /\ UNCHANGED <<envelopes, handlers, ingressClaims, serves, replayClaims, decisions, records>>
  BY <1>1 DEF SignCommand, CommandTypeOK, wireVars, durableVars, spending
<1>3. None \notin Operations
  BY DEF IngressConstants
<1>4. WireSound'
  BY <1>2, <1>3 DEF WireSound, CommandTypeOK, Envelope
<1>5. Counted'
  BY <1>2 DEF Counted
<1>6. RecordsSound'
  <2>1. SpentSound'
    BY <1>2, <1>3 DEF RecordsSound, SpentSound
  <2>2. \A k \in Keys : records[k] /= None => signed[records[k].nonce] /= None
                                              /\ records[k].nonce \in Nonces
    BY <1>3, RecordFields DEF RecordsSound, ClaimsMatchRecords
  <2>3. \A m \in Nonces : replayClaims[m] \in {"NEW", "IDEMPOTENCY_REPLAYED"} => signed[m] /= None
    BY DEF RecordsSound, SpentSound, IngressConstants
  <2>4. ClaimsMatchRecords'
    BY <1>2, <2>2, <2>3 DEF RecordsSound, ClaimsMatchRecords
  <2> QED BY <1>2, <2>1, <2>4 DEF RecordsSound, RecordedUnderKey, CandidatesAttached
<1>7. HandlersSound'
  BY <1>2, IdleHandlerSound DEF HandlersSound, TrafficKept, RecordsKept
<1> QED BY <1>4, <1>5, <1>6, <1>7

LEMMA RecordsUntouched ==
    ASSUME RecordsSound, UNCHANGED <<signed, spending, records>>
    PROVE  RecordsSound' /\ RecordsKept
  BY DEF spending, RecordsSound, RecordedUnderKey, SpentSound, CandidatesAttached,
         ClaimsMatchRecords, RecordsKept

\* One handler moves; signatures, envelopes and records stay.
LEMMA HandlerMoveSound ==
    ASSUME IngressConstants, CommandTypeOK, ChannelSound, NEW h \in Handlers,
           UNCHANGED <<signed, envelopes, spending, records>>,
           \A g \in Handlers \ {h} : handlers'[g] = handlers[g],
           WireSound', Counted', ParentRead(h)', TruthfulAnswer(h)'
    PROVE  ChannelSound'
<1> USE DEF ChannelSound
<1>1. RecordsSound' /\ RecordsKept /\ TrafficKept
  BY RecordsUntouched DEF TrafficKept
<1>2. HandlersSound'
  BY <1>1, IdleHandlerSound DEF HandlersSound
<1> QED BY <1>1, <1>2

LEMMA RelaySound ==
    ASSUME IngressConstants, CommandTypeOK, ChannelSound, NEW n \in Nonces, RelayPost(n)
    PROVE  ChannelSound'
<1> USE DEF ChannelSound
<1>1. PICK e \in EnvelopeIds :
        envelopes[e] = None /\ envelopes' = [envelopes EXCEPT ![e] = [nonce |-> n, stamp |-> now]]
  BY DEF RelayPost
<1>2. signed[n] /= None /\ UNCHANGED <<signed, spending, records, handlers, ingressClaims, serves>>
  BY DEF RelayPost, pageVars, durableVars
<1>3. /\ envelopes'[e].nonce = n
      /\ \A other \in EnvelopeIds \ {e} : envelopes'[other] = envelopes[other]
  BY <1>1 DEF CommandTypeOK
<1>4. [nonce |-> n, stamp |-> now] /= None
  BY DEF IngressConstants, Envelope, CommandTypeOK
<1>5. WireSound'
  BY <1>1, <1>2, <1>3, <1>4, HandlerFields DEF WireSound
<1>6. TrafficKept
  BY <1>1, <1>2, <1>3 DEF TrafficKept
<1>7. Counted'
  BY <1>2 DEF Counted, spending
<1>8. RecordsSound' /\ RecordsKept
  BY <1>2, RecordsUntouched
<1>9. HandlersSound'
  BY <1>2, <1>6, <1>8, IdleHandlerSound DEF HandlersSound
<1> QED BY <1>5, <1>7, <1>8, <1>9

\* A handler takes an envelope only if no handler ever had it.
LEMMA ReceptionSound ==
    ASSUME IngressConstants, CommandTypeOK, ChannelSound,
           NEW h \in Handlers, NEW e \in EnvelopeIds, ReceiveEnvelope(h, e)
    PROVE  ChannelSound'
<1> USE DEF ChannelSound
<1> DEFINE starts == Fresh(e) /\ Unclaimed(e)
           new == [envelope |-> e, at |-> now, identity |-> None,
                   step |-> IF starts THEN "CLAIMED" ELSE "ANSWERED",
                   outcome |-> IF starts THEN None ELSE "REJECTED"]
<1>1. /\ handlers[h] = None /\ envelopes[e] /= None
      /\ handlers' = [handlers EXCEPT ![h] = new]
      /\ ingressClaims' = IF starts THEN ingressClaims \cup {e} ELSE ingressClaims
      /\ serves' = [serves EXCEPT ![e] = @ + IF starts THEN 1 ELSE 0]
      /\ UNCHANGED <<signed, envelopes, spending, records>>
  BY DEF ReceiveEnvelope, pageVars
<1>2. /\ handlers'[h].envelope = e
      /\ handlers'[h].step = IF starts THEN "CLAIMED" ELSE "ANSWERED"
      /\ ~starts => handlers'[h].outcome = "REJECTED"
      /\ \A g \in Handlers \ {h} : handlers'[g] = handlers[g]
  BY <1>1 DEF CommandTypeOK
<1>3. WireSound'
  BY <1>1, <1>2 DEF WireSound, Outcomes
<1>4. starts => e \notin ingressClaims
  BY DEF Unclaimed
<1>5. Counted'
  <2>1. \A d \in EnvelopeIds : /\ d /= e => serves'[d] = serves[d]
                              /\ serves'[e] = serves[e] + IF starts THEN 1 ELSE 0
    BY <1>1 DEF CommandTypeOK
  <2>2. starts => serves[e] = 0
    BY <1>4 DEF Counted
  <2>3. \A d \in EnvelopeIds : serves'[d] = IF d \in ingressClaims' THEN 1 ELSE 0
    BY <1>1, <2>1, <2>2 DEF Counted
  <2> QED BY <1>1, <2>3 DEF Counted, spending
<1>6. ParentRead(h)' /\ TruthfulAnswer(h)'
  BY <1>2 DEF ParentRead, TruthfulAnswer
<1> QED BY <1>1, <1>2, <1>3, <1>5, <1>6, HandlerMoveSound

\* Whoever may attach has seen the attempt.
LEMMA AuthoritySound ==
    ASSUME IngressConstants, CommandTypeOK, ChannelSound,
           NEW h \in Handlers, ReadAuthority(h)
    PROVE  ChannelSound'
<1> USE DEF ChannelSound
<1> DEFINE o == Operation(h)
<1>1. /\ handlers[h] /= None /\ handlers[h].step = "CLAIMED"
      /\ UNCHANGED <<signed, envelopes, ingressClaims, serves, spending, records>>
  BY DEF ReadAuthority, pageVars, durableVars
<1>2. /\ \A g \in Handlers \ {h} : handlers'[g] = handlers[g]
      /\ handlers'[h].envelope = handlers[h].envelope
      /\ \/ /\ handlers'[h].step = "AUTHORISED"
            /\ handlers'[h].identity \in ReadAuthorities(o)
         \/ handlers'[h].step = "ANSWERED" /\ handlers'[h].outcome = "REJECTED"
  BY <1>1, HandlerFields DEF ReadAuthority, AnswerWith, CommandTypeOK, Handler
<1>3. ReadAuthorities(o) \subseteq Identities
  BY DEF ReadAuthorities, Identities
<1>4. WireSound'
  BY <1>1, <1>2, <1>3 DEF WireSound, Outcomes
<1>5. Counted'
  BY <1>1, <1>2 DEF Counted, spending
<1>6. Operation(h)' = o
  BY <1>1, <1>2 DEF Operation, Nonce
<1>7. \A i \in ReadAuthorities(o) : KindOf[o] = "ATTACH" => records[ParentOf[o]] /= None
  <2>1. \A i \in ReadAuthorities(o) : MayCommand(o, i)
    BY DEF ReadAuthorities
  <2> QED BY <2>1 DEF MayCommand
<1>8. ParentRead(h)'
  BY <1>1, <1>2, <1>6, <1>7 DEF ParentRead
<1>9. TruthfulAnswer(h)'
  BY <1>2 DEF TruthfulAnswer
<1> QED BY <1>1, <1>2, <1>4, <1>5, <1>8, <1>9, HandlerMoveSound

LEMMA DepartureSound ==
    ASSUME IngressConstants, CommandTypeOK, ChannelSound,
           NEW h \in Handlers, handlers' = [handlers EXCEPT ![h] = None],
           UNCHANGED <<signed, envelopes, ingressClaims, serves, spending, records>>
    PROVE  ChannelSound'
<1> USE DEF ChannelSound
<1>1. handlers'[h] = None /\ \A g \in Handlers \ {h} : handlers'[g] = handlers[g]
  BY DEF CommandTypeOK
<1>2. WireSound' /\ Counted'
  BY <1>1 DEF WireSound, Counted, spending
<1>3. ParentRead(h)' /\ TruthfulAnswer(h)'
  BY <1>1 DEF ParentRead, TruthfulAnswer
<1> QED BY <1>1, <1>2, <1>3, HandlerMoveSound

LEMMA DepartureType ==
    ASSUME IngressConstants, CommandTypeOK, WireSound,
           NEW h \in Handlers, Answer(h)
    PROVE  CommandTypeOK'
<1> DEFINE o == Operation(h)
<1>1. handlers[h] /= None /\ o \in Operations /\ Nonce(h) \in Nonces
      /\ handlers[h].outcome \in Outcomes
  BY ServedFields DEF Answer, WireSound
<1>2. Settled(handlers[h].outcome) \in {"complete", "failed"}
  BY DEF Settled
<1>3. dialogs' \in [Operations -> Dialog]
  <2>1. CASE ShowOn(o, Settled(handlers[h].outcome), Nonce(h), handlers[h].outcome)
    BY <1>1, <1>2, <2>1 DEF ShowOn, Dialog, CommandTypeOK
  <2>2. CASE UNCHANGED dialogs
    BY <2>2 DEF CommandTypeOK
  <2> QED BY <2>1, <2>2 DEF Answer
<1>4. handlers' \in [Handlers -> Handler \cup {None}]
  BY DEF Answer, CommandTypeOK
<1> QED BY <1>3, <1>4 DEF Answer, CommandTypeOK, ToolTypeOK, toolVars, memberVars, durableVars, spending

-----------------------------------------------------------------------------
(* The invariant                                                           *)

LEMMA ChannelInit == ToolConstants /\ IngressConstants /\ IngressInit => ChannelInv
<1> SUFFICES ASSUME ToolConstants, IngressConstants, IngressInit PROVE ChannelInv
  OBVIOUS
<1>1. CommandTypeOK
  BY CommandTypeInit
<1>2. WireSound /\ Counted
  BY DEF IngressInit, WireSound, Counted
<1>3. RecordsSound
  <2>1. \A k \in Keys : records[k] = None
    BY DEF IngressInit
  <2>2. \A n \in Nonces : replayClaims[n] = None
    BY DEF IngressInit
  <2>3. CandidatesAttached
    BY <2>1, Commands DEF CandidatesAttached
  <2>4. None \notin {"NEW", "IDEMPOTENCY_REPLAYED"}
    BY DEF IngressConstants
  <2> QED BY <2>1, <2>2, <2>3, <2>4
          DEF RecordsSound, RecordedUnderKey, SpentSound, ClaimsMatchRecords
<1>4. HandlersSound
  BY DEF IngressInit, HandlersSound, ParentRead, TruthfulAnswer
<1> QED BY <1>1, <1>2, <1>3, <1>4 DEF ChannelInv, ChannelSound

LEMMA ChannelStep ==
    ToolConstants /\ IngressConstants /\ ChannelInv /\ [IngressNext]_ingressVars => ChannelInv'
<1> SUFFICES ASSUME ToolConstants, IngressConstants, ChannelInv, [IngressNext]_ingressVars
             PROVE  ChannelInv'
  OBVIOUS
<1> USE DEF ChannelInv
<1>0. WireSound /\ RecordsSound /\ HandlersSound /\ CandidatesAttached /\ SpentSound
  BY DEF ChannelSound, RecordsSound
<1>1. ASSUME NEW o \in Operations, PageStep(o) PROVE ChannelInv'
  <2>1. CommandTypeOK'
    BY <1>1, PageType
  <2>2. CASE SignCommand(o)
    BY <2>1, <2>2, SignatureSound
  <2>3. CASE Prepare(o) \/ AskWallet(o) \/ GiveUp(o) \/ LoseOutcome(o)
    <3>1. UNCHANGED <<signed, envelopes, handlers, durableVars>>
      BY <2>3 DEF Prepare, AskWallet, GiveUp, LoseOutcome, wireVars
    <3> QED BY <2>1, <3>1, QuietSound
  <2> QED BY <1>1, <2>2, <2>3 DEF PageStep
<1>2. ASSUME NEW n \in Nonces, RelayPost(n) PROVE ChannelInv'
  BY <1>2, WireType, RelaySound
<1>3. ASSUME NEW h \in Handlers, HandlerStep(h) PROVE ChannelInv'
  <2>1. ASSUME NEW e \in EnvelopeIds, ReceiveEnvelope(h, e) PROVE ChannelInv'
    BY <2>1, WireType, ReceptionSound
  <2>2. CASE ReadAuthority(h)
    BY <2>2, WireType, AuthoritySound
  <2>3. CASE AdmitCommand(h) \/ AttachCandidate(h)
    <3>1. PICK outcome \in Outcomes : Settlement(h, outcome)
      BY <1>0, <2>3, AdmissionSettles, AttachmentSettles
    <3> QED BY <1>0, <3>1, SettlementType, SettlementSound
  <2>4. CASE Answer(h)
    <3>1. /\ handlers' = [handlers EXCEPT ![h] = None]
          /\ UNCHANGED <<signed, envelopes, ingressClaims, serves, spending, records>>
      BY <2>4 DEF Answer, durableVars
    <3> QED BY <1>0, <2>4, <3>1, DepartureType, DepartureSound
  <2>5. CASE Vanish(h)
    <3>1. /\ handlers' = [handlers EXCEPT ![h] = None]
          /\ UNCHANGED <<signed, envelopes, ingressClaims, serves, spending, records>>
      BY <2>5 DEF Vanish, durableVars, pageVars
    <3> QED BY <2>5, <3>1, WireType, DepartureSound
  <2> QED BY <1>3, <2>1, <2>2, <2>3, <2>4, <2>5 DEF HandlerStep
<1>4. CASE MemberStep /\ UNCHANGED <<now, pageVars, wireVars, durableVars>>
  <2>1. ToolTypeOK'
    BY <1>4, MembershipType DEF CommandTypeOK
  <2>2. CommandTypeOK'
    BY <1>4, <2>1 DEF CommandTypeOK, pageVars, wireVars, durableVars, spending
  <2> QED BY <1>4, <2>2, QuietSound DEF pageVars, wireVars
<1>5. CASE Tick
  BY <1>5, WireType, QuietSound DEF Tick, pageVars, wireVars
<1>6. CASE UNCHANGED ingressVars
  <2>1. CommandTypeOK'
    BY <1>6 DEF CommandTypeOK, ToolTypeOK, ingressVars, toolVars, memberVars, pageVars,
                wireVars, durableVars, spending
  <2> QED BY <1>6, <2>1, QuietSound DEF ingressVars, pageVars, wireVars
<1> QED BY <1>1, <1>2, <1>3, <1>4, <1>5, <1>6 DEF IngressNext

\* The channel keeps its invariant, however bodies and envelopes are lost and
\* repeated, handlers die and memberships change between their steps.
THEOREM ChannelInvariant == IngressSpec => []ChannelInv
  BY ToolConstants, IngressConstants, ChannelInit, ChannelStep, PTL DEF IngressSpec

\* The tables of claims and of records tell one story: each record belongs to
\* the nonce that was answered NEW, and a replay is one of the same operation.
THEOREM ClaimsMatchRecordsHolds == IngressSpec => []ClaimsMatchRecords
<1>1. ChannelInv => ClaimsMatchRecords
  BY DEF ChannelInv, ChannelSound, RecordsSound
<1> QED BY <1>1, ChannelInvariant, PTL

\* Of all handlers there ever are, one serves an envelope and one decides upon a
\* body, however often they are delivered and whoever died; every row is well
\* formed.
THEOREM HandledOnceHolds == IngressSpec => []HandledOnce
<1>1. Counted => ServedOnce
  <2>1. \A c \in {0, 1} : c <= 1
    OBVIOUS
  <2> QED BY <2>1 DEF Counted, ServedOnce
<1>2. ChannelInv => HandledOnce
  BY <1>1 DEF ChannelInv, ChannelSound, HandledOnce
<1> QED BY <1>2, ChannelInvariant, PTL

-----------------------------------------------------------------------------
(* The promise                                                             *)

RecordedNow == [k \in Keys |-> IF records[k] = None THEN None ELSE records[k].operation]
ToldNow == [o \in Operations |-> dialogs[o].outcome]

LEMMA PromiseInit == IngressConstants /\ IngressInit => Promise!Init
  BY DEF IngressInit, Promise!Init

LEMMA EntitledRecording ==
    ASSUME NEW o \in Operations, Entitled(o), RecordedNow[KeyOf[o]] = None,
           RecordedNow' = [RecordedNow EXCEPT ![KeyOf[o]] = o], ToldNow' = ToldNow
    PROVE  Promise!Record(o)
<1>1. o \in {other \in Operations : Entitled(other)}
  OBVIOUS
<1> QED BY <1>1, Zenon DEF Promise!Record, RecordedNow, ToldNow

\* A settlement records an operation of an entitled signer, or nothing.
LEMMA SettlementKeepsPromise ==
    ASSUME IngressConstants, CommandTypeOK, WireSound, NEW h \in Handlers,
           NEW outcome \in Outcomes, Settlement(h, outcome), Entitled(Operation(h)) \/ UNCHANGED records
    PROVE  Promise!Next
<1>1. ToldNow' = ToldNow
  BY DEF Settlement, pageVars, ToldNow
<1>2. CASE UNCHANGED records
  BY <1>1, <1>2 DEF Promise!Next, Promise!Meanwhile, RecordedNow, ToldNow
<1>3. CASE Recorded(h, outcome) /\ Entitled(Operation(h))
  <2>1. PICK o \in Operations : o = Operation(h)
    BY ServedFields DEF Settlement
  <2>2. KeyOf[o] \in Keys /\ o /= None
    BY DEF IngressConstants
  <2>3. \A k \in Keys : RecordedNow'[k] = IF k = KeyOf[o] THEN o ELSE RecordedNow[k]
    BY <1>3, <2>1, <2>2 DEF Recorded, RecordsKept, RecordedNow
  <2>4. RecordedNow' = [RecordedNow EXCEPT ![KeyOf[o]] = o]
    BY <2>3 DEF RecordedNow
  <2>5. RecordedNow[KeyOf[o]] = None
    BY <1>3, <2>1, <2>2 DEF Recorded, RecordedNow
  <2>6. Entitled(o)
    BY <1>3, <2>1
  <2>7. Promise!Record(o)
    BY <1>1, <2>4, <2>5, <2>6, EntitledRecording
  <2> QED BY <2>7 DEF Promise!Next
<1> QED BY <1>2, <1>3 DEF Settlement, Told, Repeated

\* The mutation checks again what was read before.
LEMMA RecordedOnlyIfEntitled ==
    ASSUME IngressConstants, CommandTypeOK, WireSound, HandlersSound, NEW h \in Handlers,
           AdmitCommand(h) \/ AttachCandidate(h)
    PROVE  Entitled(Operation(h)) \/ UNCHANGED records
<1> DEFINE o == Operation(h)
<1>1. handlers[h] /= None /\ handlers[h].step = "AUTHORISED"
  BY DEF AdmitCommand, AttachCandidate
<1>2. Nonce(h) \in Nonces /\ signed[Nonce(h)] = o /\ handlers[h].identity \in Identities
  BY <1>1, ServedFields DEF Operation, WireSound
<1>3. CASE AttachCandidate(h)
  BY <1>1, <1>2, <1>3 DEF AttachCandidate, HandlersSound, ParentRead, Entitled
<1>4. CASE AdmitCommand(h) /\ Unexpired(o, now) /\ StillAuthorised(o, handlers[h].identity)
  <2>1. KindOf[o] /= "ATTACH"
    BY <1>4 DEF AdmitCommand
  <2>2. \/ RowAdmits(o) /\ MayCommand(o, "AUTHORITY")
        \/ AccountAdmits(o) /\ MayCommand(o, "SELF_SERVICE")
    BY <1>2, <1>4 DEF StillAuthorised, Identities
  <2>3. now <= Expires(o)
    BY <1>4 DEF Unexpired
  <2> QED BY <1>2, <2>1, <2>2, <2>3 DEF Entitled
<1>5. CASE AdmitCommand(h) /\ ~(Unexpired(o, now) /\ StillAuthorised(o, handlers[h].identity))
  BY <1>5 DEF AdmitCommand
<1> QED BY <1>3, <1>4, <1>5

\* A dialog shows nothing, "unknown", or what the record bears out.
LEMMA DialogTold ==
    ASSUME IngressConstants, CommandTypeOK, NEW o \in Operations, NEW phase, NEW nonce,
           NEW outcome \in Outcomes \cup {"unknown", None},
           ShowOn(o, phase, nonce, outcome), UNCHANGED records,
           outcome = "ACCEPTED" => records[KeyOf[o]] /= None /\ records[KeyOf[o]].operation = o,
           outcome \in {"REPLAYED", "CONFLICT"} => records[KeyOf[o]] /= None
    PROVE  Promise!Next
<1>1. KeyOf[o] \in Keys /\ None \notin Operations /\ None \notin Outcomes
  BY Commands DEF IngressConstants
<1>2. ToldNow' = [ToldNow EXCEPT ![o] = outcome]
  BY DEF ShowOn, ToldNow, CommandTypeOK, Dialog
<1>3. RecordedNow' = RecordedNow
  BY DEF RecordedNow
<1>4. Promise!Truthful(o, outcome)
  <2>1. outcome = "ACCEPTED" => RecordedNow[KeyOf[o]] = o
    BY <1>1 DEF RecordedNow
  <2>2. outcome \in {"REPLAYED", "CONFLICT"} => RecordedNow[KeyOf[o]] /= None
    BY <1>1, RecordFields DEF RecordedNow
  <2> QED BY <2>1, <2>2 DEF Promise!Truthful, RecordedNow
<1>5. Promise!Tell(o, outcome)
  BY <1>2, <1>3, <1>4 DEF Promise!Tell, RecordedNow, ToldNow
<1> QED BY <1>5 DEF Promise!Next, Outcomes

LEMMA PromiseStep ==
    ToolConstants /\ IngressConstants /\ ChannelInv /\ [IngressNext]_ingressVars
      => [Promise!Next]_(Promise!promiseVars)
<1> SUFFICES ASSUME ToolConstants, IngressConstants, ChannelInv, [IngressNext]_ingressVars
             PROVE  [Promise!Next]_(Promise!promiseVars)
  OBVIOUS
<1> USE DEF ChannelInv
<1>0. CommandTypeOK /\ WireSound /\ RecordsSound /\ HandlersSound /\ CandidatesAttached /\ SpentSound
  BY DEF ChannelSound, RecordsSound
<1>1. ASSUME UNCHANGED <<dialogs, records>> PROVE Promise!Next
  BY <1>1 DEF Promise!Next, Promise!Meanwhile
<1>2. ASSUME NEW o \in Operations, PageStep(o) PROVE Promise!Next
  <2>0. None \notin {"ACCEPTED", "REPLAYED", "CONFLICT"}
    BY DEF IngressConstants, Outcomes
  <2>1. CASE AskWallet(o) \/ GiveUp(o) \/ SignCommand(o)
    <3>1. UNCHANGED records /\ \E phase, nonce : ShowOn(o, phase, nonce, None)
      <4>1. CASE AskWallet(o)
        BY <4>1 DEF AskWallet, durableVars
      <4>2. CASE GiveUp(o)
        BY <4>2 DEF GiveUp, durableVars
      <4>3. CASE SignCommand(o)
        BY <4>3 DEF SignCommand, durableVars
      <4> QED BY <2>1, <4>1, <4>2, <4>3
    <3>2. PICK phase, nonce : ShowOn(o, phase, nonce, None)
      BY <3>1
    <3> QED BY <1>0, <2>0, <3>1, <3>2, DialogTold
  <2>3. CASE LoseOutcome(o)
    BY <1>0, <2>3, DialogTold DEF LoseOutcome, durableVars, IngressConstants
  <2>5. CASE Prepare(o)
    BY <1>1, <2>5 DEF Prepare, durableVars
  <2> QED BY <1>2, <2>1, <2>3, <2>5 DEF PageStep
<1>3. ASSUME NEW h \in Handlers, HandlerStep(h) PROVE Promise!Next
  <2>1. CASE AdmitCommand(h) \/ AttachCandidate(h)
    <3>1. PICK outcome \in Outcomes : Settlement(h, outcome)
      BY <1>0, <2>1, AdmissionSettles, AttachmentSettles
    <3> QED BY <1>0, <2>1, <3>1, RecordedOnlyIfEntitled, SettlementKeepsPromise
  <2>2. CASE Answer(h)
    <3>1. /\ handlers[h] /= None /\ handlers[h].step = "ANSWERED"
          /\ Operation(h) \in Operations /\ handlers[h].outcome \in Outcomes
          /\ UNCHANGED records
      BY <1>0, <2>2, ServedFields DEF Answer, WireSound, durableVars
    <3>2. CASE UNCHANGED dialogs
      BY <1>1, <3>1, <3>2
    <3>3. CASE ShowOn(Operation(h), Settled(handlers[h].outcome), Nonce(h), handlers[h].outcome)
      <4>1. TruthfulAnswer(h)
        BY <1>0 DEF HandlersSound
      <4> QED BY <1>0, <3>1, <3>3, <4>1, DialogTold DEF TruthfulAnswer
    <3> QED BY <2>2, <3>2, <3>3 DEF Answer
  <2>3. CASE ReadAuthority(h) \/ Vanish(h) \/ \E e \in EnvelopeIds : ReceiveEnvelope(h, e)
    BY <1>1, <2>3 DEF ReadAuthority, Vanish, ReceiveEnvelope, pageVars, durableVars
  <2> QED BY <1>3, <2>1, <2>2, <2>3 DEF HandlerStep
<1>4. ASSUME NEW n \in Nonces, RelayPost(n) PROVE Promise!Next
  BY <1>1, <1>4 DEF RelayPost, pageVars, durableVars
<1>5. CASE Tick
  BY <1>1, <1>5 DEF Tick, pageVars, durableVars
<1>6. CASE MemberStep /\ UNCHANGED <<now, pageVars, wireVars, durableVars>>
  BY <1>1, <1>6 DEF pageVars, durableVars
<1>7. CASE UNCHANGED ingressVars
  <2>1. UNCHANGED <<dialogs, records>>
    BY <1>7 DEF ingressVars, pageVars, durableVars
  <2> QED BY <1>1, <2>1
<1> QED BY <1>2, <1>3, <1>4, <1>5, <1>6, <1>7 DEF IngressNext

\* Every history of the channel is a history of its promise: an operation is
\* recorded once, while its signer is entitled to it, and what a page is told
\* of it is true.
THEOREM KeepsCommandPromiseHolds == IngressSpec => KeepsCommandPromise
  BY ToolConstants, IngressConstants, ChannelInvariant, PromiseInit, PromiseStep, PTL
  DEF IngressSpec, KeepsCommandPromise, Promise!Spec

-----------------------------------------------------------------------------
(* Session calls                                                           *)

\* The results about BackingIntents, for the intents of the session.
Quota == INSTANCE BackingIntentsProofs WITH
    Keys <- PostIds, Backers <- Signers, Addresses <- Signers \cup {"treasury"},
    Offerings <- {Offering}, LegacyOffering <- "riskscan",
    RecipientOf <- [o \in {Offering} |-> "treasury"], TermSheets <- {OfferedTerms},
    SeededBackers <- {}, EnabledAtStart <- TRUE, MaxLifetime <- IntentLifetime,
    MaxTime <- LastTime, now <- clock,
    MaxOperatorSteps <- 0, operatorSteps <- 0, selfServiceEnabled <- selfService,
    backerAuthority <- [s \in Signers |-> FALSE],
    offerings <- [o \in {Offering} |-> [state |-> "OPEN", terms |-> OfferedTerms]]

LEMMA QuotaConstants == Quota!IntentConstants
  BY SessionConstants
  DEF SessionConstants, Intents!IntentConstants, Quota!IntentConstants,
      Intents!IsFiniteSet, Quota!IsFiniteSet, Intents!TermSheet, Quota!TermSheet,
      Intents!Intent, Quota!Intent

\* SessionIngress and the proofs speak of the same intents.
LEMMA SameQuotas ==
    /\ PendingQuota <=> Quota!PendingQuota
    /\ HourlyQuota <=> Quota!HourlyQuota
    /\ PendingQuota' <=> Quota!PendingQuota'
    /\ HourlyQuota' <=> Quota!HourlyQuota'
<1> USE DEF Intents!Cardinality, Quota!Cardinality,
            Intents!SelfServiceIntents, Quota!SelfServiceIntents
<1>1. PendingQuota <=> Quota!PendingQuota
  BY DEF PendingQuota, Intents!PendingQuota, Quota!PendingQuota, Intents!Live, Quota!Live
<1>2. HourlyQuota <=> Quota!HourlyQuota
  BY DEF HourlyQuota, Intents!HourlyQuota, Quota!HourlyQuota, Intents!Window, Quota!Window,
         Intents!IntentsInWindow, Quota!IntentsInWindow, Intents!Windows, Quota!Windows
<1>3. PendingQuota' <=> Quota!PendingQuota'
  BY DEF PendingQuota, Intents!PendingQuota, Quota!PendingQuota, Intents!Live, Quota!Live
<1>4. HourlyQuota' <=> Quota!HourlyQuota'
  BY DEF HourlyQuota, Intents!HourlyQuota, Quota!HourlyQuota, Intents!Window, Quota!Window,
         Intents!IntentsInWindow, Quota!IntentsInWindow, Intents!Windows, Quota!Windows
<1> QED BY <1>1, <1>2, <1>3, <1>4

LEMMA SameFreeze ==
    ASSUME NEW k \in PostIds, NEW s \in Signers, NEW u, NEW e,
           Intents!FreezeBackingIntent(k, s, Offering, u, e)
    PROVE  Quota!FreezeBackingIntent(k, s, Offering, u, e)
  BY DEF Intents!FreezeBackingIntent, Quota!FreezeBackingIntent,
         Intents!MayReserveNewBackingPayment, Quota!MayReserveNewBackingPayment,
         Intents!ActiveAccount, Quota!ActiveAccount, Intents!WithinQuota, Quota!WithinQuota,
         Intents!PendingOf, Quota!PendingOf, Intents!Live, Quota!Live,
         Intents!Window, Quota!Window, Intents!FrozenIntent, Quota!FrozenIntent,
         Intents!Cardinality, Quota!Cardinality, Intents!policyVars, Quota!policyVars

LEMMA SameTypes ==
    /\ SessionTypeOK => Quota!TypeOK
    /\ SessionTypeOK' => Quota!TypeOK'
<1> USE QuotaConstants
    DEF SessionTypeOK, ToolTypeOK, Quota!TypeOK, AccountStatus, Quota!AccountStatus,
        Intents!Intent, Quota!Intent, Intents!Windows, Quota!Windows, Quota!Time,
        Quota!IntentConstants
<1>1. SessionTypeOK => Quota!TypeOK
  OBVIOUS
<1>2. SessionTypeOK' => Quota!TypeOK'
  OBVIOUS
<1> QED BY <1>1, <1>2

\* A handler works on a post that was signed; its call is of the kind it has
\* come to.
ServedPosts ==
    \A p \in PostIds :
       /\ serving[p] /= "NONE" => posts[p] /= None
       /\ serving[p] = "ENSURED" => posts[p].call.kind = "backing_intent"

SessionInv ==
    /\ SessionTypeOK
    /\ ServedPosts
    /\ OneToolPerRequest /\ ToolQuota
    /\ PendingQuota /\ HourlyQuota

\* What of the backend a step that provisions, admits or waits leaves alone.
LEMMA RowsKept ==
    ASSUME SessionInv, SessionTypeOK', ServedPosts',
           UNCHANGED <<tools, intents, rateLimits>>, clock <= clock'
    PROVE  SessionInv'
<1>1. OneToolPerRequest' /\ ToolQuota'
  BY SameTools DEF SessionInv
<1>2. Quota!TypeOK /\ Quota!TypeOK' /\ Quota!PendingQuota /\ Quota!HourlyQuota
  BY SameTypes, SameQuotas DEF SessionInv
<1>3. UNCHANGED Quota!intentVars
  BY DEF Quota!intentVars
<1>4. Quota!PendingQuota' /\ Quota!HourlyQuota'
  BY <1>2, <1>3, QuotaConstants, Quota!PendingKept, Quota!HourlyKept
<1> QED BY <1>1, <1>4, SameQuotas DEF SessionInv

LEMMA TimeForward ==
    ASSUME SessionTypeOK, UNCHANGED clock
    PROVE  clock <= clock'
  BY SessionConstants DEF SessionConstants, SessionTypeOK

-----------------------------------------------------------------------------
(* The steps of a call                                                     *)

LEMMA ServedPost ==
    ASSUME SessionInv, NEW p \in PostIds, serving[p] /= "NONE"
    PROVE  posts[p] \in Assertion /\ posts[p].signer \in Signers /\ posts[p].call \in Calls
  BY DEF SessionInv, ServedPosts, SessionTypeOK, Assertion

\* The web server signs under a nonce it has not used.
LEMMA ForwardKeeps ==
    ASSUME SessionInv, NEW s \in Signers, NEW call \in Calls, NEW drift \in Drifts,
           ForwardAssertion(s, call, drift)
    PROVE  SessionInv'
<1>1. PICK p \in PostIds :
        /\ posts[p] = None
        /\ posts' = [posts EXCEPT ![p] = [signer |-> s, call |-> call, stamp |-> clock + drift,
                                          sessionExpiresAt |-> sessions[s]]]
  BY DEF ForwardAssertion
<1>2. clock \in Int /\ drift \in Int /\ sessions[s] \in Int
  BY SessionConstants DEF SessionConstants, SessionInv, SessionTypeOK, ForwardAssertion
<1>3. [signer |-> s, call |-> call, stamp |-> clock + drift,
       sessionExpiresAt |-> sessions[s]] \in Assertion
  BY <1>2 DEF Assertion
<1>4. SessionTypeOK'
  BY <1>1, <1>3 DEF ForwardAssertion, SessionInv, SessionTypeOK, ToolTypeOK, toolVars, memberVars
<1>5. ServedPosts'
  BY <1>1, <1>3, SessionConstants
  DEF ForwardAssertion, SessionInv, ServedPosts, SessionTypeOK, SessionConstants
<1> QED
  BY <1>4, <1>5, RowsKept, TimeForward DEF ForwardAssertion, SessionInv, toolVars

\* A handler goes on to a step that its post allows.
LEMMA Advanced ==
    ASSUME SessionInv, NEW p \in PostIds, NEW step \in Steps, Advance(p, step),
           UNCHANGED posts, posts[p] /= None,
           step = "ENSURED" => posts[p].call.kind = "backing_intent"
    PROVE  serving' \in [PostIds -> Steps] /\ ServedPosts'
  BY DEF Advance, SessionInv, SessionTypeOK, ServedPosts

LEMMA ReceiveKeeps ==
    ASSUME SessionInv, NEW p \in PostIds, ReceivePost(p)
    PROVE  SessionInv'
<1>1. serving' \in [PostIds -> Steps] /\ ServedPosts'
  BY Advanced DEF ReceivePost, Steps
<1>2. SessionTypeOK'
  BY <1>1 DEF ReceivePost, SessionInv, SessionTypeOK, ToolTypeOK, toolVars, memberVars
<1> QED BY <1>1, <1>2, RowsKept, TimeForward DEF ReceivePost, SessionInv, toolVars

LEMMA AbandonKeeps ==
    ASSUME SessionInv, NEW p \in PostIds, Abandon(p)
    PROVE  SessionInv'
<1>1. serving' \in [PostIds -> Steps] /\ ServedPosts'
  BY Advanced DEF Abandon, Steps, SessionInv, ServedPosts
<1>2. SessionTypeOK'
  BY <1>1 DEF Abandon, SessionInv, SessionTypeOK, ToolTypeOK, toolVars, memberVars
<1> QED BY <1>1, <1>2, RowsKept, TimeForward DEF Abandon, SessionInv, toolVars

LEMMA EnsureKeeps ==
    ASSUME SessionInv, NEW p \in PostIds, EnsureSelfService(p)
    PROVE  SessionInv'
<1>1. posts[p] /= None /\ posts[p].signer \in Signers
  BY ServedPost DEF EnsureSelfService, SessionInv, ServedPosts
<1>2. serving' \in [PostIds -> Steps] /\ ServedPosts'
  BY <1>1, Advanced DEF EnsureSelfService, Steps
<1>3. accounts' \in [Signers -> AccountStatus]
  BY <1>1 DEF EnsureSelfService, EnsuredStatus, SessionInv, SessionTypeOK, ToolTypeOK, AccountStatus
<1>4. SessionTypeOK'
  BY <1>2, <1>3 DEF EnsureSelfService, SessionInv, SessionTypeOK, ToolTypeOK
<1> QED BY <1>2, <1>4, RowsKept, TimeForward DEF EnsureSelfService, SessionInv

\* An allocation touches the tools alone, and they keep their own promises.
LEMMA AllocateKeeps ==
    ASSUME SessionInv, NEW p \in PostIds, Allocate(p)
    PROVE  SessionInv'
<1> DEFINE s == posts[p].signer
           r == posts[p].call.request
<1>1. posts[p] /= None /\ s \in Signers /\ posts[p].call \in Calls
  BY ServedPost DEF Allocate, SessionInv, ServedPosts
<1>2. r \in Requests
  BY <1>1 DEF Calls, Allocate
<1>3. AllocateForIssuer(s, r)
  BY DEF Allocate
<1>4. ToolTypeOK' /\ OneToolPerRequest' /\ ToolQuota'
  <2> HIDE DEF s, r
  <2> QED
    BY <1>1, <1>2, <1>3, ToolConstants, AllocationType, AllocationOnce, AllocationWithinQuota
    DEF SessionInv, SessionTypeOK
<1>5. serving' \in [PostIds -> Steps] /\ ServedPosts'
  BY <1>1, Advanced DEF Allocate, Steps
<1>6. SessionTypeOK'
  BY <1>4, <1>5 DEF Allocate, SessionInv, SessionTypeOK
<1>7. Quota!PendingQuota' /\ Quota!HourlyQuota'
  <2>1. Quota!TypeOK /\ Quota!TypeOK' /\ Quota!PendingQuota /\ Quota!HourlyQuota
    BY <1>6, SameTypes, SameQuotas DEF SessionInv
  <2>2. UNCHANGED Quota!intentVars /\ clock <= clock'
    BY TimeForward DEF Quota!intentVars, Allocate, SessionInv
  <2> QED BY <2>1, <2>2, QuotaConstants, Quota!PendingKept, Quota!HourlyKept
<1> QED BY <1>4, <1>5, <1>6, <1>7, SameQuotas DEF SessionInv

\* A preparation is one of BackingIntents, whatever ran since its account was
\* provisioned.
LEMMA FreezeKeeps ==
    ASSUME SessionInv, NEW p \in PostIds, FreezeIntent(p)
    PROVE  SessionInv'
<1> DEFINE s == posts[p].signer
           u == OfferedTerms.minimum
           e == posts[p].stamp + IntentLifetime
<1>1. posts[p] /= None /\ s \in Signers /\ posts[p] \in Assertion
  BY ServedPost DEF FreezeIntent, SessionInv, ServedPosts
<1>2. Intents!FreezeBackingIntent(p, s, Offering, u, e)
  BY DEF FreezeIntent
<1>3. u \in Nat
  BY QuotaConstants DEF Quota!IntentConstants, Quota!TermSheet
<1>4. e \in Nat
  <2>1. clock \in Nat /\ e \in Int
    BY <1>1, SessionConstants DEF SessionConstants, SessionInv, SessionTypeOK, Assertion
  <2>2. clock < e
    BY <1>2 DEF Intents!FreezeBackingIntent
  <2> QED BY <2>1, <2>2
<1> HIDE DEF s, u, e
<1>5. Quota!FreezeBackingIntent(p, s, Offering, u, e)
  BY <1>1, <1>2, SameFreeze
<1>6. Quota!TypeOK /\ Quota!PendingQuota /\ Quota!HourlyQuota
  BY SameTypes, SameQuotas DEF SessionInv
<1>7. Quota!PendingQuota' /\ Quota!HourlyQuota'
  BY <1>1, <1>3, <1>4, <1>5, <1>6, QuotaConstants, Quota!PendingFreeze, Quota!HourlyFreeze
<1>8. UNCHANGED <<toolVars, clock, sessions, posts>>
  BY <1>2 DEF Intents!FreezeBackingIntent, Intents!policyVars, FreezeIntent, toolVars, memberVars
<1>9. serving' \in [PostIds -> Steps] /\ ServedPosts'
  BY <1>1, <1>8, Advanced DEF FreezeIntent, Steps
<1>10. intents' \in [PostIds -> Intents!Intent \cup {None}]
       /\ rateLimits' \in [Signers -> [Intents!Windows -> Nat]]
  <2>1. Quota!TypeOK'
    BY <1>1, <1>3, <1>4, <1>5, <1>6, QuotaConstants, Quota!FreezeType
  <2> QED
    BY <2>1 DEF Quota!TypeOK, Intents!Intent, Quota!Intent, Intents!Windows, Quota!Windows
<1>11. SessionTypeOK'
  BY <1>8, <1>9, <1>10 DEF SessionInv, SessionTypeOK, ToolTypeOK, toolVars, memberVars
<1>12. OneToolPerRequest' /\ ToolQuota'
  BY <1>8, SameTools DEF SessionInv, toolVars
<1> QED BY <1>7, <1>9, <1>11, <1>12, SameQuotas DEF SessionInv

-----------------------------------------------------------------------------
(* The invariant                                                           *)

LEMMA SessionInvInit == SessionInit => SessionInv
<1> SUFFICES ASSUME SessionInit PROVE SessionInv
  OBVIOUS
<1>1. ToolTypeOK /\ OneToolPerRequest /\ ToolQuota
  BY ToolConstants, ToolInvInit DEF SessionInit, ToolInv
<1>2. SessionTypeOK
  BY <1>1, SessionConstants DEF SessionConstants, SessionInit, SessionTypeOK, Steps
<1>3. ServedPosts
  BY DEF SessionInit, ServedPosts
<1>4. Quota!PendingQuota /\ Quota!HourlyQuota
  BY QuotaConstants, Quota!NothingCounted
  DEF SessionInit, Quota!NothingPrepared, Intents!Windows, Quota!Windows
<1> QED BY <1>1, <1>2, <1>3, <1>4, SameQuotas DEF SessionInv

LEMMA SessionInvStep == SessionInv /\ [SessionNext]_sessionVars => SessionInv'
<1> SUFFICES ASSUME SessionInv, [SessionNext]_sessionVars PROVE SessionInv'
  OBVIOUS
<1> DEFINE Quiet == UNCHANGED <<tools, serverVars, intents, rateLimits>>
<1>0. ASSUME Quiet PROVE serving' \in [PostIds -> Steps] /\ ServedPosts'
  BY <1>0 DEF serverVars, SessionInv, SessionTypeOK, ServedPosts
<1>1. ASSUME NEW s \in Signers, SignIn(s) \/ SignOut(s) PROVE SessionInv'
  <2>1. sessions' \in [Signers -> Int \cup {None}]
    <3>1. clock + SessionLength \in Int
      BY SessionConstants DEF SessionConstants, SessionInv, SessionTypeOK
    <3> QED BY <1>1, <3>1 DEF SignIn, SignOut, SessionInv, SessionTypeOK
  <2>2. SessionTypeOK'
    BY <1>1, <2>1 DEF SignIn, SignOut, SessionInv, SessionTypeOK, ToolTypeOK, toolVars, memberVars, serverVars
  <2> QED
    BY <1>0, <1>1, <2>2, RowsKept, TimeForward DEF SignIn, SignOut, SessionInv, toolVars
<1>2. CASE Operate
  <2>1. MemberStep \/ FlipSelfService
    BY <1>2 DEF Operate, MemberStep
  <2>2. ToolTypeOK' /\ UNCHANGED tools
    <3>1. CASE FlipSelfService
      BY <3>1 DEF FlipSelfService, SessionInv, SessionTypeOK, ToolTypeOK
    <3> QED BY <2>1, <3>1, ToolConstants, MembershipType DEF SessionInv, SessionTypeOK
  <2>3. SessionTypeOK'
    BY <1>2, <2>2 DEF Operate, serverVars, SessionInv, SessionTypeOK
  <2> QED BY <1>0, <1>2, <2>2, <2>3, RowsKept, TimeForward DEF Operate, SessionInv
<1>3. CASE Elapse
  <2>1. clock' \in 0 .. LastTime /\ clock <= clock'
    BY <1>3, SessionConstants DEF SessionConstants, Elapse, SessionInv, SessionTypeOK
  <2>2. SessionTypeOK'
    BY <1>3, <2>1 DEF Elapse, serverVars, SessionInv, SessionTypeOK, ToolTypeOK, toolVars, memberVars
  <2> QED BY <1>0, <1>3, <2>1, <2>2, RowsKept DEF Elapse, SessionInv, toolVars
<1>4. CASE UNCHANGED sessionVars
  <2>1. SessionTypeOK'
    BY <1>4 DEF sessionVars, serverVars, SessionInv, SessionTypeOK, ToolTypeOK, toolVars, memberVars
  <2> QED BY <1>0, <1>4, <2>1, RowsKept, TimeForward DEF sessionVars, toolVars, SessionInv
<1> QED
  BY <1>1, <1>2, <1>3, <1>4, ForwardKeeps, ReceiveKeeps, EnsureKeeps, AllocateKeeps,
     FreezeKeeps, AbandonKeeps DEF SessionNext

\* The inductive invariant of the calls of signed-in dashboards.
THEOREM SessionInvariant == SessionSpec => []SessionInv
  BY SessionInvInit, SessionInvStep, PTL DEF SessionSpec

\* Whoever uses a dashboard for its calls or for its wizard makes them so.
LEMMA SiteMakesCalls == SiteSpec => SessionSpec
<1>1. SiteInit => SessionInit
  BY DEF SiteInit
<1>2. [SiteNext]_siteVars => [SessionNext]_sessionVars
  BY DEF SiteNext, siteVars
<1> QED BY <1>1, <1>2, PTL DEF SiteSpec, SessionSpec

\* However many posts are repeated, late, cut short between their
\* transactions or overtaken, no signer passes a quota: tools, unexpired
\* intents, intents of the hour.
THEOREM QuotasHold == SiteSpec => []Quotas
<1>1. SessionInv => Quotas
  BY DEF SessionInv, Quotas
<1> QED BY <1>1, SiteMakesCalls, SessionInvariant, PTL

\* A repeated allocation never makes a second tool.
THEOREM SessionOneToolHolds == SiteSpec => []OneToolPerRequest
<1>1. SessionInv => OneToolPerRequest
  BY DEF SessionInv
<1> QED BY <1>1, SiteMakesCalls, SessionInvariant, PTL

\* No step of a handler changes an account that exists: what an operator
\* suspended stays suspended.
THEOREM EnsureNeverRevivesHolds == SiteSpec => EnsureNeverRevives
<1> DEFINE Untouched == serving' /= serving =>
             \A s \in Signers : accounts[s] /= "ABSENT" => accounts'[s] = accounts[s]
<1>1. ASSUME SessionInv, [SessionNext]_sessionVars PROVE [Untouched]_sessionVars
  <2> SUFFICES ASSUME SessionNext, serving' /= serving, NEW s \in Signers,
                      accounts[s] /= "ABSENT"
               PROVE  accounts'[s] = accounts[s]
    BY <1>1
  <2>1. PICK p \in PostIds :
          ReceivePost(p) \/ EnsureSelfService(p) \/ Allocate(p) \/ FreezeIntent(p) \/ Abandon(p)
    BY DEF SessionNext, SignIn, SignOut, ForwardAssertion, Operate, Elapse, serverVars
  <2>2. CASE EnsureSelfService(p)
    BY <1>1, <2>2 DEF EnsureSelfService, EnsuredStatus, SessionInv, SessionTypeOK, ToolTypeOK
  <2>3. CASE Allocate(p)
    BY <2>3 DEF Allocate, AllocateForIssuer, memberVars
  <2>4. CASE FreezeIntent(p)
    BY <2>4 DEF FreezeIntent, Intents!FreezeBackingIntent, Intents!policyVars
  <2>5. CASE ReceivePost(p) \/ Abandon(p)
    BY <2>5 DEF ReceivePost, Abandon, toolVars, memberVars
  <2> QED BY <2>1, <2>2, <2>3, <2>4, <2>5
<1> QED BY <1>1, SiteMakesCalls, SessionInvariant, PTL DEF SessionSpec, EnsureNeverRevives

(***************************************************************************)
(* The deploy wizard                                                       *)
(***************************************************************************)

Shown == Deployed \cup {Legacy}
Attempts == Nat \cup Shown \cup {None}
Request == [id : Nat, stage : 0 .. 3, target : Shown, attempt : Attempts]
Load == [target : Shown, address : Accounts \cup {None}, cancelled : BOOLEAN]
Flow == [id : Nat, stage : 0 .. 3, target : Shown, attempt : Attempts,
         signer : Accounts \cup {None}, same : BOOLEAN,
         outcome : Deploy!Outcomes \cup {"signing"}]
ResultKinds == {"none", "done", "actionable", "recheck", "rejected", "replayed",
                "unavailable", "unknown"}

ServerTypes ==
    /\ record \in [Shown -> 0 .. 4]
    /\ owner \in [Shown -> Accounts \cup {None}]
    /\ preparedAttempts \in [Shown -> Attempts]
    /\ attached \in [Shown -> BOOLEAN]

PageTypes ==
    /\ target \in Shown /\ page \in 0 .. 4 /\ address \in Accounts \cup {None}
    /\ loads \in SUBSET Load /\ flows \in SUBSET Flow
    /\ deployment \in {None} \cup 0 .. 4
    /\ results \in [0 .. 3 -> ResultKinds]
    /\ attempt \in Attempts /\ asked \in Nat /\ late \in BOOLEAN

\* A stage three can only be reached with a candidate, and it stays.
ReadyAttached == \A t \in Shown : record[t] >= 3 => attached[t]

StageRecorded(t, s) == record[t] > s

\* What the server has of a stage it accepted; the candidate of a tool need
\* not be corroborated yet.
StageAccepted(t, s) == IF s = 2 /\ t /= Legacy THEN attached[t] ELSE record[t] > s

\* What is shown as done is.
DoneRecorded == ~late => \A s \in 0 .. 3 : results[s] = "done" => StageRecorded(target, s)

\* A session reads the record of the target it shows.
LoadsCurrent == \A l \in loads : ~l.cancelled => l.target = target

\* The last page is reached by acknowledging the terms or from the record.
ReviewReached == page = 4 => acknowledged \/ record[target] >= 1

\* The dialog belongs to the target shown and covers the page.
RequestShown ==
    request /= None =>
       /\ request \in Request /\ request.id <= asked
       /\ request.target = target /\ page = 4 /\ address /= None
       /\ ~late /\ request.stage > 0 => StageRecorded(target, request.stage - 1)

\* A signature under way is of the request that was shown, and the server
\* answers ACCEPTED only for what it has recorded.
FlowsTruthful ==
    \A f \in flows :
       /\ f.id <= asked
       /\ request /= None /\ f.id = request.id => f.target = request.target /\ f.stage = request.stage
       /\ f.outcome = "ACCEPTED" => StageAccepted(f.target, f.stage)

WizardInv ==
    /\ ServerTypes /\ PageTypes
    /\ ReadyAttached /\ DoneRecorded /\ LoadsCurrent /\ ReviewReached
    /\ RequestShown /\ FlowsTruthful

-----------------------------------------------------------------------------
(* Steps of the page                                                       *)

\* A step that moves no more than the page.
LEMMA PageMoves ==
    ASSUME WizardInv,
           UNCHANGED <<record, owner, preparedAttempts, attached, target, address, loads,
                       deployment, results, attempt, request, flows, asked, late>>,
           page' \in 0 .. 4, request = None \/ page' = page, ReviewReached'
    PROVE  WizardInv'
<1>1. ServerTypes' /\ PageTypes' /\ ReadyAttached'
  BY DEF WizardInv, ServerTypes, PageTypes, ReadyAttached
<1>2. DoneRecorded' /\ LoadsCurrent'
  BY DEF WizardInv, DoneRecorded, StageRecorded, LoadsCurrent
<1>3. RequestShown' /\ FlowsTruthful'
  BY DEF WizardInv, RequestShown, StageRecorded, FlowsTruthful, StageAccepted
<1> QED BY <1>1, <1>2, <1>3 DEF WizardInv

\* Signatures under way are some of those before, as they were.
FlowsKept ==
    /\ flows' \in SUBSET Flow
    /\ \A f \in flows' : \E g \in flows :
          /\ f.id = g.id /\ f.stage = g.stage
          /\ f.target = g.target /\ f.outcome = g.outcome

\* A session of the page starts again, from nothing.
LEMMA Restarted ==
    ASSUME WizardInv, NEW account \in Accounts \cup {None}, NEW t \in Shown,
           Deploy!Restart(account, t), address' = account, target' = t,
           UNCHANGED <<record, owner, preparedAttempts, attached, asked>>,
           late' \in BOOLEAN, page' \in 0 .. 4, ReviewReached', FlowsKept
    PROVE  WizardInv'
<1>1. /\ loads' = {[l EXCEPT !.cancelled = TRUE] : l \in loads} \cup
                     (IF account = None THEN {}
                      ELSE {[target |-> t, address |-> account, cancelled |-> FALSE]})
      /\ results' = [s \in 0 .. 3 |-> "none"]
      /\ attempt' = None /\ deployment' = None /\ request' = None
  BY DEF Deploy!Restart, Deploy!NoResults, Deploy!Stages
<1>2. loads' \in SUBSET Load /\ LoadsCurrent'
  <2>1. \A l \in loads : [l EXCEPT !.cancelled = TRUE] \in Load
                         /\ [l EXCEPT !.cancelled = TRUE].cancelled
    BY DEF WizardInv, PageTypes, Load
  <2>2. [target |-> t, address |-> account, cancelled |-> FALSE] \in Load
    BY DEF Load
  <2>3. ASSUME NEW l \in loads' PROVE l \in Load /\ (~l.cancelled => l.target = t)
    <3>1. CASE \E m \in loads : l = [m EXCEPT !.cancelled = TRUE]
      BY <2>1, <3>1
    <3>2. CASE l = [target |-> t, address |-> account, cancelled |-> FALSE]
      BY <2>2, <3>2
    <3> QED BY <1>1, <2>3, <3>1, <3>2
  <2> QED BY <2>3 DEF LoadsCurrent
<1>3. ServerTypes' /\ ReadyAttached'
  BY DEF WizardInv, ServerTypes, ReadyAttached
<1>4. results' \in [0 .. 3 -> ResultKinds] /\ DoneRecorded'
  BY <1>1 DEF DoneRecorded, ResultKinds
<1>5. PageTypes'
  BY <1>1, <1>2, <1>4 DEF WizardInv, PageTypes, Attempts, FlowsKept
<1>6. RequestShown'
  BY <1>1 DEF RequestShown
<1>7. FlowsTruthful'
  BY <1>1 DEF WizardInv, FlowsTruthful, StageAccepted, FlowsKept
<1> QED BY <1>2, <1>3, <1>4, <1>5, <1>6, <1>7 DEF WizardInv

LEMMA SameFlows == PageTypes /\ UNCHANGED flows => FlowsKept
  BY DEF PageTypes, FlowsKept

LEMMA EditKeeps ==
    ASSUME WizardInv, Deploy!Edit \/ Deploy!Acknowledge \/ Deploy!MoveForward
                        \/ \E p \in 0 .. 4 : Deploy!ReturnToStep(p)
    PROVE  WizardInv'
<1>1. page \in 0 .. 4
  BY DEF WizardInv, PageTypes
<1>2. request = None
  <2> SUFFICES ASSUME request /= None PROVE FALSE
    OBVIOUS
  <2>1. Deploy!Modal
    BY DEF WizardInv, RequestShown, Deploy!Modal, Deploy!Review
  <2> QED
    BY <2>1 DEF Deploy!Edit, Deploy!Acknowledge, Deploy!MoveForward, Deploy!ReturnToStep
<1>3. UNCHANGED <<record, owner, preparedAttempts, attached, target, address, loads,
                  deployment, results, attempt, request, flows, asked, late>>
  BY DEF Deploy!Edit, Deploy!Acknowledge, Deploy!MoveForward, Deploy!ReturnToStep,
         Deploy!serverVars, Deploy!signVars
<1>4. page' \in 0 .. 4 /\ ReviewReached'
  <2>1. CASE Deploy!Edit
    BY <1>1, <2>1 DEF Deploy!Edit, Deploy!serverVars, WizardInv, ReviewReached
  <2>2. CASE Deploy!Acknowledge
    BY <1>1, <2>2 DEF Deploy!Acknowledge, ReviewReached
  <2>3. CASE Deploy!MoveForward
    BY <1>1, <2>3 DEF Deploy!MoveForward, Deploy!Review, Deploy!CanAdvance, ReviewReached
  <2>4. ASSUME NEW p \in 0 .. 4, Deploy!ReturnToStep(p) PROVE page' \in 0 .. 4 /\ ReviewReached'
    BY <1>1, <2>4 DEF Deploy!ReturnToStep, ReviewReached
  <2> QED BY <2>1, <2>2, <2>3, <2>4
<1> QED BY <1>2, <1>3, <1>4, PageMoves

LEMMA WaitKeeps ==
    ASSUME WizardInv, Deploy!CompleteDirectoryRecord \/ Deploy!ActivateRecheck
                        \/ Deploy!ReceiveCandidate
    PROVE  WizardInv'
<1>1. UNCHANGED <<record, owner, preparedAttempts, attached, target, page, acknowledged, address,
                  loads, deployment, results, attempt, request, flows, asked, late>>
  BY DEF Deploy!CompleteDirectoryRecord, Deploy!ActivateRecheck, Deploy!ReceiveCandidate,
         Deploy!serverVars, Deploy!wizardVars
<1>2. page' \in 0 .. 4 /\ ReviewReached'
  BY <1>1 DEF WizardInv, PageTypes, ReviewReached
<1> QED BY <1>1, <1>2, PageMoves

\* A change of the wallet reaches the signatures under way only as one.
LEMMA MovedFlows ==
    ASSUME WizardInv, NEW account, flows' = Deploy!Moved(account)
    PROVE  FlowsKept
<1>1. \A f \in flows : f \in Flow
  BY DEF WizardInv, PageTypes
<1>2. \A f \in flows : LET g == [f EXCEPT !.same = FALSE] IN
         g \in Flow /\ g.id = f.id /\ g.stage = f.stage /\ g.target = f.target
           /\ g.outcome = f.outcome
  BY <1>1 DEF Flow
<1>3. \A g \in flows' : \E f \in flows : g = f \/ g = [f EXCEPT !.same = FALSE]
  BY DEF Deploy!Moved
<1> QED BY <1>1, <1>2, <1>3 DEF FlowsKept

LEMMA ChangeWalletKeeps ==
    ASSUME WizardInv, NEW account \in Accounts \cup {None}, Deploy!ChangeWallet(account)
    PROVE  WizardInv'
<1>1. UNCHANGED <<record, owner, preparedAttempts, attached, target, page, acknowledged, asked, late>>
      /\ address' = account /\ Deploy!Restart(account, target) /\ flows' = Deploy!Moved(account)
  BY DEF Deploy!ChangeWallet, Deploy!serverVars, Deploy!wizardVars
<1>2. FlowsKept
  BY <1>1, MovedFlows
<1>3. target \in Shown /\ late' \in BOOLEAN /\ page' \in 0 .. 4 /\ ReviewReached'
  BY <1>1 DEF WizardInv, PageTypes, ReviewReached
<1> QED BY <1>1, <1>2, <1>3, Restarted

LEMMA RenewWalletKeeps == WizardInv /\ Deploy!RenewWallet => WizardInv'
<1> SUFFICES ASSUME WizardInv, Deploy!RenewWallet PROVE WizardInv'
  OBVIOUS
<1>1. UNCHANGED <<record, owner, preparedAttempts, attached, target, page, acknowledged, address,
                  loads, deployment, results, attempt, request, asked, late>>
      /\ flows' = Deploy!Moved(address)
  BY DEF Deploy!RenewWallet, Deploy!serverVars, Deploy!wizardVars
<1>2. FlowsKept
  BY <1>1, MovedFlows
<1>3. ServerTypes' /\ PageTypes' /\ ReadyAttached'
  BY <1>1, <1>2 DEF WizardInv, ServerTypes, PageTypes, ReadyAttached, FlowsKept
<1>4. DoneRecorded' /\ LoadsCurrent' /\ ReviewReached' /\ RequestShown'
  BY <1>1 DEF WizardInv, DoneRecorded, StageRecorded, LoadsCurrent, ReviewReached, RequestShown
<1>5. FlowsTruthful'
  BY <1>1, <1>2 DEF WizardInv, FlowsTruthful, StageAccepted, FlowsKept
<1> QED BY <1>3, <1>4, <1>5 DEF WizardInv

LEMMA ShowTargetKeeps ==
    ASSUME WizardInv, NEW t \in Shown, Deploy!ShowTarget(t)
    PROVE  WizardInv'
<1>1. UNCHANGED <<record, owner, preparedAttempts, attached, address, flows, asked, late>>
      /\ target' = t /\ page' = 0 /\ Deploy!Restart(address, t)
  BY DEF Deploy!ShowTarget, Deploy!PageAfter, Deploy!serverVars
<1>2. address \in Accounts \cup {None} /\ late' \in BOOLEAN /\ page' \in 0 .. 4
      /\ ReviewReached' /\ FlowsKept
  BY <1>1, SameFlows DEF WizardInv, PageTypes, ReviewReached
<1> QED BY <1>1, <1>2, Restarted

LEMMA RecheckedKeeps ==
    ASSUME WizardInv, NEW t, NEW answered \in BOOLEAN, Deploy!Rechecked(t, answered)
    PROVE  WizardInv'
<1>1. UNCHANGED <<record, owner, preparedAttempts, attached, target, page, acknowledged, address,
                  flows, asked, late>>
  BY DEF Deploy!Rechecked, Deploy!serverVars, Deploy!wizardVars
<1>2. page' \in 0 .. 4 /\ ReviewReached' /\ FlowsKept /\ late' \in BOOLEAN
      /\ address \in Accounts \cup {None} /\ target \in Shown
  BY <1>1, SameFlows DEF WizardInv, PageTypes, ReviewReached
<1>3. CASE answered
  <2>1. Deploy!Restart(address, target)
    BY <1>3 DEF Deploy!Rechecked
  <2> QED BY <1>1, <1>2, <2>1, Restarted
<1>4. CASE ~answered
  <2>1. UNCHANGED <<loads, deployment, results, attempt, request>>
    BY <1>4 DEF Deploy!Rechecked
  <2> QED BY <1>1, <1>2, <2>1, PageMoves
<1> QED BY <1>3, <1>4

-----------------------------------------------------------------------------
(* What the page reads                                                     *)

\* What an answer shows of the record it read.
LEMMA LoadedShows ==
    ASSUME WizardInv, NEW l \in loads, ~l.cancelled,
           IF l.target = Legacy THEN Deploy!ResumeLegacy(l)
           ELSE Deploy!ResumeTool(Deploy!ToolDeployment(l.target))
    PROVE  /\ results' \in [0 .. 3 -> ResultKinds] /\ attempt' \in Attempts
           /\ deployment' \in {None} \cup 0 .. 4
           /\ page' \in 0 .. 4
           /\ page' = 4 => page = 4 \/ record[target] >= 1
           /\ page = 4 => page' = 4
           /\ \/ UNCHANGED results
              \/ \A s \in 0 .. 3 : results'[s] = "done" => StageRecorded(target, s)
<1>1. l.target = target /\ target \in Shown /\ page \in 0 .. 4
  BY DEF WizardInv, PageTypes, LoadsCurrent
<1>2. record[target] \in 0 .. 4 /\ preparedAttempts[target] \in Attempts
      /\ (record[target] >= 3 => attached[target]) /\ attached[target] \in BOOLEAN
  BY <1>1 DEF WizardInv, ServerTypes, ReadyAttached
<1>3. ASSUME NEW n \in 0 .. 4
      PROVE  /\ Deploy!Recovered(n) \in [0 .. 3 -> ResultKinds]
             /\ \A s \in 0 .. 3 : Deploy!Recovered(n)[s] = "done" <=> s < n
  BY DEF Deploy!Recovered, Deploy!Stages, ResultKinds
<1>4. CASE l.target = Legacy /\ Deploy!Resumable(l)
  <2>1. record[target] \in {2, 3} /\ target = Legacy
    BY <1>1, <1>4 DEF Deploy!Resumable
  <2>2. results' = Deploy!Recovered(record[target]) /\ page' = 4 /\ UNCHANGED deployment
        /\ attempt' \in {preparedAttempts[target], attempt}
    BY <1>4, <2>1 DEF Deploy!ResumeLegacy, Deploy!Review
  <2>3. \A s \in 0 .. 3 : results'[s] = "done" => StageRecorded(target, s)
    BY <1>2, <1>3, <2>1, <2>2 DEF StageRecorded
  <2>4. attempt' \in Attempts /\ deployment' \in {None} \cup 0 .. 4
    BY <1>2, <2>2 DEF WizardInv, PageTypes
  <2>5. results' \in [0 .. 3 -> ResultKinds]
    BY <1>2, <1>3, <2>2
  <2> QED BY <1>1, <2>1, <2>2, <2>3, <2>4, <2>5
<1>5. CASE l.target = Legacy /\ ~Deploy!Resumable(l)
  BY <1>1, <1>5 DEF Deploy!ResumeLegacy, WizardInv, PageTypes
<1>6. CASE l.target /= Legacy
  <2> DEFINE waits == record[target] = 2 /\ attached[target]
  <2>1. /\ results' = IF waits THEN [Deploy!Recovered(2) EXCEPT ![2] = "recheck"]
                      ELSE Deploy!Recovered(record[target])
        /\ deployment' = record[target]
        /\ attempt' = IF record[target] = 2 THEN preparedAttempts[target] ELSE None
        /\ page' = IF record[target] = 0 THEN page ELSE 4
    BY <1>1, <1>6 DEF Deploy!ResumeTool, Deploy!ToolDeployment, Deploy!Review
  <2>2. results' \in [0 .. 3 -> ResultKinds]
        /\ \A s \in 0 .. 3 : results'[s] = "done" => record[target] > s
    <3>1. CASE waits
      BY <1>3, <2>1, <3>1 DEF ResultKinds
    <3>2. CASE ~waits
      BY <1>2, <1>3, <2>1, <3>2
    <3> QED BY <3>1, <3>2
  <2>3. \A s \in 0 .. 3 : results'[s] = "done" => StageRecorded(target, s)
    BY <1>1, <1>6, <2>2 DEF StageRecorded
  <2> QED BY <1>1, <1>2, <2>1, <2>2, <2>3 DEF Attempts
<1> QED BY <1>4, <1>5, <1>6

LEMMA LoadedKeeps ==
    ASSUME WizardInv, NEW l \in loads, Deploy!Loaded(l)
    PROVE  WizardInv'
<1>1. UNCHANGED <<record, owner, preparedAttempts, attached, target, acknowledged, address,
                  request, flows, asked, late>>
      /\ loads' = loads \ {l}
  BY DEF Deploy!Loaded, Deploy!serverVars
<1>2. LoadsCurrent' /\ loads' \in SUBSET Load
  BY <1>1 DEF WizardInv, LoadsCurrent, PageTypes
<1>3. ServerTypes' /\ ReadyAttached'
  BY <1>1 DEF WizardInv, ServerTypes, ReadyAttached
<1>4. /\ results' \in [0 .. 3 -> ResultKinds] /\ attempt' \in Attempts
      /\ deployment' \in {None} \cup 0 .. 4
      /\ page' \in 0 .. 4
      /\ page' = 4 => page = 4 \/ record[target] >= 1
      /\ page = 4 => page' = 4
      /\ \/ UNCHANGED results
         \/ \A s \in 0 .. 3 : results'[s] = "done" => StageRecorded(target, s)
  <2>1. CASE l.cancelled
    BY <2>1 DEF Deploy!Loaded, Deploy!Current, WizardInv, PageTypes
  <2>2. CASE ~l.cancelled
    <3>1. IF l.target = Legacy THEN Deploy!ResumeLegacy(l)
          ELSE Deploy!ResumeTool(Deploy!ToolDeployment(l.target))
      BY <2>2 DEF Deploy!Loaded, Deploy!Current
    <3> QED BY <2>2, <3>1, LoadedShows
  <2> QED BY <2>1, <2>2
<1>5. PageTypes'
  BY <1>1, <1>2, <1>4 DEF WizardInv, PageTypes
<1>6. DoneRecorded' /\ ReviewReached'
  BY <1>1, <1>4 DEF WizardInv, DoneRecorded, StageRecorded, ReviewReached
<1>7. RequestShown' /\ FlowsTruthful'
  BY <1>1, <1>4 DEF WizardInv, RequestShown, StageRecorded, FlowsTruthful, StageAccepted
<1> QED BY <1>2, <1>3, <1>5, <1>6, <1>7 DEF WizardInv

LEMMA LoadFailedKeeps ==
    ASSUME WizardInv, NEW l \in loads, Deploy!LoadFailed(l)
    PROVE  WizardInv'
<1>1. UNCHANGED <<record, owner, preparedAttempts, attached, target, page, acknowledged, address,
                  deployment, results, attempt, request, flows, asked, late>>
      /\ loads' = loads \ {l}
  BY DEF Deploy!LoadFailed, Deploy!serverVars, Deploy!wizardVars
<1>2. ServerTypes' /\ PageTypes' /\ ReadyAttached' /\ LoadsCurrent'
  BY <1>1 DEF WizardInv, ServerTypes, PageTypes, ReadyAttached, LoadsCurrent
<1>3. DoneRecorded' /\ ReviewReached' /\ RequestShown' /\ FlowsTruthful'
  BY <1>1 DEF WizardInv, DoneRecorded, ReviewReached, RequestShown, FlowsTruthful, StageAccepted, StageRecorded
<1> QED BY <1>2, <1>3 DEF WizardInv

-----------------------------------------------------------------------------
(* Signing a stage                                                         *)

\* A stage that can go on follows one that is shown as done.
LEMMA StageFollows ==
    ASSUME WizardInv, NEW s \in 0 .. 3, Deploy!StageControl(s)
    PROVE  address /= None /\ (s > 0 => results[s - 1] = "done")
<1>1. address /= None
  BY DEF Deploy!StageControl, Deploy!StageEnabled
<1>2. ASSUME s > 0 PROVE results[s - 1] = "done"
  <2>1. s - 1 \in 0 .. 3
    BY <1>2
  <2>2. Deploy!StageStates[s - 1] = "done"
    <3>1. Deploy!StageStates[s] \in {"actionable", "recheck"}
      BY DEF Deploy!StageControl, Deploy!StageEnabled, Deploy!FirstActionable
    <3> QED BY <1>2, <3>1 DEF Deploy!StageControl, Deploy!Ordered
  <2>3. ASSUME NEW result, NEW before, Deploy!SessionStage(result, before) = "done"
        PROVE  result = "done"
    BY <2>3 DEF Deploy!SessionStage
  <2>4. ASSUME NEW i \in 0 .. 3, Deploy!StageStates[i] = "done" PROVE results[i] = "done"
    <3> DEFINE first == Deploy!SessionStage(results[0], "done")
               second == IF Deploy!Projected THEN Deploy!SessionStage(results[1], first)
                         ELSE "unavailable"
               third == IF candidate \/ results[2] /= "none"
                        THEN Deploy!SessionStage(results[2], second) ELSE "unavailable"
               fourth == IF complete THEN Deploy!SessionStage(results[3], third)
                         ELSE "unavailable"
    <3>1. Deploy!StageStates
            = [k \in 0 .. 3 |-> CASE k = 0 -> first [] k = 1 -> second
                                  [] k = 2 -> third [] k = 3 -> fourth]
      BY <1>1 DEF Deploy!StageStates, Deploy!Stages
    <3>2. /\ first = "done" => results[0] = "done"
          /\ second = "done" => results[1] = "done"
          /\ third = "done" => results[2] = "done"
          /\ fourth = "done" => results[3] = "done"
      BY <2>3
    <3> HIDE DEF first, second, third, fourth
    <3>3. i = 0 \/ i = 1 \/ i = 2 \/ i = 3
      OBVIOUS
    <3> QED BY <2>4, <3>1, <3>2, <3>3
  <2> QED BY <2>1, <2>2, <2>4
<1> QED BY <1>1, <1>2

LEMMA ActivateKeeps ==
    ASSUME WizardInv, NEW s \in 0 .. 3, Deploy!Activate(s)
    PROVE  WizardInv'
<1>1. /\ UNCHANGED <<record, owner, preparedAttempts, attached, target, page, acknowledged,
                     address, loads, deployment, results, attempt, flows, late>>
      /\ page = 4 /\ asked' = asked + 1
      /\ request' = [id |-> asked + 1, stage |-> s, target |-> target,
                     attempt |-> IF s = 2 THEN attempt ELSE None]
  BY DEF Deploy!Activate, Deploy!SignedRequest, Deploy!Review, Deploy!serverVars,
         Deploy!wizardVars
<1>2. address /= None /\ (s > 0 => results[s - 1] = "done")
  BY StageFollows DEF Deploy!Activate
<1>3. asked \in Nat /\ attempt \in Attempts /\ target \in Shown
  BY DEF WizardInv, PageTypes
<1>4. request' \in Request
  BY <1>1, <1>3 DEF Request, Attempts
<1>5. ServerTypes' /\ PageTypes' /\ ReadyAttached' /\ LoadsCurrent'
  BY <1>1, <1>3 DEF WizardInv, ServerTypes, PageTypes, ReadyAttached, LoadsCurrent
<1>6. DoneRecorded' /\ ReviewReached'
  BY <1>1 DEF WizardInv, DoneRecorded, ReviewReached, StageRecorded
<1>7. RequestShown'
  <2>1. ~late /\ s > 0 => StageRecorded(target, s - 1)
    BY <1>2 DEF WizardInv, DoneRecorded
  <2> QED BY <1>1, <1>2, <1>3, <1>4, <2>1 DEF RequestShown, StageRecorded
<1>8. FlowsTruthful'
  <2>1. ASSUME NEW f \in flows PROVE f.id <= asked + 1 /\ f.id /= asked + 1
    BY <1>3 DEF WizardInv, FlowsTruthful, StageAccepted, PageTypes, Flow
  <2> QED BY <1>1, <2>1 DEF WizardInv, FlowsTruthful, StageAccepted
<1> QED BY <1>5, <1>6, <1>7, <1>8 DEF WizardInv

LEMMA SignKeeps ==
    ASSUME WizardInv, Deploy!Sign
    PROVE  WizardInv'
<1> DEFINE new == [id |-> request.id, stage |-> request.stage, target |-> request.target,
                   attempt |-> request.attempt, signer |-> address, same |-> TRUE,
                   outcome |-> "signing"]
<1>1. /\ UNCHANGED <<record, owner, preparedAttempts, attached, target, page, acknowledged,
                     address, loads, deployment, results, attempt, request, asked, late>>
      /\ flows' = flows \cup {new} /\ request /= None
  BY DEF Deploy!Sign, Deploy!Modal, Deploy!serverVars, Deploy!wizardVars, Deploy!signVars
<1>2. request \in Request /\ request.id <= asked /\ address \in Accounts \cup {None}
  BY <1>1 DEF WizardInv, RequestShown, PageTypes
<1>3. new \in Flow
  BY <1>2 DEF Request, Flow
<1>4. ServerTypes' /\ PageTypes' /\ ReadyAttached' /\ LoadsCurrent'
  BY <1>1, <1>3 DEF WizardInv, ServerTypes, PageTypes, ReadyAttached, LoadsCurrent
<1>5. DoneRecorded' /\ ReviewReached' /\ RequestShown'
  BY <1>1 DEF WizardInv, DoneRecorded, ReviewReached, RequestShown, StageRecorded
<1>6. FlowsTruthful'
  <2>1. new.id = request.id /\ new.target = request.target /\ new.stage = request.stage
        /\ new.outcome /= "ACCEPTED"
    OBVIOUS
  <2> HIDE DEF new
  <2> QED BY <1>1, <1>2, <2>1 DEF WizardInv, FlowsTruthful, StageAccepted
<1> QED BY <1>4, <1>5, <1>6 DEF WizardInv

-----------------------------------------------------------------------------
(* The end of a signature                                                  *)

\* What a result shows as done is recorded, if it answers the request shown.
Answers(f) ==
    /\ f.stage \in 0 .. 3 /\ f.target \in Shown /\ f.id \in Nat
    /\ f.outcome \in (Deploy!Outcomes \cup {"declined"})
    /\ f.outcome = "ACCEPTED" => StageAccepted(f.target, f.stage)
    /\ request /= None /\ f.id = request.id => f.target = request.target /\ f.stage = request.stage

LEMMA ResultShown ==
    ASSUME NEW f, f.stage \in 0 .. 3, f.outcome \in (Deploy!Outcomes \cup {"declined"})
    PROVE  /\ Deploy!AfterResult(f) \in ResultKinds
           /\ Deploy!AfterResult(f) = "done" =>
                 f.outcome = "ACCEPTED" /\ (f.stage = 2 => f.target = Legacy)
<1>1. f.outcome \in {"ACCEPTED", "REJECTED", "REPLAYED", "not_configured", "transport_failure",
                     "declined"}
  BY DEF Deploy!Outcomes
<1>2. Deploy!StageKind(f.outcome) \in ResultKinds
      /\ (Deploy!StageKind(f.outcome) = "done" => f.outcome = "ACCEPTED")
  BY <1>1 DEF Deploy!StageKind, ResultKinds
<1> QED BY <1>1, <1>2 DEF Deploy!AfterResult, ResultKinds

LEMMA FinishKeeps ==
    ASSUME WizardInv, NEW f, Answers(f), Deploy!Finish(f), FlowsKept,
           UNCHANGED <<record, owner, preparedAttempts, attached, target, page, acknowledged,
                       address, asked>>
    PROVE  WizardInv'
<1>1. target \in Shown /\ address \in Accounts \cup {None} /\ page' \in 0 .. 4 /\ ReviewReached'
  BY DEF WizardInv, PageTypes, ReviewReached
<1>2. ServerTypes' /\ ReadyAttached'
  BY DEF WizardInv, ServerTypes, ReadyAttached
<1>3. CASE ~active
  <2>1. UNCHANGED <<loads, deployment, results, attempt, request, late>>
    BY <1>3 DEF Deploy!Finish
  <2>2. PageTypes' /\ LoadsCurrent' /\ DoneRecorded' /\ RequestShown'
    BY <2>1 DEF WizardInv, PageTypes, FlowsKept, LoadsCurrent, DoneRecorded, RequestShown, StageRecorded
  <2>3. FlowsTruthful'
    BY <2>1 DEF WizardInv, FlowsTruthful, StageAccepted, FlowsKept
  <2> QED BY <1>1, <1>2, <2>2, <2>3 DEF WizardInv
<1>4. CASE active
  <2>1. late' = (late \/ request = None \/ f.id /= request.id)
    BY <1>4 DEF Deploy!Finish
  <2>2. late' \in BOOLEAN
    BY <2>1 DEF WizardInv, PageTypes
  <2>3. CASE Deploy!Restart(address, target)
    BY <1>1, <2>2, <2>3, Restarted
  <2>4. CASE /\ results' = [results EXCEPT ![f.stage] = Deploy!AfterResult(f)]
             /\ attempt' = IF f.stage = 1 /\ f.outcome = "ACCEPTED" THEN f.id ELSE attempt
             /\ request' = None
             /\ UNCHANGED <<loads, deployment>>
    <3>1. results' \in [0 .. 3 -> ResultKinds] /\ attempt' \in Attempts
      BY <2>4, ResultShown DEF Answers, WizardInv, PageTypes, Attempts
    <3>2. PageTypes' /\ LoadsCurrent' /\ RequestShown'
      BY <2>2, <2>4, <3>1 DEF WizardInv, PageTypes, FlowsKept, LoadsCurrent, RequestShown
    <3>3. FlowsTruthful'
      BY <2>4 DEF WizardInv, FlowsTruthful, StageAccepted, FlowsKept
    <3>4. DoneRecorded'
      <4> SUFFICES ASSUME ~late', NEW s \in 0 .. 3, results'[s] = "done"
                   PROVE  StageRecorded(target, s)
        BY DEF DoneRecorded, StageRecorded
      <4>1. ~late /\ request /= None /\ f.id = request.id
        BY <2>1
      <4>2. CASE s = f.stage
        <5>1. Deploy!AfterResult(f) = "done"
          BY <2>4, <4>2 DEF WizardInv, PageTypes
        <5>2. f.outcome = "ACCEPTED" /\ (f.stage = 2 => f.target = Legacy)
          BY <5>1, ResultShown DEF Answers
        <5>3. f.target = target
          BY <4>1 DEF Answers, WizardInv, RequestShown
        <5> QED BY <4>2, <5>2, <5>3 DEF Answers, StageRecorded, StageAccepted
      <4>3. CASE s /= f.stage
        <5>1. results[s] = "done"
          BY <2>4, <4>3 DEF WizardInv, PageTypes
        <5> QED BY <4>1, <5>1 DEF WizardInv, DoneRecorded
      <4> QED BY <4>2, <4>3
    <3> QED BY <1>1, <1>2, <3>2, <3>3, <3>4 DEF WizardInv
  <2> QED BY <1>4, <2>3, <2>4 DEF Deploy!Finish
<1> QED BY <1>3, <1>4

\* A signature that ends leaves the others as they were.
LEMMA OneLess ==
    ASSUME WizardInv, NEW f, flows' = flows \ {f}
    PROVE  FlowsKept
  BY DEF WizardInv, PageTypes, FlowsKept

LEMMA CancelKeeps ==
    ASSUME WizardInv, Deploy!Cancel
    PROVE  WizardInv'
<1> DEFINE f == [id |-> request.id, stage |-> request.stage, target |-> request.target,
                 outcome |-> "declined"]
<1>1. /\ UNCHANGED <<record, owner, preparedAttempts, attached, target, page, acknowledged,
                     address, flows, asked>>
      /\ Deploy!Finish(f) /\ request /= None
  BY DEF Deploy!Cancel, Deploy!Modal, Deploy!serverVars, Deploy!wizardVars
<1>2. request \in Request
  BY <1>1 DEF WizardInv, RequestShown
<1>3. Answers(f)
  BY <1>2 DEF Answers, Request
<1>4. FlowsKept
  BY <1>1, SameFlows DEF WizardInv
<1> HIDE DEF f
<1> QED BY <1>1, <1>3, <1>4, FinishKeeps

LEMMA UnsignedKeeps ==
    ASSUME WizardInv, NEW f \in flows, Deploy!Unsigned(f)
    PROVE  WizardInv'
<1> DEFINE g == [f EXCEPT !.outcome = "declined"]
<1>1. /\ UNCHANGED <<record, owner, preparedAttempts, attached, target, page, acknowledged,
                     address, asked>>
      /\ Deploy!Finish(g) /\ flows' = flows \ {f}
  BY DEF Deploy!Unsigned, Deploy!serverVars, Deploy!wizardVars
<1>2. f \in Flow
  BY DEF WizardInv, PageTypes
<1>3. g.id = f.id /\ g.stage = f.stage /\ g.target = f.target /\ g.outcome = "declined"
  BY <1>2 DEF Flow
<1> HIDE DEF g
<1>4. Answers(g)
  BY <1>2, <1>3 DEF Answers, Flow, WizardInv, FlowsTruthful, StageAccepted
<1> QED BY <1>1, <1>4, OneLess, FinishKeeps

LEMMA RelayedKeeps ==
    ASSUME WizardInv, NEW f \in flows, Deploy!Relayed(f)
    PROVE  WizardInv'
<1>1. /\ UNCHANGED <<record, owner, preparedAttempts, attached, target, page, acknowledged,
                     address, asked>>
      /\ Deploy!Finish(f) /\ flows' = flows \ {f} /\ f.outcome /= "signing"
  BY DEF Deploy!Relayed, Deploy!serverVars, Deploy!wizardVars
<1>2. f \in Flow
  BY DEF WizardInv, PageTypes
<1>3. Answers(f)
  BY <1>1, <1>2 DEF Answers, Flow, WizardInv, FlowsTruthful, StageAccepted
<1> QED BY <1>1, <1>3, OneLess, FinishKeeps

-----------------------------------------------------------------------------
(* What the server records                                                 *)

\* The server only goes forward.
LEMMA ServerMoves ==
    ASSUME WizardInv, ServerTypes', ReadyAttached',
           \A t \in Shown : record'[t] >= record[t] /\ (attached[t] => attached'[t]),
           UNCHANGED <<target, page, acknowledged, address, loads, deployment, results, attempt,
                       request, asked, late>>,
           flows' \in SUBSET Flow, FlowsTruthful'
    PROVE  WizardInv'
<1>1. \A t \in Shown : record[t] \in 0 .. 4 /\ record'[t] \in 0 .. 4
  BY DEF WizardInv, ServerTypes
<1>2. ASSUME NEW t \in Shown, NEW s \in 0 .. 3, StageRecorded(t, s) PROVE StageRecorded(t, s)'
  BY <1>1, <1>2 DEF StageRecorded
<1>3. PageTypes' /\ LoadsCurrent' /\ target \in Shown
  BY DEF WizardInv, PageTypes, LoadsCurrent
<1>4. DoneRecorded'
  BY <1>2, <1>3 DEF WizardInv, DoneRecorded
<1>5. ReviewReached'
  BY <1>1, <1>3 DEF WizardInv, ReviewReached
<1>6. RequestShown'
  <2>1. request /= None /\ request.stage > 0 => request.stage - 1 \in 0 .. 3
    BY DEF WizardInv, RequestShown, Request
  <2> QED BY <1>2, <1>3, <2>1 DEF WizardInv, RequestShown
<1> QED BY <1>3, <1>4, <1>5, <1>6 DEF WizardInv

\* A stage that is reached leaves the others as they were.
LEMMA Reached ==
    ASSUME WizardInv, NEW t \in Shown, NEW m, NEW n \in 0 .. 4, Deploy!Reach(t, m, n)
    PROVE  /\ record' \in [Shown -> 0 .. 4] /\ record[t] = m
           /\ \A u \in Shown : record'[u] = IF u = t THEN n ELSE record[u]
  BY DEF Deploy!Reach, WizardInv, ServerTypes

LEMMA AdmitMoves ==
    ASSUME WizardInv, NEW f \in Flow, Deploy!Admit(f)
    PROVE  /\ ServerTypes' /\ ReadyAttached'
           /\ \A t \in Shown : record'[t] >= record[t] /\ (attached[t] => attached'[t])
           /\ StageAccepted(f.target, f.stage)'
<1>0. f.target \in Shown /\ f.id \in Nat /\ f.signer \in Accounts \cup {None}
  BY DEF Flow
<1> USE DEF WizardInv, ServerTypes, ReadyAttached, StageAccepted
<1>1. CASE f.stage = 0 /\ Deploy!RecordDraft(f.target, f.signer)
  <2>1. Deploy!Reach(f.target, 0, 1) /\ owner' = [owner EXCEPT ![f.target] = f.signer]
        /\ UNCHANGED <<preparedAttempts, attached>>
    BY <1>1 DEF Deploy!RecordDraft
  <2> QED BY <1>0, <1>1, <2>1, Reached
<1>2. CASE f.stage = 1 /\ Deploy!RecordAttempt(f.target, f.id)
  <2>1. Deploy!Reach(f.target, 1, 2)
        /\ preparedAttempts' = [preparedAttempts EXCEPT ![f.target] = f.id]
        /\ UNCHANGED <<owner, attached>>
    BY <1>2 DEF Deploy!RecordAttempt
  <2>2. preparedAttempts' \in [Shown -> Attempts]
    BY <1>0, <2>1 DEF Attempts
  <2> QED BY <1>0, <1>2, <2>1, <2>2, Reached
<1>3. CASE f.stage = 2 /\ Deploy!RecordCandidate(f.target)
  <2>1. /\ record[f.target] = 2
        /\ record' = IF f.target = Legacy THEN [record EXCEPT ![f.target] = 3] ELSE record
        /\ attached' = [attached EXCEPT ![f.target] = TRUE]
        /\ UNCHANGED <<owner, preparedAttempts>>
    BY <1>3 DEF Deploy!RecordCandidate
  <2> QED BY <1>0, <1>3, <2>1
<1>4. CASE f.stage = 3 /\ Deploy!RecordListing(f.target)
  <2>1. Deploy!Reach(f.target, 3, 4) /\ UNCHANGED <<owner, preparedAttempts, attached>>
    BY <1>4 DEF Deploy!RecordListing
  <2> QED BY <1>0, <1>4, <2>1, Reached
<1>5. CASE f.stage = 2 /\ Deploy!RecordAsset(f.target)
  <2>1. /\ Deploy!Reach(f.target, 2, 3) /\ attached[f.target]
        /\ UNCHANGED <<owner, preparedAttempts, attached>>
    BY <1>5 DEF Deploy!RecordAsset
  <2> QED BY <1>0, <1>5, <2>1, Reached
<1> QED BY <1>1, <1>2, <1>3, <1>4, <1>5 DEF Deploy!Admit

LEMMA RelayKeeps ==
    ASSUME WizardInv, NEW f \in flows, NEW outcome \in Deploy!Outcomes, Deploy!Relay(f, outcome)
    PROVE  WizardInv'
<1> DEFINE g == [f EXCEPT !.outcome = outcome]
<1>1. UNCHANGED <<target, page, acknowledged, address, loads, deployment, results, attempt,
                  request, asked, late>>
      /\ flows' = (flows \ {f}) \cup {g}
  BY DEF Deploy!Relay, Deploy!wizardVars, Deploy!signVars
<1>2. f \in Flow
  BY DEF WizardInv, PageTypes
<1>3. g \in Flow /\ g.id = f.id /\ g.stage = f.stage /\ g.target = f.target /\ g.outcome = outcome
  BY <1>2 DEF Flow
<1>4. /\ ServerTypes' /\ ReadyAttached'
      /\ \A t \in Shown : record'[t] >= record[t] /\ (attached[t] => attached'[t])
      /\ outcome = "ACCEPTED" => StageAccepted(f.target, f.stage)'
  <2>1. CASE Deploy!Admit(f)
    BY <1>2, <2>1, AdmitMoves
  <2>2. CASE outcome /= "ACCEPTED" /\ UNCHANGED Deploy!serverVars
    BY <2>2 DEF Deploy!serverVars, WizardInv, ServerTypes, ReadyAttached
  <2> QED BY <2>1, <2>2 DEF Deploy!Relay
<1> HIDE DEF g
<1>5. flows' \in SUBSET Flow
  BY <1>1, <1>3 DEF WizardInv, PageTypes
<1>6. FlowsTruthful'
  <2> SUFFICES ASSUME NEW h \in flows'
               PROVE  /\ h.id <= asked
                      /\ request /= None /\ h.id = request.id =>
                            h.target = request.target /\ h.stage = request.stage
                      /\ h.outcome = "ACCEPTED" => StageAccepted(h.target, h.stage)'
    BY <1>1 DEF FlowsTruthful, StageAccepted
  <2>1. CASE h = g
    BY <1>2, <1>3, <1>4, <2>1 DEF WizardInv, FlowsTruthful, StageAccepted
  <2>2. CASE h \in flows
    <3>1. h.target \in Shown /\ h.stage \in 0 .. 3
      BY <2>2 DEF WizardInv, PageTypes, Flow
    <3>2. record[h.target] \in 0 .. 4 /\ record'[h.target] \in 0 .. 4
      BY <1>4, <3>1 DEF WizardInv, ServerTypes
    <3> QED BY <1>4, <2>2, <3>1, <3>2 DEF WizardInv, FlowsTruthful, StageAccepted
  <2> QED BY <1>1, <2>1, <2>2
<1> QED BY <1>1, <1>4, <1>5, <1>6, ServerMoves

LEMMA CorroborateKeeps ==
    ASSUME WizardInv, NEW t \in Shown, Deploy!Corroborate(t)
    PROVE  WizardInv'
<1>1. /\ UNCHANGED <<owner, preparedAttempts, attached, target, page, acknowledged, address, loads,
                     deployment, results, attempt, request, flows, asked, late>>
      /\ attached[t] /\ Deploy!Reach(t, 2, 3)
  BY DEF Deploy!Corroborate, Deploy!RecordAsset, Deploy!wizardVars, Deploy!signVars
<1>2. /\ record' \in [Shown -> 0 .. 4] /\ record[t] = 2
      /\ \A u \in Shown : record[u] \in 0 .. 4 /\ record'[u] = IF u = t THEN 3 ELSE record[u]
  BY <1>1, Reached DEF WizardInv, ServerTypes
<1>3. ServerTypes' /\ ReadyAttached' /\ \A u \in Shown : record'[u] >= record[u]
  BY <1>1, <1>2 DEF WizardInv, ServerTypes, ReadyAttached
<1>4. flows' \in SUBSET Flow /\ FlowsTruthful'
  <2>1. \A f \in flows : f.target \in Shown /\ f.stage \in 0 .. 3
    BY DEF WizardInv, PageTypes, Flow
  <2> QED BY <1>1, <1>2, <2>1 DEF WizardInv, PageTypes, FlowsTruthful, StageAccepted
<1> QED BY <1>1, <1>3, <1>4, ServerMoves

-----------------------------------------------------------------------------
(* The invariant                                                           *)

LEMMA WizardInvInit == Deploy!DeployInit => WizardInv
<1> SUFFICES ASSUME Deploy!DeployInit PROVE WizardInv
  OBVIOUS
<1> USE DEF Deploy!DeployInit, Deploy!Targets
<1>1. ServerTypes
  <2>1. record \in [Shown -> 0 .. 3] /\ owner \in [Shown -> Accounts \cup {None}]
        /\ attached \in [Shown -> BOOLEAN]
    BY DEF Shown
  <2>2. preparedAttempts \in [Shown -> Attempts]
    BY DEF Shown, Attempts
  <2> QED BY <2>1, <2>2 DEF ServerTypes
<1>2. PageTypes
  <2>1. target \in Shown /\ page \in 0 .. 4 /\ address \in Accounts \cup {None}
    BY DEF Shown
  <2>2. loads \in SUBSET Load /\ flows \in SUBSET Flow /\ deployment \in {None} \cup 0 .. 4
    OBVIOUS
  <2>3. results \in [0 .. 3 -> ResultKinds] /\ attempt \in Attempts /\ asked \in Nat
    BY DEF Deploy!NoResults, Deploy!Stages, ResultKinds, Attempts
  <2> QED BY <2>1, <2>2, <2>3 DEF PageTypes
<1>3. ReadyAttached
  <2> SUFFICES ASSUME NEW t \in Shown, record[t] >= 3 PROVE attached[t]
    BY DEF ReadyAttached
  <2> QED BY DEF Deploy!WellRecorded, Shown
<1>4. DoneRecorded /\ LoadsCurrent /\ ReviewReached /\ RequestShown /\ FlowsTruthful
  BY DEF DoneRecorded, LoadsCurrent, ReviewReached, RequestShown, FlowsTruthful, StageAccepted,
         Deploy!NoResults, Deploy!Stages
<1> QED BY <1>1, <1>2, <1>3, <1>4 DEF WizardInv

LEMMA WizardInvStep == WizardInv /\ [Deploy!DeployNext]_wizardVars => WizardInv'
<1> SUFFICES ASSUME WizardInv, [Deploy!DeployNext]_wizardVars PROVE WizardInv'
  OBVIOUS
<1>1. CASE UNCHANGED wizardVars
  <2>1. UNCHANGED <<record, owner, preparedAttempts, attached, target, page, acknowledged, address,
                    loads, deployment, results, attempt, request, flows, asked, late>>
    BY <1>1 DEF wizardVars
  <2>2. page' \in 0 .. 4 /\ ReviewReached'
    BY <2>1 DEF WizardInv, PageTypes, ReviewReached
  <2> QED BY <2>1, <2>2, PageMoves
<1>2. CASE Deploy!DeployNext
  <2> USE DEF Deploy!Targets, Deploy!Pages, Deploy!Stages, Shown
  <2>1. CASE \/ Deploy!Edit \/ Deploy!Acknowledge \/ Deploy!MoveForward
             \/ \E p \in 0 .. 4 : Deploy!ReturnToStep(p)
    BY <2>1, EditKeeps
  <2>2. CASE Deploy!CompleteDirectoryRecord \/ Deploy!ActivateRecheck \/ Deploy!ReceiveCandidate
    BY <2>2, WaitKeeps
  <2>3. CASE Deploy!Sign \/ Deploy!Cancel
    BY <2>3, SignKeeps, CancelKeeps
  <2>4. ASSUME NEW f \in flows,
               Deploy!Unsigned(f) \/ Deploy!Relayed(f) \/ \E o \in Deploy!Outcomes : Deploy!Relay(f, o)
        PROVE  WizardInv'
    BY <2>4, UnsignedKeeps, RelayedKeeps, RelayKeeps
  <2>5. ASSUME NEW t \in Shown,
               Deploy!ShowTarget(t) \/ Deploy!Corroborate(t)
                 \/ \E ok \in BOOLEAN : Deploy!Rechecked(t, ok)
        PROVE  WizardInv'
    BY <2>5, ShowTargetKeeps, CorroborateKeeps, RecheckedKeeps
  <2> QED
    BY <1>2, <2>1, <2>2, <2>3, <2>4, <2>5, ChangeWalletKeeps, RenewWalletKeeps, LoadedKeeps,
       LoadFailedKeeps, ActivateKeeps
    DEF Deploy!DeployNext
<1> QED BY <1>1, <1>2

LEMMA WizardInvOrder == WizardInv => DraftSignedInOrder
<1> SUFFICES ASSUME WizardInv PROVE DraftSignedInOrder
  OBVIOUS
<1>1. Deploy!DeployTypeOK
  BY DEF WizardInv, ServerTypes, PageTypes, ResultKinds, RequestShown, Request, Shown,
         Deploy!DeployTypeOK, Deploy!Targets, Deploy!Pages, Deploy!Stages
<1>2. Deploy!AcknowledgedDraft
  <2> SUFFICES ASSUME request /= None, record[request.target] = 0 PROVE acknowledged
    BY DEF Deploy!AcknowledgedDraft
  <2>1. request.target = target /\ page = 4
    BY DEF WizardInv, RequestShown
  <2> QED BY <2>1 DEF WizardInv, ReviewReached
<1>3. Deploy!StagesInOrder
  <2> SUFFICES ASSUME request /= None, ~late
               PROVE  request.target = target /\ record[target] >= request.stage
    BY DEF Deploy!StagesInOrder
  <2>1. /\ request.target = target /\ request.stage \in 0 .. 3
        /\ request.stage > 0 => StageRecorded(target, request.stage - 1)
    BY DEF WizardInv, RequestShown, Request
  <2>2. record[target] \in 0 .. 4
    BY DEF WizardInv, ServerTypes, PageTypes
  <2>3. CASE request.stage = 0
    BY <2>1, <2>2, <2>3
  <2>4. CASE request.stage > 0
    BY <2>1, <2>2, <2>4 DEF StageRecorded
  <2> QED BY <2>1, <2>3, <2>4
<1> QED BY <1>1, <1>2, <1>3 DEF DraftSignedInOrder

\* The inductive invariant of the deploy wizard.
THEOREM WizardInvariant == SiteSpec => []WizardInv
<1>1. SiteInit => WizardInv
  BY WizardInvInit DEF SiteInit
<1>2. WizardInv /\ [SiteNext]_siteVars => WizardInv'
  BY WizardInvStep DEF SiteNext, siteVars
<1> QED BY <1>1, <1>2, PTL DEF SiteSpec

\* However the wallet and the tool change while reads, rechecks and relays are
\* under way, a first draft is put before its issuer after its terms were
\* acknowledged, and a later stage when the server holds the one before it.
THEOREM DraftSignedInOrderHolds == SiteSpec => []DraftSignedInOrder
  BY WizardInvariant, WizardInvOrder, PTL
=============================================================================
