--------------------------- MODULE CommandIngress ---------------------------
(***************************************************************************)
(* A signed command on its way: a page asks the wallet for a signature,    *)
(* the relay of the web server wraps the body in an authenticated          *)
(* envelope, and the backend claims the envelope, reads the authority of   *)
(* the signer and admits the command, each in a transaction of its own.    *)
(*                                                                         *)
(* Bodies and envelopes may be lost, delayed and delivered twice, handlers *)
(* may die between two transactions, and the relay stops waiting while its *)
(* request is still being served.                                          *)
(*                                                                         *)
(* Three kinds of command stand for the dispatch table: FUNDING, the       *)
(* external.prepare of a backer; ASSET, the external.prepare of an issuer; *)
(* ATTACH, the candidate attached to a prepared asset.                     *)
(***************************************************************************)
EXTENDS ProviderTools

CONSTANTS
    Operations,  \* what pages may ask a wallet to sign
    KindOf, SignerOf, SubjectOf, KeyOf,  \* of each operation
    ParentOf,    \* the key of the attempt a candidate is attached to; the
                 \* candidates of one attempt share a key of their own
    Keys,        \* idempotency keys
    RowRole,     \* the role a seeded row gives its signer
    LegacySubject,
    ToolsAtStart,  \* tools allocated before
    Lifetime,    \* longest life of a command (300 s in the code)
    MaxSkew,     \* how far an envelope's stamp may be off (60 s in the code)
    MaxTime,     \* bound: the clock stops here
    MaxNonces,   \* bound: signatures
    MaxEnvelopes,  \* bound: relayed bodies
    Handlers     \* bound: backend handlers at work

Kinds == {"FUNDING", "ASSET", "ATTACH"}
Subjects == Tools \cup {LegacySubject}
Nonces == 1 .. MaxNonces
EnvelopeIds == 1 .. MaxEnvelopes
Outcomes == {"ACCEPTED", "REPLAYED", "CONFLICT", "REJECTED"}

\* A record keeps the nonce it was admitted under. An asset attempt is
\* SUBMITTED once a candidate is attached.
Record == [operation : Operations, nonce : Nonces, identity : Identities,
           state : {"PREPARED", "SUBMITTED"}]
Dialog == [phase : {"idle", "waiting", "checking", "complete", "failed", "unknown"},
           nonce : Nonces \cup {None}, outcome : Outcomes \cup {"unknown", None}]
Envelope == [nonce : Nonces, stamp : Nat]
Handler == [envelope : EnvelopeIds, at : Nat,
            step : {"CLAIMED", "AUTHORISED", "ANSWERED"},
            identity : Identities \cup {None}, outcome : Outcomes \cup {None}]

ASSUME IngressConstants ==
    /\ KindOf \in [Operations -> Kinds] /\ SignerOf \in [Operations -> Signers]
    /\ SubjectOf \in [Operations -> Subjects]
    /\ KeyOf \in [Operations -> Keys] /\ ParentOf \in [Operations -> Keys \cup {None}]
    /\ \A o \in Operations : KindOf[o] = "ATTACH" <=> ParentOf[o] /= None
    /\ \A o, other \in Operations :
         KindOf[o] = "ATTACH" => (KeyOf[o] = KeyOf[other] <=> ParentOf[o] = ParentOf[other])
    /\ RowRole \in [Signers -> {"ISSUER", "BACKER"}]
    /\ LegacySubject \notin Tools /\ ToolsAtStart \in [Tools -> Tool \cup {None}]
    /\ {Lifetime, MaxSkew, MaxTime, MaxNonces, MaxEnvelopes} \subseteq Nat
    /\ None \notin Operations \cup Keys \cup Nat \cup Identities \cup Outcomes
    /\ None \notin Record \cup Envelope \cup Handler
    /\ None \notin {"NEW", "IDEMPOTENCY_REPLAYED", "IDEMPOTENCY_CONFLICT"}

VARIABLES
    now,           \* one clock for pages, relay and backend
    prepared,      \* when the payload of an operation was built; it fixes the expiry
    dialogs,       \* the signature dialog of each operation
    signed,        \* the operation signed under a wallet nonce
    envelopes,     \* bodies the relay sent out
    handlers,      \* backend handlers at work
    ingressClaims, \* ingressCommandReplayClaims
    replayClaims,  \* the outcome spent on a wallet nonce
    records,       \* attempts and candidates by key
    serves,        \* history: how many handlers ever went to work on an envelope
    decisions      \* history: how often a body was decided upon

pageVars == <<prepared, dialogs, signed>>
wireVars == <<envelopes, handlers>>
spending == <<replayClaims, decisions>>
durableVars == <<ingressClaims, serves, spending, records>>
ingressVars == <<toolVars, now, pageVars, wireVars, durableVars>>

CommandTypeOK ==
    /\ ToolTypeOK
    /\ now \in 0 .. MaxTime
    /\ prepared \in [Operations -> 0 .. MaxTime \cup {None}]
    /\ dialogs \in [Operations -> Dialog]
    /\ signed \in [Nonces -> Operations \cup {None}]
    /\ envelopes \in [EnvelopeIds -> Envelope \cup {None}]
    /\ handlers \in [Handlers -> Handler \cup {None}]
    /\ ingressClaims \subseteq EnvelopeIds
    /\ replayClaims \in [Nonces -> {"NEW", "IDEMPOTENCY_REPLAYED",
                                    "IDEMPOTENCY_CONFLICT", None}]
    /\ records \in [Keys -> Record \cup {None}]
    /\ serves \in [EnvelopeIds -> Nat] /\ decisions \in [Nonces -> Nat]

IngressInit ==
    /\ accounts \in [Signers -> {"ABSENT", "ACTIVE"}]
    /\ rows = [s \in Signers |-> IF s \in SeededAtStart THEN "ENABLED" ELSE "ABSENT"]
    /\ selfService = TRUE
    /\ tools = ToolsAtStart
    /\ \A t \in Tools : tools[t] /= None /\ tools[t].identity = "SELF_SERVICE"
                          => accounts[tools[t].signer] = "ACTIVE"
    /\ now = 0
    /\ prepared = [o \in Operations |-> None]
    /\ dialogs = [o \in Operations |-> [phase |-> "idle", nonce |-> None, outcome |-> None]]
    /\ signed = [n \in Nonces |-> None]
    /\ envelopes = [e \in EnvelopeIds |-> None]
    /\ handlers = [h \in Handlers |-> None]
    /\ ingressClaims = {}
    /\ replayClaims = [n \in Nonces |-> None]
    /\ records = [k \in Keys |-> None]
    /\ serves = [e \in EnvelopeIds |-> 0] /\ decisions = [n \in Nonces |-> 0]

(***************************************************************************)
(* The page                                                                *)
(***************************************************************************)

Expires(o) == prepared[o] + Lifetime
ShowOn(o, phase, nonce, outcome) ==
    dialogs' = [dialogs EXCEPT ![o] = [phase |-> phase, nonce |-> nonce, outcome |-> outcome]]

\* The payload is built once; the step may be opened again while it lasts.
Prepare(o) ==
    /\ prepared[o] = None
    /\ prepared' = [prepared EXCEPT ![o] = now]
    /\ UNCHANGED <<toolVars, now, dialogs, signed, wireVars, durableVars>>

\* An outcome closes the dialog. A frozen intent and a candidate may be signed
\* again; a new asset request is another operation, with a key of its own.
MayAsk(o) ==
    \/ dialogs[o].phase = "idle"
    \/ KindOf[o] /= "ASSET" /\ dialogs[o].phase \notin {"waiting", "checking"}

AskWallet(o) ==
    /\ prepared[o] /= None
    /\ MayAsk(o)
    /\ now < Expires(o)
    /\ ShowOn(o, "waiting", None, None)
    /\ UNCHANGED <<toolVars, now, prepared, signed, wireVars, durableVars>>

\* The wallet declined or failed, or the account, the chain or the time moved
\* while it asked: nothing leaves the page.
GiveUp(o) ==
    /\ dialogs[o].phase = "waiting"
    /\ ShowOn(o, "failed", None, None)
    /\ UNCHANGED <<toolVars, now, prepared, signed, wireVars, durableVars>>

\* Every signature draws a fresh nonce; the body is on its way to the relay.
SignCommand(o) ==
    /\ dialogs[o].phase = "waiting"
    /\ now < Expires(o)
    /\ \E n \in Nonces :
          /\ signed[n] = None /\ (n > 1 => signed[n - 1] /= None)
          /\ signed' = [signed EXCEPT ![n] = o]
          /\ ShowOn(o, "checking", n, None)
    /\ UNCHANGED <<toolVars, now, prepared, wireVars, durableVars>>

\* The page, or the relay for it, stops waiting or gets an answer it cannot
\* read. The command may have been admitted.
LoseOutcome(o) ==
    /\ dialogs[o].phase = "checking"
    /\ ShowOn(o, "unknown", dialogs[o].nonce, "unknown")
    /\ UNCHANGED <<toolVars, now, prepared, signed, wireVars, durableVars>>

(***************************************************************************)
(* The relay                                                               *)
(***************************************************************************)

\* Every POST of a body gets an envelope of its own, a repeated one too.
RelayPost(n) ==
    /\ signed[n] /= None
    /\ \E e \in EnvelopeIds :
          /\ envelopes[e] = None /\ (e > 1 => envelopes[e - 1] /= None)
          /\ envelopes' = [envelopes EXCEPT ![e] = [nonce |-> n, stamp |-> now]]
    /\ UNCHANGED <<toolVars, now, pageVars, handlers, durableVars>>

(***************************************************************************)
(* The backend                                                             *)
(***************************************************************************)

Nonce(h) == envelopes[handlers[h].envelope].nonce
Operation(h) == signed[Nonce(h)]

Step(h, step) == handlers' = [handlers EXCEPT ![h].step = step]
AnswerWith(h, outcome) ==
    handlers' = [handlers EXCEPT ![h].step = "ANSWERED", ![h].outcome = outcome]

\* Mutant of Unclaimed: goes by the command nonce, which is spent only later.
UnclaimedCommand(e) == replayClaims[envelopes[e].nonce] = None
Unclaimed(e) == e \notin ingressClaims
Fresh(e) == now - envelopes[e].stamp <= MaxSkew /\ envelopes[e].stamp - now <= MaxSkew

\* An envelope reaches the backend, perhaps not for the first time. The
\* handler takes the time once, when it has read the body, and claims the
\* envelope before it looks into the body.
ReceiveEnvelope(h, e) ==
    /\ handlers[h] = None /\ envelopes[e] /= None
    /\ LET starts == Fresh(e) /\ Unclaimed(e) IN
       /\ handlers' = [handlers EXCEPT ![h] =
             [envelope |-> e, at |-> now, identity |-> None,
              step |-> IF starts THEN "CLAIMED" ELSE "ANSWERED",
              outcome |-> IF starts THEN None ELSE "REJECTED"]]
       /\ ingressClaims' = IF starts THEN ingressClaims \cup {e} ELSE ingressClaims
       /\ serves' = [serves EXCEPT ![e] = @ + IF starts THEN 1 ELSE 0]
    /\ UNCHANGED <<toolVars, now, pageVars, envelopes, spending, records>>

\* What an identity of the signer may command. A candidate belongs to the
\* identity of its attempt.
MayCommand(o, identity) ==
    LET s == SignerOf[o] IN
    CASE KindOf[o] = "FUNDING" -> TRUE
      [] KindOf[o] = "ASSET" ->
           IF SubjectOf[o] \in Tools THEN OwnsTool(s, identity, SubjectOf[o])
           ELSE identity = "AUTHORITY"
      [] KindOf[o] = "ATTACH" ->
           /\ records[ParentOf[o]] /= None
           /\ records[ParentOf[o]].identity = identity
           /\ SignerOf[records[ParentOf[o]].operation] = s

\* A row speaks for its own role only, an account for both.
RowAdmits(o) ==
    /\ rows[SignerOf[o]] = "ENABLED"
    /\ RowRole[SignerOf[o]] = IF KindOf[o] = "FUNDING" THEN "BACKER" ELSE "ISSUER"
AccountAdmits(o) == selfService /\ accounts[SignerOf[o]] = "ACTIVE"

\* readCommandAuthorities: the row if it may, or else the account.
ReadAuthorities(o) ==
    IF RowAdmits(o) /\ MayCommand(o, "AUTHORITY") THEN {"AUTHORITY"}
    ELSE {i \in {"SELF_SERVICE"} : AccountAdmits(o) /\ MayCommand(o, i)}

\* Mutant of Unexpired: the backend has no clock.
UnexpiredEver(o, time) == prepared[o] /= None
Unexpired(o, time) == time <= Expires(o)

\* The authority is read in a transaction of its own, and the time window is
\* checked against the time the body was read.
ReadAuthority(h) ==
    LET o == Operation(h) IN
    /\ handlers[h] /= None /\ handlers[h].step = "CLAIMED"
    /\ \/ /\ Unexpired(o, handlers[h].at)
          /\ \E i \in ReadAuthorities(o) :
                handlers' = [handlers EXCEPT ![h].step = "AUTHORISED", ![h].identity = i]
       \/ /\ ~Unexpired(o, handlers[h].at) \/ ReadAuthorities(o) = {}
          /\ AnswerWith(h, "REJECTED")
    /\ UNCHANGED <<toolVars, now, pageVars, envelopes, durableVars>>

\* Mutant of StillAuthorised: trusts the authority that was read before.
AuthorisedBefore(o, identity) == identity /= None
\* The mutation resolves the identity it is given again.
StillAuthorised(o, identity) ==
    /\ IF identity = "AUTHORITY" THEN RowAdmits(o) ELSE AccountAdmits(o)
    /\ MayCommand(o, identity)

\* Mutant of SameCommand: the key alone makes the command.
SameKey(o, identity) == records[KeyOf[o]].operation \in Operations
\* readAttempt: the stored attempt is this command, and nothing moved since.
SameCommand(o, identity) ==
    /\ records[KeyOf[o]].operation = o
    /\ records[KeyOf[o]].identity = identity
    /\ records[KeyOf[o]].state = "PREPARED"

Insert(h) ==
    records' = [records EXCEPT ![KeyOf[Operation(h)]] =
       [operation |-> Operation(h), nonce |-> Nonce(h),
        identity |-> handlers[h].identity, state |-> "PREPARED"]]

Spend(h, outcome) ==
    /\ replayClaims' = [replayClaims EXCEPT ![Nonce(h)] = outcome]
    /\ decisions' = [decisions EXCEPT ![Nonce(h)] = @ + 1]

\* Mutant of Spent: only a conflict is remembered.
SpentInConflict(n) == replayClaims[n] = "IDEMPOTENCY_CONFLICT"
Spent(n) == replayClaims[n] /= None

\* A nonce that was spent changes nothing. For a tool's asset the claim must
\* lead to the attempt, unmoved; else the answer says nothing of it.
ReplayCommand(h) ==
    LET o == Operation(h)
        told == \/ KindOf[o] = "FUNDING" \/ SubjectOf[o] \notin Tools
                \/ /\ replayClaims[Nonce(h)] /= "IDEMPOTENCY_CONFLICT"
                   /\ SameCommand(o, handlers[h].identity) IN
    /\ AnswerWith(h, IF told THEN "REPLAYED" ELSE "REJECTED")
    /\ UNCHANGED <<spending, records>>

AdmitPrepare(h) ==
    LET o == Operation(h) IN
    IF records[KeyOf[o]] = None
    THEN Insert(h) /\ Spend(h, "NEW") /\ AnswerWith(h, "ACCEPTED")
    ELSE /\ IF SameCommand(o, handlers[h].identity)
            THEN Spend(h, "IDEMPOTENCY_REPLAYED") /\ AnswerWith(h, "REPLAYED")
            ELSE Spend(h, "IDEMPOTENCY_CONFLICT") /\ AnswerWith(h, "CONFLICT")
         /\ UNCHANGED records

\* admitExternalPrepareCommand and admitAtsCreateAndMarkAssetPending.
AdmitCommand(h) ==
    LET o == Operation(h) IN
    /\ handlers[h] /= None /\ handlers[h].step = "AUTHORISED" /\ KindOf[o] /= "ATTACH"
    /\ IF ~(Unexpired(o, now) /\ StillAuthorised(o, handlers[h].identity))
       THEN AnswerWith(h, "REJECTED") /\ UNCHANGED <<spending, records>>
       ELSE IF Spent(Nonce(h)) THEN ReplayCommand(h)
       ELSE AdmitPrepare(h)
    /\ UNCHANGED <<toolVars, now, pageVars, envelopes, ingressClaims, serves>>

\* attachAtsCandidateReceipt looks at neither the authority nor the clock
\* again. A second candidate is refused without a word; only the attachment
\* itself spends the nonce. Once the offering is ready, at once for the legacy
\* subject, the spent nonce is refused.
AttachCandidate(h) ==
    LET o == Operation(h)
        attempt == records[ParentOf[o]] IN
    /\ handlers[h] /= None /\ handlers[h].step = "AUTHORISED" /\ KindOf[o] = "ATTACH"
    /\ IF Spent(Nonce(h))
       THEN /\ \/ AnswerWith(h, "REJECTED")
               \/ SubjectOf[attempt.operation] \in Tools /\ AnswerWith(h, "ACCEPTED")
            /\ UNCHANGED <<spending, records>>
       ELSE IF attempt.state = "SUBMITTED"
       THEN /\ AnswerWith(h, IF records[KeyOf[o]].operation = o
                             THEN "REPLAYED" ELSE "REJECTED")
            /\ UNCHANGED <<spending, records>>
       ELSE /\ records' = [records EXCEPT
                  ![KeyOf[o]] = [operation |-> o, nonce |-> Nonce(h),
                                 identity |-> handlers[h].identity, state |-> "PREPARED"],
                  ![ParentOf[o]].state = "SUBMITTED"]
            /\ Spend(h, "NEW") /\ AnswerWith(h, "ACCEPTED")
    /\ UNCHANGED <<toolVars, now, pageVars, envelopes, ingressClaims, serves>>

\* The answer travels back. The dialog shows it if it still waits for this
\* very signature.
Settled(outcome) == IF outcome \in {"ACCEPTED", "REPLAYED"} THEN "complete" ELSE "failed"
Answer(h) ==
    LET o == Operation(h) IN
    /\ handlers[h] /= None /\ handlers[h].step = "ANSWERED"
    /\ IF dialogs[o].phase = "checking" /\ dialogs[o].nonce = Nonce(h)
       THEN ShowOn(o, Settled(handlers[h].outcome), Nonce(h), handlers[h].outcome)
       ELSE UNCHANGED dialogs
    /\ handlers' = [handlers EXCEPT ![h] = None]
    /\ UNCHANGED <<toolVars, now, prepared, signed, envelopes, durableVars>>

\* The handler dies at work. An answer that is lost is one the page no longer
\* waits for.
Vanish(h) ==
    /\ handlers[h] /= None /\ handlers[h].step /= "ANSWERED"
    /\ handlers' = [handlers EXCEPT ![h] = None]
    /\ UNCHANGED <<toolVars, now, pageVars, envelopes, durableVars>>

Tick ==
    /\ now < MaxTime
    /\ now' = now + 1
    /\ UNCHANGED <<toolVars, pageVars, wireVars, durableVars>>

PageStep(o) == Prepare(o) \/ AskWallet(o) \/ GiveUp(o) \/ SignCommand(o) \/ LoseOutcome(o)
HandlerStep(h) ==
    \/ \E e \in EnvelopeIds : ReceiveEnvelope(h, e)
    \/ ReadAuthority(h) \/ AdmitCommand(h) \/ AttachCandidate(h)
    \/ Answer(h) \/ Vanish(h)

IngressNext ==
    \/ \E o \in Operations : PageStep(o)
    \/ \E n \in Nonces : RelayPost(n)
    \/ \E h \in Handlers : HandlerStep(h)
    \/ MemberStep /\ UNCHANGED <<now, pageVars, wireVars, durableVars>>
    \/ Tick

IngressSpec == IngressInit /\ [][IngressNext]_ingressVars

(***************************************************************************)
(* Properties                                                              *)
(***************************************************************************)

\* However bodies and envelopes are repeated and handlers die, a record and
\* the nonce that was answered NEW belong to each other, and a nonce that was
\* answered as a repetition is one of the very operation recorded.
ClaimsMatchRecords ==
    /\ \A k \in Keys : records[k] /= None =>
         /\ signed[records[k].nonce] = records[k].operation
         /\ replayClaims[records[k].nonce] = "NEW"
    /\ \A n \in Nonces : replayClaims[n] \in {"NEW", "IDEMPOTENCY_REPLAYED"} =>
         LET record == records[KeyOf[signed[n]]] IN
         /\ record /= None /\ record.operation = signed[n]
         /\ record.nonce = n <=> replayClaims[n] = "NEW"

\* An envelope is served once ever: of all its deliveries one gets a handler to
\* work, also when that handler died long before the next one came, claimed and
\* undecided. And a body is decided once ever, however many envelopes carry it
\* and however many handlers serve them, one after the other or at once.
ServedOnce ==
    /\ \A e \in EnvelopeIds : serves[e] <= 1
    /\ \A n \in Nonces : decisions[n] <= 1

\* Dialogs, envelopes, handlers and records stay well formed, every envelope is
\* served and every body decided at most once.
HandledOnce == CommandTypeOK /\ ServedOnce

\* Whether the mutation would admit the operation in this state.
Entitled(o) ==
    /\ \E n \in Nonces : signed[n] = o
    /\ IF KindOf[o] = "ATTACH" THEN records[ParentOf[o]] /= None
       ELSE /\ now <= Expires(o)
            /\ \/ RowAdmits(o) /\ MayCommand(o, "AUTHORITY")
               \/ AccountAdmits(o) /\ MayCommand(o, "SELF_SERVICE")

\* The channel implements the promise: although the authority is read in an
\* earlier transaction, an operation is recorded only while its signer is
\* entitled to it and its time has not run out, and what a page is told of it
\* is true, however late the answer comes.
Promise == INSTANCE CommandPromise WITH
    entitled <- {o \in Operations : Entitled(o)},
    recorded <- [k \in Keys |-> IF records[k] = None THEN None ELSE records[k].operation],
    told <- [o \in Operations |-> dialogs[o].outcome]
KeepsCommandPromise == Promise!Spec
=============================================================================
