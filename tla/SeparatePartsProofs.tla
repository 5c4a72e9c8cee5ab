------------------------- MODULE SeparatePartsProofs -------------------------
(***************************************************************************)
(* The safety of the separate parts, for every value of their constants.   *)
(* A step of PartsNext is a step of one part and leaves the variables of   *)
(* the others alone, so each part has an inductive invariant of its own.   *)
(***************************************************************************)
EXTENDS SeparateParts, Sequences, FiniteSets, TLAPS

\* What a step does to each part: it is a step of the part, or none.
LEMMA OnePartMoves ==
    ASSUME [PartsNext]_partsVars
    PROVE  /\ [Dash!DashNext]_dashVars
           /\ [Ledger!LedgerNext]_ledgerVars
           /\ [OneUse!OneUseNext]_oneUseVars
           /\ [Scan!RiskScanNext]_objects
           /\ [Entity!EntityNext]_entityVars
           /\ [Agent!AgentNext]_agentVars
           /\ [EconomyNext]_economyVars
<1>1. CASE UNCHANGED partsVars
  BY <1>1 DEF partsVars, coreVars
<1>2. CASE part = "dashboard" /\ Dash!DashNext /\ UNCHANGED coreVars
  BY <1>2 DEF coreVars
<1>3. CASE part = "ledger" /\ Ledger!LedgerNext /\ UNCHANGED dashVars
           /\ UNCHANGED <<oneUseVars, objects, entityVars, agentVars, economyVars>>
  BY <1>3
<1>4. CASE part = "one use" /\ OneUse!OneUseNext /\ UNCHANGED dashVars
           /\ UNCHANGED <<ledgerVars, objects, entityVars, agentVars, economyVars>>
  BY <1>4
<1>5. CASE part = "scan" /\ Scan!RiskScanNext /\ UNCHANGED dashVars
           /\ UNCHANGED <<ledgerVars, oneUseVars, entityVars, agentVars, economyVars>>
  BY <1>5
<1>6. CASE part = "entity" /\ Entity!EntityNext /\ UNCHANGED dashVars
           /\ UNCHANGED <<ledgerVars, oneUseVars, objects, agentVars, economyVars>>
  BY <1>6
<1>7. CASE part = "agent" /\ Agent!AgentNext /\ UNCHANGED dashVars
           /\ UNCHANGED <<ledgerVars, oneUseVars, objects, entityVars, economyVars>>
  BY <1>7
<1>8. CASE part = "economy" /\ EconomyNext /\ UNCHANGED dashVars
           /\ UNCHANGED <<ledgerVars, oneUseVars, objects, entityVars, agentVars>>
  BY <1>8
<1> QED
  BY <1>1, <1>2, <1>3, <1>4, <1>5, <1>6, <1>7, <1>8 DEF PartsNext

(***************************************************************************)
(* Economics: the payments are exactly the units sold times their price,   *)
(* which is what ties them to the funding target.                          *)
(***************************************************************************)

TermsHold ==
    /\ terms \in TermsType
    /\ CreateOfferingTerms(terms)

SumsHold ==
    /\ confirmed \in Nat /\ confirmed <= terms.maximumUnits
    /\ raised = confirmed * terms.unitPrice
    /\ credited \in Nat /\ credited <= terms.payoutCap
    /\ issuer \in Int /\ gross \in Int
    /\ credited + issuer = gross

EconomyInv == TermsHold /\ SumsHold

\* A product grows with its factor.
LEMMA ProductMonotone ==
    ASSUME NEW a \in Nat, NEW b \in Nat, NEW c \in Nat, a <= b
    PROVE  a * c <= b * c
<1>1. PICK d \in Nat : b = a + d
  BY b - a \in Nat, b = a + (b - a)
<1>2. b * c = a * c + d * c
  BY <1>1, SMT
<1>3. d * c >= 0 /\ a * c \in Int /\ d * c \in Int
  BY SMT
<1> QED
  BY <1>2, <1>3

\* What the reserve is given is never negative and fits what is left of the cap.
LEMMA ReserveFits ==
    ASSUME EconomyInv, NEW amount \in Int, amount > 0, NEW matured \in BOOLEAN
    PROVE  /\ ReserveShare(amount, matured) \in Nat
           /\ credited + ReserveShare(amount, matured) <= terms.payoutCap
<1>1. terms.reserveBps = 2000 /\ terms.payoutCap \in Nat
  BY DEF EconomyInv, TermsHold, TermsType, CreateOfferingTerms
<1>2. (amount * 2000) \div 10000 \in Nat
  BY SMT
<1>3. RemainingPayoutCapacity \in Nat /\ credited + RemainingPayoutCapacity <= terms.payoutCap
  BY <1>1 DEF EconomyInv, SumsHold, RemainingPayoutCapacity
<1>4. CASE matured
  BY <1>4 DEF ReserveShare, EconomyInv, SumsHold
<1>5. CASE ~matured
  <2>1. ReserveShare(amount, matured) = Lesser((amount * 2000) \div 10000, RemainingPayoutCapacity)
    BY <1>1, <1>5 DEF ReserveShare
  <2> DEFINE scheduled == (amount * 2000) \div 10000
             left == RemainingPayoutCapacity
  <2>2. scheduled \in Nat /\ left \in Nat /\ credited + left <= terms.payoutCap
    BY <1>2, <1>3
  <2>3. ReserveShare(amount, matured) = Lesser(scheduled, left)
    BY <2>1
  <2> HIDE DEF scheduled, left
  <2> QED
    BY <1>1, <2>2, <2>3 DEF Lesser, EconomyInv, SumsHold
<1> QED
  BY <1>4, <1>5

LEMMA EconomyInitInv == EconomyInit => EconomyInv
<1> SUFFICES ASSUME EconomyInit PROVE EconomyInv
  OBVIOUS
<1>1. TermsHold
  BY EconomyAssumption DEF EconomyInit, TermsHold
<1>2. terms.maximumUnits \in Nat /\ terms.unitPrice \in Nat /\ terms.payoutCap \in Nat
  BY <1>1 DEF TermsHold, TermsType
<1>3. 0 * terms.unitPrice = 0
  BY <1>2
<1> QED
  BY <1>1, <1>2, <1>3 DEF EconomyInit, EconomyInv, SumsHold

LEMMA AllocatePreserves == EconomyInv /\ Allocate => EconomyInv'
<1> SUFFICES ASSUME EconomyInv, NEW units \in Requests,
                    CalculateAllocation(units),
                    confirmed' = confirmed + units,
                    raised' = raised + units * terms.unitPrice,
                    UNCHANGED <<terms, credited, issuer, gross>>
             PROVE  EconomyInv'
  BY DEF Allocate
<1>1. units \in Int /\ units > 0 /\ confirmed + units <= terms.maximumUnits
  BY EconomyAssumption DEF CalculateAllocation
<1>2. terms.unitPrice \in Nat /\ terms.maximumUnits \in Nat
  BY DEF EconomyInv, TermsHold, TermsType
<1>3. TermsHold'
  BY DEF EconomyInv, TermsHold, CreateOfferingTerms
<1>4. confirmed * terms.unitPrice + units * terms.unitPrice = (confirmed + units) * terms.unitPrice
  BY <1>1, <1>2 DEF EconomyInv, SumsHold
<1>5. raised' = confirmed' * terms'.unitPrice
  BY <1>4 DEF EconomyInv, SumsHold
<1> QED
  BY <1>1, <1>2, <1>3, <1>5 DEF EconomyInv, SumsHold

LEMMA ClearPreserves == EconomyInv /\ Clear => EconomyInv'
<1> SUFFICES ASSUME EconomyInv, NEW amount \in Grosses, NEW matured \in BOOLEAN,
                    amount > 0,
                    credited' = credited + ReserveShare(amount, matured),
                    issuer' = issuer + (amount - ReserveShare(amount, matured)),
                    gross' = gross + amount,
                    UNCHANGED <<terms, confirmed, raised>>
             PROVE  EconomyInv'
  BY DEF Clear
<1>1. amount \in Int
  BY EconomyAssumption
<1>2. PICK share \in Nat : share = ReserveShare(amount, matured) /\ credited + share <= terms.payoutCap
  BY <1>1, ReserveFits
<1>3. TermsHold'
  BY DEF EconomyInv, TermsHold, CreateOfferingTerms
<1>4. credited' = credited + share /\ issuer' = issuer + (amount - share)
  BY <1>2
<1> QED
  BY <1>1, <1>2, <1>3, <1>4 DEF EconomyInv, SumsHold

LEMMA InvWithinTerms == EconomyInv => WithinTerms
<1> SUFFICES ASSUME EconomyInv PROVE WithinTerms
  OBVIOUS
<1>1. /\ terms.fundingTarget \in Nat /\ terms.unitPrice \in Nat /\ terms.maximumUnits \in Nat
      /\ terms.maximumUnits * terms.unitPrice <= terms.fundingTarget
      /\ terms.fundingTarget % 2 = 0
      /\ terms.payoutCap = (terms.fundingTarget * 3) \div 2
  BY DEF EconomyInv, TermsHold, TermsType, CreateOfferingTerms
<1>2. confirmed * terms.unitPrice <= terms.maximumUnits * terms.unitPrice
  BY <1>1, ProductMonotone DEF EconomyInv, SumsHold
<1>3. confirmed * terms.unitPrice \in Int /\ terms.maximumUnits * terms.unitPrice \in Int
  BY <1>1 DEF EconomyInv, SumsHold
<1>4. raised <= terms.fundingTarget
  BY <1>1, <1>2, <1>3 DEF EconomyInv, SumsHold
<1>5. 2 * terms.payoutCap <= 3 * terms.fundingTarget
  BY <1>1
<1>6. terms.payoutCap \in Nat
  BY DEF EconomyInv, TermsHold, TermsType
<1>7. 2 * credited <= 3 * terms.fundingTarget
  BY <1>1, <1>5, <1>6 DEF EconomyInv, SumsHold
<1> QED
  BY <1>4, <1>7 DEF WithinTerms, EconomyInv, SumsHold

LEMMA EconomyStep == EconomyInv /\ [EconomyNext]_economyVars => EconomyInv'
<1> SUFFICES ASSUME EconomyInv, [EconomyNext]_economyVars PROVE EconomyInv'
  OBVIOUS
<1>1. CASE Allocate
  BY <1>1, AllocatePreserves
<1>2. CASE Clear
  BY <1>2, ClearPreserves
<1>3. CASE UNCHANGED economyVars
  BY <1>3 DEF economyVars, EconomyInv, TermsHold, SumsHold, CreateOfferingTerms
<1> QED
  BY <1>1, <1>2, <1>3 DEF EconomyNext

\* Whatever is offered, asked for and cleared: the capacity, the funding target
\* and the payout cap are respected (offering-economics.ts).
THEOREM EconomyWithinTerms == PartsSpec => []WithinTerms
<1>1. PartsInit => EconomyInv
  BY EconomyInitInv DEF PartsInit
<1>2. EconomyInv /\ [PartsNext]_partsVars => EconomyInv'
  BY OnePartMoves, EconomyStep
<1>3. EconomyInv => WithinTerms
  BY InvWithinTerms
<1> QED
  BY <1>1, <1>2, <1>3, PTL DEF PartsSpec

(***************************************************************************)
(* RiskScan: what an object was made from is found at a smaller place and  *)
(* is never altered.                                                       *)
(***************************************************************************)

ScanKinds == {"payment_required", "payment_pending", "unavailable", "payment_failed",
              "settlement", "receipt", "execution_failed", "completed"}
ScanObject == [kind : ScanKinds, ref : References, settlement : SUBSET SettlementRefs,
               receipt : SUBSET Receipts, from : SUBSET Nat]

\* A settlement is of a pending payment of its own reference.
SettlementOf(s, p) ==
    /\ p \in DOMAIN objects /\ objects[p].kind = "payment_pending"
    /\ objects[s].from = {p} /\ objects[s].ref = objects[p].ref

\* A receipt is bound to one settlement and repeats it.
ReceiptOf(r, s) ==
    /\ s \in DOMAIN objects /\ objects[s].kind = "settlement"
    /\ objects[r].from = {s} /\ objects[r].settlement = objects[s].settlement

CompletionOf(o, s, r) ==
    /\ s \in DOMAIN objects /\ r \in DOMAIN objects
    /\ objects[s].kind = "settlement" /\ objects[r].kind = "receipt"
    /\ objects[o].from = {s, r} /\ objects[r].from = {s}
    /\ objects[o].settlement = objects[s].settlement
    /\ objects[o].receipt = objects[r].receipt /\ objects[o].ref = objects[s].ref

ScanInv ==
    /\ objects \in Seq(ScanObject)
    /\ \A o \in DOMAIN objects :
        /\ objects[o].kind = "settlement" => \E p \in Nat : SettlementOf(o, p)
        /\ objects[o].kind = "receipt" => \E s \in Nat : ReceiptOf(o, s)
        /\ objects[o].kind = "completed" => \E s, r \in Nat : CompletionOf(o, s, r)

\* Issuing leaves what was issued before as it is.
LEMMA IssueKeeps ==
    ASSUME objects \in Seq(ScanObject), NEW x \in ScanObject, Scan!Issue(x)
    PROVE  /\ objects' \in Seq(ScanObject)
           /\ DOMAIN objects' = DOMAIN objects \cup {Len(objects) + 1}
           /\ Len(objects) + 1 \notin DOMAIN objects
           /\ \A o \in DOMAIN objects : objects'[o] = objects[o]
           /\ objects'[Len(objects) + 1] = x
  BY DEF Scan!Issue

\* What an object was made from stays where it is.
LEMMA WitnessKept ==
    ASSUME ScanInv, NEW o \in DOMAIN objects, DOMAIN objects \subseteq DOMAIN objects',
           \A q \in DOMAIN objects : objects'[q] = objects[q]
    PROVE  /\ objects'[o].kind = "settlement" => \E p \in Nat : SettlementOf(o, p)'
           /\ objects'[o].kind = "receipt" => \E s \in Nat : ReceiptOf(o, s)'
           /\ objects'[o].kind = "completed" => \E s, r \in Nat : CompletionOf(o, s, r)'
<1>1. ASSUME objects'[o].kind = "settlement" PROVE \E p \in Nat : SettlementOf(o, p)'
  <2>1. PICK p \in Nat : SettlementOf(o, p)
    BY <1>1 DEF ScanInv
  <2>2. SettlementOf(o, p)'
    BY <2>1 DEF SettlementOf
  <2> QED
    BY <2>2
<1>2. ASSUME objects'[o].kind = "receipt" PROVE \E s \in Nat : ReceiptOf(o, s)'
  <2>1. PICK s \in Nat : ReceiptOf(o, s)
    BY <1>2 DEF ScanInv
  <2>2. ReceiptOf(o, s)'
    BY <2>1 DEF ReceiptOf
  <2> QED
    BY <2>2
<1>3. ASSUME objects'[o].kind = "completed" PROVE \E s, r \in Nat : CompletionOf(o, s, r)'
  <2>1. PICK s \in Nat, r \in Nat : CompletionOf(o, s, r)
    BY <1>3 DEF ScanInv
  <2>2. CompletionOf(o, s, r)'
    BY <2>1 DEF CompletionOf
  <2> QED
    BY <2>2
<1> QED
  BY <1>1, <1>2, <1>3

\* The object issued is a scan object; its kind and what it comes from decide
\* whether it needs a witness.
LEMMA ScanIssues ==
    ASSUME ScanInv, NEW x \in ScanObject, Scan!Issue(x),
           x.kind = "settlement" =>
              \E p \in DOMAIN objects : /\ objects[p].kind = "payment_pending"
                                        /\ x.from = {p} /\ x.ref = objects[p].ref,
           x.kind = "receipt" =>
              \E s \in DOMAIN objects : /\ objects[s].kind = "settlement"
                                        /\ x.from = {s} /\ x.settlement = objects[s].settlement,
           x.kind = "completed" =>
              \E s, r \in DOMAIN objects :
                  /\ objects[s].kind = "settlement" /\ objects[r].kind = "receipt"
                  /\ x.from = {s, r} /\ objects[r].from = {s}
                  /\ x.settlement = objects[s].settlement
                  /\ x.receipt = objects[r].receipt /\ x.ref = objects[s].ref
    PROVE  ScanInv'
<1>0. PICK n \in Nat : n = Len(objects) + 1
  BY DEF ScanInv
<1>1. objects \in Seq(ScanObject) /\ DOMAIN objects \subseteq Nat
  BY DEF ScanInv
<1>2. /\ objects' \in Seq(ScanObject)
      /\ DOMAIN objects' = DOMAIN objects \cup {n}
      /\ \A o \in DOMAIN objects : objects'[o] = objects[o]
      /\ objects'[n] = x
  BY <1>0, <1>1, IssueKeeps
<1>3. \A o \in DOMAIN objects :
        /\ objects'[o].kind = "settlement" => \E p \in Nat : SettlementOf(o, p)'
        /\ objects'[o].kind = "receipt" => \E s \in Nat : ReceiptOf(o, s)'
        /\ objects'[o].kind = "completed" => \E s, r \in Nat : CompletionOf(o, s, r)'
  BY <1>1, <1>2, WitnessKept
<1>4. x.kind = "settlement" => \E p \in Nat : SettlementOf(n, p)'
  BY <1>1, <1>2 DEF SettlementOf
<1>5. x.kind = "receipt" => \E s \in Nat : ReceiptOf(n, s)'
  BY <1>1, <1>2 DEF ReceiptOf
<1>6. x.kind = "completed" => \E s, r \in Nat : CompletionOf(n, s, r)'
  BY <1>1, <1>2 DEF CompletionOf
<1> QED
  BY <1>1, <1>2, <1>3, <1>4, <1>5, <1>6 DEF ScanInv

\* A successor carries on what its object knew.
LEMMA ScanSuccessor ==
    ASSUME ScanInv, NEW o \in DOMAIN objects, NEW kind \in ScanKinds
    PROVE  /\ Scan!Successor(o, kind) \in ScanObject
           /\ Scan!Successor(o, kind).kind = kind
           /\ Scan!Successor(o, kind).from = {o}
           /\ Scan!Successor(o, kind).ref = objects[o].ref
           /\ Scan!Successor(o, kind).settlement = objects[o].settlement
           /\ Scan!Successor(o, kind).receipt = objects[o].receipt
           /\ Scan!Successor(o, kind) =
                [kind |-> kind, ref |-> objects[o].ref, settlement |-> objects[o].settlement,
                 receipt |-> objects[o].receipt, from |-> {o}]
<1>1. objects[o] \in ScanObject /\ o \in Nat
  BY DEF ScanInv
<1>2. Scan!Successor(o, kind) =
        [kind |-> kind, ref |-> objects[o].ref, settlement |-> objects[o].settlement,
         receipt |-> objects[o].receipt, from |-> {o}]
  <2> DEFINE old == objects[o]
  <2>1. old = [kind |-> old.kind, ref |-> old.ref, settlement |-> old.settlement,
               receipt |-> old.receipt, from |-> old.from]
    BY <1>1 DEF ScanObject
  <2>2. Scan!Successor(o, kind) = [old EXCEPT !.kind = kind, !.from = {o}]
    BY DEF Scan!Successor
  <2> HIDE DEF old
  <2>3. Scan!Successor(o, kind) =
          [kind |-> kind, ref |-> old.ref, settlement |-> old.settlement,
           receipt |-> old.receipt, from |-> {o}]
    BY <2>1, <2>2
  <2> QED
    BY <2>3 DEF old
<1>3. {o} \in SUBSET Nat
  BY <1>1
<1> QED
  BY <1>1, <1>2, <1>3 DEF ScanObject

LEMMA ScanInductive ==
    ASSUME ScanInv, [Scan!RiskScanNext]_objects
    PROVE  ScanInv'
<1>1. CASE UNCHANGED objects
  <2>1. \A o \in DOMAIN objects' :
          /\ objects'[o].kind = "settlement" => \E p \in Nat : SettlementOf(o, p)'
          /\ objects'[o].kind = "receipt" => \E s \in Nat : ReceiptOf(o, s)'
          /\ objects'[o].kind = "completed" => \E s, r \in Nat : CompletionOf(o, s, r)'
    BY <1>1, WitnessKept
  <2>2. objects' \in Seq(ScanObject)
    BY <1>1 DEF ScanInv
  <2> QED
    BY <2>1, <2>2 DEF ScanInv
<1>2. CASE Scan!StartRiskScanRequest
  <2>1. PICK ref \in References : Scan!Issue(Scan!Object("payment_required", ref, {}, {}, {}))
    BY <1>2 DEF Scan!StartRiskScanRequest
  <2> DEFINE x == Scan!Object("payment_required", ref, {}, {}, {})
  <2>2. x \in ScanObject /\ x.kind = "payment_required" /\ Scan!Issue(x)
    BY <2>1 DEF Scan!Object, ScanObject, ScanKinds
  <2> HIDE DEF x
  <2> QED
    BY <2>2, ScanIssues
<1>3. ASSUME NEW o \in DOMAIN objects,
             NEW kind \in {"unavailable", "payment_pending", "payment_failed", "execution_failed"},
             Scan!Issue(Scan!Successor(o, kind))
      PROVE  ScanInv'
  <2> DEFINE x == Scan!Successor(o, kind)
  <2>1. kind \in ScanKinds
    BY DEF ScanKinds
  <2>2. x \in ScanObject /\ x.kind = kind /\ Scan!Issue(x)
    BY <1>3, <2>1, ScanSuccessor
  <2>3. x.kind \notin {"settlement", "receipt", "completed"}
    BY <2>2
  <2> HIDE DEF x
  <2> QED
    BY <2>2, <2>3, ScanIssues
<1>4. CASE Scan!CreateRiskScanVerifiedSettlement
  <2>1. PICK o \in DOMAIN objects, ref \in References, s \in SettlementRefs :
          /\ objects[o].kind = "payment_pending" /\ ref = objects[o].ref
          /\ Scan!Issue([Scan!Successor(o, "settlement") EXCEPT !.ref = ref, !.settlement = {s}])
    BY <1>4 DEF Scan!CreateRiskScanVerifiedSettlement, Scan!Is, Scan!Correlates
  <2> DEFINE x == [Scan!Successor(o, "settlement") EXCEPT !.ref = ref, !.settlement = {s}]
  <2>2. x \in ScanObject /\ x.kind = "settlement" /\ x.from = {o} /\ x.ref = objects[o].ref
    BY <2>1, ScanSuccessor DEF ScanKinds, ScanObject
  <2>3. Scan!Issue(x)
    BY <2>1
  <2> HIDE DEF x
  <2> QED
    BY <2>1, <2>2, <2>3, ScanIssues
<1>5. CASE Scan!BindRiskScanReceiptEvidence
  <2>1. PICK o \in DOMAIN objects, receipt \in Receipts :
          /\ objects[o].kind = "settlement"
          /\ Scan!Issue([Scan!Successor(o, "receipt") EXCEPT !.receipt = {receipt}])
    BY <1>5 DEF Scan!BindRiskScanReceiptEvidence, Scan!Is
  <2> DEFINE x == [Scan!Successor(o, "receipt") EXCEPT !.receipt = {receipt}]
  <2>2. x \in ScanObject /\ x.kind = "receipt" /\ x.from = {o} /\ x.settlement = objects[o].settlement
    BY <2>1, ScanSuccessor DEF ScanKinds, ScanObject
  <2>3. Scan!Issue(x)
    BY <2>1
  <2> HIDE DEF x
  <2> QED
    BY <2>1, <2>2, <2>3, ScanIssues
<1>6. CASE Scan!CompleteRiskScanRequest
  <2>1. PICK s \in DOMAIN objects, r \in DOMAIN objects :
          /\ objects[s].kind = "settlement" /\ objects[r].kind = "receipt" /\ objects[r].from = {s}
          /\ Scan!Issue(Scan!Object("completed", objects[s].ref, objects[s].settlement,
                                    objects[r].receipt, {s, r}))
    BY <1>6 DEF Scan!CompleteRiskScanRequest, Scan!Is, Scan!BoundTo
  <2> DEFINE x == Scan!Object("completed", objects[s].ref, objects[s].settlement,
                              objects[r].receipt, {s, r})
  <2>2. objects[s] \in ScanObject /\ objects[r] \in ScanObject /\ s \in Nat /\ r \in Nat
    BY DEF ScanInv
  <2>3. /\ x \in ScanObject /\ x.kind = "completed" /\ x.from = {s, r} /\ x.ref = objects[s].ref
        /\ x.settlement = objects[s].settlement /\ x.receipt = objects[r].receipt
    BY <2>2 DEF ScanKinds, ScanObject, Scan!Object
  <2>4. Scan!Issue(x)
    BY <2>1
  <2> HIDE DEF x
  <2> QED
    BY <2>1, <2>3, <2>4, ScanIssues
<1>7. CASE Scan!MarkRiskScanUnavailable
  BY <1>3, <1>7 DEF Scan!MarkRiskScanUnavailable
<1>8. CASE Scan!MarkRiskScanPaymentPending
  BY <1>3, <1>8 DEF Scan!MarkRiskScanPaymentPending
<1>9. CASE Scan!MarkRiskScanPaymentFailed
  BY <1>3, <1>9 DEF Scan!MarkRiskScanPaymentFailed
<1>10. CASE Scan!MarkRiskScanExecutionFailed
  BY <1>3, <1>10 DEF Scan!MarkRiskScanExecutionFailed
<1> QED
  BY <1>1, <1>2, <1>4, <1>5, <1>6, <1>7, <1>8, <1>9, <1>10 DEF Scan!RiskScanNext

\* The witnesses of a completed request, as CompletedIsProven names them.
LEMMA ScanInvProves ==
    ASSUME ScanInv
    PROVE  CompletedIsProven
<1> SUFFICES ASSUME NEW o \in DOMAIN objects, objects[o].kind = "completed"
    PROVE  \E s \in Scan!Kind("settlement"), r \in Scan!Kind("receipt"), p \in Scan!Kind("payment_pending") :
            /\ objects[o].from = {s, r} /\ objects[r].from = {s} /\ objects[s].from = {p}
            /\ objects[o].settlement = objects[s].settlement /\ objects[r].settlement = objects[s].settlement
            /\ objects[o].receipt = objects[r].receipt
            /\ objects[o].ref = objects[p].ref
  BY DEF CompletedIsProven, Scan!CompletedIsProven, Scan!Kind
<1>1. PICK s \in Nat, r \in Nat : CompletionOf(o, s, r)
  BY DEF ScanInv
<1>2. PICK p \in Nat : SettlementOf(s, p)
  BY <1>1 DEF ScanInv, CompletionOf
<1>3. PICK t \in Nat : ReceiptOf(r, t)
  BY <1>1 DEF ScanInv, CompletionOf
<1>4. t = s
  BY <1>1, <1>3 DEF CompletionOf, ReceiptOf
<1>5. s \in Scan!Kind("settlement") /\ r \in Scan!Kind("receipt") /\ p \in Scan!Kind("payment_pending")
  BY <1>1, <1>2 DEF CompletionOf, SettlementOf, Scan!Kind
<1> QED
  BY <1>1, <1>2, <1>3, <1>4, <1>5 DEF CompletionOf, SettlementOf, ReceiptOf

\* A completed scan shows the receipt of the very settlement it completes, and
\* that settlement is of a payment its request was waiting for, however many
\* requests share a reference (completeRiskScanRequest).
THEOREM CompletedIsProvenHolds == PartsSpec => []CompletedIsProven
<1>1. PartsInit => ScanInv
  <2>1. PartsInit => objects = <<>>
    BY DEF PartsInit, Scan!RiskScanInit
  <2> QED
    BY <2>1 DEF ScanInv
<1>2. ScanInv /\ [PartsNext]_partsVars => ScanInv'
  BY OnePartMoves, ScanInductive
<1> QED
  BY <1>1, <1>2, ScanInvProves, PTL DEF PartsSpec

(***************************************************************************)
(* One-use states: a transition holds its object from the event to the     *)
(* successor, so that what is consumed is exactly what has a successor.    *)
(***************************************************************************)

HasSuccessor(o) == \E p \in DOMAIN issued : issued[p].from = o

OneUseInv ==
    /\ \E S : issued \in Seq(S)
    /\ \A o \in DOMAIN issued : issued[o].from \in Nat /\ issued[o].from < o
    /\ OneUse!OneSuccessor
    /\ consumed \subseteq DOMAIN issued
    /\ \A o \in DOMAIN issued : o \in consumed <=> HasSuccessor(o)
    /\ transitioning \subseteq DOMAIN issued \ consumed
    /\ \A c \in calls : c.object \in transitioning
    /\ \A c, d \in calls : c.object = d.object => c = d
    /\ \A o \in transitioning : \E c \in calls : c.object = o

\* An object that is issued comes from none, or consumes the one it comes from,
\* which nothing came from before and no transition keeps.
LEMMA OneUseIssues ==
    ASSUME OneUseInv, NEW snapshot, NEW state, NEW from \in Nat,
           OneUse!IssueState(state, snapshot, from),
           from /= 0 => from \in DOMAIN issued \ consumed,
           consumed' = IF from = 0 THEN consumed ELSE consumed \cup {from}
    PROVE  /\ \E S : issued' \in Seq(S)
           /\ DOMAIN issued \subseteq DOMAIN issued'
           /\ \A o \in DOMAIN issued' : issued'[o].from \in Nat /\ issued'[o].from < o
           /\ OneUse!OneSuccessor'
           /\ consumed' \subseteq DOMAIN issued'
           /\ \A o \in DOMAIN issued' : o \in consumed' <=> HasSuccessor(o)'
<1>1. PICK S : issued \in Seq(S)
  BY DEF OneUseInv
<1> DEFINE x == [snapshot |-> snapshot, state |-> state, from |-> from]
<1>2. PICK n \in Nat \ {0} : n = Len(issued) + 1
  BY <1>1
<1>3. issued \in Seq(S \cup {x}) /\ issued' = Append(issued, x)
  BY <1>1 DEF OneUse!IssueState
<1>4. x.from = from
  OBVIOUS
<1> HIDE DEF x
<1>5. /\ issued' \in Seq(S \cup {x})
      /\ DOMAIN issued = 1 .. n - 1 /\ DOMAIN issued' = 1 .. n
      /\ \A o \in 1 .. n - 1 : issued'[o] = issued[o]
      /\ issued'[n] = x
  BY <1>2, <1>3
<1>6. from \in 0 .. n - 1
  BY <1>5
<1>7. \A o \in DOMAIN issued' : issued'[o].from \in Nat /\ issued'[o].from < o
  BY <1>4, <1>5, <1>6 DEF OneUseInv
<1>8. \A o \in 1 .. n - 1 : issued[o].from /= 0 => issued[o].from /= from
  BY <1>5 DEF OneUseInv, HasSuccessor
<1>9. OneUse!OneSuccessor'
  BY <1>4, <1>5, <1>8 DEF OneUseInv, OneUse!OneSuccessor, OneUse!Objects
<1>10. \A o \in DOMAIN issued' : o \in consumed' <=> HasSuccessor(o)'
  <2> SUFFICES ASSUME NEW o \in 1 .. n
      PROVE  o \in consumed' <=> \E p \in 1 .. n : issued'[p].from = o
    BY <1>5 DEF HasSuccessor
  <2>1. o = from => o \in consumed' /\ issued'[n].from = o
    BY <1>4, <1>5
  <2>2. o = n => o \notin consumed' /\ \A p \in 1 .. n : issued'[p].from /= o
    BY <1>5, <1>6, <1>7 DEF OneUseInv
  <2>3. ASSUME o /= n, o /= from
        PROVE  o \in consumed' <=> \E p \in 1 .. n : issued'[p].from = o
    <3>1. o \in DOMAIN issued /\ (o \in consumed' <=> o \in consumed)
      BY <1>5, <2>3
    <3>2. o \in consumed <=> \E p \in 1 .. n - 1 : issued[p].from = o
      BY <1>5, <3>1 DEF OneUseInv, HasSuccessor
    <3> QED
      BY <1>4, <1>5, <2>3, <3>1, <3>2
  <2> QED
    BY <1>2, <2>1, <2>2, <2>3
<1> QED
  BY <1>2, <1>5, <1>6, <1>7, <1>9, <1>10 DEF OneUseInv

LEMMA OneUseInductive ==
    ASSUME OneUseInv, [OneUse!OneUseNext]_oneUseVars
    PROVE  OneUseInv'
<1>1. CASE UNCHANGED oneUseVars
  BY <1>1 DEF oneUseVars, OneUseInv, HasSuccessor, OneUse!OneSuccessor, OneUse!Objects
<1>2. ASSUME NEW d \in Digests, NEW t \in EventTimes, NEW state, NEW machine,
             OneUse!IssueState(state, OneUse!Snapshot(machine, d, t), 0),
             UNCHANGED <<consumed, transitioning, calls>>
      PROVE  OneUseInv'
  BY <1>2, OneUseIssues DEF OneUseInv
<1>3. ASSUME NEW o \in DOMAIN issued, OneUse!BeginTransition(o)
      PROVE  OneUseInv'
  <2>1. PICK e \in OneUse!Events(OneUse!StateOf(o)) :
          calls' = calls \cup {[object |-> o,
                     next |-> OneUse!NextState(OneUse!SnapshotOf(o), OneUse!StateOf(o), e)]}
    BY <1>3 DEF OneUse!BeginTransition
  <2> DEFINE c == [object |-> o,
                   next |-> OneUse!NextState(OneUse!SnapshotOf(o), OneUse!StateOf(o), e)]
  <2>2. c.object = o /\ calls' = calls \cup {c}
    BY <2>1
  <2>3. /\ o \notin consumed /\ o \notin transitioning
        /\ transitioning' = transitioning \cup {o} /\ UNCHANGED <<issued, consumed>>
    BY <1>3 DEF OneUse!BeginTransition, OneUse!Usable
  <2> HIDE DEF c
  <2>4. /\ \A k \in calls' : k.object \in transitioning'
        /\ \A k, l \in calls' : k.object = l.object => k = l
        /\ \A q \in transitioning' : \E k \in calls' : k.object = q
    BY <2>2, <2>3 DEF OneUseInv
  <2> QED
    BY <2>3, <2>4 DEF OneUseInv, HasSuccessor, OneUse!OneSuccessor, OneUse!Objects
<1>4. ASSUME NEW c \in calls, OneUse!Settle(c)
      PROVE  OneUseInv'
  <2>1. transitioning' = transitioning \ {c.object} /\ calls' = calls \ {c}
    BY <1>4 DEF OneUse!Settle, OneUse!Released
  <2>2. /\ c.object \in DOMAIN issued /\ c.object \notin consumed
        /\ \A k \in calls' : k.object \in transitioning'
        /\ \A k, l \in calls' : k.object = l.object => k = l
        /\ \A q \in transitioning' : \E k \in calls' : k.object = q
    BY <2>1 DEF OneUseInv
  <2>3. CASE c.next = Rejected
    <3>1. UNCHANGED <<issued, consumed>>
      BY <1>4, <2>3 DEF OneUse!Settle
    <3> QED
      BY <2>1, <2>2, <3>1 DEF OneUseInv, HasSuccessor, OneUse!OneSuccessor, OneUse!Objects
  <2>4. CASE c.next /= Rejected
    <3>1. /\ OneUse!IssueState(c.next, OneUse!SnapshotOf(c.object), c.object)
          /\ consumed' = consumed \cup {c.object}
      BY <1>4, <2>4 DEF OneUse!Settle
    <3>2. c.object \in Nat /\ c.object /= 0
      BY <2>2 DEF OneUseInv
    <3> QED
      BY <2>1, <2>2, <3>1, <3>2, OneUseIssues DEF OneUseInv
  <2> QED
    BY <2>3, <2>4
<1>5. ASSUME NEW o \in DOMAIN issued, OneUse!CreateClearingSplit(o)
      PROVE  OneUseInv'
  <2>1. PICK snapshot : OneUse!IssueState("split_required", snapshot, o)
    BY <1>5 DEF OneUse!CreateClearingSplit
  <2>2. /\ o \notin consumed /\ o \notin transitioning
        /\ consumed' = consumed \cup {o} /\ UNCHANGED <<transitioning, calls>>
    BY <1>5 DEF OneUse!CreateClearingSplit, OneUse!Usable
  <2>3. o \in Nat /\ o /= 0
    BY DEF OneUseInv
  <2> QED
    BY <2>1, <2>2, <2>3, OneUseIssues DEF OneUseInv
<1>6. CASE OneUse!CreatePaidTask
  BY <1>2, <1>6 DEF OneUse!CreatePaidTask
<1>7. CASE OneUse!CreateOfferingPurchase
  BY <1>2, <1>7 DEF OneUse!CreateOfferingPurchase
<1> QED
  BY <1>1, <1>3, <1>4, <1>5, <1>6, <1>7 DEF OneUse!OneUseNext, OneUse!Objects

\* An object has one successor at most, whatever calls overlap, and one without
\* a successor can be used or is held by a call that has not ended: what a
\* transition rejects is not lost (paid task, clearing split, purchase).
THEOREM UsedOnceHolds == PartsSpec => []UsedOnce
<1>1. PartsInit => OneUseInv
  <2>1. PartsInit => issued = <<>> /\ consumed = {} /\ transitioning = {} /\ calls = {}
    BY DEF PartsInit, OneUse!OneUseInit
  <2>2. <<>> \in Seq({})
    OBVIOUS
  <2> QED
    BY <2>1, <2>2 DEF OneUseInv, OneUse!OneSuccessor, OneUse!Objects
<1>2. OneUseInv /\ [PartsNext]_partsVars => OneUseInv'
  BY OnePartMoves, OneUseInductive
<1>3. OneUseInv => UsedOnce
  BY DEF OneUseInv, UsedOnce, HasSuccessor, OneUse!StateSurvivesRejection, OneUse!Objects
<1> QED
  BY <1>1, <1>2, <1>3, PTL DEF PartsSpec

(***************************************************************************)
(* The settlement ledger: what the tables hold is in the form admission    *)
(* gives it, so that a call made again finds the row it created.           *)
(***************************************************************************)

\* Requests keep their trimmed reference, and no two share one.
RequestsAdmitted ==
    /\ \A q \in requests :
        /\ q = [document |-> q.document, id |-> q.id]
        /\ q.document = [ref |-> q.document.ref, content |-> q.document.content, at |-> q.document.at]
        /\ q.document.ref /= Blank /\ Trimmed[q.document.ref] = q.document.ref
    /\ \A q, r \in requests : q.document.ref = r.document.ref => q = r

LedgerInv == RequestsAdmitted /\ Ledger!TransferSettlesOnce

RequestCall(c) ==
    /\ c.ref \in Spellings
    /\ c = [ref |-> c.ref, content |-> c.content, createdAt |-> c.createdAt, updatedAt |-> c.updatedAt]

LEMMA RequestsStayAdmitted ==
    ASSUME RequestsAdmitted, NEW c, RequestCall(c), Ledger!RecordInitialRequest(c)
    PROVE  RequestsAdmitted'
<1> DEFINE document == Ledger!RequestDocument(c)
           existing == {r \in requests : r.document.ref = document.ref}
           row == Ledger!Row(document, Ledger!NextId(requests))
<1>1. CASE UNCHANGED requests
  BY <1>1 DEF RequestsAdmitted
<1>2. CASE Ledger!AdmitRequest(c) /\ existing = {} /\ requests' = requests \cup {row}
  <2>1. document.ref = Trimmed[c.ref] /\ document = [ref |-> document.ref, content |-> document.content, at |-> document.at]
    BY DEF Ledger!RequestDocument, Ledger!AdmittedRef
  <2>2. document.ref /= Blank /\ Trimmed[document.ref] = document.ref
    BY <1>2, <2>1, PartsConstants DEF Ledger!AdmitRequest, RequestCall
  <2>3. row.document = document /\ row = [document |-> row.document, id |-> row.id]
    BY DEF Ledger!Row
  <2>4. \A r \in requests : r.document.ref /= document.ref
    BY <1>2
  <2> HIDE DEF document, row
  <2> QED
    BY <1>2, <2>1, <2>2, <2>3, <2>4 DEF RequestsAdmitted
<1> QED
  BY <1>1, <1>2 DEF Ledger!RecordInitialRequest

LEMMA TransferStaysSettledOnce ==
    ASSUME Ledger!TransferSettlesOnce, NEW c, Ledger!RecordInitialRecord(c)
    PROVE  Ledger!TransferSettlesOnce'
<1>1. CASE UNCHANGED records
  BY <1>1 DEF Ledger!TransferSettlesOnce
<1>2. CASE records' /= records
  <2>1. PICK a \in Ledger!EligibleAttempts(c) :
          /\ Ledger!ByAttempt(c.attempt) = {}
          /\ Ledger!ByTransaction(c.attempt, a.document.network, c.ref) = {}
          /\ records' = records \cup {Ledger!Row(Ledger!RecordDocument(c, a.document.network),
                                                 Ledger!NextId(records))}
    <3>1. Ledger!RecordDocument(c, 1).network = 1
      BY DEF Ledger!RecordDocument
    <3> QED
      BY <1>2 DEF Ledger!RecordInitialRecord, Ledger!RecordDocument
  <2> DEFINE document == Ledger!RecordDocument(c, a.document.network)
             row == Ledger!Row(document, Ledger!NextId(records))
  <2>2. /\ row.document = document /\ document.attempt = c.attempt
        /\ document.network = a.document.network /\ document.ref = c.ref
    BY DEF Ledger!Row, Ledger!RecordDocument
  <2>3. \A r \in records :
          /\ r.document.attempt /= document.attempt
          /\ ~(r.document.network = document.network /\ r.document.ref = document.ref)
    BY <2>1, <2>2 DEF Ledger!ByAttempt, Ledger!ByTransaction
  <2>4. records' = records \cup {row}
    BY <2>1
  <2> HIDE DEF document, row
  <2> QED
    BY <2>2, <2>3, <2>4 DEF Ledger!TransferSettlesOnce
<1> QED
  BY <1>1, <1>2

\* The steps of the ledger by what they touch: only the call of a request has
\* contents.
NoContents == answer' = answer \/ "content" \notin DOMAIN answer'.call

LEMMA LedgerMoves ==
    ASSUME [Ledger!LedgerNext]_ledgerVars
    PROVE  \/ UNCHANGED <<requests, records>> /\ NoContents
           \/ \E c : RequestCall(c) /\ Ledger!RecordInitialRequest(c)
           \/ \E c : Ledger!RecordInitialRecord(c) /\ UNCHANGED requests /\ NoContents
<1>1. CASE UNCHANGED ledgerVars
  BY <1>1 DEF ledgerVars, NoContents
<1>2. CASE Ledger!Tick
  BY <1>2 DEF Ledger!Tick, Ledger!tables, NoContents
<1>3. ASSUME NEW s \in Spellings, NEW x \in Contents, NEW t, NEW u,
             Ledger!RecordInitialRequest([ref |-> s, content |-> x, createdAt |-> t, updatedAt |-> u])
      PROVE  \E c : RequestCall(c) /\ Ledger!RecordInitialRequest(c)
  <2> DEFINE c == [ref |-> s, content |-> x, createdAt |-> t, updatedAt |-> u]
  <2>1. RequestCall(c)
    BY DEF RequestCall
  <2>2. Ledger!RecordInitialRequest(c)
    BY <1>3
  <2> QED
    BY <2>1, <2>2
<1>4. ASSUME NEW c, Ledger!RecordInitialAttempt(c), "content" \notin DOMAIN c
      PROVE  UNCHANGED <<requests, records>> /\ NoContents
  <2>1. UNCHANGED <<requests, records>>
    BY <1>4 DEF Ledger!RecordInitialAttempt
  <2>2. answer'.call = c
    BY <1>4 DEF Ledger!RecordInitialAttempt, Ledger!Answer
  <2> QED
    BY <1>4, <2>1, <2>2 DEF NoContents
<1>5. ASSUME NEW c, Ledger!RecordInitialRecord(c), "content" \notin DOMAIN c
      PROVE  UNCHANGED requests /\ NoContents
  <2>1. UNCHANGED requests
    BY <1>5 DEF Ledger!RecordInitialRecord
  <2>2. answer'.call = c
    BY <1>5 DEF Ledger!RecordInitialRecord, Ledger!Answer
  <2> QED
    BY <1>5, <2>1, <2>2 DEF NoContents
<1>6. ASSUME NEW c, Ledger!Select(c), "content" \notin DOMAIN c
      PROVE  UNCHANGED <<requests, records>> /\ NoContents
  <2>1. UNCHANGED <<requests, records>>
    BY <1>6 DEF Ledger!Select, Ledger!tables
  <2>2. answer'.call = c
    BY <1>6 DEF Ledger!Select, Ledger!Answer
  <2> QED
    BY <1>6, <2>1, <2>2 DEF NoContents
<1>7. ASSUME NEW c, Ledger!ReadPending(c), "content" \notin DOMAIN c
      PROVE  UNCHANGED <<requests, records>> /\ NoContents
  <2>1. UNCHANGED <<requests, records>>
    BY <1>7 DEF Ledger!ReadPending, Ledger!tables
  <2>2. answer'.call = c
    BY <1>7 DEF Ledger!ReadPending, Ledger!Answer
  <2> QED
    BY <1>7, <2>1, <2>2 DEF NoContents
<1>8. \A q, k, n, r, t : "content" \notin DOMAIN [request |-> q, key |-> k, network |-> n, ref |-> r, createdAt |-> t, updatedAt |-> t]
  OBVIOUS
<1>9. \A a, r, t : "content" \notin DOMAIN [attempt |-> a, ref |-> r, observedAt |-> t]
  OBVIOUS
<1>10. \A t : "content" \notin DOMAIN [before |-> t] /\ "content" \notin DOMAIN [read |-> t]
  OBVIOUS
<1> QED
  BY <1>1, <1>2, <1>3, <1>4, <1>5, <1>6, <1>7, <1>8, <1>9, <1>10 DEF Ledger!LedgerNext

LEMMA LedgerInductive ==
    ASSUME LedgerInv, [Ledger!LedgerNext]_ledgerVars
    PROVE  LedgerInv'
<1>1. CASE UNCHANGED <<requests, records>>
  BY <1>1 DEF LedgerInv, RequestsAdmitted, Ledger!TransferSettlesOnce
<1>2. ASSUME NEW c, RequestCall(c), Ledger!RecordInitialRequest(c)
      PROVE  LedgerInv'
  <2>1. UNCHANGED records
    BY <1>2 DEF Ledger!RecordInitialRequest
  <2>2. Ledger!TransferSettlesOnce'
    BY <2>1 DEF LedgerInv, Ledger!TransferSettlesOnce
  <2> QED
    BY <1>2, <2>2, RequestsStayAdmitted DEF LedgerInv
<1>3. ASSUME NEW c, Ledger!RecordInitialRecord(c), UNCHANGED requests
      PROVE  LedgerInv'
  <2>1. RequestsAdmitted'
    BY <1>3 DEF LedgerInv, RequestsAdmitted
  <2> QED
    BY <1>3, <2>1, TransferStaysSettledOnce DEF LedgerInv
<1> QED
  BY <1>1, <1>2, <1>3, LedgerMoves

\* A request made again under any spelling of its reference finds its row.
LEMMA RequestReplayed ==
    ASSUME LedgerInv, NEW c, RequestCall(c), Ledger!RecordInitialRequest(c), NEW q \in requests,
           [ref |-> Trimmed[c.ref], content |-> c.content, at |-> c.createdAt]
             = [ref |-> Trimmed[q.document.ref], content |-> q.document.content, at |-> q.document.at],
           c.createdAt = c.updatedAt
    PROVE  answer'.status = "replayed" /\ answer'.id = q.id
<1> DEFINE document == Ledger!RequestDocument(c)
           existing == {r \in requests : r.document.ref = document.ref}
<1>1. document = [ref |-> Trimmed[c.ref], content |-> c.content, at |-> c.createdAt]
  BY DEF Ledger!RequestDocument, Ledger!AdmittedRef
<1>2. q.document = document /\ q.document.ref /= Blank /\ document.ref = Trimmed[c.ref]
  <2> DEFINE d == q.document
  <2>1. /\ d = [ref |-> d.ref, content |-> d.content, at |-> d.at]
        /\ d.ref /= Blank /\ Trimmed[d.ref] = d.ref
    BY DEF LedgerInv, RequestsAdmitted
  <2>2. Trimmed[c.ref] = Trimmed[d.ref] /\ c.content = d.content /\ c.createdAt = d.at
    OBVIOUS
  <2> HIDE DEF d, document
  <2>3. d = document /\ d.ref /= Blank /\ document.ref = Trimmed[c.ref]
    BY <1>1, <2>1, <2>2
  <2> QED
    BY <2>3 DEF d
<1>3. existing = {q} /\ existing /= {}
  BY <1>2 DEF LedgerInv, RequestsAdmitted
<1>4. Ledger!AdmitRequest(c)
  BY <1>2 DEF Ledger!AdmitRequest
<1>5. \E r \in existing : existing = {r} /\ r.document = document
  BY <1>2, <1>3
<1>6. \E r \in existing : Ledger!Answer(c, "replayed", r.id)
  BY <1>3, <1>4, <1>5 DEF Ledger!RecordInitialRequest
<1>7. Ledger!Answer(c, "replayed", q.id)
  BY <1>3, <1>6
<1> QED
  BY <1>7 DEF Ledger!Answer

LEMMA StepReplays ==
    ASSUME LedgerInv, [Ledger!LedgerNext]_ledgerVars, NEW q \in requests,
           answer' /= answer, "content" \in DOMAIN answer'.call,
           [ref |-> Trimmed[answer'.call.ref], content |-> answer'.call.content, at |-> answer'.call.createdAt]
             = [ref |-> Trimmed[q.document.ref], content |-> q.document.content, at |-> q.document.at],
           answer'.call.createdAt = answer'.call.updatedAt
    PROVE  answer'.status = "replayed" /\ answer'.id = q.id
<1>1. PICK c : RequestCall(c) /\ Ledger!RecordInitialRequest(c)
  BY LedgerMoves DEF NoContents
<1>2. answer'.call = c
  BY <1>1 DEF Ledger!RecordInitialRequest, Ledger!Answer
<1> QED
  BY <1>1, <1>2, RequestReplayed

\* No two records share an attempt, nor a network and reference, and a request
\* that is recorded again, because its answer was lost, creates nothing and is
\* told the row it created (recordInitialRequest, recordInitialRecord).
THEOREM SettledOnceHolds == PartsSpec => SettledOnce
<1>1. PartsInit => LedgerInv
  <2>1. PartsInit => requests = {} /\ records = {}
    BY DEF PartsInit, Ledger!LedgerInit
  <2> QED
    BY <2>1 DEF LedgerInv, RequestsAdmitted, Ledger!TransferSettlesOnce
<1>2. LedgerInv /\ [PartsNext]_partsVars => LedgerInv'
  BY OnePartMoves, LedgerInductive
<1>3. LedgerInv => Ledger!TransferSettlesOnce
  BY DEF LedgerInv
<1>4. LedgerInv /\ [PartsNext]_partsVars =>
        [\A q \in requests :
            /\ answer' /= answer /\ answer' /= None /\ "content" \in DOMAIN answer'.call
            /\ [ref |-> Trimmed[answer'.call.ref], content |-> answer'.call.content, at |-> answer'.call.createdAt]
                 = [ref |-> Trimmed[q.document.ref], content |-> q.document.content, at |-> q.document.at]
            /\ answer'.call.createdAt = answer'.call.updatedAt
            => answer'.status = "replayed" /\ answer'.id = q.id]_(Ledger!ledgerVars)
  BY OnePartMoves, StepReplays
<1> QED
  BY <1>1, <1>2, <1>3, <1>4, PTL DEF PartsSpec, SettledOnce, Ledger!RetryReplays

(***************************************************************************)
(* The checks of an entity: each read ends within its timeout because the  *)
(* clock waits for it, and what is cached was served after the clock it is *)
(* filed under.                                                            *)
(***************************************************************************)

IsCheck(c) ==
    c = [stage |-> c.stage, clock |-> c.clock, number |-> c.number, found |-> c.found,
         list |-> c.list, answer |-> c.answer, at |-> c.at]

\* An answer given at an instant: not a failure of the core, and recent.
Sound(a, at) ==
    /\ a.kind /= "rejected"
    /\ a.kind = "found" =>
        /\ a.list.served \in Nat
        /\ \/ at - a.list.served < Lifetime + RegistryTimeout
           \/ at - a.list.served <= SanctionsTimeout

\* A check at some instant.
CheckOK(c, t) ==
    /\ IsCheck(c)
    /\ c.stage \in Entity!Stages /\ c.clock \in Nat /\ c.clock <= t /\ c.at \in Nat /\ c.at <= t
    /\ c.stage = "registry" => c.at = c.clock /\ t <= c.at + RegistryTimeout
    /\ c.stage \in {"headers", "body"} =>
        /\ c.clock <= c.at /\ c.at <= c.clock + RegistryTimeout
        /\ t <= c.at + SanctionsTimeout
        /\ \A company \in c.found : Entity!Mapped(company)
    /\ c.stage = "body" => c.list.served \in Nat /\ c.at <= c.list.served /\ c.list.served <= t
    /\ c.stage = "done" => Sound(c.answer, c.at)

CacheOK(entry, t) ==
    /\ entry.at \in Nat /\ entry.list.served \in Nat
    /\ entry.at <= entry.list.served /\ entry.list.served <= t
    /\ Entity!DatasetRead(entry.list)

EntityInv ==
    /\ now \in Nat /\ now <= MaxTime
    /\ cache /= None => CacheOK(cache, now)
    /\ check = [r \in Checks |-> check[r]]
    /\ \A r \in Checks : CheckOK(check[r], now)

\* What the readers let through the core accepts, so that an assessment is never
\* a rejection and names the list it was made from.
LEMMA ReadIsAccepted ==
    ASSUME NEW list, Entity!DatasetRead(list)
    PROVE  Entity!DatasetAccepted(list)
<1>1. \A date : Entity!CalendarDateIsValid(date) => Entity!HasValidCalendarDate(date)
  BY DEF Entity!CalendarDateIsValid, Entity!HasValidCalendarDate, Entity!DaysIn
<1>2. list.wrong \cap {"ent_num", "sdn_name"} = {}
  BY DEF Entity!DatasetRead
<1>3. Entity!LastModifiedIsValid(list.header)
  BY DEF Entity!DatasetRead
<1> QED
  BY <1>1, <1>2, <1>3 DEF Entity!DatasetAccepted, Entity!LastModifiedIsValid

LEMMA MappedIsAccepted ==
    ASSUME NEW c, Entity!Mapped(c)
    PROVE  Entity!CandidateAccepted(c)
<1>1. \A date : Entity!CalendarDateIsValid(date) => Entity!HasValidCalendarDate(date)
  BY DEF Entity!CalendarDateIsValid, Entity!HasValidCalendarDate, Entity!DaysIn
<1> QED
  BY <1>1 DEF Entity!Mapped, Entity!CandidateAccepted

LEMMA AssessedFromList ==
    ASSUME NEW number, NEW candidates, NEW list, Entity!DatasetRead(list),
           \A c \in candidates : Entity!Mapped(c)
    PROVE  /\ Entity!Assess(number, candidates, list).kind /= "rejected"
           /\ Entity!Assess(number, candidates, list).kind = "found" =>
                Entity!Assess(number, candidates, list).list = list
<1>1. Entity!DatasetAccepted(list) /\ \A c \in candidates : Entity!CandidateAccepted(c)
  BY ReadIsAccepted, MappedIsAccepted
<1> QED
  BY <1>1 DEF Entity!Assess

\* What becomes of the fields of a check when it begins, waits for the list, reads
\* it and ends.
Begun(c, t, n, u) == [c EXCEPT !.stage = "registry", !.clock = t, !.number = n, !.at = u]

LEMMA BegunFields ==
    ASSUME NEW c, IsCheck(c), NEW t, NEW n, NEW u
    PROVE  Begun(c, t, n, u) =
          [stage |-> "registry", clock |-> t, number |-> n, found |-> c.found,
           list |-> c.list, answer |-> c.answer, at |-> u]
<1> DEFINE d1 == [c EXCEPT !.stage = "registry"]
           d2 == [d1 EXCEPT !.clock = t]
           d3 == [d2 EXCEPT !.number = n]
           d4 == [d3 EXCEPT !.at = u]
<1>1. d1 =
          [stage |-> "registry", clock |-> c.clock, number |-> c.number, found |-> c.found,
           list |-> c.list, answer |-> c.answer, at |-> c.at]
  BY DEF IsCheck
<1> HIDE DEF d1
<1>2. d2 =
          [stage |-> "registry", clock |-> t, number |-> c.number, found |-> c.found,
           list |-> c.list, answer |-> c.answer, at |-> c.at]
  BY <1>1
<1> HIDE DEF d2
<1>3. d3 =
          [stage |-> "registry", clock |-> t, number |-> n, found |-> c.found,
           list |-> c.list, answer |-> c.answer, at |-> c.at]
  BY <1>2
<1> HIDE DEF d3
<1>4. d4 =
          [stage |-> "registry", clock |-> t, number |-> n, found |-> c.found,
           list |-> c.list, answer |-> c.answer, at |-> u]
  BY <1>3
<1> QED
  BY <1>4 DEF Begun, d1, d2, d3

Waits(c, f, t) == [c EXCEPT !.stage = "headers", !.found = f, !.at = t]

LEMMA WaitsFields ==
    ASSUME NEW c, IsCheck(c), NEW f, NEW t
    PROVE  Waits(c, f, t) =
          [stage |-> "headers", clock |-> c.clock, number |-> c.number, found |-> f,
           list |-> c.list, answer |-> c.answer, at |-> t]
<1> DEFINE d1 == [c EXCEPT !.stage = "headers"]
           d2 == [d1 EXCEPT !.found = f]
           d3 == [d2 EXCEPT !.at = t]
<1>1. d1 =
          [stage |-> "headers", clock |-> c.clock, number |-> c.number, found |-> c.found,
           list |-> c.list, answer |-> c.answer, at |-> c.at]
  BY DEF IsCheck
<1> HIDE DEF d1
<1>2. d2 =
          [stage |-> "headers", clock |-> c.clock, number |-> c.number, found |-> f,
           list |-> c.list, answer |-> c.answer, at |-> c.at]
  BY <1>1
<1> HIDE DEF d2
<1>3. d3 =
          [stage |-> "headers", clock |-> c.clock, number |-> c.number, found |-> f,
           list |-> c.list, answer |-> c.answer, at |-> t]
  BY <1>2
<1> QED
  BY <1>3 DEF Waits, d1, d2

Reads(c, l) == [c EXCEPT !.stage = "body", !.list = l]

LEMMA ReadsFields ==
    ASSUME NEW c, IsCheck(c), NEW l
    PROVE  Reads(c, l) =
          [stage |-> "body", clock |-> c.clock, number |-> c.number, found |-> c.found,
           list |-> l, answer |-> c.answer, at |-> c.at]
<1> DEFINE d1 == [c EXCEPT !.stage = "body"]
           d2 == [d1 EXCEPT !.list = l]
<1>1. d1 =
          [stage |-> "body", clock |-> c.clock, number |-> c.number, found |-> c.found,
           list |-> c.list, answer |-> c.answer, at |-> c.at]
  BY DEF IsCheck
<1> HIDE DEF d1
<1>2. d2 =
          [stage |-> "body", clock |-> c.clock, number |-> c.number, found |-> c.found,
           list |-> l, answer |-> c.answer, at |-> c.at]
  BY <1>1
<1> QED
  BY <1>2 DEF Reads, d1

Ended(c, a, t) == [c EXCEPT !.stage = "done", !.answer = a, !.at = t]

LEMMA EndedFields ==
    ASSUME NEW c, IsCheck(c), NEW a, NEW t
    PROVE  Ended(c, a, t) =
          [stage |-> "done", clock |-> c.clock, number |-> c.number, found |-> c.found,
           list |-> c.list, answer |-> a, at |-> t]
<1> DEFINE d1 == [c EXCEPT !.stage = "done"]
           d2 == [d1 EXCEPT !.answer = a]
           d3 == [d2 EXCEPT !.at = t]
<1>1. d1 =
          [stage |-> "done", clock |-> c.clock, number |-> c.number, found |-> c.found,
           list |-> c.list, answer |-> c.answer, at |-> c.at]
  BY DEF IsCheck
<1> HIDE DEF d1
<1>2. d2 =
          [stage |-> "done", clock |-> c.clock, number |-> c.number, found |-> c.found,
           list |-> c.list, answer |-> a, at |-> c.at]
  BY <1>1
<1> HIDE DEF d2
<1>3. d3 =
          [stage |-> "done", clock |-> c.clock, number |-> c.number, found |-> c.found,
           list |-> c.list, answer |-> a, at |-> t]
  BY <1>2
<1> QED
  BY <1>3 DEF Ended, d1, d2

LEMMA IdleIsCheck ==
    /\ IsCheck(Entity!Idle) /\ Entity!Idle.stage = "idle" /\ Entity!Idle.clock = 0
    /\ Entity!Idle.found = {} /\ Entity!Idle.at = 0
  BY DEF IsCheck, Entity!Idle

\* One check changes, at an instant that stands still.
LEMMA OneCheckMoves ==
    ASSUME EntityInv, NEW r \in Checks, NEW c, CheckOK(c, now),
           check' = [check EXCEPT ![r] = c], UNCHANGED now
    PROVE  /\ check' = [q \in Checks |-> check'[q]]
           /\ \A q \in Checks : CheckOK(check'[q], now')
<1>1. \A q \in Checks : check'[q] = IF q = r THEN c ELSE check[q]
  BY DEF EntityInv
<1>2. check' = [q \in Checks |-> check'[q]]
  BY DEF EntityInv
<1>3. \A q \in Checks : CheckOK(check'[q], now)
  BY <1>1 DEF EntityInv
<1> QED
  BY <1>2, <1>3

LEMMA EndMoves ==
    ASSUME EntityInv, NEW r \in Checks, NEW a, Sound(a, now), Entity!End(r, a), UNCHANGED now
    PROVE  /\ check' = [q \in Checks |-> check'[q]]
           /\ \A q \in Checks : CheckOK(check'[q], now')
<1> DEFINE c == Ended(Entity!Idle, a, now)
<1>1. c = [stage |-> "done", clock |-> Entity!Idle.clock, number |-> Entity!Idle.number,
           found |-> Entity!Idle.found, list |-> Entity!Idle.list, answer |-> a, at |-> now]
  BY IdleIsCheck, EndedFields
<1>2. check' = [check EXCEPT ![r] = c]
  BY DEF Entity!End, Ended
<1> HIDE DEF c
<1>3. now \in Nat
  BY DEF EntityInv
<1>4. CheckOK(c, now)
  BY <1>1, <1>3, IdleIsCheck DEF CheckOK, IsCheck, Entity!Stages
<1> QED
  BY <1>2, <1>4, OneCheckMoves

LEMMA ReplySound ==
    ASSUME NEW kind \in {"unavailable", "invalid", "registry_unavailable", "sanctions_unavailable"}
    PROVE  Sound([kind |-> kind], now)
  BY DEF Sound

LEMMA TickInv ==
    ASSUME EntityInv, Entity!Tick
    PROVE  EntityInv'
<1>1. now \in Nat /\ now' = now + 1 /\ now + 1 <= MaxTime /\ UNCHANGED <<cache, check>>
  BY PartsConstants DEF Entity!Tick, EntityInv
<1>2. ASSUME NEW r \in Checks
      PROVE  CheckOK(check[r], now + 1)
  <2>1. CheckOK(check[r], now) /\ ~Entity!Expired(r)
    BY <1>2 DEF EntityInv, Entity!Tick
  <2>2. check[r].stage = "registry" => now < check[r].at + RegistryTimeout
    BY <1>1, <2>1, PartsConstants DEF Entity!Expired, Entity!Bounded, Entity!Deadline, CheckOK
  <2>3. check[r].stage \in {"headers", "body"} => now < check[r].at + SanctionsTimeout
    BY <1>1, <2>1, PartsConstants DEF Entity!Expired, Entity!Bounded, Entity!Deadline, CheckOK
  <2> QED
    BY <1>1, <2>1, <2>2, <2>3, PartsConstants DEF CheckOK
<1>3. cache /= None => CacheOK(cache, now + 1)
  BY <1>1 DEF EntityInv, CacheOK
<1>4. \A r \in Checks : CheckOK(check[r], now + 1)
  BY <1>2
<1>5. check' = [r \in Checks |-> check'[r]] /\ (\A r \in Checks : CheckOK(check'[r], now'))
  BY <1>1, <1>4 DEF EntityInv
<1>6. cache' /= None => CacheOK(cache', now')
  BY <1>1, <1>3
<1> QED
  BY <1>1, <1>5, <1>6 DEF EntityInv

LEMMA StartInv ==
    ASSUME EntityInv, NEW r \in Checks, Entity!Start(r)
    PROVE  EntityInv'
<1>1. PICK e \in Entity!Evaluations :
        IF e.kind = "read"
        THEN check' = [check EXCEPT ![r] = [Entity!Idle EXCEPT !.stage = "registry", !.clock = now,
                                                              !.number = e.number, !.at = now]]
        ELSE Entity!Reply(r, e.kind)
  BY DEF Entity!Start
<1>2. e.kind \in {"read", "unavailable", "invalid"}
  BY DEF Entity!Evaluations, Entity!Evaluation
<1>3. UNCHANGED <<now, cache>> /\ now \in Nat
  BY DEF Entity!Start, EntityInv
<1>4. check' = [q \in Checks |-> check'[q]] /\ (\A q \in Checks : CheckOK(check'[q], now'))
  <2>1. CASE e.kind = "read"
    <3> DEFINE c == Begun(Entity!Idle, now, e.number, now)
    <3>1. c = [stage |-> "registry", clock |-> now, number |-> e.number,
               found |-> Entity!Idle.found, list |-> Entity!Idle.list,
               answer |-> Entity!Idle.answer, at |-> now]
      <4>1. IsCheck(Entity!Idle)
        BY IdleIsCheck
      <4>2. PICK n : n = e.number
        OBVIOUS
      <4> QED
        BY <4>1, <4>2, BegunFields
    <3>2. check' = [check EXCEPT ![r] = c]
      BY <1>1, <2>1 DEF Begun
    <3> HIDE DEF c
    <3>3. CheckOK(c, now)
      BY <1>3, <3>1, PartsConstants DEF CheckOK, IsCheck, Entity!Stages
    <3> QED
      BY <1>3, <3>2, <3>3, OneCheckMoves
  <2>2. CASE e.kind /= "read"
    BY <1>1, <1>2, <1>3, <2>2, ReplySound, EndMoves DEF Entity!Reply
  <2> QED
    BY <2>1, <2>2
<1> QED
  BY <1>3, <1>4 DEF EntityInv

\* The registry answers, and the cache either serves the screening or is emptied.
LEMMA ReadRegistryInv ==
    ASSUME EntityInv, NEW r \in Checks, Entity!ReadRegistry(r)
    PROVE  EntityInv'
<1>1. PICK listed \in SUBSET Records :
        IF cache /= None /\ Entity!Fresh(check[r].clock - cache.at)
        THEN /\ Entity!Answered(r, Entity!Candidates(listed), cache.list)
             /\ UNCHANGED cache
        ELSE /\ cache' = None
             /\ check' = [check EXCEPT ![r].stage = "headers",
                                       ![r].found = Entity!Candidates(listed), ![r].at = now]
  BY DEF Entity!ReadRegistry
<1>2. /\ check[r].stage = "registry" /\ UNCHANGED now /\ CheckOK(check[r], now)
      /\ now \in Nat
  BY DEF Entity!ReadRegistry, EntityInv
<1>3. \A c \in Entity!Candidates(listed) : Entity!Mapped(c)
  BY DEF Entity!Candidates
<1>4. CASE cache /= None /\ Entity!Fresh(check[r].clock - cache.at)
  <2> DEFINE a == Entity!Assess(check[r].number, Entity!Candidates(listed), cache.list)
  <2>1. CacheOK(cache, now)
    BY <1>4 DEF EntityInv
  <2>2. a.kind /= "rejected" /\ (a.kind = "found" => a.list = cache.list)
    BY <1>3, <2>1, AssessedFromList DEF CacheOK
  <2>3. Entity!End(r, a) /\ UNCHANGED cache
    BY <1>1, <1>4 DEF Entity!Answered
  <2> HIDE DEF a
  <2>4. now - cache.list.served < Lifetime + RegistryTimeout
    BY <1>2, <1>4, <2>1, PartsConstants DEF CheckOK, CacheOK, Entity!Fresh
  <2>5. Sound(a, now)
    BY <2>1, <2>2, <2>4 DEF Sound, CacheOK
  <2>6. check' = [q \in Checks |-> check'[q]] /\ (\A q \in Checks : CheckOK(check'[q], now'))
    BY <1>2, <2>3, <2>5, EndMoves
  <2> QED
    BY <1>2, <2>3, <2>6 DEF EntityInv
<1>5. CASE ~(cache /= None /\ Entity!Fresh(check[r].clock - cache.at))
  <2> DEFINE found == Entity!Candidates(listed)
             c == Waits(check[r], found, now)
  <2>1. cache' = None /\ check' = [check EXCEPT ![r].stage = "headers", ![r].found = found, ![r].at = now]
    BY <1>1, <1>5
  <2>2. check' = [check EXCEPT ![r] = c]
    <3> HIDE DEF found
    <3>1. [check EXCEPT ![r].stage = "headers", ![r].found = found, ![r].at = now]
            = [check EXCEPT ![r] = [check[r] EXCEPT !.stage = "headers", !.found = found, !.at = now]]
      BY DEF EntityInv
    <3> QED
      BY <2>1, <3>1 DEF Waits
  <2>3. c = [stage |-> "headers", clock |-> check[r].clock, number |-> check[r].number,
             found |-> found, list |-> check[r].list, answer |-> check[r].answer, at |-> now]
    BY <1>2, WaitsFields DEF CheckOK
  <2> HIDE DEF c, found
  <2>4. \A company \in found : Entity!Mapped(company)
    BY <1>3 DEF found
  <2>5. CheckOK(c, now)
    BY <1>2, <2>3, <2>4, PartsConstants DEF CheckOK, IsCheck, Entity!Stages
  <2>6. check' = [q \in Checks |-> check'[q]] /\ (\A q \in Checks : CheckOK(check'[q], now'))
    BY <1>2, <2>2, <2>5, OneCheckMoves
  <2> QED
    BY <1>2, <2>1, <2>6 DEF EntityInv
<1> QED
  BY <1>4, <1>5

LEMMA ListServedInv ==
    ASSUME EntityInv, NEW r \in Checks, Entity!ListServed(r)
    PROVE  EntityInv'
<1>1. PICK list \in Lists :
        check' = [check EXCEPT ![r].stage = "body",
                               ![r].list = [names |-> list.names, wrong |-> list.wrong,
                                            header |-> list.header, served |-> now]]
  BY DEF Entity!ListServed
<1>2. /\ check[r].stage = "headers" /\ UNCHANGED <<now, cache>> /\ CheckOK(check[r], now)
      /\ now \in Nat
  BY DEF Entity!ListServed, EntityInv
<1> DEFINE served == [names |-> list.names, wrong |-> list.wrong,
                      header |-> list.header, served |-> now]
           c == Reads(check[r], served)
<1>3. served.served = now
  OBVIOUS
<1>4. check' = [check EXCEPT ![r] = c]
  <2>1. check' = [check EXCEPT ![r].stage = "body", ![r].list = served]
    BY <1>1
  <2> HIDE DEF served
  <2>2. [check EXCEPT ![r].stage = "body", ![r].list = served]
          = [check EXCEPT ![r] = [check[r] EXCEPT !.stage = "body", !.list = served]]
    BY DEF EntityInv
  <2> QED
    BY <2>1, <2>2 DEF Reads
<1> HIDE DEF served
<1>5. c = [stage |-> "body", clock |-> check[r].clock, number |-> check[r].number,
           found |-> check[r].found, list |-> served, answer |-> check[r].answer, at |-> check[r].at]
  BY <1>2, ReadsFields DEF CheckOK
<1> HIDE DEF c
<1>6. CheckOK(c, now)
  BY <1>2, <1>3, <1>5 DEF CheckOK, IsCheck, Entity!Stages
<1>7. check' = [q \in Checks |-> check'[q]] /\ (\A q \in Checks : CheckOK(check'[q], now'))
  BY <1>2, <1>4, <1>6, OneCheckMoves
<1> QED
  BY <1>2, <1>7 DEF EntityInv

\* The list that was read is filed under the clock of the check that read it.
LEMMA ReadListInv ==
    ASSUME EntityInv, NEW r \in Checks, Entity!ReadList(r)
    PROVE  EntityInv'
<1> DEFINE list == check[r].list
           a == Entity!Assess(check[r].number, check[r].found, list)
<1>1. /\ check[r].stage = "body" /\ Entity!DatasetRead(list) /\ UNCHANGED now
      /\ cache' = [at |-> check[r].clock, list |-> list] /\ Entity!End(r, a)
      /\ CheckOK(check[r], now) /\ now \in Nat
  BY DEF Entity!ReadList, Entity!Answered, EntityInv
<1>2. a.kind /= "rejected" /\ (a.kind = "found" => a.list = list)
  BY <1>1, AssessedFromList DEF CheckOK
<1> HIDE DEF a
<1>3. now - list.served <= SanctionsTimeout /\ list.served \in Nat
  BY <1>1, PartsConstants DEF CheckOK
<1>4. Sound(a, now)
  BY <1>2, <1>3 DEF Sound
<1>5. check' = [q \in Checks |-> check'[q]] /\ (\A q \in Checks : CheckOK(check'[q], now'))
  BY <1>1, <1>4, EndMoves
<1>6. CacheOK([at |-> check[r].clock, list |-> list], now)
  BY <1>1 DEF CheckOK, CacheOK
<1> QED
  BY <1>1, <1>5, <1>6 DEF EntityInv

LEMMA EntityInductive ==
    ASSUME EntityInv, [Entity!EntityNext]_entityVars
    PROVE  EntityInv'
<1>1. CASE UNCHANGED entityVars
  BY <1>1 DEF entityVars, EntityInv
<1>2. ASSUME NEW r \in Checks, NEW kind \in {"registry_unavailable", "sanctions_unavailable"},
             Entity!Reply(r, kind), UNCHANGED <<now, cache>>
      PROVE  EntityInv'
  <2>1. check' = [q \in Checks |-> check'[q]] /\ (\A q \in Checks : CheckOK(check'[q], now'))
    BY <1>2, ReplySound, EndMoves DEF Entity!Reply
  <2> QED
    BY <1>2, <2>1 DEF EntityInv
<1>3. ASSUME NEW r \in Checks, Entity!Finish(r)
      PROVE  EntityInv'
  <2>1. check' = [check EXCEPT ![r] = Entity!Idle] /\ UNCHANGED <<now, cache>> /\ now \in Nat
    BY <1>3 DEF Entity!Finish, EntityInv
  <2>2. CheckOK(Entity!Idle, now)
    BY <2>1, IdleIsCheck DEF CheckOK, Entity!Stages
  <2>3. check' = [q \in Checks |-> check'[q]] /\ (\A q \in Checks : CheckOK(check'[q], now'))
    BY <2>1, <2>2, OneCheckMoves
  <2> QED
    BY <2>1, <2>3 DEF EntityInv
<1>4. ASSUME NEW r \in Checks, Entity!RegistryFails(r) \/ Entity!ListFails(r)
      PROVE  EntityInv'
  BY <1>2, <1>4 DEF Entity!RegistryFails, Entity!ListFails
<1> QED
  BY <1>1, <1>3, <1>4, TickInv, StartInv, ReadRegistryInv, ListServedInv, ReadListInv
  DEF Entity!EntityNext

\* A screening list is recent whatever checks overlap and however late one of
\* them fills the cache, a source that stalls is given up in time, and what the
\* readers let through the core never refuses (evaluateEntityCheck).
THEOREM EntityAnsweredHolds == PartsSpec => []EntityAnswered
<1>1. PartsInit => EntityInv
  <2>1. PartsInit => now = 0 /\ cache = None /\ check = [r \in Checks |-> Entity!Idle]
    BY DEF PartsInit, Entity!EntityInit
  <2>2. CheckOK(Entity!Idle, 0)
    BY IdleIsCheck DEF CheckOK, Entity!Stages
  <2> QED
    BY <2>1, <2>2, PartsConstants DEF EntityInv
<1>2. EntityInv /\ [PartsNext]_partsVars => EntityInv'
  BY OnePartMoves, EntityInductive
<1>3. EntityInv => EntityAnswered
  <2> SUFFICES ASSUME EntityInv PROVE EntityAnswered
    OBVIOUS
  <2>1. Entity!EntityTypeOK
    BY PartsConstants DEF EntityInv, Entity!EntityTypeOK, CacheOK, CheckOK
  <2>2. Entity!ScreenIsRecent
    BY DEF EntityInv, Entity!ScreenIsRecent, CheckOK, Sound
  <2>3. Entity!AnswersInTime
    BY PartsConstants DEF EntityInv, Entity!AnswersInTime, CheckOK
  <2>4. Entity!ReadIsAssessable
    BY DEF EntityInv, Entity!ReadIsAssessable, CheckOK, Sound
  <2> QED
    BY <2>1, <2>2, <2>3, <2>4 DEF EntityAnswered
<1> QED
  BY <1>1, <1>2, <1>3, PTL DEF PartsSpec

(***************************************************************************)
(* The paying agent: what a run was charged is what it signed, a run that  *)
(* has sent its signed request never signs again, and a file that a run    *)
(* wrote is never free again.                                              *)
(***************************************************************************)

IsRun(r) ==
    r = [mode |-> r.mode, step |-> r.step, path |-> r.path, quote |-> r.quote, signed |-> r.signed,
         sent |-> r.sent, phase |-> r.phase, diagnostic |-> r.diagnostic, exported |-> r.exported]

Unsent == {"start", "directory", "initial", "sign"}
LatePhases == {"signed_retry", "settlement", "result", "paid"}
EarlyPhases == {"configuration", "directory", "quote", "initial_request", "payment_payload",
                "terminal", "preflight_guard"}

RunOK(r) ==
    /\ IsRun(r)
    /\ r.mode \in Agent!Modes /\ r.step \in Agent!Steps /\ r.path \in Paths \cup {None}
    /\ r.sent \in BOOLEAN /\ r.exported \in BOOLEAN
    /\ r.phase \in EarlyPhases \cup LatePhases
    /\ r.step \in Unsent => ~r.sent /\ r.phase \in EarlyPhases
    /\ r.step \in {"retry", "settle", "body"} => r.sent /\ r.phase \in LatePhases
    /\ r.step /= "end" => r.diagnostic = None /\ ~r.exported
    /\ r.step = "initial" /\ r.mode = "pay" => r.quote <= Maximum
    /\ r.step = "sign" \/ r.sent => r.signed \in Amounts /\ r.signed = r.quote /\ r.quote <= Maximum
    /\ r.sent => r.diagnostic \notin Agent!Early
    /\ r.exported => r.path \in Paths

AgentInv ==
    /\ price \in Amounts
    /\ run = [p \in Runs |-> run[p]]
    /\ \A p \in Runs : RunOK(run[p])
    /\ \A c \in charged : c.run \in Runs /\ run[c.run].sent /\ c = Agent!Signed(c.run)
    /\ files \in [Paths -> Runs \cup {None}]
    /\ \A p \in Runs : run[p].step \in {"settle", "body"} => Agent!Signed(p) \in charged
    /\ \A p \in Runs : run[p].exported => files[run[p].path] = p /\ Agent!Signed(p) \in charged

\* What becomes of the fields of a run.
Started(r, m, f) == [r EXCEPT !.mode = m, !.path = f, !.step = "directory"]

LEMMA StartedFields ==
    ASSUME NEW r, IsRun(r), NEW m, NEW f
    PROVE  Started(r, m, f) =
             [mode |-> m, step |-> "directory", path |-> f, quote |-> r.quote, signed |-> r.signed,
              sent |-> r.sent, phase |-> r.phase, diagnostic |-> r.diagnostic, exported |-> r.exported]
<1> DEFINE r1 == [r EXCEPT !.mode = m]
           r2 == [r1 EXCEPT !.path = f]
           r3 == [r2 EXCEPT !.step = "directory"]
<1>1. r1 = [mode |-> m, step |-> r.step, path |-> r.path, quote |-> r.quote, signed |-> r.signed,
           sent |-> r.sent, phase |-> r.phase, diagnostic |-> r.diagnostic, exported |-> r.exported]
  BY DEF IsRun
<1> HIDE DEF r1
<1>2. r2 = [mode |-> m, step |-> r.step, path |-> f, quote |-> r.quote, signed |-> r.signed,
           sent |-> r.sent, phase |-> r.phase, diagnostic |-> r.diagnostic, exported |-> r.exported]
  BY <1>1
<1> HIDE DEF r2
<1>3. r3 = [mode |-> m, step |-> "directory", path |-> f, quote |-> r.quote, signed |-> r.signed,
           sent |-> r.sent, phase |-> r.phase, diagnostic |-> r.diagnostic, exported |-> r.exported]
  BY <1>2
<1> QED
  BY <1>3 DEF Started, r1, r2

Refused(r, m, f, d) == [r EXCEPT !.mode = m, !.path = f, !.step = "end", !.diagnostic = d]

LEMMA RefusedFields ==
    ASSUME NEW r, IsRun(r), NEW m, NEW f, NEW d
    PROVE  Refused(r, m, f, d) =
             [mode |-> m, step |-> "end", path |-> f, quote |-> r.quote, signed |-> r.signed,
              sent |-> r.sent, phase |-> r.phase, diagnostic |-> d, exported |-> r.exported]
<1> DEFINE r1 == [r EXCEPT !.mode = m]
           r2 == [r1 EXCEPT !.path = f]
           r3 == [r2 EXCEPT !.step = "end"]
           r4 == [r3 EXCEPT !.diagnostic = d]
<1>1. r1 = [mode |-> m, step |-> r.step, path |-> r.path, quote |-> r.quote, signed |-> r.signed,
           sent |-> r.sent, phase |-> r.phase, diagnostic |-> r.diagnostic, exported |-> r.exported]
  BY DEF IsRun
<1> HIDE DEF r1
<1>2. r2 = [mode |-> m, step |-> r.step, path |-> f, quote |-> r.quote, signed |-> r.signed,
           sent |-> r.sent, phase |-> r.phase, diagnostic |-> r.diagnostic, exported |-> r.exported]
  BY <1>1
<1> HIDE DEF r2
<1>3. r3 = [mode |-> m, step |-> "end", path |-> f, quote |-> r.quote, signed |-> r.signed,
           sent |-> r.sent, phase |-> r.phase, diagnostic |-> r.diagnostic, exported |-> r.exported]
  BY <1>2
<1> HIDE DEF r3
<1>4. r4 = [mode |-> m, step |-> "end", path |-> f, quote |-> r.quote, signed |-> r.signed,
           sent |-> r.sent, phase |-> r.phase, diagnostic |-> d, exported |-> r.exported]
  BY <1>3
<1> QED
  BY <1>4 DEF Refused, r1, r2, r3

Quoted(r, a) == [r EXCEPT !.step = "initial", !.quote = a]

LEMMA QuotedFields ==
    ASSUME NEW r, IsRun(r), NEW a
    PROVE  Quoted(r, a) =
             [mode |-> r.mode, step |-> "initial", path |-> r.path, quote |-> a, signed |-> r.signed,
              sent |-> r.sent, phase |-> r.phase, diagnostic |-> r.diagnostic, exported |-> r.exported]
<1> DEFINE r1 == [r EXCEPT !.step = "initial"]
           r2 == [r1 EXCEPT !.quote = a]
<1>1. r1 = [mode |-> r.mode, step |-> "initial", path |-> r.path, quote |-> r.quote, signed |-> r.signed,
           sent |-> r.sent, phase |-> r.phase, diagnostic |-> r.diagnostic, exported |-> r.exported]
  BY DEF IsRun
<1> HIDE DEF r1
<1>2. r2 = [mode |-> r.mode, step |-> "initial", path |-> r.path, quote |-> a, signed |-> r.signed,
           sent |-> r.sent, phase |-> r.phase, diagnostic |-> r.diagnostic, exported |-> r.exported]
  BY <1>1
<1> QED
  BY <1>2 DEF Quoted, r1

Challenged(r, a) == [r EXCEPT !.step = "sign", !.signed = a, !.phase = "payment_payload"]

LEMMA ChallengedFields ==
    ASSUME NEW r, IsRun(r), NEW a
    PROVE  Challenged(r, a) =
             [mode |-> r.mode, step |-> "sign", path |-> r.path, quote |-> r.quote, signed |-> a,
              sent |-> r.sent, phase |-> "payment_payload", diagnostic |-> r.diagnostic, exported |-> r.exported]
<1> DEFINE r1 == [r EXCEPT !.step = "sign"]
           r2 == [r1 EXCEPT !.signed = a]
           r3 == [r2 EXCEPT !.phase = "payment_payload"]
<1>1. r1 = [mode |-> r.mode, step |-> "sign", path |-> r.path, quote |-> r.quote, signed |-> r.signed,
           sent |-> r.sent, phase |-> r.phase, diagnostic |-> r.diagnostic, exported |-> r.exported]
  BY DEF IsRun
<1> HIDE DEF r1
<1>2. r2 = [mode |-> r.mode, step |-> "sign", path |-> r.path, quote |-> r.quote, signed |-> a,
           sent |-> r.sent, phase |-> r.phase, diagnostic |-> r.diagnostic, exported |-> r.exported]
  BY <1>1
<1> HIDE DEF r2
<1>3. r3 = [mode |-> r.mode, step |-> "sign", path |-> r.path, quote |-> r.quote, signed |-> a,
           sent |-> r.sent, phase |-> "payment_payload", diagnostic |-> r.diagnostic, exported |-> r.exported]
  BY <1>2
<1> QED
  BY <1>3 DEF Challenged, r1, r2

Sends(r, b, h) == [r EXCEPT !.step = "retry", !.sent = b, !.phase = h]

LEMMA SendsFields ==
    ASSUME NEW r, IsRun(r), NEW b, NEW h
    PROVE  Sends(r, b, h) =
             [mode |-> r.mode, step |-> "retry", path |-> r.path, quote |-> r.quote, signed |-> r.signed,
              sent |-> b, phase |-> h, diagnostic |-> r.diagnostic, exported |-> r.exported]
<1> DEFINE r1 == [r EXCEPT !.step = "retry"]
           r2 == [r1 EXCEPT !.sent = b]
           r3 == [r2 EXCEPT !.phase = h]
<1>1. r1 = [mode |-> r.mode, step |-> "retry", path |-> r.path, quote |-> r.quote, signed |-> r.signed,
           sent |-> r.sent, phase |-> r.phase, diagnostic |-> r.diagnostic, exported |-> r.exported]
  BY DEF IsRun
<1> HIDE DEF r1
<1>2. r2 = [mode |-> r.mode, step |-> "retry", path |-> r.path, quote |-> r.quote, signed |-> r.signed,
           sent |-> b, phase |-> r.phase, diagnostic |-> r.diagnostic, exported |-> r.exported]
  BY <1>1
<1> HIDE DEF r2
<1>3. r3 = [mode |-> r.mode, step |-> "retry", path |-> r.path, quote |-> r.quote, signed |-> r.signed,
           sent |-> b, phase |-> h, diagnostic |-> r.diagnostic, exported |-> r.exported]
  BY <1>2
<1> QED
  BY <1>3 DEF Sends, r1, r2

Goes(r, s, h) == [r EXCEPT !.step = s, !.phase = h]

LEMMA GoesFields ==
    ASSUME NEW r, IsRun(r), NEW s, NEW h
    PROVE  Goes(r, s, h) =
             [mode |-> r.mode, step |-> s, path |-> r.path, quote |-> r.quote, signed |-> r.signed,
              sent |-> r.sent, phase |-> h, diagnostic |-> r.diagnostic, exported |-> r.exported]
<1> DEFINE r1 == [r EXCEPT !.step = s]
           r2 == [r1 EXCEPT !.phase = h]
<1>1. r1 = [mode |-> r.mode, step |-> s, path |-> r.path, quote |-> r.quote, signed |-> r.signed,
           sent |-> r.sent, phase |-> r.phase, diagnostic |-> r.diagnostic, exported |-> r.exported]
  BY DEF IsRun
<1> HIDE DEF r1
<1>2. r2 = [mode |-> r.mode, step |-> s, path |-> r.path, quote |-> r.quote, signed |-> r.signed,
           sent |-> r.sent, phase |-> h, diagnostic |-> r.diagnostic, exported |-> r.exported]
  BY <1>1
<1> QED
  BY <1>2 DEF Goes, r1

Over(r, h, d) == [r EXCEPT !.step = "end", !.phase = h, !.diagnostic = d]

LEMMA OverFields ==
    ASSUME NEW r, IsRun(r), NEW h, NEW d
    PROVE  Over(r, h, d) =
             [mode |-> r.mode, step |-> "end", path |-> r.path, quote |-> r.quote, signed |-> r.signed,
              sent |-> r.sent, phase |-> h, diagnostic |-> d, exported |-> r.exported]
<1> DEFINE r1 == [r EXCEPT !.step = "end"]
           r2 == [r1 EXCEPT !.phase = h]
           r3 == [r2 EXCEPT !.diagnostic = d]
<1>1. r1 = [mode |-> r.mode, step |-> "end", path |-> r.path, quote |-> r.quote, signed |-> r.signed,
           sent |-> r.sent, phase |-> r.phase, diagnostic |-> r.diagnostic, exported |-> r.exported]
  BY DEF IsRun
<1> HIDE DEF r1
<1>2. r2 = [mode |-> r.mode, step |-> "end", path |-> r.path, quote |-> r.quote, signed |-> r.signed,
           sent |-> r.sent, phase |-> h, diagnostic |-> r.diagnostic, exported |-> r.exported]
  BY <1>1
<1> HIDE DEF r2
<1>3. r3 = [mode |-> r.mode, step |-> "end", path |-> r.path, quote |-> r.quote, signed |-> r.signed,
           sent |-> r.sent, phase |-> h, diagnostic |-> d, exported |-> r.exported]
  BY <1>2
<1> QED
  BY <1>3 DEF Over, r1, r2

Paid(r, d, x) == [r EXCEPT !.step = "end", !.phase = "paid", !.diagnostic = d, !.exported = x]

LEMMA PaidFields ==
    ASSUME NEW r, IsRun(r), NEW d, NEW x
    PROVE  Paid(r, d, x) =
             [mode |-> r.mode, step |-> "end", path |-> r.path, quote |-> r.quote, signed |-> r.signed,
              sent |-> r.sent, phase |-> "paid", diagnostic |-> d, exported |-> x]
<1> DEFINE r1 == [r EXCEPT !.step = "end"]
           r2 == [r1 EXCEPT !.phase = "paid"]
           r3 == [r2 EXCEPT !.diagnostic = d]
           r4 == [r3 EXCEPT !.exported = x]
<1>1. r1 = [mode |-> r.mode, step |-> "end", path |-> r.path, quote |-> r.quote, signed |-> r.signed,
           sent |-> r.sent, phase |-> r.phase, diagnostic |-> r.diagnostic, exported |-> r.exported]
  BY DEF IsRun
<1> HIDE DEF r1
<1>2. r2 = [mode |-> r.mode, step |-> "end", path |-> r.path, quote |-> r.quote, signed |-> r.signed,
           sent |-> r.sent, phase |-> "paid", diagnostic |-> r.diagnostic, exported |-> r.exported]
  BY <1>1
<1> HIDE DEF r2
<1>3. r3 = [mode |-> r.mode, step |-> "end", path |-> r.path, quote |-> r.quote, signed |-> r.signed,
           sent |-> r.sent, phase |-> "paid", diagnostic |-> d, exported |-> r.exported]
  BY <1>2
<1> HIDE DEF r3
<1>4. r4 = [mode |-> r.mode, step |-> "end", path |-> r.path, quote |-> r.quote, signed |-> r.signed,
           sent |-> r.sent, phase |-> "paid", diagnostic |-> d, exported |-> x]
  BY <1>3
<1> QED
  BY <1>4 DEF Paid, r1, r2, r3


\* Setting fields of one run is setting that run.
LEMMA OneRunSet ==
    ASSUME run = [p \in Runs |-> run[p]], NEW p \in Runs
    PROVE  /\ \A m, f : [[run EXCEPT ![p].mode = m, ![p].path = f] EXCEPT ![p].step = "directory"]
                          = [run EXCEPT ![p] = Started(run[p], m, f)]
           /\ \A m, f, d : [[run EXCEPT ![p].mode = m, ![p].path = f] EXCEPT ![p].step = "end", ![p].diagnostic = d]
                          = [run EXCEPT ![p] = Refused(run[p], m, f, d)]
           /\ \A a : [run EXCEPT ![p].step = "initial", ![p].quote = a]
                          = [run EXCEPT ![p] = Quoted(run[p], a)]
           /\ \A a : [run EXCEPT ![p].step = "sign", ![p].signed = a, ![p].phase = "payment_payload"]
                          = [run EXCEPT ![p] = Challenged(run[p], a)]
           /\ \A h : [run EXCEPT ![p].step = "retry", ![p].sent = TRUE, ![p].phase = h]
                          = [run EXCEPT ![p] = Sends(run[p], TRUE, h)]
           /\ \A s, h : [run EXCEPT ![p].step = s, ![p].phase = h]
                          = [run EXCEPT ![p] = Goes(run[p], s, h)]
           /\ \A h, d : [run EXCEPT ![p].step = "end", ![p].phase = h, ![p].diagnostic = d]
                          = [run EXCEPT ![p] = Over(run[p], h, d)]
           /\ \A d, x : [run EXCEPT ![p].step = "end", ![p].phase = "paid", ![p].diagnostic = d, ![p].exported = x]
                          = [run EXCEPT ![p] = Paid(run[p], d, x)]
  BY DEF Started, Refused, Quoted, Challenged, Sends, Goes, Over, Paid

LEMMA DiagnosticOf ==
    /\ \A h \in EarlyPhases : Agent!Diagnostic(h) \in Agent!Early
    /\ \A h \in LatePhases : Agent!Diagnostic(h) \notin Agent!Early
  BY DEF Agent!Diagnostic, Agent!Early, EarlyPhases, LatePhases

\* One run moves and the rest of the world stands still: it exports nothing, and
\* once it has sent its signed request it keeps what it signed.
LEMMA RunMoves ==
    ASSUME AgentInv, NEW p \in Runs, NEW s, RunOK(s), ~s.exported,
           run' = [run EXCEPT ![p] = s], UNCHANGED <<price, charged, files>>,
           run[p].sent => s.sent /\ s.signed = run[p].signed,
           s.step \in {"settle", "body"} => Agent!Signed(p) \in charged /\ s.signed = run[p].signed
    PROVE  AgentInv'
<1>1. \A q \in Runs : run'[q] = IF q = p THEN s ELSE run[q]
  BY DEF AgentInv
<1>2. run' = [q \in Runs |-> run'[q]]
  BY DEF AgentInv
<1>3. \A q \in Runs : RunOK(run'[q])
  BY <1>1 DEF AgentInv
<1>4. \A q \in Runs : q /= p \/ s.signed = run[p].signed => Agent!Signed(q)' = Agent!Signed(q)
  BY <1>1 DEF Agent!Signed
<1>5. \A c \in charged : c.run \in Runs /\ run'[c.run].sent /\ c = Agent!Signed(c.run)'
  BY <1>1, <1>4 DEF AgentInv
<1>6. \A q \in Runs : run'[q].step \in {"settle", "body"} => Agent!Signed(q)' \in charged
  BY <1>1, <1>4 DEF AgentInv
<1>7. \A q \in Runs : run'[q].exported => files[run'[q].path] = q /\ Agent!Signed(q)' \in charged
  BY <1>1, <1>4 DEF AgentInv
<1> QED
  BY <1>2, <1>3, <1>5, <1>6, <1>7 DEF AgentInv

LEMMA EndsInv ==
    ASSUME AgentInv, NEW p \in Runs, run[p].step /= "end", NEW h \in EarlyPhases \cup LatePhases,
           run[p].sent => h \in LatePhases,
           Agent!End(p, h), UNCHANGED <<price, charged, files>>
    PROVE  AgentInv'
<1> DEFINE d == Agent!Diagnostic(h)
           s == Over(run[p], h, d)
<1>1. RunOK(run[p])
  BY DEF AgentInv
<1>2. IsRun(run[p]) /\ ~run[p].exported
  BY <1>1 DEF RunOK
<1>3. s = [mode |-> run[p].mode, step |-> "end", path |-> run[p].path, quote |-> run[p].quote,
           signed |-> run[p].signed, sent |-> run[p].sent, phase |-> h, diagnostic |-> d,
           exported |-> run[p].exported]
  BY <1>2, OverFields
<1>4. run' = [run EXCEPT ![p] = s]
  BY DEF AgentInv, Agent!End, Over
<1>5. run[p].sent => d \notin Agent!Early
  BY DiagnosticOf
<1> HIDE DEF s, d
<1>6. RunOK(s) /\ ~s.exported /\ s.sent = run[p].sent /\ s.signed = run[p].signed /\ s.step = "end"
  BY <1>1, <1>2, <1>3, <1>5 DEF RunOK, IsRun, Agent!Steps, Unsent
<1> QED
  BY <1>4, <1>6, RunMoves

LEMMA MainInv ==
    ASSUME AgentInv, NEW p \in Runs, Agent!Main(p)
    PROVE  AgentInv'
<1>1. RunOK(run[p]) /\ run[p].step = "start" /\ UNCHANGED <<price, charged, files>>
  BY DEF AgentInv, Agent!Main, Agent!At, Agent!Environment
<1>2. IsRun(run[p]) /\ ~run[p].exported /\ ~run[p].sent
  BY <1>1 DEF RunOK, Unsent
<1>3. ASSUME NEW m \in Agent!Modes, NEW f \in Paths \cup {None},
             run' = [run EXCEPT ![p] = Started(run[p], m, f)]
      PROVE  AgentInv'
  <2> DEFINE s == Started(run[p], m, f)
  <2>1. s = [mode |-> m, step |-> "directory", path |-> f, quote |-> run[p].quote,
             signed |-> run[p].signed, sent |-> run[p].sent, phase |-> run[p].phase,
             diagnostic |-> run[p].diagnostic, exported |-> run[p].exported]
    BY <1>2, StartedFields
  <2>2. run' = [run EXCEPT ![p] = s]
    BY <1>3
  <2> HIDE DEF s
  <2>3. RunOK(s) /\ ~s.exported /\ s.step = "directory"
    BY <1>1, <1>2, <2>1 DEF RunOK, IsRun, Agent!Steps, Unsent
  <2> QED
    BY <1>1, <1>2, <2>2, <2>3, RunMoves
<1>4. ASSUME NEW m \in Agent!Modes, NEW f \in Paths \cup {None}, NEW d,
             run' = [run EXCEPT ![p] = Refused(run[p], m, f, d)]
      PROVE  AgentInv'
  <2> DEFINE s == Refused(run[p], m, f, d)
  <2>1. s = [mode |-> m, step |-> "end", path |-> f, quote |-> run[p].quote,
             signed |-> run[p].signed, sent |-> run[p].sent, phase |-> run[p].phase,
             diagnostic |-> d, exported |-> run[p].exported]
    BY <1>2, RefusedFields
  <2>2. run' = [run EXCEPT ![p] = s]
    BY <1>4
  <2> HIDE DEF s
  <2>3. RunOK(s) /\ ~s.exported /\ s.step = "end"
    BY <1>1, <1>2, <2>1 DEF RunOK, IsRun, Agent!Steps, Unsent
  <2> QED
    BY <1>1, <1>2, <2>2, <2>3, RunMoves
<1>5. PICK m \in Agent!Modes, f \in Paths \cup {None} :
        \/ run' = [[run EXCEPT ![p].mode = m, ![p].path = f] EXCEPT ![p].step = "directory"]
        \/ run' = [[run EXCEPT ![p].mode = m, ![p].path = f]
                     EXCEPT ![p].step = "end", ![p].diagnostic = Agent!Diagnostic("configuration")]
  BY DEF Agent!Main
<1>6. CASE run' = [[run EXCEPT ![p].mode = m, ![p].path = f] EXCEPT ![p].step = "directory"]
  <2>1. run' = [run EXCEPT ![p] = Started(run[p], m, f)]
    BY <1>6 DEF AgentInv, Started
  <2> QED
    BY <1>3, <2>1
<1>7. CASE run' = [[run EXCEPT ![p].mode = m, ![p].path = f]
                     EXCEPT ![p].step = "end", ![p].diagnostic = Agent!Diagnostic("configuration")]
  <2>1. run' = [run EXCEPT ![p] = Refused(run[p], m, f, Agent!Diagnostic("configuration"))]
    BY <1>7 DEF AgentInv, Refused
  <2> QED
    BY <1>4, <2>1
<1> QED
  BY <1>5, <1>6, <1>7

LEMMA DiscoverInv ==
    ASSUME AgentInv, NEW p \in Runs, Agent!Discover(p)
    PROVE  AgentInv'
<1>1. RunOK(run[p]) /\ run[p].step = "directory" /\ UNCHANGED <<price, charged, files>>
  BY DEF AgentInv, Agent!Discover, Agent!At, Agent!Environment
<1>2. IsRun(run[p]) /\ ~run[p].exported /\ ~run[p].sent
  BY <1>1 DEF RunOK, Unsent
<1>3. ASSUME NEW a, run[p].mode = "pay" => a <= Maximum, Agent!Quoted(p, a)
      PROVE  AgentInv'
  <2> DEFINE s == Quoted(run[p], a)
  <2>1. s = [mode |-> run[p].mode, step |-> "initial", path |-> run[p].path, quote |-> a,
             signed |-> run[p].signed, sent |-> run[p].sent, phase |-> run[p].phase,
             diagnostic |-> run[p].diagnostic, exported |-> run[p].exported]
    BY <1>2, QuotedFields
  <2>2. run' = [run EXCEPT ![p] = s]
    BY <1>3 DEF AgentInv, Agent!Quoted, Quoted
  <2> HIDE DEF s
  <2>3. RunOK(s) /\ ~s.exported /\ s.step = "initial"
    BY <1>1, <1>2, <1>3, <2>1 DEF RunOK, IsRun, Agent!Steps, Unsent
  <2> QED
    BY <1>1, <1>2, <2>2, <2>3, RunMoves
<1>4. ASSUME NEW h \in {"configuration", "directory", "quote"}, Agent!End(p, h)
      PROVE  AgentInv'
  BY <1>1, <1>2, <1>4, EndsInv DEF EarlyPhases
<1>5. ASSUME NEW document \in Agent!Documents, NEW policy \in Agent!Policies,
             CASE ~Agent!ValidDirectory(document) -> Agent!End(p, "directory")
               [] run[p].mode = "flow" -> Agent!Quoted(p, document.amount)
               [] document.payment /= "hedera" -> Agent!End(p, "directory")
               [] Agent!Eligible(policy, document.amount) -> Agent!Quoted(p, document.amount)
               [] OTHER -> Agent!End(p, "quote")
      PROVE  AgentInv'
  <2>1. \/ Agent!End(p, "directory") \/ Agent!End(p, "quote")
        \/ run[p].mode = "flow" /\ Agent!Quoted(p, document.amount)
        \/ Agent!Eligible(policy, document.amount) /\ Agent!Quoted(p, document.amount)
    BY <1>5
  <2>2. Agent!Eligible(policy, document.amount) => document.amount <= Maximum
    BY DEF Agent!Eligible, Agent!Policies
  <2> QED
    BY <1>3, <1>4, <2>1, <2>2
<1> QED
  BY <1>4, <1>5 DEF Agent!Discover

LEMMA InitialInv ==
    ASSUME AgentInv, NEW p \in Runs,
           Agent!InitialFlow(p) \/ Agent!InitialPreflight(p) \/ Agent!InitialPay(p)
    PROVE  AgentInv'
<1>1. RunOK(run[p]) /\ run[p].step = "initial" /\ UNCHANGED <<price, charged, files>>
  BY DEF AgentInv, Agent!InitialFlow, Agent!InitialPreflight, Agent!InitialPay, Agent!At, Agent!Environment
<1>2. IsRun(run[p]) /\ ~run[p].exported /\ ~run[p].sent
  BY <1>1 DEF RunOK, Unsent
<1>3. ASSUME NEW h \in {"initial_request", "terminal", "preflight_guard"}, Agent!End(p, h)
      PROVE  AgentInv'
  BY <1>1, <1>2, <1>3, EndsInv DEF EarlyPhases
<1>4. ASSUME NEW a \in Amounts, a = run[p].quote, run[p].mode = "pay",
             run' = [run EXCEPT ![p].step = "sign", ![p].signed = a, ![p].phase = "payment_payload"]
      PROVE  AgentInv'
  <2> DEFINE s == Challenged(run[p], a)
  <2>1. s = [mode |-> run[p].mode, step |-> "sign", path |-> run[p].path, quote |-> run[p].quote,
             signed |-> a, sent |-> run[p].sent, phase |-> "payment_payload",
             diagnostic |-> run[p].diagnostic, exported |-> run[p].exported]
    BY <1>2, ChallengedFields
  <2>2. run' = [run EXCEPT ![p] = s]
    BY <1>4 DEF AgentInv, Challenged
  <2> HIDE DEF s
  <2>3. RunOK(s) /\ ~s.exported /\ s.step = "sign"
    BY <1>1, <1>2, <1>4, <2>1 DEF RunOK, IsRun, Agent!Steps, Unsent, EarlyPhases
  <2> QED
    BY <1>1, <1>2, <2>2, <2>3, RunMoves
<1>5. CASE Agent!InitialPay(p)
  BY <1>3, <1>4, <1>5 DEF Agent!InitialPay, Agent!Challenges, Agent!MatchingChallenge, Agent!RequestPhase
<1> QED
  BY <1>3, <1>5 DEF Agent!InitialFlow, Agent!InitialPreflight

LEMMA SignInv ==
    ASSUME AgentInv, NEW p \in Runs, Agent!Sign(p)
    PROVE  AgentInv'
<1>1. RunOK(run[p]) /\ run[p].step = "sign" /\ UNCHANGED <<price, charged, files>>
  BY DEF AgentInv, Agent!Sign, Agent!At, Agent!Environment
<1>2. IsRun(run[p]) /\ ~run[p].exported /\ ~run[p].sent /\ run[p].phase \in EarlyPhases
  BY <1>1 DEF RunOK, Unsent
<1>3. CASE Agent!Fail(p)
  BY <1>1, <1>2, <1>3, EndsInv DEF Agent!Fail
<1>4. CASE run' = [run EXCEPT ![p].step = "retry", ![p].sent = TRUE, ![p].phase = Agent!RequestPhase(FALSE)]
  <2> DEFINE s == Sends(run[p], TRUE, "signed_retry")
  <2>1. s = [mode |-> run[p].mode, step |-> "retry", path |-> run[p].path, quote |-> run[p].quote,
             signed |-> run[p].signed, sent |-> TRUE, phase |-> "signed_retry",
             diagnostic |-> run[p].diagnostic, exported |-> run[p].exported]
    BY <1>2, SendsFields
  <2>2. Agent!RequestPhase(FALSE) = "signed_retry"
    BY DEF Agent!RequestPhase
  <2>3. run' = [run EXCEPT ![p] = s]
    BY <1>4, <2>2 DEF AgentInv, Sends
  <2> HIDE DEF s
  <2>4. None \notin Agent!Early
    BY PartsConstants
  <2>5. RunOK(s) /\ ~s.exported /\ s.step = "retry"
    BY <1>1, <1>2, <2>1, <2>4 DEF RunOK, IsRun, Agent!Steps, Unsent, LatePhases
  <2> QED
    BY <1>1, <1>2, <2>3, <2>5, RunMoves
<1> QED
  BY <1>3, <1>4 DEF Agent!Sign

\* The service settles what was signed, whatever became of the run.
LEMMA SettlePaymentInv ==
    ASSUME AgentInv, NEW p \in Runs, Agent!SettlePayment(p)
    PROVE  AgentInv'
<1>1. /\ run[p].sent /\ charged' = charged \cup {Agent!Signed(p)}
      /\ UNCHANGED <<price, run, files>>
  BY DEF Agent!SettlePayment
<1>2. \A q \in Runs : Agent!Signed(q)' = Agent!Signed(q)
  BY <1>1 DEF Agent!Signed
<1>3. Agent!Signed(p).run = p
  BY DEF Agent!Signed
<1>4. \A c \in charged' : c.run \in Runs /\ run[c.run].sent /\ c = Agent!Signed(c.run)'
  BY <1>1, <1>2, <1>3 DEF AgentInv
<1> QED
  BY <1>1, <1>2, <1>4 DEF AgentInv

LEMMA GoesInv ==
    ASSUME AgentInv, NEW p \in Runs, run[p].step \in {"retry", "settle", "body"},
           Agent!Signed(p) \in charged,
           NEW s \in {"settle", "body"}, NEW h \in {"settlement", "result"},
           Agent!Go(p, s, h), UNCHANGED <<price, charged, files>>
    PROVE  AgentInv'
<1> DEFINE r == Goes(run[p], s, h)
<1>1. RunOK(run[p])
  BY DEF AgentInv
<1>2. IsRun(run[p]) /\ ~run[p].exported /\ run[p].sent
  BY <1>1 DEF RunOK
<1>3. r = [mode |-> run[p].mode, step |-> s, path |-> run[p].path, quote |-> run[p].quote,
           signed |-> run[p].signed, sent |-> run[p].sent, phase |-> h,
           diagnostic |-> run[p].diagnostic, exported |-> run[p].exported]
  <2>1. PICK old : old = run[p]
    OBVIOUS
  <2>2. IsRun(old)
    BY <1>2, <2>1
  <2>3. Goes(old, s, h) =
          [mode |-> old.mode, step |-> s, path |-> old.path, quote |-> old.quote,
           signed |-> old.signed, sent |-> old.sent, phase |-> h,
           diagnostic |-> old.diagnostic, exported |-> old.exported]
    BY <2>2, GoesFields
  <2> QED
    BY <2>1, <2>3
<1>4. run' = [run EXCEPT ![p] = r]
  BY DEF AgentInv, Agent!Go, Goes
<1> HIDE DEF r
<1>5. RunOK(r) /\ ~r.exported /\ r.sent /\ r.signed = run[p].signed
  BY <1>1, <1>2, <1>3 DEF RunOK, IsRun, Agent!Steps, Unsent, LatePhases
<1> QED
  BY <1>4, <1>5, RunMoves

LEMMA AnswerInv ==
    ASSUME AgentInv, NEW p \in Runs, Agent!AnswerSigned(p) \/ Agent!ReadSettlement(p)
    PROVE  AgentInv'
<1>1. /\ RunOK(run[p]) /\ run[p].step \in {"retry", "settle"} /\ UNCHANGED <<price, charged, files>>
      /\ run[p].step = "settle" => Agent!Signed(p) \in charged
  BY DEF AgentInv, Agent!AnswerSigned, Agent!ReadSettlement, Agent!At, Agent!Environment
<1>2. run[p].phase \in LatePhases
  BY <1>1 DEF RunOK
<1>3. Agent!Fail(p) => AgentInv'
  BY <1>1, <1>2, EndsInv DEF Agent!Fail
<1>4. CASE Agent!AnswerSigned(p)
  BY <1>1, <1>3, <1>4, GoesInv DEF Agent!AnswerSigned
<1>5. CASE Agent!ReadSettlement(p)
  <2>1. run[p].step = "settle"
    BY <1>5 DEF Agent!ReadSettlement, Agent!At
  <2> QED
    BY <1>1, <1>3, <1>5, <2>1, GoesInv DEF Agent!ReadSettlement
<1> QED
  BY <1>4, <1>5

\* The evidence goes to a file nobody wrote, and is of a payment that was made.
LEMMA ReadAssessmentInv ==
    ASSUME AgentInv, NEW p \in Runs, Agent!ReadAssessment(p)
    PROVE  AgentInv'
<1>1. /\ RunOK(run[p]) /\ run[p].step = "body" /\ UNCHANGED <<price, charged>>
      /\ Agent!Signed(p) \in charged
  BY DEF AgentInv, Agent!ReadAssessment, Agent!At, Agent!Environment
<1>2. IsRun(run[p]) /\ ~run[p].exported /\ run[p].sent /\ run[p].phase \in LatePhases
  BY <1>1 DEF RunOK
<1>3. CASE Agent!Fail(p) /\ UNCHANGED files
  BY <1>1, <1>2, <1>3, EndsInv DEF Agent!Fail
<1>4. ASSUME NEW x \in BOOLEAN, x => Agent!MayWrite(run[p].path),
             files' = IF x THEN [files EXCEPT ![run[p].path] = p] ELSE files,
             run' = [run EXCEPT ![p].step = "end", ![p].phase = "paid",
                                ![p].diagnostic = Agent!Diagnostic("paid"), ![p].exported = x]
      PROVE  AgentInv'
  <2> DEFINE d == Agent!Diagnostic("paid")
             s == Paid(run[p], d, x)
  <2>1. s = [mode |-> run[p].mode, step |-> "end", path |-> run[p].path, quote |-> run[p].quote,
             signed |-> run[p].signed, sent |-> run[p].sent, phase |-> "paid",
             diagnostic |-> d, exported |-> x]
    BY <1>2, PaidFields
  <2>2. run' = [run EXCEPT ![p] = s]
    BY <1>4 DEF AgentInv, Paid
  <2>3. d \notin Agent!Early
    BY DiagnosticOf DEF LatePhases
  <2> HIDE DEF s, d
  <2>4. run[p].path \in Paths \cup {None} /\ (x => run[p].path \in Paths /\ files[run[p].path] = None)
    BY <1>1, <1>4 DEF RunOK, Agent!MayWrite
  <2>5. RunOK(s) /\ s.exported = x /\ s.signed = run[p].signed /\ s.path = run[p].path
        /\ s.sent /\ s.step = "end"
    BY <1>1, <1>2, <2>1, <2>3, <2>4 DEF RunOK, IsRun, Agent!Steps, Unsent, LatePhases
  <2>6. \A q \in Runs : run'[q] = IF q = p THEN s ELSE run[q]
    BY <2>2 DEF AgentInv
  <2>7. run' = [q \in Runs |-> run'[q]] /\ (\A q \in Runs : RunOK(run'[q]))
    BY <2>2, <2>5, <2>6 DEF AgentInv
  <2>8. \A q \in Runs : Agent!Signed(q)' = Agent!Signed(q)
    BY <2>5, <2>6 DEF Agent!Signed
  <2>9. \A c \in charged : c.run \in Runs /\ run'[c.run].sent /\ c = Agent!Signed(c.run)'
    BY <2>5, <2>6, <2>8 DEF AgentInv
  <2>10. files' \in [Paths -> Runs \cup {None}]
         /\ \A f \in Paths : files'[f] = IF x /\ f = run[p].path THEN p ELSE files[f]
    BY <1>4, <2>4 DEF AgentInv
  <2>11. \A q \in Runs : run'[q].step \in {"settle", "body"} => Agent!Signed(q)' \in charged
    BY <2>5, <2>6, <2>8 DEF AgentInv
  <2>12. ASSUME NEW q \in Runs, run'[q].exported
         PROVE  files'[run'[q].path] = q /\ Agent!Signed(q)' \in charged
    <3>1. CASE q = p
      BY <1>1, <2>4, <2>5, <2>6, <2>8, <2>10, <2>12, <3>1
    <3>2. CASE q /= p
      <4>1. run'[q] = run[q] /\ run[q].path \in Paths /\ files[run[q].path] = q
            /\ Agent!Signed(q) \in charged
        BY <2>6, <2>12, <3>2 DEF AgentInv, RunOK
      <4>2. q /= None
        BY PartsConstants
      <4> QED
        BY <2>4, <2>8, <2>10, <4>1, <4>2
    <3> QED
      BY <3>1, <3>2
  <2> QED
    BY <1>1, <2>7, <2>9, <2>10, <2>11, <2>12 DEF AgentInv
<1> QED
  <2>1. PICK x \in BOOLEAN :
          \/ Agent!Fail(p) /\ UNCHANGED files
          \/ /\ x => Agent!MayWrite(run[p].path)
             /\ files' = IF x THEN [files EXCEPT ![run[p].path] = p] ELSE files
             /\ run' = [run EXCEPT ![p].step = "end", ![p].phase = "paid",
                                   ![p].diagnostic = Agent!Diagnostic("paid"), ![p].exported = x]
    BY DEF Agent!ReadAssessment
  <2> QED
    BY <1>3, <1>4, <2>1

LEMMA AgentInductive ==
    ASSUME AgentInv, [Agent!AgentNext]_agentVars
    PROVE  AgentInv'
<1>1. CASE UNCHANGED <<run, charged, files>> /\ price' \in Amounts
  <2>1. \A q \in Runs : Agent!Signed(q)' = Agent!Signed(q)
    BY <1>1 DEF Agent!Signed
  <2> QED
    BY <1>1, <2>1 DEF AgentInv
<1>2. UNCHANGED agentVars => AgentInv'
  BY <1>1 DEF agentVars, AgentInv
<1>3. Agent!ChangePrice => AgentInv'
  BY <1>1 DEF Agent!ChangePrice
<1> QED
  BY <1>2, <1>3, MainInv, DiscoverInv, InitialInv, SignInv, SettlePaymentInv, AnswerInv,
     ReadAssessmentInv DEF Agent!AgentNext

\* A run that says it paid nothing is never charged, later either; a run is
\* charged what its directory quoted and its policy accepted, although the
\* price may have changed; exported evidence stays and is of a payment that was
\* made, whatever runs share its path (runRiskScanPayment, main).
THEOREM AgentAccountsHolds == PartsSpec => []AgentAccounts
<1>1. PartsInit => AgentInv
  <2>1. PartsInit => /\ price \in Amounts /\ run = [p \in Runs |-> Agent!Fresh]
                     /\ charged = {} /\ files = [f \in Paths |-> None]
    BY DEF PartsInit, Agent!AgentInit
  <2>2. RunOK(Agent!Fresh) /\ Agent!Fresh.step = "start" /\ ~Agent!Fresh.exported
    BY DEF RunOK, IsRun, Agent!Fresh, Agent!Modes, Agent!Steps, Unsent, EarlyPhases
  <2> QED
    BY <2>1, <2>2 DEF AgentInv
<1>2. AgentInv /\ [PartsNext]_partsVars => AgentInv'
  BY OnePartMoves, AgentInductive
<1>3. AgentInv => AgentAccounts
  <2> SUFFICES ASSUME AgentInv PROVE AgentAccounts
    OBVIOUS
  <2>1. \A c \in charged : /\ c.run \in Runs /\ c.amount = run[c.run].signed
                           /\ c = [run |-> c.run, amount |-> c.amount]
                           /\ c.amount \in Amounts /\ c.amount = run[c.run].quote
                           /\ c.amount <= Maximum /\ run[c.run].diagnostic \notin Agent!Early
    BY DEF AgentInv, RunOK, Agent!Signed
  <2>2. Agent!AgentTypeOK
    BY <2>1 DEF AgentInv, RunOK, Agent!AgentTypeOK
  <2>3. Agent!EarlyFailureIsFree
    BY <2>1 DEF Agent!EarlyFailureIsFree
  <2>4. Agent!ChargedAsQuoted
    BY <2>1 DEF Agent!ChargedAsQuoted
  <2>5. Agent!ExportedIsKept
    BY DEF AgentInv, Agent!ExportedIsKept
  <2> QED
    BY <2>2, <2>3, <2>4, <2>5 DEF AgentAccounts
<1> QED
  BY <1>1, <1>2, <1>3, PTL DEF PartsSpec

(***************************************************************************)
(* The dashboard: the Web Lock is held from the challenge or the logout to *)
(* the answer, so while an answer is on its way no other tab changes the   *)
(* cookie, and CLEARED is still about the session it was asked for.        *)
(***************************************************************************)

DashSteps == Dash!Idle \cup Dash!Working \cup {"WAITING"}
Posted == [outcome : {"AUTHENTICATED", "CLEARED", "NOT_CURRENT"}, session : Dash!Session \cup {None}]

DashTypes ==
    /\ wallet \in Accounts \cup {None}
    /\ cookie \in Dash!Session \cup {None}
    /\ lock \in Tabs \cup {None}
    /\ sessions \in Nat /\ sessions <= MaxSessions
    /\ view \in [Tabs -> Accounts \cup {None}]
    /\ layout \in [Tabs -> Dash!Session \cup {None}]
    /\ step \in [Tabs -> DashSteps]
    /\ ending \in [Tabs -> Dash!Session \cup {None}]
    /\ posted \in [Tabs -> Posted \cup {None}]

\* What a tab is doing agrees with the lock, with the session it is about and
\* with the answer it waits for.
TabOK(t) ==
    /\ step[t] \in Dash!Working => lock = t
    /\ step[t] \in Dash!Working \cup {"WAITING"} => ending[t] \in Dash!Session
    /\ posted[t] /= None =>
        /\ step[t] \in {"VERIFY", "LOGOUT"}
        /\ step[t] = "VERIFY" =>
             posted[t].outcome = "AUTHENTICATED" /\ posted[t].session \in Dash!Session
        /\ step[t] = "LOGOUT" => posted[t].outcome = "NOT_CURRENT" \/ cookie = ending[t]

DashInv == DashTypes /\ \A t \in Tabs : TabOK(t)

\* A tab moves: nobody else's step, session or answer changes, and the lock and
\* the cookie change only in its own hands.
LEMMA TabMoves ==
    ASSUME DashInv, NEW t \in Tabs, DashTypes',
           \A u \in Tabs : u /= t => step'[u] = step[u] /\ posted'[u] = posted[u] /\ ending'[u] = ending[u],
           lock' = lock \/ (lock = None /\ lock' = t) \/ lock = t,
           cookie' = cookie \/ step[t] \in Dash!Working,
           TabOK(t)'
    PROVE  DashInv'
<1> SUFFICES ASSUME NEW u \in Tabs, u /= t
    PROVE  TabOK(u)'
  BY DEF DashInv
<1>1. TabOK(u) /\ TabOK(t) /\ u /= None /\ t /= None
  BY PartsConstants DEF DashInv
<1>2. step[u] \in Dash!Working => lock' = u
  BY <1>1 DEF TabOK
<1>3. posted[u] /= None => cookie' = cookie
  BY <1>1 DEF TabOK, Dash!Working
<1> QED
  BY <1>1, <1>2, <1>3 DEF TabOK

\* What the cookie is once an answer has arrived.
LEMMA AfterAnswerIs ==
    ASSUME DashInv, NEW t \in Tabs
    PROVE  /\ Dash!AfterAnswer(t) \in Dash!Session \cup {None}
           /\ Dash!AfterAnswer(t) = cookie \/ (posted[t] /= None /\ step[t] \in {"VERIFY", "LOGOUT"})
           /\ cookie /= None /\ Dash!AfterAnswer(t) = None =>
                step[t] = "LOGOUT" /\ ending[t] = cookie
           /\ posted[t] /= None /\ step[t] = "VERIFY" =>
                Dash!AfterAnswer(t) \in Dash!Session
<1>1. TabOK(t) /\ posted[t] \in Posted \cup {None} /\ cookie \in Dash!Session \cup {None}
  BY DEF DashInv, DashTypes
<1>2. None \notin Dash!Session
  BY PartsConstants
<1>3. posted[t] /= None => posted[t].session \in Dash!Session \cup {None}
  BY <1>1 DEF Posted
<1> QED
  BY <1>1, <1>2, <1>3 DEF Dash!AfterAnswer, TabOK

\* A tab gives up the lock, with the cookie of its answer or without it.
LEMMA ReleaseInv ==
    ASSUME DashInv, NEW t \in Tabs, NEW next \in Dash!Idle, Dash!Release(t, next),
           cookie' \in {cookie, Dash!AfterAnswer(t)},
           wallet' \in Accounts \cup {None}, view' \in [Tabs -> Accounts \cup {None}],
           sessions' = sessions, layout' \in [Tabs -> Dash!Session \cup {None}]
    PROVE  DashInv'
<1>1. /\ lock' = IF lock = t THEN None ELSE lock
      /\ step' = [step EXCEPT ![t] = next]
      /\ posted' = [posted EXCEPT ![t] = None] /\ ending' = [ending EXCEPT ![t] = None]
  BY DEF Dash!Release
<1>2. cookie' \in Dash!Session \cup {None} /\ (cookie' = cookie \/ step[t] \in Dash!Working)
  BY AfterAnswerIs DEF DashInv, DashTypes, Dash!Working
<1>3. next \in DashSteps
  BY DEF DashSteps
<1>4. DashTypes'
  BY <1>1, <1>2, <1>3 DEF DashInv, DashTypes
<1>5. \A u \in Tabs : u /= t => step'[u] = step[u] /\ posted'[u] = posted[u] /\ ending'[u] = ending[u]
  BY <1>1 DEF DashInv, DashTypes
<1>6. step'[t] = next /\ posted'[t] = None
  BY <1>1 DEF DashInv, DashTypes
<1>7. next \notin Dash!Working \cup {"WAITING"}
  BY DEF Dash!Idle, Dash!Working
<1>8. TabOK(t)'
  BY <1>6, <1>7 DEF TabOK
<1> QED
  BY <1>1, <1>2, <1>4, <1>5, <1>8, TabMoves

\* A tab takes another step, about a session of its own.
LEMMA StepInv ==
    ASSUME DashInv, NEW t \in Tabs, NEW next \in DashSteps, NEW session \in Dash!Session \cup {None},
           step' = [step EXCEPT ![t] = next], ending' = [ending EXCEPT ![t] = session],
           posted[t] = None, posted' = posted, cookie' = cookie,
           lock' = lock \/ (lock = None /\ lock' = t),
           next \in Dash!Working => lock' = t,
           next \in Dash!Working \cup {"WAITING"} => session \in Dash!Session,
           UNCHANGED <<wallet, view, sessions, layout>>
    PROVE  DashInv'
<1>1. DashTypes'
  BY DEF DashInv, DashTypes
<1>2. \A u \in Tabs : u /= t => step'[u] = step[u] /\ posted'[u] = posted[u] /\ ending'[u] = ending[u]
  BY DEF DashInv, DashTypes
<1>3. step'[t] = next /\ ending'[t] = session
  BY DEF DashInv, DashTypes
<1>4. TabOK(t)'
  BY <1>3 DEF TabOK
<1> QED
  BY <1>1, <1>2, <1>4, TabMoves

\* An answer arrives for a tab that waits for it.
LEMMA PostInv ==
    ASSUME DashInv, NEW t \in Tabs, NEW answered \in Posted, NEW s \in Nat, s <= MaxSessions,
           posted' = [posted EXCEPT ![t] = answered], sessions' = s,
           step[t] \in {"VERIFY", "LOGOUT"},
           step[t] = "VERIFY" => answered.outcome = "AUTHENTICATED" /\ answered.session \in Dash!Session,
           step[t] = "LOGOUT" => answered.outcome = "NOT_CURRENT" \/ cookie = ending[t],
           UNCHANGED <<wallet, view, cookie, lock, layout, step, ending>>
    PROVE  DashInv'
<1>1. DashTypes'
  BY DEF DashInv, DashTypes
<1>2. \A u \in Tabs : u /= t => step'[u] = step[u] /\ posted'[u] = posted[u] /\ ending'[u] = ending[u]
  BY DEF DashInv, DashTypes
<1>3. posted'[t] = answered
  BY DEF DashInv, DashTypes
<1>4. TabOK(t)'
  BY <1>3 DEF TabOK, DashInv
<1> QED
  BY <1>1, <1>2, <1>4, TabMoves

\* Nothing the invariant speaks of but the wallet and the views.
LEMMA WalletInv ==
    ASSUME DashInv, wallet' \in Accounts \cup {None}, view' \in [Tabs -> Accounts \cup {None}],
           UNCHANGED <<cookie, lock, sessions, layout, step, ending, posted>>
    PROVE  DashInv'
<1>1. DashTypes'
  BY DEF DashInv, DashTypes
<1>2. \A t \in Tabs : TabOK(t)'
  BY DEF DashInv, TabOK
<1> QED
  BY <1>1, <1>2 DEF DashInv

LEMMA Shown ==
    ASSUME DashInv, NEW t \in Tabs, NEW session \in Dash!Session \cup {None}, Dash!Show(t, session)
    PROVE  layout' \in [Tabs -> Dash!Session \cup {None}]
  BY DEF Dash!Show, DashInv, DashTypes

LEMMA SignInMoves ==
    ASSUME DashInv, NEW t \in Tabs,
           Dash!SignIn(t) \/ Dash!BeginSignIn(t) \/ Dash!Challenged(t) \/ Dash!SignMessage(t)
    PROVE  DashInv'
<1>1. TabOK(t) /\ DashTypes /\ ending[t] \in Dash!Session \cup {None}
  BY DEF DashInv, DashTypes
<1>2. "FAILED" \in Dash!Idle
  BY DEF Dash!Idle
<1>3. CASE Dash!SignIn(t)
  <2> DEFINE session == [address |-> view[t], issuedAt |-> 0]
  <2>1. view[t] \in Accounts
    BY <1>1, <1>3 DEF Dash!SignIn, DashTypes
  <2>2. session \in Dash!Session
    BY <2>1, PartsConstants DEF Dash!Session
  <2>3. posted[t] = None
    BY <1>1, <1>3 DEF Dash!SignIn, TabOK, Dash!Idle
  <2>4. /\ step' = [step EXCEPT ![t] = "WAITING"] /\ ending' = [ending EXCEPT ![t] = session]
        /\ UNCHANGED <<wallet, view, sessions, cookie, lock, layout, posted>>
    BY <1>3 DEF Dash!SignIn
  <2> HIDE DEF session
  <2>5. "WAITING" \in DashSteps /\ "WAITING" \notin Dash!Working
    BY DEF DashSteps, Dash!Working
  <2> QED
    BY <2>2, <2>3, <2>4, <2>5, StepInv
<1>4. CASE Dash!BeginSignIn(t)
  <2>1. CASE Dash!Release(t, "FAILED")
    BY <1>1, <1>2, <1>4, <2>1, ReleaseInv DEF Dash!BeginSignIn, DashTypes
  <2>2. CASE Dash!Take(t, "CHALLENGE") /\ UNCHANGED <<ending, posted>>
    <3>1. /\ step[t] = "WAITING" /\ lock = None /\ lock' = t /\ step' = [step EXCEPT ![t] = "CHALLENGE"]
          /\ UNCHANGED <<wallet, view, cookie, sessions, layout, ending, posted>>
      BY <1>4, <2>2 DEF Dash!BeginSignIn, Dash!Take, Dash!LockFree
    <3>2. posted[t] = None /\ ending[t] \in Dash!Session
      BY <1>1, <3>1 DEF TabOK
    <3>3. ending' = [ending EXCEPT ![t] = ending[t]]
      BY <1>1, <3>1 DEF DashTypes
    <3>4. "CHALLENGE" \in DashSteps
      BY DEF DashSteps, Dash!Working
    <3> QED
      BY <3>1, <3>2, <3>3, <3>4, StepInv
  <2> QED
    BY <1>4, <2>1, <2>2 DEF Dash!BeginSignIn
<1>5. ASSUME NEW here \in {"CHALLENGE", "SIGNING"}, step[t] = here, NEW next \in {"SIGNING", "VERIFY"},
             step' = [step EXCEPT ![t] = next],
             UNCHANGED <<lock, ending, posted, wallet, view, cookie, sessions, layout>>
      PROVE  DashInv'
  <2>1. next \in Dash!Working /\ next \in DashSteps /\ here \in Dash!Working
    BY DEF DashSteps, Dash!Working
  <2>2. posted[t] = None /\ ending[t] \in Dash!Session /\ lock = t
    BY <1>1, <1>5, <2>1 DEF TabOK
  <2>3. ending' = [ending EXCEPT ![t] = ending[t]]
    BY <1>1, <1>5 DEF DashTypes
  <2> QED
    BY <1>5, <2>1, <2>2, <2>3, StepInv
<1>6. CASE Dash!Challenged(t) /\ Dash!Release(t, "FAILED")
  BY <1>1, <1>2, <1>6, ReleaseInv DEF Dash!Challenged, DashTypes
<1>7. CASE Dash!SignMessage(t) /\ Dash!Release(t, "FAILED")
  BY <1>1, <1>2, <1>7, ReleaseInv DEF Dash!SignMessage, DashTypes
<1>8. CASE Dash!Challenged(t) /\ ~Dash!Release(t, "FAILED")
  BY <1>5, <1>8 DEF Dash!Challenged
<1>9. CASE Dash!SignMessage(t) /\ ~Dash!Release(t, "FAILED")
  BY <1>5, <1>9 DEF Dash!SignMessage
<1> QED
  BY <1>3, <1>4, <1>6, <1>7, <1>8, <1>9

LEMMA ServerMoves ==
    ASSUME DashInv, NEW t \in Tabs, Dash!VerifyChallenge(t) \/ Dash!HandleLogout(t)
    PROVE  DashInv'
<1>1. TabOK(t) /\ DashTypes
  BY DEF DashInv
<1>2. CASE Dash!VerifyChallenge(t)
  <2> DEFINE session == [ending[t] EXCEPT !.issuedAt = sessions + 1]
             answered == [outcome |-> "AUTHENTICATED", session |-> session]
  <2>1. /\ step[t] = "VERIFY" /\ sessions < MaxSessions /\ sessions' = sessions + 1
        /\ posted' = [posted EXCEPT ![t] = answered]
        /\ UNCHANGED <<wallet, view, cookie, lock, layout, step, ending>>
    BY <1>2 DEF Dash!VerifyChallenge
  <2>2. ending[t] \in Dash!Session
    BY <1>1, <2>1 DEF TabOK, Dash!Working
  <2>3. sessions + 1 \in Nat /\ sessions + 1 <= MaxSessions
    BY <1>1, <2>1, PartsConstants DEF DashTypes
  <2>4. session \in Dash!Session
    BY <2>2, <2>3, PartsConstants DEF Dash!Session
  <2> HIDE DEF session
  <2>5. answered \in Posted /\ answered.outcome = "AUTHENTICATED" /\ answered.session \in Dash!Session
    BY <2>4 DEF Posted
  <2> HIDE DEF answered
  <2> QED
    BY <2>1, <2>3, <2>5, PostInv
<1>3. CASE Dash!HandleLogout(t)
  <2> DEFINE answered == [outcome |-> IF Dash!IsCurrent(ending[t]) THEN "CLEARED" ELSE "NOT_CURRENT",
                          session |-> None]
  <2>1. /\ step[t] = "LOGOUT" /\ posted' = [posted EXCEPT ![t] = answered]
        /\ UNCHANGED <<wallet, view, cookie, sessions, lock, layout, step, ending>>
    BY <1>3 DEF Dash!HandleLogout
  <2>2. answered \in Posted /\ (answered.outcome = "NOT_CURRENT" \/ cookie = ending[t])
    BY DEF Posted, Dash!IsCurrent
  <2> HIDE DEF answered
  <2> QED
    BY <1>1, <2>1, <2>2, PostInv DEF DashTypes
<1> QED
  BY <1>2, <1>3

LEMMA AuthenticatedInv ==
    ASSUME DashInv, NEW t \in Tabs, Dash!Authenticated(t)
    PROVE  DashInv'
<1>1. TabOK(t) /\ DashTypes /\ step[t] = "VERIFY" /\ posted[t] /= None
  BY DEF DashInv, Dash!Authenticated
<1>2. cookie' = Dash!AfterAnswer(t) /\ cookie' \in Dash!Session /\ UNCHANGED <<wallet, view, sessions>>
  BY <1>1, AfterAnswerIs DEF Dash!Authenticated
<1>3. lock = t
  BY <1>1 DEF TabOK, Dash!Working
<1>4. CASE Dash!Release(t, "IDLE") /\ Dash!Show(t, cookie')
  <2>1. "IDLE" \in Dash!Idle
    BY DEF Dash!Idle
  <2>2. layout' \in [Tabs -> Dash!Session \cup {None}]
    BY <1>2, <1>4, Shown
  <2> QED
    BY <1>1, <1>2, <1>4, <2>1, <2>2, ReleaseInv DEF DashTypes
<1>5. CASE /\ step' = [step EXCEPT ![t] = "LOGOUT"] /\ ending' = [ending EXCEPT ![t] = cookie']
           /\ posted' = [posted EXCEPT ![t] = None] /\ UNCHANGED <<lock, layout, matched>>
  <2>1. "LOGOUT" \in DashSteps
    BY DEF DashSteps, Dash!Working
  <2>2. DashTypes'
    BY <1>1, <1>2, <1>5, <2>1 DEF DashTypes
  <2>3. \A u \in Tabs : u /= t => step'[u] = step[u] /\ posted'[u] = posted[u] /\ ending'[u] = ending[u]
    BY <1>1, <1>5 DEF DashTypes
  <2>4. step'[t] = "LOGOUT" /\ posted'[t] = None /\ ending'[t] = cookie'
    BY <1>1, <1>5 DEF DashTypes
  <2>5. TabOK(t)'
    BY <1>2, <1>3, <1>5, <2>4 DEF TabOK
  <2>6. step[t] \in Dash!Working
    BY <1>1 DEF Dash!Working
  <2> QED
    BY <1>5, <2>2, <2>3, <2>5, <2>6, TabMoves
<1> QED
  BY <1>4, <1>5 DEF Dash!Authenticated

LEMMA LogoutMoves ==
    ASSUME DashInv, NEW t \in Tabs,
           Dash!EndSession(t) \/ Dash!RetryLogout(t) \/ Dash!BeginLogout(t) \/ Dash!LoggedOut(t)
    PROVE  DashInv'
<1>1. TabOK(t) /\ DashTypes /\ None \notin Dash!Session
  BY PartsConstants DEF DashInv
<1>2. {"IDLE", "FAILED"} \subseteq Dash!Idle
  BY DEF Dash!Idle
<1>3. CASE Dash!EndSession(t) \/ Dash!RetryLogout(t)
  <2>1. /\ layout[t] /= None /\ step[t] \in {"IDLE", "FAILED"}
        /\ step' = [step EXCEPT ![t] = "WAITING"] /\ ending' = [ending EXCEPT ![t] = layout[t]]
        /\ UNCHANGED <<wallet, view, cookie, sessions, lock, layout, posted>>
    BY <1>3 DEF Dash!EndSession, Dash!RetryLogout
  <2>2. posted[t] = None /\ layout[t] \in Dash!Session
    BY <1>1, <2>1 DEF TabOK, DashTypes
  <2>3. "WAITING" \in DashSteps /\ "WAITING" \notin Dash!Working
    BY DEF DashSteps, Dash!Working
  <2> QED
    BY <2>1, <2>2, <2>3, StepInv
<1>4. CASE Dash!BeginLogout(t)
  <2>1. CASE Dash!Release(t, Dash!AfterRematch)
    <3>1. Dash!AfterRematch \in Dash!Idle
      BY <1>2 DEF Dash!AfterRematch
    <3> QED
      BY <1>1, <1>4, <2>1, <3>1, ReleaseInv DEF Dash!BeginLogout, DashTypes
  <2>2. CASE Dash!Take(t, "LOGOUT") /\ UNCHANGED <<ending, posted>>
    <3>1. /\ step[t] = "WAITING" /\ lock = None /\ lock' = t /\ step' = [step EXCEPT ![t] = "LOGOUT"]
          /\ UNCHANGED <<wallet, view, cookie, sessions, layout, ending, posted>>
      BY <1>4, <2>2 DEF Dash!BeginLogout, Dash!Take, Dash!LockFree
    <3>2. posted[t] = None /\ ending[t] \in Dash!Session
      BY <1>1, <3>1 DEF TabOK
    <3>3. ending' = [ending EXCEPT ![t] = ending[t]]
      BY <1>1, <3>1 DEF DashTypes
    <3>4. "LOGOUT" \in DashSteps
      BY DEF DashSteps, Dash!Working
    <3> QED
      BY <3>1, <3>2, <3>3, <3>4, StepInv
  <2> QED
    BY <1>4, <2>1, <2>2 DEF Dash!BeginLogout
<1>5. CASE Dash!LoggedOut(t)
  <2> DEFINE next == IF layout[t] = None THEN "FAILED" ELSE "IDLE"
  <2>1. next \in Dash!Idle
    BY <1>2
  <2>2. /\ cookie' = Dash!AfterAnswer(t) /\ Dash!Release(t, next) /\ Dash!Show(t, None)
        /\ UNCHANGED <<wallet, view, sessions>>
    BY <1>5 DEF Dash!LoggedOut
  <2> HIDE DEF next
  <2>3. layout' \in [Tabs -> Dash!Session \cup {None}]
    BY <2>2, Shown
  <2> QED
    BY <1>1, <2>1, <2>2, <2>3, ReleaseInv DEF DashTypes
<1> QED
  BY <1>3, <1>4, <1>5

LEMMA ReloadInv ==
    ASSUME DashInv, NEW t \in Tabs, Dash!Reload(t)
    PROVE  DashInv'
<1>1. Dash!Release(t, "IDLE") /\ cookie' \in {cookie, Dash!AfterAnswer(t)}
      /\ Dash!Show(t, cookie') /\ UNCHANGED <<wallet, view, sessions>>
  BY DEF Dash!Reload, Dash!Release
<1>2. cookie' \in Dash!Session \cup {None} /\ DashTypes
  BY <1>1, AfterAnswerIs DEF DashInv, DashTypes
<1>3. layout' \in [Tabs -> Dash!Session \cup {None}] /\ "IDLE" \in Dash!Idle
  BY <1>1, <1>2, Shown DEF Dash!Idle
<1> QED
  BY <1>1, <1>2, <1>3, ReleaseInv DEF DashTypes

LEMMA DashInductive ==
    ASSUME DashInv, [Dash!DashNext]_dashVars
    PROVE  DashInv'
<1>1. DashTypes
  BY DEF DashInv
<1>2. UNCHANGED dashVars => DashInv'
  BY <1>1, WalletInv DEF dashVars, DashTypes
<1>3. \A a \in Accounts \cup {None} : Dash!SwitchWallet(a) => DashInv'
  BY <1>1, WalletInv DEF Dash!SwitchWallet, Dash!tabVars, DashTypes
<1>4. ASSUME NEW t \in Tabs, Dash!Notice(t) PROVE DashInv'
  <2>1. view' \in [Tabs -> Accounts \cup {None}]
    BY <1>1, <1>4 DEF Dash!Notice, DashTypes
  <2> QED
    BY <1>1, <1>4, <2>1, WalletInv DEF Dash!Notice, DashTypes
<1>5. ASSUME NEW t \in Tabs, Dash!Fail(t) PROVE DashInv'
  <2>1. "FAILED" \in Dash!Idle
    BY DEF Dash!Idle
  <2> QED
    BY <1>1, <1>5, <2>1, ReleaseInv DEF Dash!Fail, Dash!VerifyFails, Dash!LogoutFails, DashTypes
<1> QED
  BY <1>2, <1>3, <1>4, <1>5, SignInMoves, ServerMoves, AuthenticatedInv, LogoutMoves, ReloadInv
  DEF Dash!DashNext, Dash!Proceed, Dash!Server, Dash!Begin

\* The cookie changes only as the answer a tab waits for says.
LEMMA CookieMoves ==
    ASSUME [Dash!DashNext]_dashVars, cookie' /= cookie
    PROVE  \E t \in Tabs : cookie' = Dash!AfterAnswer(t)
  BY DEF dashVars, Dash!DashNext, Dash!SwitchWallet, Dash!Reload, Dash!SignIn, Dash!SignMessage,
     Dash!RetryLogout, Dash!Proceed, Dash!Fail, Dash!Begin, Dash!Notice, Dash!Challenged, Dash!Server,
     Dash!VerifyChallenge, Dash!HandleLogout, Dash!Authenticated, Dash!EndSession, Dash!LoggedOut,
     Dash!VerifyFails, Dash!LogoutFails, Dash!BeginSignIn, Dash!BeginLogout

\* A dashboard of an older session, or a sign-in whose wallet left, never ends
\* the session another tab established: what disappears is the session the tab
\* set out to end, whatever answers are lost and tabs closed (handleLogout).
THEOREM LogoutEndsOwnHolds == PartsSpec => LogoutEndsOwn
<1>1. PartsInit => DashInv
  <2>1. PartsInit =>
          /\ wallet \in Accounts /\ view = [t \in Tabs |-> wallet] /\ cookie = None
          /\ sessions = 0 /\ lock = None /\ layout = [t \in Tabs |-> None]
          /\ step = [t \in Tabs |-> "IDLE"] /\ ending = [t \in Tabs |-> None]
          /\ posted = [t \in Tabs |-> None]
    BY DEF PartsInit, Dash!DashInit
  <2>2. "IDLE" \in DashSteps /\ "IDLE" \notin Dash!Working \cup {"WAITING"}
    BY DEF DashSteps, Dash!Idle, Dash!Working
  <2>3. PartsInit => DashTypes
    BY <2>1, <2>2, PartsConstants DEF DashTypes
  <2>4. PartsInit => \A t \in Tabs : TabOK(t)
    BY <2>1, <2>2 DEF TabOK
  <2> QED
    BY <2>3, <2>4 DEF DashInv
<1>2. DashInv /\ [PartsNext]_partsVars => DashInv'
  BY OnePartMoves, DashInductive
<1>3. DashInv => Dash!DashTypeOK
  BY DEF DashInv, DashTypes, DashSteps, Dash!DashTypeOK
<1>4. DashInv /\ [PartsNext]_partsVars =>
        [cookie /= None /\ cookie' = None =>
           \E t \in Tabs : step[t] = "LOGOUT" /\ ending[t] = cookie]_(Dash!dashVars)
  BY OnePartMoves, CookieMoves, AfterAnswerIs
<1> QED
  BY <1>1, <1>2, <1>3, <1>4, PTL DEF PartsSpec, LogoutEndsOwn, Dash!LogoutEndsOwn
=============================================================================
