--------------------------- MODULE OfferingEconomics ---------------------------
(***************************************************************************)
(* What an offering may sell and pay back. The terms are checked once; an  *)
(* allocation is computed from the units confirmed so far, a clearing      *)
(* split from the reserve credited so far. The core keeps neither sum: its *)
(* caller does, and here adds the result of one computation before it asks *)
(* for the next.                                                           *)
(***************************************************************************)
EXTENDS Integers

CONSTANTS
    TermsInputs, \* terms an issuer may propose
    Requests,    \* units a buyer may ask for
    Grosses,     \* gross amounts of a result
    MaxGross     \* bound: what is cleared in all

VARIABLES
    terms,      \* the offering terms
    confirmed,  \* confirmedAllocatedUnits
    raised,     \* payments of the confirmed allocations
    credited,   \* verifiedCumulativeReserveCreditsTinybars
    issuer,     \* paid to the issuer
    gross       \* cleared in all

economyVars == <<terms, confirmed, raised, credited, issuer, gross>>

TermsType ==
    [fundingTarget : Nat, unitPrice : Nat, maximumUnits : Nat, minimumUnits : Nat,
     reserveBps : Nat, issuerBps : Nat, feeBps : Nat, payoutCap : Nat]

ASSUME EconomyAssumption == TermsInputs \subseteq TermsType /\ Requests \subseteq Int /\ Grosses \subseteq Int

\* Mutant of CreateOfferingTerms: the price of all units is not compared with the target.
AnyCapacity(t) ==
    /\ t.fundingTarget > 0 /\ t.unitPrice > 0 /\ t.maximumUnits > 0 /\ t.minimumUnits > 0 /\ t.payoutCap > 0
    /\ t.minimumUnits <= t.maximumUnits
    /\ t.reserveBps = 2000 /\ t.issuerBps = 8000 /\ t.feeBps = 0
    /\ t.fundingTarget % 2 = 0
    /\ t.payoutCap = (t.fundingTarget * 3) \div 2
CreateOfferingTerms(t) ==
    /\ t.fundingTarget > 0 /\ t.unitPrice > 0 /\ t.maximumUnits > 0 /\ t.minimumUnits > 0 /\ t.payoutCap > 0
    /\ t.minimumUnits <= t.maximumUnits
    /\ t.maximumUnits * t.unitPrice <= t.fundingTarget
    /\ t.reserveBps = 2000 /\ t.issuerBps = 8000 /\ t.feeBps = 0
    /\ t.fundingTarget % 2 = 0
    /\ t.payoutCap = (t.fundingTarget * 3) \div 2

EconomyInit ==
    /\ terms \in {t \in TermsInputs : CreateOfferingTerms(t)}
    /\ confirmed = 0 /\ raised = 0 /\ credited = 0 /\ issuer = 0 /\ gross = 0

CalculateAllocation(units) ==
    /\ units > 0 /\ units >= terms.minimumUnits
    /\ confirmed + units <= terms.maximumUnits

\* The payment of an allocation is confirmed.
Allocate ==
    \E units \in Requests :
        /\ CalculateAllocation(units)
        /\ confirmed' = confirmed + units
        /\ raised' = raised + units * terms.unitPrice
        /\ UNCHANGED <<terms, credited, issuer, gross>>

RemainingPayoutCapacity == IF credited >= terms.payoutCap THEN 0 ELSE terms.payoutCap - credited

Lesser(a, b) == IF a < b THEN a ELSE b
ReserveShare(amount, matured) ==
    IF matured THEN 0 ELSE Lesser((amount * terms.reserveBps) \div 10000, RemainingPayoutCapacity)

Clear ==
    \E amount \in Grosses, matured \in BOOLEAN :
        /\ amount > 0
        /\ gross + amount <= MaxGross
        /\ credited' = credited + ReserveShare(amount, matured)
        /\ issuer' = issuer + (amount - ReserveShare(amount, matured))
        /\ gross' = gross + amount
        /\ UNCHANGED <<terms, confirmed, raised>>

EconomyNext == Allocate \/ Clear

EconomySpec == EconomyInit /\ [][EconomyNext]_economyVars

(***************************************************************************)
(* Properties                                                              *)
(***************************************************************************)

\* However an offering is sold and its results are cleared, the units fit its
\* capacity, the buyers never pay more than the funding target, the reserve
\* never exceeds one and a half times that target, and nothing cleared is lost.
WithinTerms ==
    /\ confirmed <= terms.maximumUnits
    /\ raised <= terms.fundingTarget
    /\ 2 * credited <= 3 * terms.fundingTarget
    /\ credited + issuer = gross
=============================================================================
