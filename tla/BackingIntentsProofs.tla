------------------------ MODULE BackingIntentsProofs ------------------------
(***************************************************************************)
(* The quotas of BackingIntents for any number of keys, backers and        *)
(* offerings, any limits and any clock. Only FreezeBackingIntent touches   *)
(* what the quotas count; every other action leaves the counted sets alone *)
(* or, as time passes, makes the pending ones smaller.                     *)
(***************************************************************************)
EXTENDS BackingIntents, FiniteSetTheorems, TLAPS

-----------------------------------------------------------------------------
(* Types                                                                   *)

\* Counting one more keeps a table of counts, whatever row is counted.
LEMMA CountMore ==
    ASSUME NEW D, NEW f \in [D -> Nat], NEW w
    PROVE  [f EXCEPT ![w] = f[w] + 1] \in [D -> Nat]
<1>1. CASE w \in D
  <2>1. f[w] + 1 \in Nat
    BY <1>1
  <2> QED BY <2>1
<1>2. CASE w \notin D
  <2>1. [f EXCEPT ![w] = f[w] + 1] = f
    BY <1>2
  <2> QED BY <2>1
<1> QED BY <1>1, <1>2

LEMMA FrozenIntentType ==
    ASSUME IntentConstants, TypeOK,
           NEW s \in Backers, NEW o \in Offerings, NEW u \in Nat, NEW e \in Nat
    PROVE  FrozenIntent(s, o, u, e) \in Intent
<1>1. /\ offerings[o].terms \in TermSheets
      /\ offerings[o].terms \in TermSheet
  BY DEF TypeOK, IntentConstants
<1>2. offerings[o].terms.price \in Nat
  BY <1>1 DEF TermSheet
<1>3. u * offerings[o].terms.price \in Nat
  BY <1>2
<1>4. RecipientOf[o] \in Addresses /\ now \in Nat
  BY DEF TypeOK, IntentConstants, Time
<1> QED
  BY <1>1, <1>3, <1>4 DEF FrozenIntent, Intent

\* What a request that changes the tables knows about its inputs.
LEMMA FreezeInputs ==
    ASSUME IntentConstants, TypeOK,
           NEW k \in Keys, NEW s \in Backers, NEW o \in Offerings,
           NEW u \in offerings[o].terms.minimum .. offerings[o].terms.maximum,
           NEW e \in now + 1 .. now + MaxLifetime
    PROVE  u \in Nat /\ e \in Nat
<1>1. offerings[o].terms \in TermSheet
  BY DEF TypeOK, IntentConstants
<1>2. /\ offerings[o].terms.minimum \in Nat
      /\ offerings[o].terms.maximum \in Nat
      /\ now \in Nat /\ MaxLifetime \in Nat
  BY <1>1 DEF TermSheet, TypeOK, IntentConstants, Time
<1> QED
  BY <1>2

\* A preparation keeps the tables well formed.
LEMMA FreezeType ==
    ASSUME IntentConstants, TypeOK,
           NEW k \in Keys, NEW s \in Backers, NEW o \in Offerings,
           NEW u \in Nat, NEW e \in Nat, FreezeBackingIntent(k, s, o, u, e)
    PROVE  TypeOK'
<1>1. FrozenIntent(s, o, u, e) \in Intent
  BY FrozenIntentType
<1>2. intents' \in [Keys -> Intent \cup {None}]
  BY <1>1 DEF FreezeBackingIntent, TypeOK
<1>3. rateLimits' \in [Backers -> [Windows -> Nat]]
  <2>1. CASE o = LegacyOffering
    BY <2>1 DEF FreezeBackingIntent, TypeOK
  <2>2. CASE o /= LegacyOffering
    <3> DEFINE w == Window(now)
    <3>1. rateLimits' = [rateLimits EXCEPT ![s][w] = @ + 1]
      BY <2>2 DEF FreezeBackingIntent
    <3>2. rateLimits[s] \in [Windows -> Nat]
      BY DEF TypeOK
    <3>3. [rateLimits[s] EXCEPT ![w] = @ + 1] \in [Windows -> Nat]
      <4> HIDE DEF w
      <4> QED BY <3>2, CountMore
    <3> QED BY <3>1, <3>3 DEF TypeOK
  <2> QED BY <2>1, <2>2
<1> QED BY <1>2, <1>3 DEF FreezeBackingIntent, TypeOK, policyVars

LEMMA TypeInit == IntentConstants /\ Init => TypeOK
  BY DEF IntentConstants, Init, TypeOK, AccountStatus, Time

LEMMA TypeStep == IntentConstants /\ TypeOK /\ [Next]_vars => TypeOK'
<1> SUFFICES ASSUME IntentConstants, TypeOK, [Next]_vars PROVE TypeOK'
  OBVIOUS
<1>1. ASSUME NEW s \in Backers, EnsureSelfServiceAccount(s) PROVE TypeOK'
  BY <1>1 DEF EnsureSelfServiceAccount, TypeOK, AccountStatus, intentVars
<1>2. ASSUME NEW k \in Keys, NEW s \in Backers, NEW o \in Offerings,
             NEW u \in offerings[o].terms.minimum .. offerings[o].terms.maximum,
             NEW e \in now + 1 .. now + MaxLifetime,
             FreezeBackingIntent(k, s, o, u, e)
      PROVE  TypeOK'
  BY <1>2, FreezeInputs, FreezeType
<1>3. ASSUME NEW s \in Backers, NEW status \in AccountStatus \ {"ABSENT"},
             SetSelfServiceAccountStatus(s, status)
      PROVE  TypeOK'
  BY <1>3 DEF SetSelfServiceAccountStatus, OperatorStep, TypeOK, intentVars, IntentConstants
<1>4. ASSUME SwitchSelfService PROVE TypeOK'
  BY <1>4 DEF SwitchSelfService, OperatorStep, TypeOK, intentVars, IntentConstants
<1>5. ASSUME NEW s \in Backers, EditBackerAuthority(s) PROVE TypeOK'
  BY <1>5 DEF EditBackerAuthority, OperatorStep, TypeOK, intentVars, IntentConstants
<1>6. ASSUME NEW o \in Offerings, NEW state \in {"OPEN", "CLOSED"},
             NEW terms \in TermSheets, EditOffering(o, state, terms)
      PROVE  TypeOK'
  BY <1>6 DEF EditOffering, OperatorStep, TypeOK, intentVars, IntentConstants
<1>7. ASSUME Tick PROVE TypeOK'
  BY <1>7 DEF Tick, TypeOK, Time, policyVars, intentVars, IntentConstants
<1>8. ASSUME UNCHANGED vars PROVE TypeOK'
  BY <1>8 DEF vars, policyVars, intentVars, TypeOK
<1> QED
  BY <1>1, <1>2, <1>3, <1>4, <1>5, <1>6, <1>7, <1>8 DEF Next, Prepare, Operate

\* Every handler keeps the tables well formed.
THEOREM TypeCorrect == Spec => []TypeOK
  BY IntentConstants, TypeInit, TypeStep, PTL DEF Spec

-----------------------------------------------------------------------------
(* The quotas                                                              *)

LEMMA OneMore ==
    ASSUME NEW S, NEW x, IsFiniteSet(S)
    PROVE  /\ IsFiniteSet(S \cup {x})
           /\ Cardinality(S \cup {x}) <= Cardinality(S) + 1
           /\ x \notin S => Cardinality(S \cup {x}) = Cardinality(S) + 1
<1>1. /\ IsFiniteSet(S \cup {x})
      /\ Cardinality(S \cup {x}) =
           IF x \in S THEN Cardinality(S) ELSE Cardinality(S) + 1
  BY FS_AddElement
<1>2. Cardinality(S) \in Nat
  BY FS_CardinalityType
<1> QED BY <1>1, <1>2

\* A step either prepares one new intent, or leaves the intents and the rate
\* rows alone while time does not go back.
LEMMA StepCases ==
    ASSUME IntentConstants, TypeOK, [Next]_vars
    PROVE  \/ \E k \in Keys, s \in Backers, o \in Offerings, u \in Nat, e \in Nat :
                FreezeBackingIntent(k, s, o, u, e)
           \/ UNCHANGED intentVars /\ now <= now'
<1>1. now \in Nat
  BY DEF TypeOK, Time, IntentConstants
<1>2. ASSUME NEW s \in Backers, EnsureSelfServiceAccount(s)
      PROVE  UNCHANGED intentVars /\ now <= now'
  BY <1>1, <1>2 DEF EnsureSelfServiceAccount, intentVars
<1>3. ASSUME NEW k \in Keys, NEW s \in Backers, NEW o \in Offerings,
             NEW u \in offerings[o].terms.minimum .. offerings[o].terms.maximum,
             NEW e \in now + 1 .. now + MaxLifetime
      PROVE  u \in Nat /\ e \in Nat
  BY FreezeInputs
<1>4. CASE Operate
  <2>1. UNCHANGED intentVars /\ now' = now
    BY <1>4 DEF Operate, SetSelfServiceAccountStatus, SwitchSelfService,
                EditBackerAuthority, EditOffering, OperatorStep, intentVars
  <2> QED BY <1>1, <2>1
<1>5. CASE Tick
  BY <1>1, <1>5 DEF Tick, intentVars
<1>6. CASE UNCHANGED vars
  BY <1>1, <1>6 DEF vars, intentVars
<1> QED
  BY <1>2, <1>3, <1>4, <1>5, <1>6 DEF Next, Prepare

\* What one preparation does to the set of self-service intents of a backer.
LEMMA FreezeAdds ==
    ASSUME IntentConstants, TypeOK,
           NEW k \in Keys, NEW s \in Backers, NEW o \in Offerings,
           NEW u \in Nat, NEW e \in Nat, FreezeBackingIntent(k, s, o, u, e)
    PROVE  /\ \A j \in Keys \ {k} : intents'[j] = intents[j]
           /\ intents'[k] /= None
           /\ intents'[k].signer = s /\ intents'[k].offering = o
           /\ intents'[k].createdAt = now
           /\ intents[k] = None /\ now' = now
<1>1. FrozenIntent(s, o, u, e) \in Intent
  BY FrozenIntentType
<1>2. intents' = [intents EXCEPT ![k] = FrozenIntent(s, o, u, e)]
  BY DEF FreezeBackingIntent
<1>3. intents'[k] = FrozenIntent(s, o, u, e)
  BY <1>2 DEF TypeOK
<1> QED
  BY <1>1, <1>2, <1>3 DEF FreezeBackingIntent, TypeOK, FrozenIntent, IntentConstants

\* Before the first preparation nothing is counted.
NothingPrepared ==
    /\ intents = [k \in Keys |-> None]
    /\ rateLimits = [s \in Backers |-> [w \in Windows |-> 0]]

LEMMA NothingCounted ==
    ASSUME IntentConstants, NothingPrepared
    PROVE  HourlyQuota /\ PendingQuota
<1>1. \A s \in Backers : SelfServiceIntents(s) = {}
  BY DEF SelfServiceIntents, NothingPrepared
<1>2. ASSUME NEW s \in Backers, NEW w \in Windows
      PROVE  /\ Cardinality(IntentsInWindow(s, w)) = rateLimits[s][w]
             /\ rateLimits[s][w] <= MaxHourly
  <2>1. IntentsInWindow(s, w) = {} /\ rateLimits[s][w] = 0
    BY <1>1 DEF IntentsInWindow, NothingPrepared
  <2> QED BY <2>1, FS_EmptySet DEF IntentConstants
<1>3. ASSUME NEW s \in Backers
      PROVE  Cardinality({k \in SelfServiceIntents(s) : Live(k)}) <= MaxPending
  <2>1. {k \in SelfServiceIntents(s) : Live(k)} = {}
    BY <1>1
  <2> QED BY <2>1, FS_EmptySet DEF IntentConstants
<1> QED BY <1>2, <1>3 DEF HourlyQuota, PendingQuota

LEMMA QuotaInit == IntentConstants /\ Init => HourlyQuota /\ PendingQuota
  BY NothingCounted DEF Init, NothingPrepared

\* A preparation adds one to the count and to the rate row of its window.
LEMMA HourlyFreeze ==
    ASSUME IntentConstants, TypeOK, HourlyQuota,
           NEW k \in Keys, NEW s \in Backers, NEW o \in Offerings,
           NEW u \in Nat, NEW e \in Nat, FreezeBackingIntent(k, s, o, u, e)
    PROVE  HourlyQuota'
<1> SUFFICES ASSUME NEW r \in Backers, NEW w \in Windows
             PROVE  /\ Cardinality(IntentsInWindow(r, w)') = rateLimits'[r][w]
                    /\ rateLimits'[r][w] <= MaxHourly
  BY DEF HourlyQuota
<1>1. /\ Cardinality(IntentsInWindow(r, w)) = rateLimits[r][w]
      /\ rateLimits[r][w] <= MaxHourly
  BY DEF HourlyQuota
<1>2. IsFiniteSet(IntentsInWindow(r, w))
  BY FS_Subset DEF IntentsInWindow, SelfServiceIntents, IntentConstants
<1>3. CASE o /= LegacyOffering /\ r = s /\ w = Window(now)
  <2>1. IntentsInWindow(r, w)' = IntentsInWindow(r, w) \cup {k}
    BY <1>3, FreezeAdds DEF IntentsInWindow, SelfServiceIntents
  <2>2. k \notin IntentsInWindow(r, w)
    BY FreezeAdds DEF IntentsInWindow, SelfServiceIntents
  <2>3. rateLimits'[r][w] = rateLimits[r][w] + 1
    BY <1>3 DEF FreezeBackingIntent, TypeOK
  <2>4. rateLimits[r][w] < MaxHourly /\ rateLimits[r][w] \in Nat
    BY <1>3 DEF FreezeBackingIntent, WithinQuota, TypeOK
  <2>5. Cardinality(IntentsInWindow(r, w)') = Cardinality(IntentsInWindow(r, w)) + 1
    BY <1>2, <2>1, <2>2, OneMore
  <2> QED
    BY <1>1, <2>3, <2>4, <2>5 DEF IntentConstants
<1>4. CASE ~(o /= LegacyOffering /\ r = s /\ w = Window(now))
  <2>1. IntentsInWindow(r, w)' = IntentsInWindow(r, w)
    BY <1>4, FreezeAdds DEF IntentsInWindow, SelfServiceIntents
  <2>2. rateLimits'[r][w] = rateLimits[r][w]
    BY <1>4 DEF FreezeBackingIntent, TypeOK
  <2> QED BY <1>1, <2>1, <2>2
<1> QED BY <1>3, <1>4

LEMMA HourlyKept == UNCHANGED intentVars /\ HourlyQuota => HourlyQuota'
  BY DEF intentVars, HourlyQuota, IntentsInWindow, SelfServiceIntents

LEMMA HourlyStep ==
    IntentConstants /\ TypeOK /\ HourlyQuota /\ [Next]_vars => HourlyQuota'
  BY StepCases, HourlyFreeze, HourlyKept

\* No window of the server clock ever holds more self-service intents of one
\* backer than the hourly limit, and its rate row counts them exactly.
THEOREM HourlyQuotaHolds == Spec => []HourlyQuota
  BY IntentConstants, TypeCorrect, QuotaInit, HourlyStep, PTL DEF Spec

LiveSelfService(s) == {k \in SelfServiceIntents(s) : Live(k)}

LEMMA PendingFacts ==
    ASSUME IntentConstants, PendingQuota, NEW r \in Backers
    PROVE  /\ IsFiniteSet(LiveSelfService(r)) /\ IsFiniteSet(PendingOf(r))
           /\ Cardinality(LiveSelfService(r)) \in Nat
           /\ Cardinality(LiveSelfService(r)) <= MaxPending
<1>1. IsFiniteSet(LiveSelfService(r)) /\ IsFiniteSet(PendingOf(r))
  BY FS_Subset DEF LiveSelfService, SelfServiceIntents, PendingOf, IntentConstants
<1> QED
  BY <1>1, FS_CardinalityType DEF PendingQuota, LiveSelfService

\* Time that passes only takes from the pending intents.
LEMMA PendingKept ==
    ASSUME IntentConstants, TypeOK, TypeOK', PendingQuota,
           UNCHANGED intentVars, now <= now'
    PROVE  PendingQuota'
<1> SUFFICES ASSUME NEW r \in Backers
             PROVE  Cardinality(LiveSelfService(r)') <= MaxPending
  BY DEF PendingQuota, LiveSelfService
<1>1. LiveSelfService(r)' \subseteq LiveSelfService(r)
  <2> SUFFICES ASSUME NEW k \in Keys, intents[k] /= None, intents[k].expiresAt > now'
               PROVE  intents[k].expiresAt > now
    BY DEF LiveSelfService, SelfServiceIntents, Live, intentVars
  <2>1. intents[k].expiresAt \in Nat /\ now \in Nat /\ now' \in Nat
    BY DEF TypeOK, Intent, Time, IntentConstants
  <2> QED BY <2>1
<1>2. /\ Cardinality(LiveSelfService(r)') <= Cardinality(LiveSelfService(r))
      /\ IsFiniteSet(LiveSelfService(r)')
  BY <1>1, PendingFacts, FS_Subset
<1>3. Cardinality(LiveSelfService(r)') \in Nat
  BY <1>2, FS_CardinalityType
<1> QED BY <1>2, <1>3, PendingFacts DEF IntentConstants

\* A preparation adds one to fewer than the limit.
LEMMA PendingFreeze ==
    ASSUME IntentConstants, TypeOK, PendingQuota,
           NEW k \in Keys, NEW s \in Backers, NEW o \in Offerings,
           NEW u \in Nat, NEW e \in Nat, FreezeBackingIntent(k, s, o, u, e)
    PROVE  PendingQuota'
<1> SUFFICES ASSUME NEW r \in Backers
             PROVE  Cardinality(LiveSelfService(r)') <= MaxPending
  BY DEF PendingQuota, LiveSelfService
<1>1. CASE r = s /\ o /= LegacyOffering
  <2>1. LiveSelfService(r) \subseteq PendingOf(r)
    BY DEF LiveSelfService, SelfServiceIntents, PendingOf, Live
  <2>2. Cardinality(LiveSelfService(r)) <= Cardinality(PendingOf(r))
    BY <2>1, PendingFacts, FS_Subset
  <2>3. Cardinality(PendingOf(r)) < MaxPending
    BY <1>1 DEF FreezeBackingIntent, WithinQuota
  <2>4. Cardinality(PendingOf(r)) \in Nat
    BY PendingFacts, FS_CardinalityType
  <2>5. LiveSelfService(r)' \subseteq LiveSelfService(r) \cup {k}
    <3>1. (\A j \in Keys \ {k} : intents'[j] = intents[j]) /\ now' = now
      BY FreezeAdds
    <3> QED BY <3>1 DEF LiveSelfService, SelfServiceIntents, Live
  <2>6. /\ IsFiniteSet(LiveSelfService(r) \cup {k})
        /\ Cardinality(LiveSelfService(r) \cup {k}) <= Cardinality(LiveSelfService(r)) + 1
    BY PendingFacts, OneMore
  <2>7. /\ IsFiniteSet(LiveSelfService(r)')
        /\ Cardinality(LiveSelfService(r)') <= Cardinality(LiveSelfService(r) \cup {k})
    BY <2>5, <2>6, FS_Subset
  <2>8. /\ Cardinality(LiveSelfService(r)') \in Nat
        /\ Cardinality(LiveSelfService(r) \cup {k}) \in Nat
    BY <2>6, <2>7, FS_CardinalityType
  <2> QED
    BY PendingFacts, <2>2, <2>3, <2>4, <2>6, <2>7, <2>8 DEF IntentConstants
<1>2. CASE ~(r = s /\ o /= LegacyOffering)
  <2>1. LiveSelfService(r)' = LiveSelfService(r)
    BY <1>2, FreezeAdds DEF LiveSelfService, SelfServiceIntents, Live
  <2> QED BY <2>1, PendingFacts
<1> QED BY <1>1, <1>2

LEMMA PendingStep ==
    IntentConstants /\ TypeOK /\ PendingQuota /\ [Next]_vars => PendingQuota'
  BY StepCases, TypeStep, PendingFreeze, PendingKept

\* However preparation, expiry and operators interleave, no self-service
\* backer holds more unexpired intents than the pending limit.
THEOREM PendingQuotaHolds == Spec => []PendingQuota
  BY IntentConstants, TypeCorrect, QuotaInit, PendingStep, PTL DEF Spec
=============================================================================
