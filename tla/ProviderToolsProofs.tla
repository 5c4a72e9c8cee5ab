-------------------------- MODULE ProviderToolsProofs --------------------------
(***************************************************************************)
(* What ProviderTools promises of its allocations, for any number of       *)
(* signers, tools and requests. Membership comes and goes without touching *)
(* a tool, and a tool never changes hands, so only an allocation can       *)
(* break a promise; there the guard speaks of all tools of the signer,     *)
(* whichever identity they were allocated under.                           *)
(***************************************************************************)
EXTENDS ProviderTools, FiniteSetTheorems, TLAPS

\* The tools of the quota.
SelfServiceToolsOf(s) == {t \in ToolsOf(s) : tools[t].identity = "SELF_SERVICE"}

\* One more element, known or not, makes a set larger by at most one.
LEMMA AtMostOneMore ==
    ASSUME NEW S, IsFiniteSet(S), NEW x
    PROVE  Cardinality(S \cup {x}) <= Cardinality(S) + 1
<1>1. Cardinality(S \cup {x}) = IF x \in S THEN Cardinality(S) ELSE Cardinality(S) + 1
  BY FS_AddElement
<1>2. Cardinality(S) \in Nat
  BY FS_CardinalityType
<1> QED BY <1>1, <1>2

LEMMA ToolSetsFinite ==
    ASSUME ToolConstants, NEW s
    PROVE  /\ IsFiniteSet(ToolsOf(s)) /\ Cardinality(ToolsOf(s)) \in Nat
           /\ IsFiniteSet(SelfServiceToolsOf(s))
           /\ Cardinality(SelfServiceToolsOf(s)) <= Cardinality(ToolsOf(s))
<1>1. IsFiniteSet(ToolsOf(s))
  BY FS_Subset, ToolsOf(s) \subseteq Tools DEF ToolConstants, ToolsOf
<1>2. SelfServiceToolsOf(s) \subseteq ToolsOf(s)
  BY DEF SelfServiceToolsOf
<1> QED BY <1>1, <1>2, FS_Subset, FS_CardinalityType

-----------------------------------------------------------------------------
(* Membership                                                              *)

\* Membership changes keep every table well formed and leave the tools alone.
LEMMA MembershipType ==
    ASSUME ToolConstants, ToolTypeOK, MemberStep
    PROVE  ToolTypeOK' /\ UNCHANGED tools
<1>1. ASSUME NEW s \in Signers, EnsureAccount(s) PROVE ToolTypeOK' /\ UNCHANGED tools
  BY <1>1 DEF EnsureAccount, ToolTypeOK, AccountStatus
<1>2. ASSUME NEW s \in Supervised, NEW status \in {"ACTIVE", "SUSPENDED", "REVOKED"},
             SetAccountStatus(s, status)
      PROVE  ToolTypeOK' /\ UNCHANGED tools
  BY <1>2 DEF SetAccountStatus, ToolTypeOK, AccountStatus
<1>3. ASSUME NEW s \in Supervised, NEW status \in {"ENABLED", "DISABLED"},
             EditAuthorityRow(s, status)
      PROVE  ToolTypeOK' /\ UNCHANGED tools
  BY <1>3 DEF EditAuthorityRow, ToolTypeOK, RowStatus
<1>4. ASSUME FlipSelfService PROVE ToolTypeOK' /\ UNCHANGED tools
  BY <1>4 DEF FlipSelfService, ToolTypeOK
<1> QED BY <1>1, <1>2, <1>3, <1>4 DEF MemberStep

\* Sets of tools are read from the table alone.
LEMMA SameTools ==
    ASSUME UNCHANGED tools
    PROVE  /\ OneToolPerRequest => OneToolPerRequest'
           /\ ToolQuota => ToolQuota'
  BY DEF OneToolPerRequest, ToolQuota, ToolsOf

-----------------------------------------------------------------------------
(* Allocation                                                              *)

\* What an allocation writes: one tool that was free.
LEMMA Allocated ==
    ASSUME ToolConstants, ToolTypeOK, NEW s \in Signers, NEW r \in Requests,
           AllocateForIssuer(s, r)
    PROVE  \E t \in Tools :
              /\ tools[t] = None
              /\ tools' = [tools EXCEPT ![t] =
                    [signer |-> s, identity |-> AllocationIdentity(s), request |-> r]]
              /\ tools'[t] \in Tool
              /\ ToolsOf(s)' = ToolsOf(s) \cup {t}
              /\ \A other \in Signers \ {s} : ToolsOf(other)' = ToolsOf(other)
<1> DEFINE tool == [signer |-> s, identity |-> AllocationIdentity(s), request |-> r]
<1>1. PICK t \in Tools : tools[t] = None /\ tools' = [tools EXCEPT ![t] = tool]
  BY DEF AllocateForIssuer
<1>2. tool \in Tool /\ tool /= None
  BY DEF Tool, AllocationIdentity, Identities, ToolConstants
<1>3. \A u \in Tools : tools'[u] = IF u = t THEN tool ELSE tools[u]
  BY <1>1 DEF ToolTypeOK
<1>4. ToolsOf(s)' = ToolsOf(s) \cup {t}
  BY <1>2, <1>3 DEF ToolsOf
<1>5. \A other \in Signers \ {s} : ToolsOf(other)' = ToolsOf(other)
  BY <1>1, <1>3 DEF ToolsOf
<1> QED BY <1>1, <1>2, <1>3, <1>4, <1>5

LEMMA AllocationType ==
    ASSUME ToolConstants, ToolTypeOK, NEW s \in Signers, NEW r \in Requests,
           AllocateForIssuer(s, r)
    PROVE  ToolTypeOK'
  BY Allocated DEF AllocateForIssuer, ToolTypeOK, memberVars

LEMMA AllocationOnce ==
    ASSUME ToolConstants, ToolTypeOK, OneToolPerRequest,
           NEW s \in Signers, NEW r \in Requests, AllocateForIssuer(s, r)
    PROVE  OneToolPerRequest'
<1>1. PICK t \in Tools :
        /\ tools[t] = None
        /\ tools' = [tools EXCEPT ![t] =
              [signer |-> s, identity |-> AllocationIdentity(s), request |-> r]]
        /\ ToolsOf(s)' = ToolsOf(s) \cup {t}
        /\ \A other \in Signers \ {s} : ToolsOf(other)' = ToolsOf(other)
  BY Allocated
<1>2. t \notin ToolsOf(s) /\ RequestedBy(s, r) = {}
  BY <1>1 DEF ToolsOf, AllocateForIssuer
<1>3. \A u \in Tools \ {t} : tools'[u] = tools[u]
  BY <1>1 DEF ToolTypeOK
<1>4. tools'[t].request = r
  BY <1>1 DEF ToolTypeOK
<1> SUFFICES ASSUME NEW someone \in Signers, NEW q \in Requests
             PROVE  Cardinality({u \in ToolsOf(someone)' : tools'[u].request = q}) <= 1
  BY DEF OneToolPerRequest
<1>5. CASE someone = s /\ q = r
  <2> DEFINE answered == {u \in ToolsOf(someone)' : tools'[u].request = q}
  <2>1. answered = {t}
    BY <1>1, <1>2, <1>3, <1>4, <1>5 DEF RequestedBy, ToolsOf
  <2>2. Cardinality({t}) = 1
    BY FS_Singleton
  <2>3. Cardinality(answered) <= 1
    <3> HIDE DEF answered
    <3> QED BY <2>1, <2>2
  <2> QED BY <2>3
<1>6. CASE someone /= s \/ q /= r
  <2>1. {u \in ToolsOf(someone)' : tools'[u].request = q}
          = {u \in ToolsOf(someone) : tools[u].request = q}
    BY <1>1, <1>2, <1>3, <1>4, <1>6 DEF ToolsOf
  <2> QED BY <2>1 DEF OneToolPerRequest
<1> QED BY <1>5, <1>6

LEMMA AllocationWithinQuota ==
    ASSUME ToolConstants, ToolTypeOK, ToolQuota,
           NEW s \in Signers, NEW r \in Requests, AllocateForIssuer(s, r)
    PROVE  ToolQuota'
<1>1. PICK t \in Tools :
        /\ tools[t] = None
        /\ tools' = [tools EXCEPT ![t] =
              [signer |-> s, identity |-> AllocationIdentity(s), request |-> r]]
        /\ ToolsOf(s)' = ToolsOf(s) \cup {t}
        /\ \A other \in Signers \ {s} : ToolsOf(other)' = ToolsOf(other)
  BY Allocated
<1>2. t \notin ToolsOf(s)
  BY <1>1 DEF ToolsOf
<1>3. /\ tools'[t].identity = AllocationIdentity(s)
      /\ \A u \in Tools \ {t} : tools'[u] = tools[u]
  BY <1>1 DEF ToolTypeOK
<1> SUFFICES ASSUME NEW someone \in Signers
             PROVE  Cardinality(SelfServiceToolsOf(someone)') <= MaxTools
  BY DEF ToolQuota, SelfServiceToolsOf
<1>4. CASE someone = s /\ AllocationIdentity(s) = "SELF_SERVICE"
  <2>1. SelfServiceToolsOf(s)' = SelfServiceToolsOf(s) \cup {t}
    BY <1>1, <1>2, <1>3, <1>4 DEF SelfServiceToolsOf, ToolsOf
  <2>2. Cardinality(ToolsOf(s)) < MaxTools
    BY <1>4 DEF AllocateForIssuer, WithinQuota
  <2>3. Cardinality(SelfServiceToolsOf(s) \cup {t}) <= Cardinality(SelfServiceToolsOf(s)) + 1
    BY ToolSetsFinite, AtMostOneMore
  <2>4. /\ Cardinality(SelfServiceToolsOf(s)) \in Nat
        /\ Cardinality(SelfServiceToolsOf(s) \cup {t}) \in Nat
        /\ Cardinality(SelfServiceToolsOf(s)) <= Cardinality(ToolsOf(s))
        /\ Cardinality(ToolsOf(s)) \in Nat
    BY ToolSetsFinite, FS_AddElement, FS_CardinalityType
  <2>5. MaxTools \in Nat
    BY DEF ToolConstants
  <2> QED BY <1>4, <2>1, <2>2, <2>3, <2>4, <2>5
<1>5. CASE ~(someone = s /\ AllocationIdentity(s) = "SELF_SERVICE")
  <2>1. SelfServiceToolsOf(someone)' = SelfServiceToolsOf(someone)
    BY <1>1, <1>2, <1>3, <1>5 DEF SelfServiceToolsOf, ToolsOf
  <2> QED BY <2>1 DEF ToolQuota, SelfServiceToolsOf
<1> QED BY <1>4, <1>5

-----------------------------------------------------------------------------
(* The invariant                                                           *)

ToolInv == ToolTypeOK /\ OneToolPerRequest /\ ToolQuota

LEMMA ToolInvInit == ToolConstants /\ ToolInit => ToolInv
<1> SUFFICES ASSUME ToolConstants, ToolInit PROVE ToolInv
  OBVIOUS
<1>1. ToolTypeOK
  BY DEF ToolConstants, ToolInit, ToolTypeOK, AccountStatus, RowStatus
<1>2. \A s \in Signers : ToolsOf(s) = {}
  BY DEF ToolInit, ToolsOf
<1>3. Cardinality({}) = 0 /\ MaxTools \in Nat
  BY FS_EmptySet DEF ToolConstants
<1>4. OneToolPerRequest
  <2>1. \A s \in Signers, r \in Requests : {t \in ToolsOf(s) : tools[t].request = r} = {}
    BY <1>2
  <2> QED BY <1>3, <2>1 DEF OneToolPerRequest
<1>5. ToolQuota
  <2>1. \A s \in Signers : {t \in ToolsOf(s) : tools[t].identity = "SELF_SERVICE"} = {}
    BY <1>2
  <2> QED BY <1>3, <2>1 DEF ToolQuota
<1> QED BY <1>1, <1>4, <1>5 DEF ToolInv

LEMMA ToolInvStep == ToolConstants /\ ToolInv /\ [ToolNext]_toolVars => ToolInv'
<1> SUFFICES ASSUME ToolConstants, ToolInv, [ToolNext]_toolVars PROVE ToolInv'
  OBVIOUS
<1> USE DEF ToolInv
<1>1. CASE MemberStep
  BY <1>1, MembershipType, SameTools
<1>2. ASSUME NEW s \in Signers, NEW r \in Requests, AllocateForIssuer(s, r) PROVE ToolInv'
  BY <1>2, AllocationType, AllocationOnce, AllocationWithinQuota
<1>3. CASE UNCHANGED toolVars
  <2>1. ToolTypeOK'
    BY <1>3 DEF toolVars, memberVars, ToolTypeOK
  <2> QED BY <1>3, <2>1, SameTools DEF toolVars
<1> QED BY <1>1, <1>2, <1>3 DEF ToolNext

\* However memberships change between them, repeated and concurrent requests
\* of a signer end up with one tool each, and the quota counts them all.
THEOREM ToolInvariant == ToolSpec => []ToolInv
  BY ToolConstants, ToolInvInit, ToolInvStep, PTL DEF ToolSpec

\* A repeated request never gets a second tool, whatever identity its signer
\* acts under each time.
THEOREM OneToolPerRequestHolds == ToolSpec => []OneToolPerRequest
<1>1. ToolInv => OneToolPerRequest
  BY DEF ToolInv
<1> QED BY <1>1, ToolInvariant, PTL

\* No signer ever holds more self-service tools than the quota.
THEOREM ToolQuotaHolds == ToolSpec => []ToolQuota
<1>1. ToolInv => ToolQuota
  BY DEF ToolInv
<1> QED BY <1>1, ToolInvariant, PTL

\* A tool never changes hands: whatever happens to its signer afterwards, the
\* row of an allocated tool keeps its signer, its identity and its request,
\* and no other request is ever given it.
ToolsKept == [][\A t \in Tools : tools[t] /= None => tools'[t] = tools[t]]_toolVars

LEMMA ToolKeptStep ==
    ASSUME ToolConstants, ToolTypeOK, [ToolNext]_toolVars,
           NEW t \in Tools, tools[t] /= None
    PROVE  tools'[t] = tools[t]
<1>1. CASE MemberStep
  BY <1>1, MembershipType
<1>2. ASSUME NEW s \in Signers, NEW r \in Requests, AllocateForIssuer(s, r)
      PROVE  tools'[t] = tools[t]
  <2>1. PICK u \in Tools :
          /\ tools[u] = None
          /\ tools' = [tools EXCEPT ![u] =
                [signer |-> s, identity |-> AllocationIdentity(s), request |-> r]]
    BY <1>2, Allocated
  <2> QED BY <2>1 DEF ToolTypeOK
<1>3. CASE UNCHANGED toolVars
  BY <1>3 DEF toolVars
<1> QED BY <1>1, <1>2, <1>3 DEF ToolNext

\* The owner, the identity and the request of a tool never change.
THEOREM ToolsKeptHolds == ToolSpec => ToolsKept
<1>1. ToolInv /\ [ToolNext]_toolVars
         => [\A t \in Tools : tools[t] /= None => tools'[t] = tools[t]]_toolVars
  BY ToolConstants, ToolKeptStep DEF ToolInv
<1> QED BY <1>1, ToolInvariant, PTL DEF ToolSpec, ToolsKept
=============================================================================
