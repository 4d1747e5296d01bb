------------------------- MODULE RegistrationProofs -------------------------
(***************************************************************************)
(* Proofs about Registration for any names, invites and calls.  The limits *)
(* hold because a call counts against an invite from its check on: uses    *)
(* and calls under way together never exceed what the last check allowed.  *)
(***************************************************************************)
EXTENDS Registration, FiniteSetTheorems, TLAPS

(* Calls that have passed the check of an invite and may still use it. *)
UnderWay(i) == {c \in Calls : call[c].at # "idle" /\ call[c].invite = i}

(* A call past its first step has a name, and an invite that was created. *)
CallInv ==
    \A c \in Calls :
        \/ call[c] = IdleCall
        \/ /\ call[c].at # "idle"
           /\ call[c].name \in Names
           /\ call[c].invite # NoInvite => invite[call[c].invite] # "absent"

MembersCounted ==
    \A i \in Invites : Cardinality(Members(i)) <= useCount[i]

UsesLimited ==
    \A i \in Invites :
        useCount[i] + Cardinality(UnderWay(i)) + 1
            <= MaxUses[i] + Cardinality(Calls)

ClosedLimited ==
    \A i \in Invites : invite[i] = "closed" =>
        useCount[i] + Cardinality(UnderWay(i))
            <= usesAtClose[i] + Cardinality(Calls)

IInv == /\ TypeOK /\ CallInv /\ ReferencesHold
        /\ MembersCounted /\ UsesLimited /\ ClosedLimited

USE RegistrationAssumption DEF InviteStates, CallStates, IdleCall

-----------------------------------------------------------------------------
LEMMA CallsCounted == Cardinality(Calls) \in Nat
BY FS_CardinalityType

LEMMA UnderWayFinite ==
  ASSUME NEW i
  PROVE  /\ IsFiniteSet(UnderWay(i))
         /\ Cardinality(UnderWay(i)) \in Nat
         /\ Cardinality(UnderWay(i)) <= Cardinality(Calls)
<1>1. UnderWay(i) \subseteq Calls
  BY DEF UnderWay
<1>. QED
  BY <1>1, FS_Subset, FS_CardinalityType

LEMMA MembersFinite ==
  ASSUME NEW i, accounts \in SUBSET Names
  PROVE  /\ IsFiniteSet(Members(i))
         /\ Cardinality(Members(i)) \in Nat
<1>1. Members(i) \subseteq Names
  BY DEF Members
<1>. QED
  BY <1>1, FS_Subset, FS_CardinalityType

LEMMA OneLess ==
  ASSUME NEW S, NEW x \in S, IsFiniteSet(S)
  PROVE  Cardinality(S \ {x}) + 1 = Cardinality(S)
<1>1. Cardinality(S) \in Nat
  BY FS_CardinalityType
<1>2. Cardinality(S \ {x}) = Cardinality(S) - 1
  BY FS_RemoveElement
<1>. QED
  BY <1>1, <1>2

LEMMA OneMore ==
  ASSUME NEW S, NEW x, IsFiniteSet(S)
  PROVE  Cardinality(S \cup {x}) <= Cardinality(S) + 1
<1>1. Cardinality(S) \in Nat
  BY FS_CardinalityType
<1>2. Cardinality(S \cup {x}) = IF x \in S THEN Cardinality(S) ELSE Cardinality(S) + 1
  BY FS_AddElement
<1>. QED
  BY <1>1, <1>2

LEMMA InitIInv == Init => IInv
<1>. SUFFICES ASSUME Init PROVE IInv
  OBVIOUS
<1>1. TypeOK /\ CallInv /\ ReferencesHold
  BY DEF Init, TypeOK, CallInv, ReferencesHold
<1>2. \A i \in Invites : Members(i) = {} /\ UnderWay(i) = {}
  BY DEF Init, Members, UnderWay
<1>3. \A i \in Invites : Cardinality(Members(i)) = 0 /\ Cardinality(UnderWay(i)) = 0
  BY <1>2, FS_EmptySet
<1>4. Cardinality(Calls) >= 1
  BY FS_EmptySet, FS_CardinalityType
<1>5. \A i \in Invites : useCount[i] = 0 /\ invite[i] = "absent"
  BY DEF Init
<1>6. MembersCounted /\ UsesLimited /\ ClosedLimited
  BY <1>3, <1>4, <1>5, CallsCounted DEF MembersCounted, UsesLimited, ClosedLimited
<1>. QED
  BY <1>1, <1>6 DEF IInv

-----------------------------------------------------------------------------
(* Steps of a call that leave all tables as they are. *)

(* A new call fits under the limit, since the check saw one use left. *)
LEMMA CheckInviteStep ==
  ASSUME IInv, NEW c \in Calls, NEW i \in Invites \cup {NoInvite}, NEW n \in Names,
         CheckInvite(c, i, n)
  PROVE  IInv'
<1>. USE DEF IInv, CheckInvite, Moves, users, invites
<1>1. TypeOK' /\ CallInv' /\ ReferencesHold'
  BY DEF TypeOK, CallInv, ReferencesHold, Usable
<1>2. MembersCounted'
  BY DEF MembersCounted, Members
<1>3. \A j \in Invites : j # i => UnderWay(j)' = UnderWay(j)
  BY DEF UnderWay, TypeOK
<1>4. UnderWay(i)' \subseteq Calls
  BY DEF UnderWay
<1>5. Cardinality(UnderWay(i)') \in Nat /\ Cardinality(UnderWay(i)') <= Cardinality(Calls)
  BY <1>4, FS_Subset, FS_CardinalityType
<1>6. i \in Invites => useCount[i] + 1 <= MaxUses[i] /\ invite[i] = "open"
  BY DEF Usable, TypeOK
<1>7. UsesLimited'
  <2>. SUFFICES ASSUME NEW j \in Invites
                PROVE  useCount[j] + Cardinality(UnderWay(j)') + 1
                           <= MaxUses[j] + Cardinality(Calls)
    BY DEF UsesLimited
  <2>1. CASE j = i
    BY <2>1, <1>5, <1>6, CallsCounted DEF TypeOK
  <2>2. CASE j # i
    BY <2>2, <1>3 DEF UsesLimited
  <2>. QED
    BY <2>1, <2>2
<1>8. ClosedLimited'
  BY <1>3, <1>6 DEF ClosedLimited
<1>. QED
  BY <1>1, <1>2, <1>7, <1>8

LEMMA CheckNameStep ==
  ASSUME IInv, NEW c \in Calls, CheckName(c)
  PROVE  IInv'
<1>. USE DEF IInv, CheckName, Moves, users, invites
<1>1. TypeOK' /\ CallInv' /\ ReferencesHold'
  BY DEF TypeOK, CallInv, ReferencesHold
<1>2. \A i \in Invites : UnderWay(i)' = UnderWay(i) /\ Members(i)' = Members(i)
  BY DEF UnderWay, Members, TypeOK
<1>. QED
  BY <1>1, <1>2 DEF MembersCounted, UsesLimited, ClosedLimited

(* A call that ends leaves one fewer under way. *)
LEMMA CallOver ==
  ASSUME TypeOK, NEW c \in Calls, call[c].at # "idle", Return(c), NEW i \in Invites
  PROVE  /\ Cardinality(UnderWay(i)') \in Nat
         /\ Cardinality(UnderWay(i)') <= Cardinality(UnderWay(i))
         /\ i = call[c].invite =>
                Cardinality(UnderWay(i)') + 1 = Cardinality(UnderWay(i))
<1>1. UnderWay(i)' = UnderWay(i) \ {c}
  BY DEF UnderWay, TypeOK, Return
<1>2. i = call[c].invite => c \in UnderWay(i)
  BY DEF UnderWay
<1>3. IsFiniteSet(UnderWay(i)) /\ UnderWay(i) \ {c} \subseteq UnderWay(i)
  BY UnderWayFinite
<1>4. /\ Cardinality(UnderWay(i) \ {c}) \in Nat
      /\ Cardinality(UnderWay(i) \ {c}) <= Cardinality(UnderWay(i))
  BY <1>3, FS_Subset, FS_CardinalityType
<1>5. i = call[c].invite => Cardinality(UnderWay(i) \ {c}) + 1 = Cardinality(UnderWay(i))
  BY <1>2, <1>3, OneLess
<1>. QED
  BY <1>1, <1>4, <1>5

LEMMA FailStep ==
  ASSUME IInv, NEW c \in Calls, Fail(c)
  PROVE  IInv'
<1>. USE DEF IInv, Fail, users, invites
<1>1. TypeOK' /\ CallInv' /\ ReferencesHold'
  BY DEF TypeOK, CallInv, ReferencesHold, Return
<1>2. MembersCounted'
  BY DEF MembersCounted, Members
<1>0. call[c].at # "idle" /\ Return(c)
  BY DEF CallInv
<1>3. \A i \in Invites : /\ Cardinality(UnderWay(i)') \in Nat
                         /\ Cardinality(UnderWay(i)') <= Cardinality(UnderWay(i))
  BY <1>0, CallOver
<1>4. UsesLimited' /\ ClosedLimited'
  BY <1>3, UnderWayFinite, CallsCounted DEF UsesLimited, ClosedLimited, TypeOK
<1>. QED
  BY <1>1, <1>2, <1>4

-----------------------------------------------------------------------------
(* The transaction turns a call under way into a use, and a member. *)
LEMMA CommitAccountStep ==
  ASSUME IInv, NEW c \in Calls, CommitAccount(c)
  PROVE  IInv'
<1>. DEFINE n == call[c].name
            k == call[c].invite
<1>0. /\ n \in Names
      /\ k \in Invites \cup {NoInvite}
      /\ call[c].at # "idle"
      /\ Return(c)
  BY DEF IInv, CommitAccount, CallInv, TypeOK
<1>1. TypeOK'
  BY <1>0 DEF IInv, CommitAccount, TypeOK, CountUse, Inviter, Return
<1>2. CallInv'
  BY DEF IInv, CommitAccount, CallInv, TypeOK, Return
<1>3. ReferencesHold'
  BY <1>0 DEF IInv, CommitAccount, ReferencesHold, Inviter, CallInv, TypeOK
<1>4. \A i \in Invites :
         /\ useCount'[i] = IF i = k THEN useCount[i] + 1 ELSE useCount[i]
         /\ invite'[i] = invite[i]
         /\ usesAtClose'[i] = usesAtClose[i]
  BY <1>0 DEF IInv, CommitAccount, CountUse, TypeOK
<1>5. MembersCounted'
  <2>. SUFFICES ASSUME NEW i \in Invites
                PROVE  Cardinality(Members(i)') <= useCount'[i]
    BY DEF MembersCounted
  <2>1. Members(i)' = IF i = k THEN Members(i) \cup {n} ELSE Members(i)
    BY <1>0 DEF IInv, CommitAccount, Members, TypeOK
  <2>2. /\ IsFiniteSet(Members(i))
        /\ Cardinality(Members(i)) \in Nat
        /\ Cardinality(Members(i)) <= useCount[i]
        /\ useCount[i] \in Nat
    BY MembersFinite DEF IInv, TypeOK, MembersCounted
  <2>3. /\ Cardinality(Members(i) \cup {n}) <= Cardinality(Members(i)) + 1
        /\ Cardinality(Members(i) \cup {n}) \in Nat
    BY <2>2, OneMore, FS_AddElement, FS_CardinalityType
  <2>. HIDE DEF n, k
  <2>. QED
    BY <1>4, <2>1, <2>2, <2>3
<1>6. \A i \in Invites :
         /\ Cardinality(UnderWay(i)') \in Nat
         /\ Cardinality(UnderWay(i)') <= Cardinality(UnderWay(i))
         /\ i = k => Cardinality(UnderWay(i)') + 1 = Cardinality(UnderWay(i))
  BY <1>0, CallOver DEF IInv
<1>7. \A i \in Invites : /\ useCount[i] \in Nat
                         /\ usesAtClose[i] \in Nat
                         /\ MaxUses[i] \in Nat
                         /\ Cardinality(UnderWay(i)) \in Nat
  BY UnderWayFinite DEF IInv, TypeOK
<1>8. UsesLimited'
  BY <1>4, <1>6, <1>7, CallsCounted DEF IInv, UsesLimited
<1>9. ClosedLimited'
  BY <1>4, <1>6, <1>7, CallsCounted DEF IInv, ClosedLimited
<1>. QED
  BY <1>1, <1>2, <1>3, <1>5, <1>8, <1>9 DEF IInv

-----------------------------------------------------------------------------
(* Accounts and invites that come and go. *)
LEMMA DeleteAccountStep ==
  ASSUME IInv, NEW n \in Names, DeleteAccount(n)
  PROVE  IInv'
<1>. USE DEF IInv, DeleteAccount
<1>1. TypeOK'
  BY DEF TypeOK, ClearReferences
<1>2. CallInv'
  BY DEF TypeOK, CallInv
<1>3. ReferencesHold'
  BY DEF TypeOK, ReferencesHold, ClearReferences
<1>4. \A i \in Invites : UnderWay(i)' = UnderWay(i)
  BY DEF UnderWay
<1>5. MembersCounted'
  <2>. SUFFICES ASSUME NEW i \in Invites
                PROVE  Cardinality(Members(i)') <= useCount[i]
    BY DEF MembersCounted
  <2>1. Members(i)' \subseteq Members(i)
    BY DEF Members
  <2>2. /\ Cardinality(Members(i)') \in Nat
        /\ Cardinality(Members(i)') <= Cardinality(Members(i))
    BY <2>1, MembersFinite, FS_Subset, FS_CardinalityType DEF TypeOK
  <2>. QED
    BY <2>2, MembersFinite DEF MembersCounted, TypeOK
<1>6. \A i \in Invites : invite'[i] = "closed" => invite[i] = "closed"
  BY DEF TypeOK
<1>7. UsesLimited' /\ ClosedLimited'
  BY <1>4, <1>6 DEF UsesLimited, ClosedLimited
<1>. QED
  BY <1>1, <1>2, <1>3, <1>5, <1>7

LEMMA CreateInviteStep ==
  ASSUME IInv, NEW i \in Invites, CreateInvite(i)
  PROVE  IInv'
<1>. USE DEF IInv, CreateInvite, users
<1>1. TypeOK' /\ CallInv' /\ ReferencesHold'
  BY DEF TypeOK, CallInv, ReferencesHold
<1>2. \A j \in Invites : UnderWay(j)' = UnderWay(j) /\ Members(j)' = Members(j)
  BY DEF UnderWay, Members
<1>3. \A j \in Invites : invite'[j] = "closed" => invite[j] = "closed"
  BY DEF TypeOK
<1>. QED
  BY <1>1, <1>2, <1>3 DEF MembersCounted, UsesLimited, ClosedLimited

LEMMA CloseInviteStep ==
  ASSUME IInv, NEW i \in Invites, CloseInvite(i)
  PROVE  IInv'
<1>. USE DEF IInv, CloseInvite, users
<1>1. TypeOK' /\ CallInv' /\ ReferencesHold'
  BY DEF TypeOK, CallInv, ReferencesHold
<1>2. \A j \in Invites : UnderWay(j)' = UnderWay(j) /\ Members(j)' = Members(j)
  BY DEF UnderWay, Members
<1>3. MembersCounted' /\ UsesLimited'
  BY <1>2 DEF MembersCounted, UsesLimited
<1>4. \A j \in Invites \ {i} :
         invite'[j] = invite[j] /\ usesAtClose'[j] = usesAtClose[j]
  BY DEF TypeOK
<1>5. usesAtClose'[i] = useCount[i] /\ useCount[i] \in Nat
  BY DEF TypeOK
<1>6. ClosedLimited'
  BY <1>2, <1>4, <1>5, UnderWayFinite, CallsCounted DEF ClosedLimited
<1>. QED
  BY <1>1, <1>3, <1>6

-----------------------------------------------------------------------------
LEMMA NextIInv == IInv /\ [Next]_vars => IInv'
<1>. SUFFICES ASSUME IInv, [Next]_vars PROVE IInv'
  OBVIOUS
<1>1. ASSUME NEW c \in Calls, NEW i \in Invites \cup {NoInvite}, NEW n \in Names,
             CheckInvite(c, i, n)
      PROVE  IInv'
  BY <1>1, CheckInviteStep
<1>2. ASSUME NEW c \in Calls, CheckName(c) \/ CommitAccount(c) \/ Fail(c)
      PROVE  IInv'
  BY <1>2, CheckNameStep, CommitAccountStep, FailStep
<1>3. ASSUME NEW n \in Names, DeleteAccount(n) PROVE IInv'
  BY <1>3, DeleteAccountStep
<1>4. ASSUME NEW i \in Invites, CreateInvite(i) \/ CloseInvite(i) PROVE IInv'
  BY <1>4, CreateInviteStep, CloseInviteStep
<1>5. ASSUME UNCHANGED vars PROVE IInv'
  <2>1. \A i \in Invites : UnderWay(i)' = UnderWay(i) /\ Members(i)' = Members(i)
    BY <1>5 DEF vars, users, invites, UnderWay, Members
  <2>. QED
    BY <1>5, <2>1 DEF vars, users, invites, IInv, TypeOK, CallInv, ReferencesHold,
       MembersCounted, UsesLimited, ClosedLimited
<1>. QED
  BY <1>1, <1>2, <1>3, <1>4, <1>5 DEF Next

LEMMA SpecIInv == Spec => []IInv
BY InitIInv, NextIInv, PTL DEF Spec

(* Every variable keeps its type, for any names, invites and calls. *)
THEOREM TypeCorrect == Spec => []TypeOK
<1>1. IInv => TypeOK
  BY DEF IInv
<1>. QED
  BY <1>1, SpecIInv, PTL

(* Whatever register calls overlap, an invite admits no more accounts than *)
(* it counts uses, and counts at most max_uses and one for each further    *)
(* call that can be in flight; with one call at a time, max_uses exactly.  *)
THEOREM InvitesAreHonoured == Spec => []InvitesHonoured
<1>1. IInv => InvitesHonoured
  <2>. SUFFICES ASSUME IInv, NEW i \in Invites
                PROVE  /\ Cardinality(Members(i)) <= useCount[i]
                       /\ useCount[i] + 1 <= MaxUses[i] + Cardinality(Calls)
    BY DEF InvitesHonoured
  <2>1. /\ Cardinality(Members(i)) <= useCount[i]
        /\ useCount[i] + Cardinality(UnderWay(i)) + 1
              <= MaxUses[i] + Cardinality(Calls)
        /\ useCount[i] \in Nat
        /\ MaxUses[i] \in Nat
    BY DEF IInv, MembersCounted, UsesLimited, TypeOK
  <2>. QED
    BY <2>1, UnderWayFinite, CallsCounted
<1>. QED
  BY <1>1, SpecIInv, PTL

(* A revoked or expired invite serves only calls that had passed its check. *)
THEOREM ClosedInvitesServeFew == Spec => []ClosedInvitesEnd
<1>1. IInv => ClosedInvitesEnd
  <2>. SUFFICES ASSUME IInv, NEW i \in Invites, invite[i] = "closed"
                PROVE  useCount[i] <= usesAtClose[i] + Cardinality(Calls)
    BY DEF ClosedInvitesEnd
  <2>1. /\ useCount[i] + Cardinality(UnderWay(i))
              <= usesAtClose[i] + Cardinality(Calls)
        /\ useCount[i] \in Nat
        /\ usesAtClose[i] \in Nat
    BY DEF IInv, ClosedLimited, TypeOK
  <2>. QED
    BY <2>1, UnderWayFinite, CallsCounted
<1>. QED
  BY <1>1, SpecIInv, PTL

(* delete_account leaves no reference to the account, whatever registers   *)
(* and invites of it are under way.                                        *)
THEOREM ReferencesAreKept == Spec => []ReferencesHold
<1>1. IInv => ReferencesHold
  BY DEF IInv
<1>. QED
  BY <1>1, SpecIInv, PTL
=============================================================================
