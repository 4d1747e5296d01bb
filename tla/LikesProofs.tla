---------------------------- MODULE LikesProofs ----------------------------
(***************************************************************************)
(* Proofs about Likes for any users, targets and calls, however many calls *)
(* of one user overlap.  The counter is exact because a call that has      *)
(* inserted or deleted a row is alone with it until it commits, so what    *)
(* the statement reported is still true when the counter moves.  An        *)
(* account cannot go while a transaction on its likes is open, and nobody  *)
(* whose account has gone likes anything again.                            *)
(***************************************************************************)
EXTENDS Likes, FiniteSetTheorems, TLAPS

(* A call past its first step has a target. *)
CallInv == \A c \in Calls : call[c].at # "idle" => call[c].target \in Targets

Holds(c) == call[c].at \in {"inserted", "deleted"}

(* Who holds the lock of a row holds it alone and knows if the row exists. *)
LockInv ==
    /\ \A c \in Calls : call[c].at = "inserted" => LikeOf(c) \notin likes
    /\ \A c \in Calls : call[c].at = "deleted" => LikeOf(c) \in likes
    /\ \A c, d \in Calls : Holds(c) /\ Holds(d) /\ c # d => LikeOf(c) # LikeOf(d)

(* Likes are of users and targets that exist; so is one about to be        *)
(* inserted.  The users of likes that are counted for good do not.         *)
LifeInv ==
    /\ \A q \in likes : q[1] \in live
    /\ \A q \in ghosts : q[1] \notin live
    /\ \A c \in Calls : call[c].at = "inserted" => Caller[c] \in live

(* Calls that have a like job to enqueue. *)
Telling(q) == {c \in Calls : call[c].at = "liked" /\ LikeOf(c) = q}

(* A row inserted has been notified of, or will be, once at the most. *)
JobInv == \A q \in Pairs : likeJobs[q] + Cardinality(Telling(q)) <= inserts[q]

IInv == TypeOK /\ CallInv /\ LockInv /\ LifeInv /\ LikeCountExact /\ JobInv

USE LikesAssumption DEF Pairs, CallStates, IdleCall

-----------------------------------------------------------------------------
LEMMA CountedFinite ==
  ASSUME NEW t
  PROVE  IsFiniteSet(LikesCounted(t))
<1>1. LikesCounted(t) \subseteq Users
  BY DEF LikesCounted
<1>. QED
  BY <1>1, FS_Subset

LEMMA TellingFinite ==
  ASSUME NEW q
  PROVE  /\ IsFiniteSet(Telling(q))
         /\ Cardinality(Telling(q)) \in Nat
<1>1. Telling(q) \subseteq Calls
  BY DEF Telling
<1>. QED
  BY <1>1, FS_Subset, FS_CardinalityType

LEMMA OneMore ==
  ASSUME NEW S, NEW x, IsFiniteSet(S)
  PROVE  /\ IsFiniteSet(S \cup {x})
         /\ Cardinality(S \cup {x}) <= Cardinality(S) + 1
<1>1. Cardinality(S) \in Nat
  BY FS_CardinalityType
<1>2. /\ IsFiniteSet(S \cup {x})
      /\ Cardinality(S \cup {x}) = IF x \in S THEN Cardinality(S) ELSE Cardinality(S) + 1
  BY FS_AddElement
<1>. QED
  BY <1>1, <1>2

(* The call of c moves to a stage that is not "liked": no set of calls     *)
(* about to notify grows.                                                  *)
LEMMA NoOneElseTells ==
  ASSUME TypeOK, NEW c \in Calls, NEW q,
         NEW x \in CallStates, x.at # "liked",
         call' = [call EXCEPT ![c] = x]
  PROVE  Cardinality(Telling(q)') <= Cardinality(Telling(q))
<1>1. Telling(q)' \subseteq Telling(q)
  BY DEF Telling, TypeOK, LikeOf
<1>. QED
  BY <1>1, TellingFinite, FS_Subset

LEMMA InitIInv == Init => IInv
<1>. SUFFICES ASSUME Init PROVE IInv
  OBVIOUS
<1>1. TypeOK /\ CallInv /\ LockInv /\ LifeInv
  BY DEF Init, TypeOK, CallInv, LockInv, LifeInv, Holds
<1>2. \A t : LikesCounted(t) = {}
  BY DEF Init, LikesCounted
<1>3. LikeCountExact
  BY <1>2, FS_EmptySet DEF Init, LikeCountExact
<1>4. \A q : Telling(q) = {}
  BY DEF Init, Telling
<1>5. \A q : Cardinality(Telling(q)) = 0
  BY <1>4, FS_EmptySet
<1>6. \A q \in Pairs : likeJobs[q] = 0 /\ inserts[q] = 0
  BY DEF Init
<1>7. JobInv
  BY <1>5, <1>6 DEF JobInv
<1>. QED
  BY <1>1, <1>3, <1>7 DEF IInv

-----------------------------------------------------------------------------
(* Steps that change no table. *)

(* Authorising, failing, and statements that found nothing to do. *)
LEMMA NoRowHeld ==
  ASSUME IInv, NEW c \in Calls, NEW x \in CallStates,
         x.at \in {"idle", "like", "unlike"},
         x.at # "idle" => x.target \in Targets,
         call' = [call EXCEPT ![c] = x],
         UNCHANGED <<live, likes, likeCount, likeJobs, inserts, ghosts>>,
         visible' \in SUBSET Pairs
  PROVE  IInv'
<1>. USE DEF IInv
<1>1. TypeOK' /\ CallInv'
  BY DEF TypeOK, CallInv
<1>2. LockInv' /\ LifeInv'
  BY DEF TypeOK, LockInv, LifeInv, Holds, LikeOf
<1>3. LikeCountExact'
  BY DEF LikeCountExact, LikesCounted, Exists
<1>4. JobInv'
  <2>. SUFFICES ASSUME NEW q \in Pairs
                PROVE  likeJobs'[q] + Cardinality(Telling(q)') <= inserts'[q]
    BY DEF JobInv
  <2>1. Cardinality(Telling(q)') <= Cardinality(Telling(q))
    BY NoOneElseTells
  <2>2. Telling(q)' \subseteq Calls
    BY DEF Telling
  <2>3. Cardinality(Telling(q)') \in Nat
    BY <2>2, FS_Subset, FS_CardinalityType
  <2>. QED
    BY <2>1, <2>3, TellingFinite DEF JobInv, TypeOK
<1>. QED
  BY <1>1, <1>2, <1>3, <1>4

(* A statement that takes the lock of its row. *)
LEMMA RowTaken ==
  ASSUME IInv, NEW c \in Calls, NEW at \in {"inserted", "deleted"},
         call[c].at \in {"like", "unlike"},
         at = "inserted" => LikeOf(c) \notin likes /\ Caller[c] \in live,
         at = "deleted" => LikeOf(c) \in likes,
         \A d \in Calls \ {c} : Holds(d) => LikeOf(d) # LikeOf(c),
         Moves(c, at, call[c].target),
         UNCHANGED <<live, visible, likes, likeCount, likeJobs, inserts, ghosts>>
  PROVE  IInv'
<1>. USE DEF IInv, Moves
<1>1. TypeOK' /\ CallInv'
  BY DEF TypeOK, CallInv
<1>2. \A d \in Calls : LikeOf(d)' = LikeOf(d)
  BY DEF TypeOK, LikeOf
<1>3. \A d \in Calls \ {c} : call'[d] = call[d]
  BY DEF TypeOK
<1>4. call'[c].at = at
  BY DEF TypeOK
<1>5. LockInv' /\ LifeInv'
  BY <1>2, <1>3, <1>4 DEF LockInv, LifeInv, Holds
<1>6. LikeCountExact'
  BY DEF LikeCountExact, LikesCounted, Exists
<1>7. \A q : Telling(q)' = Telling(q)
  BY <1>2, <1>3, <1>4 DEF Telling
<1>8. JobInv'
  BY <1>7 DEF JobInv
<1>. QED
  BY <1>1, <1>5, <1>6, <1>8

-----------------------------------------------------------------------------
LEMMA ResolveLikeStep ==
  ASSUME IInv, NEW c \in Calls, NEW t \in Targets, ResolveLike(c, t)
  PROVE  IInv'
<1>1. PICK at \in {"like", "unlike"} : Moves(c, at, t)
  BY DEF ResolveLike
<1>. DEFINE x == [at |-> at, target |-> t]
<1>2. x \in CallStates /\ x.at \in {"idle", "like", "unlike"} /\ x.target \in Targets
  OBVIOUS
<1>3. call' = [call EXCEPT ![c] = x]
  BY <1>1 DEF Moves
<1>4. /\ UNCHANGED <<live, likes, likeCount, likeJobs, inserts, ghosts>>
      /\ visible' \in SUBSET Pairs
  BY DEF ResolveLike, IInv, TypeOK
<1>. HIDE DEF x
<1>. QED
  BY <1>2, <1>3, <1>4, NoRowHeld

LEMMA ReturnStep ==
  ASSUME IInv, NEW c \in Calls, Return(c),
         UNCHANGED <<live, visible, likes, likeCount, likeJobs, inserts, ghosts>>
  PROVE  IInv'
<1>1. IdleCall \in CallStates /\ IdleCall.at = "idle"
  OBVIOUS
<1>2. call' = [call EXCEPT ![c] = IdleCall]
  BY DEF Return
<1>3. visible' \in SUBSET Pairs
  BY DEF IInv, TypeOK
<1>. HIDE DEF IdleCall
<1>. QED
  BY <1>1, <1>2, <1>3, NoRowHeld

LEMMA InsertLikeStep ==
  ASSUME IInv, NEW c \in Calls, InsertLike(c)
  PROVE  IInv'
<1>1. CASE Return(c)
  BY <1>1, ReturnStep DEF InsertLike
<1>2. CASE LikeOf(c) \notin likes /\ CanInsert(c) /\ Moves(c, "inserted", call[c].target)
  <2>1. \A d \in Calls \ {c} : Holds(d) => LikeOf(d) # LikeOf(c)
    BY DEF InsertLike, Locked, Holds
  <2>. QED
    BY <1>2, <2>1, RowTaken DEF InsertLike, CanInsert
<1>. QED
  BY <1>1, <1>2 DEF InsertLike

LEMMA DeleteLikeStep ==
  ASSUME IInv, NEW c \in Calls, DeleteLike(c)
  PROVE  IInv'
<1>1. CASE LikeOf(c) \notin likes
  BY <1>1, ReturnStep DEF DeleteLike
<1>2. CASE LikeOf(c) \in likes
  <2>1. \A d \in Calls \ {c} : Holds(d) => LikeOf(d) # LikeOf(c)
    BY <1>2 DEF DeleteLike, Locked, Holds, IInv, LockInv
  <2>. QED
    BY <1>2, <2>1, RowTaken DEF DeleteLike
<1>. QED
  BY <1>1, <1>2

(* The row appears and is counted; the call returns or goes on to notify.  *)
LEMMA CommitLikeStep ==
  ASSUME IInv, NEW c \in Calls, CommitLike(c)
  PROVE  IInv'
<1>a. PICK t : t = call[c].target
  OBVIOUS
<1>b. PICK q : q = LikeOf(c)
  OBVIOUS
<1>. USE <1>a, <1>b DEF IInv
<1>1. /\ t \in Targets /\ q = <<Caller[c], t>> /\ q \in Pairs
      /\ q \notin likes /\ q[1] \in live /\ q \notin ghosts
  BY DEF CommitLike, CallInv, LockInv, LifeInv, LikeOf, TypeOK
<1>2. /\ likes' = likes \cup {q}
      /\ likeCount' = [likeCount EXCEPT ![t] = @ + 1]
      /\ inserts' = [inserts EXCEPT ![q] = @ + 1]
      /\ UNCHANGED <<live, visible, likeJobs, ghosts>>
  BY DEF CommitLike, LikeOf
<1>3. PICK x \in CallStates :
        /\ x = IdleCall \/ (x.at = "liked" /\ x.target = t)
        /\ call' = [call EXCEPT ![c] = x]
  <2>1. IdleCall \in CallStates /\ [at |-> "liked", target |-> t] \in CallStates
    BY <1>1
  <2>2. Return(c) \/ Moves(c, "liked", t)
    BY DEF CommitLike, LikeOf
  <2>. QED
    BY <2>1, <2>2 DEF Return, Moves
<1>4. TypeOK' /\ CallInv'
  BY <1>1, <1>2, <1>3 DEF TypeOK, CallInv
<1>5. \A d \in Calls \ {c} : call'[d] = call[d] /\ LikeOf(d)' = LikeOf(d)
  BY <1>3 DEF TypeOK, LikeOf
<1>6. ~Holds(c)'
  BY <1>3 DEF TypeOK, Holds
<1>7. LockInv' /\ LifeInv'
  <2>1. \A d \in Calls \ {c} : call[d].at = "inserted" => LikeOf(d) # q
    BY DEF CommitLike, LockInv, Holds
  <2>2. LockInv'
    BY <1>2, <1>5, <1>6, <2>1 DEF LockInv, Holds
  <2>3. LifeInv'
    BY <1>1, <1>2, <1>5, <1>6 DEF LifeInv, Holds
  <2>. QED
    BY <2>2, <2>3
<1>8. LikeCountExact'
  <2>. SUFFICES ASSUME NEW s \in Targets, Exists(s)
                PROVE  likeCount'[s] = Cardinality(LikesCounted(s)')
    BY <1>2 DEF LikeCountExact, Exists
  <2>1. CASE s = t
    <3>1. LikesCounted(t)' = LikesCounted(t) \cup {Caller[c]} /\ Caller[c] \notin LikesCounted(t)
      BY <1>1, <1>2 DEF LikesCounted
    <3>2. Cardinality(LikesCounted(t)') = Cardinality(LikesCounted(t)) + 1
      BY <3>1, CountedFinite, FS_AddElement
    <3>. QED
      BY <1>1, <1>2, <2>1, <3>2 DEF LikeCountExact, TypeOK
  <2>2. CASE s # t
    <3>1. LikesCounted(s)' = LikesCounted(s)
      BY <1>1, <1>2, <2>2 DEF LikesCounted
    <3>. QED
      BY <1>1, <1>2, <2>2, <3>1 DEF LikeCountExact, TypeOK
  <2>. QED
    BY <2>1, <2>2
<1>9. JobInv'
  <2>. SUFFICES ASSUME NEW r \in Pairs
                PROVE  likeJobs'[r] + Cardinality(Telling(r)') <= inserts'[r]
    BY DEF JobInv
  <2>1. CASE r = q
    <3>1. Telling(q)' \subseteq Telling(q) \cup {c}
      BY <1>5 DEF Telling
    <3>. HIDE <1>a, <1>b
    <3>a. IsFiniteSet(Telling(q)) /\ Cardinality(Telling(q)) \in Nat
      BY TellingFinite
    <3>2. /\ IsFiniteSet(Telling(q) \cup {c})
          /\ Cardinality(Telling(q) \cup {c}) <= Cardinality(Telling(q)) + 1
      BY <3>a, OneMore
    <3>3. /\ Cardinality(Telling(q)') <= Cardinality(Telling(q)) + 1
          /\ Cardinality(Telling(q)') \in Nat
      <4>1. IsFiniteSet(Telling(q)') /\ Cardinality(Telling(q)') <= Cardinality(Telling(q) \cup {c})
        BY <3>1, <3>2, FS_Subset
      <4>2. Cardinality(Telling(q)') \in Nat /\ Cardinality(Telling(q) \cup {c}) \in Nat
        BY <3>2, <4>1, FS_CardinalityType
      <4>. QED
        BY <3>2, <4>1, <4>2, TellingFinite
    <3>. QED
      BY <1>1, <1>2, <2>1, <3>3, TellingFinite DEF JobInv, TypeOK
  <2>2. CASE r # q
    <3>1. LikeOf(c)' # r \/ call'[c].at # "liked"
      BY <1>1, <1>3, <2>2 DEF LikeOf, TypeOK
    <3>2. Telling(r)' = Telling(r)
      BY <1>5, <3>1, <2>2 DEF Telling, CommitLike
    <3>. QED
      BY <1>1, <1>2, <2>2, <3>2 DEF JobInv, TypeOK
  <2>. QED
    BY <2>1, <2>2
<1>. QED
  BY <1>4, <1>7, <1>8, <1>9

(* The row goes and is no longer counted; it was there, so the counter was *)
(* positive and GREATEST changes nothing.                                  *)
LEMMA CommitUnlikeStep ==
  ASSUME IInv, NEW c \in Calls, CommitUnlike(c)
  PROVE  IInv'
<1>a. PICK t : t = call[c].target
  OBVIOUS
<1>b. PICK q : q = LikeOf(c)
  OBVIOUS
<1>. USE <1>a, <1>b DEF IInv
<1>1. /\ t \in Targets /\ q = <<Caller[c], t>> /\ q \in Pairs
      /\ q \in likes /\ q \notin ghosts
  BY DEF CommitUnlike, CallInv, LockInv, LifeInv, LikeOf, TypeOK
<1>2. /\ likes' = likes \ {q}
      /\ likeCount' = [likeCount EXCEPT ![t] = IF @ > 0 THEN @ - 1 ELSE 0]
      /\ UNCHANGED <<live, visible, likeJobs, inserts, ghosts>>
      /\ call' = [call EXCEPT ![c] = IdleCall]
  BY DEF CommitUnlike, LikeOf, Return
<1>3. TypeOK' /\ CallInv'
  <2>1. likeCount' \in [Targets -> Nat]
    BY <1>1, <1>2 DEF TypeOK
  <2>. QED
    BY <1>1, <1>2, <2>1 DEF TypeOK, CallInv
<1>4. \A d \in Calls \ {c} : call'[d] = call[d] /\ LikeOf(d)' = LikeOf(d)
  BY <1>2 DEF TypeOK, LikeOf
<1>5. ~Holds(c)' /\ call'[c].at # "liked"
  BY <1>2 DEF TypeOK, Holds
<1>6. LockInv' /\ LifeInv'
  <2>1. \A d \in Calls \ {c} : call[d].at = "deleted" => LikeOf(d) # q
    BY DEF CommitUnlike, LockInv, Holds
  <2>2. LockInv'
    BY <1>2, <1>4, <1>5, <2>1 DEF LockInv, Holds
  <2>3. LifeInv'
    BY <1>2, <1>4, <1>5 DEF LifeInv, Holds
  <2>. QED
    BY <2>2, <2>3
<1>7. LikeCountExact'
  <2>. SUFFICES ASSUME NEW s \in Targets, Exists(s)
                PROVE  likeCount'[s] = Cardinality(LikesCounted(s)')
    BY <1>2 DEF LikeCountExact, Exists
  <2>1. CASE s = t
    <3>1. LikesCounted(t)' = LikesCounted(t) \ {Caller[c]} /\ Caller[c] \in LikesCounted(t)
      <4>. HIDE <1>a, <1>b
      <4>1. \A u \in Users : <<u, t>> = q <=> u = Caller[c]
        BY <1>1
      <4>2. Caller[c] \in Users /\ <<Caller[c], t>> = q
        BY <1>1 DEF CommitUnlike
      <4>. QED
        BY <1>1, <1>2, <4>1, <4>2 DEF LikesCounted
    <3>. HIDE <1>a, <1>b
    <3>a. IsFiniteSet(LikesCounted(t))
      BY CountedFinite
    <3>b. PICK S : S = LikesCounted(t)
      OBVIOUS
    <3>c. Cardinality(S \ {Caller[c]}) = Cardinality(S) - 1
      BY <3>1, <3>a, <3>b, FS_RemoveElement
    <3>2. Cardinality(LikesCounted(t)') = Cardinality(LikesCounted(t)) - 1
      BY <3>1, <3>b, <3>c
    <3>3. Cardinality(LikesCounted(t)) \in Nat /\ Cardinality(LikesCounted(t)') \in Nat
      <4>1. LikesCounted(t)' \subseteq Users
        BY DEF LikesCounted
      <4>. QED
        BY <4>1, CountedFinite, FS_Subset, FS_CardinalityType
    <3>. QED
      BY <1>1, <1>2, <2>1, <3>2, <3>3 DEF LikeCountExact, TypeOK
  <2>2. CASE s # t
    <3>1. LikesCounted(s)' = LikesCounted(s)
      BY <1>1, <1>2, <2>2 DEF LikesCounted
    <3>. QED
      BY <1>1, <1>2, <2>2, <3>1 DEF LikeCountExact, TypeOK
  <2>. QED
    BY <2>1, <2>2
<1>8. JobInv'
  <2>1. \A r : Telling(r)' = Telling(r)
    BY <1>4, <1>5 DEF Telling, CommitUnlike
  <2>. QED
    BY <1>2, <2>1 DEF JobInv
<1>. QED
  BY <1>3, <1>6, <1>7, <1>8

(* The call that was to notify does, and is no longer about to.            *)
LEMMA NotifyLikeStep ==
  ASSUME IInv, NEW c \in Calls, NotifyLike(c)
  PROVE  IInv'
<1>b. PICK q : q = LikeOf(c)
  OBVIOUS
<1>. USE <1>b DEF IInv
<1>1. q \in Pairs
  BY DEF NotifyLike, CallInv, LikeOf, TypeOK
<1>2. /\ likeJobs' = [likeJobs EXCEPT ![q] = @ + 1]
      /\ UNCHANGED <<live, visible, likes, likeCount, inserts, ghosts>>
      /\ call' = [call EXCEPT ![c] = IdleCall]
  BY DEF NotifyLike, Return
<1>3. TypeOK' /\ CallInv'
  BY <1>1, <1>2 DEF TypeOK, CallInv
<1>4. \A d \in Calls \ {c} : call'[d] = call[d] /\ LikeOf(d)' = LikeOf(d)
  BY <1>2 DEF TypeOK, LikeOf
<1>5. ~Holds(c)' /\ call'[c].at # "liked"
  BY <1>2 DEF TypeOK, Holds
<1>6. LockInv' /\ LifeInv'
  BY <1>2, <1>4, <1>5 DEF LockInv, LifeInv, Holds
<1>7. LikeCountExact'
  BY <1>2 DEF LikeCountExact, LikesCounted, Exists
<1>8. JobInv'
  <2>. SUFFICES ASSUME NEW r \in Pairs
                PROVE  likeJobs'[r] + Cardinality(Telling(r)') <= inserts'[r]
    BY DEF JobInv
  <2>1. CASE r = q
    <3>1. Telling(q)' = Telling(q) \ {c} /\ c \in Telling(q)
      BY <1>4, <1>5 DEF Telling, NotifyLike
    <3>2. Cardinality(Telling(q)') = Cardinality(Telling(q)) - 1
      BY <3>1, TellingFinite, FS_RemoveElement
    <3>. QED
      BY <1>1, <1>2, <2>1, <3>2, TellingFinite DEF JobInv, TypeOK
  <2>2. CASE r # q
    <3>1. Telling(r)' = Telling(r)
      BY <1>4, <1>5, <2>2 DEF Telling
    <3>. QED
      BY <1>1, <1>2, <2>2, <3>1 DEF JobInv, TypeOK
  <2>. QED
    BY <2>1, <2>2
<1>. QED
  BY <1>3, <1>6, <1>7, <1>8

LEMMA FailStep ==
  ASSUME IInv, NEW c \in Calls, Fail(c)
  PROVE  IInv'
BY ReturnStep DEF Fail

LEMMA ChangeVisibilityStep ==
  ASSUME IInv, NEW r \in Pairs, ChangeVisibility(r)
  PROVE  IInv'
<1>1. TypeOK' /\ CallInv' /\ LockInv' /\ LifeInv'
  BY DEF ChangeVisibility, IInv, TypeOK, CallInv, LockInv, LifeInv, Holds, LikeOf
<1>2. LikeCountExact'
  BY DEF ChangeVisibility, IInv, LikeCountExact, LikesCounted, Exists
<1>3. \A q : Telling(q)' = Telling(q)
  BY DEF ChangeVisibility, Telling, LikeOf
<1>4. JobInv'
  BY <1>3 DEF ChangeVisibility, IInv, JobInv
<1>. QED
  BY <1>1, <1>2, <1>4 DEF IInv

(* An account goes with its likes, those on what stays being counted for   *)
(* good, and with its posts and comments; no open transaction loses a row  *)
(* it relies on.                                                           *)
LEMMA DeleteAccountStep ==
  ASSUME IInv, NEW u \in Users, DeleteAccount(u)
  PROVE  IInv'
<1>. USE DEF IInv
<1>1. /\ live' = live \ {u}
      /\ likes' = {q \in likes : q[1] # u /\ u \notin GoesWith[q[2]]}
      /\ ghosts' = {q \in ghosts : u \notin GoesWith[q[2]]}
                      \cup {q \in likes : q[1] = u /\ u \notin GoesWith[q[2]]}
      /\ UNCHANGED <<visible, call, likeJobs, inserts>>
  BY DEF DeleteAccount
<1>2. \A t \in Targets : likeCount'[t] = IF u \in GoesWith[t] THEN 0 ELSE likeCount[t]
  BY DEF DeleteAccount
<1>3. TypeOK' /\ CallInv'
  BY <1>1 DEF DeleteAccount, TypeOK, CallInv
<1>4. \A c \in Calls : /\ LikeOf(c)' = LikeOf(c)
                       /\ Holds(c) => u # Caller[c] /\ u \notin GoesWith[call[c].target]
  BY <1>1 DEF DeleteAccount, Busy, Holds, LikeOf
<1>5. LockInv'
  <2>1. \A c \in Calls : Holds(c) => (LikeOf(c) \in likes' <=> LikeOf(c) \in likes)
    BY <1>1, <1>4 DEF LikeOf
  <2>. QED
    BY <1>1, <1>4, <2>1 DEF LockInv, Holds
<1>6. LifeInv'
  BY <1>1, <1>4 DEF LifeInv, Holds
<1>7. LikeCountExact'
  <2>. SUFFICES ASSUME NEW t \in Targets, Exists(t)'
                PROVE  likeCount'[t] = Cardinality(LikesCounted(t)')
    BY DEF LikeCountExact
  <2>1. Exists(t) /\ u \notin GoesWith[t]
    BY <1>1 DEF Exists
  <2>2. LikesCounted(t)' = LikesCounted(t)
    BY <1>1, <2>1 DEF LikesCounted
  <2>. QED
    BY <1>2, <2>1, <2>2 DEF LikeCountExact
<1>8. \A q : Telling(q)' = Telling(q)
  BY <1>1 DEF Telling, LikeOf
<1>9. JobInv'
  BY <1>1, <1>8 DEF JobInv
<1>. QED
  BY <1>3, <1>5, <1>6, <1>7, <1>9

LEMMA NextIInv == IInv /\ [Next]_vars => IInv'
<1>. SUFFICES ASSUME IInv, [Next]_vars PROVE IInv'
  OBVIOUS
<1>1. CASE UNCHANGED vars
  <2>1. \A q : Telling(q)' = Telling(q) /\ LikesCounted(q)' = LikesCounted(q)
    BY <1>1 DEF vars, Telling, LikesCounted, LikeOf
  <2>. QED
    BY <1>1, <2>1 DEF vars, IInv, TypeOK, CallInv, LockInv, LifeInv, Holds, LikeOf,
                      LikeCountExact, Exists, JobInv
<1>. QED
  BY <1>1, ResolveLikeStep, InsertLikeStep, CommitLikeStep, NotifyLikeStep,
     DeleteLikeStep, CommitUnlikeStep, FailStep, ChangeVisibilityStep,
     DeleteAccountStep DEF Next

LEMMA SpecIInv == Spec => []IInv
BY InitIInv, NextIInv, PTL DEF Spec

-----------------------------------------------------------------------------
(* Every variable keeps its type, for any users, targets and calls.        *)
THEOREM TypeCorrect == Spec => []TypeOK
<1>1. IInv => TypeOK
  BY DEF IInv
<1>. QED
  BY <1>1, SpecIInv, PTL

(* like_count equals after every commit the number of like rows and of the *)
(* likes that went with their user's account, however many likes, unlikes  *)
(* and account deletions overlap.                                          *)
THEOREM LikesAreCounted == Spec => []LikeCountExact
<1>1. IInv => LikeCountExact
  BY DEF IInv
<1>. QED
  BY <1>1, SpecIInv, PTL

(* However often a client repeats a like, each row inserted in likes or    *)
(* comment_likes yields one notification job at the most.                  *)
THEOREM LikesNotifyOnce == Spec => []LikeNotifiesOnce
<1>1. IInv => LikeNotifiesOnce
  BY TellingFinite DEF IInv, TypeOK, JobInv, LikeNotifiesOnce
<1>. QED
  BY <1>1, SpecIInv, PTL
=============================================================================
