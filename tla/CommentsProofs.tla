--------------------------- MODULE CommentsProofs ---------------------------
(***************************************************************************)
(* Proofs about Comments for any users, posts, comments and calls, and any *)
(* size of the pool.  What a call has read of the parent stays true: a     *)
(* comment never moves to another post, and deletion only marks it.  The   *)
(* jobs of a comment are those of the stages its call has passed.          *)
(***************************************************************************)
EXTENDS Comments, FiniteSetTheorems, TLAPS

(* What a call knows of the comments it speaks of. *)
CallFits(x) ==
    /\ x.at = "idle" => x = IdleCall
    /\ x.at \in {"comment", "begun", "tagged"} =>
          /\ x.target \in Posts
          /\ x.parent # Nothing => /\ Written(x.parent)
                                   /\ comment[x.parent].post = x.target
    /\ x.at \in {"postAuthor", "parentAuthor", "erase", "erasing"} =>
          x.target \in Comments /\ Written(x.target)

CallInv == \A c \in Calls : CallFits(call[c])

Holders == {c \in Calls : Holds(c)}

(* The pool never lends more than it has. *)
PoolInv == Cardinality(Holders) <= MaxConnections

Notifies(c) == call[c].at \in {"postAuthor", "parentAuthor"}

(* One call, which inserted it, notifies of a comment. *)
OneInv == \A c, d \in Calls :
              Notifies(c) /\ Notifies(d) /\ call[c].target = call[d].target => c = d

MentionInv == \A k \in Comments : Written(k) => comment[k].author \notin mentions[k]

(* The jobs there are when a comment's call has come to a stage. *)
AtPostAuthor(k) == \A u \in Users : u \notin mentions[k] => jobs[k][u] = 0

AtParentAuthor(k) ==
    /\ \A u \in ParentAuthorTold(k) : jobs[k][u] = 0
    /\ k \notin cutShort => \A u \in Users \cap PostAuthorTold(k) : jobs[k][u] = 1

JobInv ==
    /\ \A k \in Comments : Written(k) =>
         \A u \in Users :
            /\ u \in mentions[k] => jobs[k][u] = 1
            /\ jobs[k][u] <= IF u \in Interested(k) THEN 1 ELSE 0
            /\ u \in Interested(k) /\ ~Notifying(k) /\ k \notin cutShort
                  => jobs[k][u] = 1
    /\ \A c \in Calls :
         /\ call[c].at = "postAuthor" => AtPostAuthor(call[c].target)
         /\ call[c].at = "parentAuthor" => AtParentAuthor(call[c].target)

IInv == /\ TypeOK /\ CallInv /\ PoolInv /\ OneInv /\ MentionInv
        /\ CommentCountsExact /\ ThreadsStayOnPost /\ JobInv

USE CommentsAssumption

-----------------------------------------------------------------------------
(* Sets of calls and of comments, and their sizes. *)

LEMMA HoldersFinite == IsFiniteSet(Holders) /\ Cardinality(Holders) \in Nat
<1>1. Holders \subseteq Calls
  BY DEF Holders
<1>. QED
  BY <1>1, FS_Subset, FS_CardinalityType

LEMMA CommentSetsFinite ==
  ASSUME NEW S \in SUBSET Comments
  PROVE  IsFiniteSet(S) /\ Cardinality(S) \in Nat
BY FS_Subset, FS_CardinalityType

LEMMA OneMore ==
  ASSUME NEW S, NEW T, NEW x, IsFiniteSet(S), T \subseteq S \cup {x}
  PROVE  /\ IsFiniteSet(T) /\ Cardinality(T) \in Nat
         /\ Cardinality(T) <= Cardinality(S) + 1
<1>1. Cardinality(S) \in Nat
  BY FS_CardinalityType
<1>2. /\ IsFiniteSet(S \cup {x})
      /\ Cardinality(S \cup {x}) = IF x \in S THEN Cardinality(S) ELSE Cardinality(S) + 1
  BY FS_AddElement
<1>3. IsFiniteSet(T) /\ Cardinality(T) <= Cardinality(S \cup {x})
  BY <1>2, FS_Subset
<1>4. Cardinality(T) \in Nat
  BY <1>3, FS_CardinalityType
<1>. QED
  BY <1>1, <1>2, <1>3, <1>4

(* A call takes a connection only where the pool has one left. *)
LEMMA PoolStep ==
  ASSUME TypeOK, PoolInv, NEW c \in Calls, NEW x \in CallStates,
         call' = [call EXCEPT ![c] = x],
         x.at \in {"begun", "tagged", "erasing"} => Holds(c) \/ Available
  PROVE  PoolInv'
<1>1. \A d \in Calls \ {c} : call'[d] = call[d]
  BY DEF TypeOK
<1>2. call'[c] = x
  BY DEF TypeOK
<1>3. CASE Holds(c) \/ x.at \notin {"begun", "tagged", "erasing"}
  <2>1. Holders' \subseteq Holders
    BY <1>1, <1>2, <1>3 DEF Holders, Holds
  <2>2. /\ IsFiniteSet(Holders')
        /\ Cardinality(Holders') <= Cardinality(Holders)
    BY <2>1, HoldersFinite, FS_Subset
  <2>3. Cardinality(Holders') \in Nat
    BY <2>2, FS_CardinalityType
  <2>. QED
    BY <2>2, <2>3, HoldersFinite DEF PoolInv
<1>4. CASE Available
  <2>1. Holders' \subseteq Holders \cup {c}
    BY <1>1 DEF Holders, Holds
  <2>2. /\ Cardinality(Holders') \in Nat
        /\ Cardinality(Holders') <= Cardinality(Holders) + 1
    BY <2>1, HoldersFinite, OneMore
  <2>3. Cardinality(Holders) < MaxConnections
    BY <1>4 DEF Available, Holders
  <2>. QED
    BY <2>2, <2>3, HoldersFinite DEF PoolInv
<1>. QED
  BY <1>3, <1>4

(* Every user with an interest has it for one of three reasons. *)
LEMMA Reasons ==
  ASSUME TypeOK, MentionInv, NEW k \in Comments, Written(k)
  PROVE  Interested(k) = mentions[k] \cup PostAuthorTold(k) \cup ParentAuthorTold(k)
BY DEF MentionInv, Interested, PostAuthorTold, ParentAuthorTold

LEMMA RowTypes ==
  ASSUME TypeOK, NEW k \in Comments, Written(k)
  PROVE  /\ comment[k] \in Rows
         /\ comment[k].post \in Posts /\ comment[k].author \in Users
         /\ comment[k].parent \in Comments \cup {Nothing}
         /\ PostAuthor[comment[k].post] \in Users
BY DEF TypeOK, Written, Rows

LEMMA InitIInv == Init => IInv
<1>. SUFFICES ASSUME Init PROVE IInv
  OBVIOUS
<1>1. TypeOK
  BY DEF Init, TypeOK, CallStates, IdleCall, Stages
<1>2. CallInv /\ OneInv
  BY DEF Init, CallInv, CallFits, OneInv, Notifies, IdleCall
<1>3. \A k \in Comments : ~Written(k)
  BY DEF Init, Written
<1>4. MentionInv /\ ThreadsStayOnPost
  BY <1>3 DEF MentionInv, ThreadsStayOnPost
<1>5. JobInv
  BY <1>3 DEF Init, JobInv, IdleCall
<1>6. Holders = {}
  BY DEF Init, Holders, Holds, IdleCall
<1>7. PoolInv
  BY <1>6, FS_EmptySet DEF PoolInv
<1>8. /\ \A p \in Posts : CommentsOn(p) = {}
      /\ \A k \in Comments : RepliesTo(k) = {}
  BY <1>3 DEF CommentsOn, RepliesTo
<1>9. CommentCountsExact
  BY <1>8, FS_EmptySet DEF Init, CommentCountsExact
<1>. QED
  BY <1>1, <1>2, <1>4, <1>5, <1>7, <1>9 DEF IInv

-----------------------------------------------------------------------------
(* Steps that write no comment and enqueue no job. *)

LEMMA RowsStand ==
  ASSUME IInv, UNCHANGED <<comment, mentions, commentCount, replyCount>>
  PROVE  MentionInv' /\ CommentCountsExact' /\ ThreadsStayOnPost'
<1>1. \A k : Written(k)' <=> Written(k)
  BY DEF Written
<1>2. MentionInv' /\ ThreadsStayOnPost'
  BY <1>1 DEF IInv, MentionInv, ThreadsStayOnPost
<1>3. /\ \A p : CommentsOn(p)' = CommentsOn(p)
      /\ \A k : RepliesTo(k)' = RepliesTo(k)
  BY <1>1 DEF CommentsOn, RepliesTo
<1>4. CommentCountsExact'
  BY <1>3 DEF IInv, CommentCountsExact
<1>. QED
  BY <1>2, <1>4

(* A call goes on to a stage in which it has nothing to notify of. *)
LEMMA QuietStep ==
  ASSUME IInv, NEW c \in Calls, NEW x \in CallStates, CallFits(x),
         x.at \notin {"postAuthor", "parentAuthor"},
         x.at \in {"begun", "tagged", "erasing"} => Holds(c) \/ Available,
         call' = [call EXCEPT ![c] = x],
         UNCHANGED <<comment, mentions, commentCount, replyCount, jobs>>,
         Notifies(c) => cutShort' = cutShort \cup {call[c].target},
         ~Notifies(c) => cutShort' = cutShort,
         audience' \in [Posts -> SUBSET Users],
         deleted' \in SUBSET (Posts \cup Comments)
  PROVE  IInv'
<1>. USE DEF IInv
<1>1. \A d \in Calls \ {c} : call'[d] = call[d]
  BY DEF TypeOK
<1>2. call'[c] = x
  BY DEF TypeOK
<1>3. cutShort' \in SUBSET Comments /\ cutShort \subseteq cutShort'
  BY DEF TypeOK, CallInv, CallFits, Notifies
<1>4. TypeOK'
  BY <1>3 DEF TypeOK
<1>5. CallInv'
  BY <1>1, <1>2 DEF CallInv, CallFits, Written
<1>6. PoolInv'
  BY PoolStep
<1>7. \A d \in Calls : Notifies(d)' => d # c /\ Notifies(d)
  BY <1>1, <1>2 DEF Notifies
<1>8. OneInv'
  BY <1>1, <1>7 DEF OneInv
<1>9. JobInv'
  <2>1. \A k : /\ Written(k)' <=> Written(k)
               /\ Interested(k)' = Interested(k)
               /\ PostAuthorTold(k)' = PostAuthorTold(k)
               /\ ParentAuthorTold(k)' = ParentAuthorTold(k)
    BY DEF Written, Interested, PostAuthorTold, ParentAuthorTold, ParentAuthor
  <2>2. \A k : ~Notifying(k)' /\ k \notin cutShort' => ~Notifying(k) /\ k \notin cutShort
    BY <1>1, <1>3 DEF Notifying, Notifies
  <2>3. \A k \in Comments : Written(k)' =>
          \A u \in Users :
            /\ u \in mentions'[k] => jobs'[k][u] = 1
            /\ jobs'[k][u] <= IF u \in Interested(k)' THEN 1 ELSE 0
            /\ u \in Interested(k)' /\ ~Notifying(k)' /\ k \notin cutShort'
                  => jobs'[k][u] = 1
    BY <2>1, <2>2 DEF JobInv
  <2>4. (\A d \in Calls : call[d].at = "postAuthor" => AtPostAuthor(call[d].target))'
    BY <1>1, <1>2 DEF JobInv, AtPostAuthor
  <2>5. (\A d \in Calls : call[d].at = "parentAuthor" => AtParentAuthor(call[d].target))'
    <3>. SUFFICES ASSUME NEW d \in Calls, call'[d].at = "parentAuthor",
                         NEW k, k = call'[d].target
                  PROVE  AtParentAuthor(k)'
      BY DEF AtParentAuthor, PostAuthorTold, ParentAuthorTold, ParentAuthor
    <3>1. call[d].at = "parentAuthor" /\ k = call[d].target
      BY <1>1, <1>2
    <3>2. AtParentAuthor(k)
      BY <3>1 DEF JobInv
    <3>. QED
      BY <1>3, <2>1, <3>2 DEF AtParentAuthor
  <2>. QED
    BY <2>3, <2>4, <2>5 DEF JobInv
<1>. QED
  BY <1>4, <1>5, <1>6, <1>8, <1>9, RowsStand

LEMMA ReturnStep ==
  ASSUME IInv, NEW c \in Calls, Return(c),
         UNCHANGED <<rows, jobs, audience>>,
         deleted' \in SUBSET (Posts \cup Comments),
         Notifies(c) => cutShort' = cutShort \cup {call[c].target},
         ~Notifies(c) => cutShort' = cutShort
  PROVE  IInv'
<1>1. IdleCall \in CallStates /\ CallFits(IdleCall) /\ IdleCall.at = "idle"
  BY DEF IdleCall, CallStates, Stages, CallFits
<1>2. call' = [call EXCEPT ![c] = IdleCall]
  BY DEF Return
<1>3. /\ UNCHANGED <<comment, mentions, commentCount, replyCount, jobs>>
      /\ audience' \in [Posts -> SUBSET Users]
  BY DEF rows, IInv, TypeOK
<1>. HIDE DEF IdleCall
<1>. QED
  BY <1>1, <1>2, <1>3, QuietStep

(* The call moves on before it has written anything. *)
LEMMA MoveStep ==
  ASSUME IInv, NEW c \in Calls, NEW at \in Stages,
         NEW target \in Posts \cup Comments, NEW parent \in Comments \cup {Nothing},
         at \in {"comment", "begun", "tagged"} =>
            /\ target \in Posts
            /\ parent # Nothing => Written(parent) /\ comment[parent].post = target,
         at \in {"erase", "erasing"} => target \in Comments /\ Written(target),
         at \notin {"idle", "postAuthor", "parentAuthor"},
         at \in {"begun", "tagged", "erasing"} => Holds(c) \/ Available,
         ~Notifies(c),
         Moves(c, at, target, parent),
         UNCHANGED <<posts, rows, jobs, cutShort>>
  PROVE  IInv'
<1>. DEFINE x == [at |-> at, target |-> target, parent |-> parent]
<1>1. x \in CallStates /\ CallFits(x) /\ x.at = at
  BY DEF CallStates, CallFits
<1>2. call' = [call EXCEPT ![c] = x]
  BY DEF Moves
<1>3. /\ UNCHANGED <<comment, mentions, commentCount, replyCount, jobs>>
      /\ cutShort' = cutShort
      /\ audience' \in [Posts -> SUBSET Users]
      /\ deleted' \in SUBSET (Posts \cup Comments)
  BY DEF rows, posts, IInv, TypeOK
<1>. HIDE DEF x
<1>. QED
  BY <1>1, <1>2, <1>3, QuietStep

LEMMA ResolveCommentStep ==
  ASSUME IInv, NEW c \in Calls, NEW p \in Posts, ResolveComment(c, p)
  PROVE  IInv'
<1>1. ~Notifies(c)
  BY DEF ResolveComment, Notifies, IdleCall
<1>2. "comment" \in Stages
  BY DEF Stages
<1>3. CASE Moves(c, "comment", p, Nothing)
  BY <1>1, <1>2, <1>3, MoveStep DEF ResolveComment
<1>4. CASE \E k \in Comments : ParentFits(k, p) /\ Moves(c, "comment", p, k)
  <2>1. PICK k \in Comments : ParentFits(k, p) /\ Moves(c, "comment", p, k)
    BY <1>4
  <2>2. Written(k) /\ comment[k].post = p
    BY <2>1 DEF ParentFits
  <2>. QED
    BY <1>1, <1>2, <2>1, <2>2, MoveStep DEF ResolveComment
<1>. QED
  BY <1>3, <1>4 DEF ResolveComment

(* From being authorised to holding the lock. *)
LEMMA BeginStep ==
  ASSUME IInv, NEW c \in Calls, NEW at \in {"begun", "tagged"},
         call[c].at \in {"comment", "begun"}, Holds(c) \/ Available,
         Moves(c, at, call[c].target, call[c].parent),
         UNCHANGED <<posts, rows, jobs, cutShort>>
  PROVE  IInv'
<1>1. /\ call[c].target \in Posts
      /\ call[c].parent \in Comments \cup {Nothing}
      /\ call[c].parent # Nothing => /\ Written(call[c].parent)
                                     /\ comment[call[c].parent].post = call[c].target
  BY DEF IInv, TypeOK, CallInv, CallFits, CallStates
<1>2. ~Notifies(c) /\ at \in Stages
  BY DEF Notifies, Stages
<1>. QED
  BY <1>1, <1>2, MoveStep

LEMMA WaitForPostStep ==
  ASSUME IInv, NEW c \in Calls, WaitForPost(c)
  PROVE  IInv'
BY BeginStep DEF WaitForPost

LEMMA LockRowsStep ==
  ASSUME IInv, NEW c \in Calls, LockRows(c)
  PROVE  IInv'
<1>1. call[c].at \in {"comment", "begun"} /\ (Holds(c) \/ Available)
  BY DEF LockRows, Counts, Holds
<1>. QED
  BY <1>1, BeginStep DEF LockRows

LEMMA ResolveDeleteStep ==
  ASSUME IInv, NEW c \in Calls, NEW k \in Comments, ResolveDelete(c, k)
  PROVE  IInv'
<1>1. ~Notifies(c) /\ "erase" \in Stages
  BY DEF ResolveDelete, Notifies, IdleCall, Stages
<1>. QED
  BY <1>1, MoveStep DEF ResolveDelete

LEMMA WaitForRowStep ==
  ASSUME IInv, NEW c \in Calls, WaitForRow(c)
  PROVE  IInv'
<1>1. call[c].target \in Comments /\ Written(call[c].target)
  BY DEF WaitForRow, IInv, CallInv, CallFits
<1>2. ~Notifies(c) /\ "erasing" \in Stages
  BY DEF WaitForRow, Notifies, Stages
<1>. QED
  BY <1>1, <1>2, MoveStep DEF WaitForRow

LEMMA DeleteCommentStep ==
  ASSUME IInv, NEW c \in Calls, DeleteComment(c)
  PROVE  IInv'
<1>1. ~Notifies(c)
  BY DEF DeleteComment, Notifies
<1>2. deleted' \in SUBSET (Posts \cup Comments)
  BY DEF DeleteComment, IInv, TypeOK, CallInv, CallFits
<1>. QED
  BY <1>1, <1>2, ReturnStep DEF DeleteComment

LEMMA FailStep ==
  ASSUME IInv, NEW c \in Calls, Fail(c)
  PROVE  IInv'
<1>1. UNCHANGED <<rows, jobs, audience>> /\ deleted' \in SUBSET (Posts \cup Comments)
  BY DEF Fail, posts, IInv, TypeOK
<1>. QED
  BY <1>1, ReturnStep DEF Fail, Notifies

-----------------------------------------------------------------------------
(* The stages after COMMIT: what has become of the jobs of k at each.      *)
LEMMA StageStep ==
  ASSUME IInv, NEW c \in Calls, Notifies(c),
         NEW k \in Comments, Written(k), k = call[c].target,
         NEW x \in CallStates,
         x = IdleCall \/ (x.at = "parentAuthor" /\ x.target = k),
         call' = [call EXCEPT ![c] = x],
         UNCHANGED <<audience, deleted, comment, mentions, commentCount, replyCount>>,
         cutShort' = cutShort \/ cutShort' = cutShort \cup {k},
         jobs' \in [Comments -> [Users -> Nat]],
         \A j \in Comments \ {k} : jobs'[j] = jobs[j],
         \A u \in Users : /\ u \in mentions[k] => jobs'[k][u] = 1
                          /\ jobs'[k][u] <= IF u \in Interested(k) THEN 1 ELSE 0,
         x.at = "parentAuthor" =>
            /\ \A u \in ParentAuthorTold(k) : jobs'[k][u] = 0
            /\ k \notin cutShort' =>
                  \A u \in Users \cap PostAuthorTold(k) : jobs'[k][u] = 1,
         x = IdleCall /\ k \notin cutShort' =>
            \A u \in Users \cap Interested(k) : jobs'[k][u] = 1
  PROVE  IInv'
<1>. USE DEF IInv
<1>1. \A d \in Calls \ {c} : call'[d] = call[d]
  BY DEF TypeOK
<1>2. call'[c] = x
  BY DEF TypeOK
<1>3. TypeOK'
  BY DEF TypeOK
<1>4. CallInv'
  BY <1>1, <1>2 DEF CallInv, CallFits, Written, IdleCall
<1>5. PoolInv'
  BY PoolStep DEF IdleCall
<1>6. \A d \in Calls : Notifies(d)' => Notifies(d) /\ call'[d].target = call[d].target
  BY <1>1, <1>2 DEF Notifies, IdleCall
<1>7. OneInv'
  BY <1>6 DEF OneInv
<1>8. \A j : /\ Written(j)' <=> Written(j)
             /\ Interested(j)' = Interested(j)
             /\ PostAuthorTold(j)' = PostAuthorTold(j)
             /\ ParentAuthorTold(j)' = ParentAuthorTold(j)
  BY DEF Written, Interested, PostAuthorTold, ParentAuthorTold, ParentAuthor
<1>9. \A d \in Calls \ {c} : Notifies(d) => call[d].target # k
  BY DEF OneInv
<1>10. \A j \in Comments : Written(j) =>
          \A u \in Users :
            /\ u \in mentions[j] => jobs'[j][u] = 1
            /\ jobs'[j][u] <= IF u \in Interested(j) THEN 1 ELSE 0
            /\ u \in Interested(j) /\ ~Notifying(j)' /\ j \notin cutShort'
                  => jobs'[j][u] = 1
  <2>. SUFFICES ASSUME NEW j \in Comments, Written(j), NEW u \in Users
                PROVE  /\ u \in mentions[j] => jobs'[j][u] = 1
                       /\ jobs'[j][u] <= IF u \in Interested(j) THEN 1 ELSE 0
                       /\ u \in Interested(j) /\ ~Notifying(j)' /\ j \notin cutShort'
                             => jobs'[j][u] = 1
    OBVIOUS
  <2>1. CASE j = k
    <3>1. ~Notifying(k)' => x = IdleCall
      BY <1>2 DEF Notifying
    <3>. QED
      BY <2>1, <3>1
  <2>2. CASE j # k
    <3>1. ~Notifying(j)' => ~Notifying(j)
      BY <1>1, <2>2 DEF Notifying
    <3>2. jobs'[j] = jobs[j] /\ (j \notin cutShort' => j \notin cutShort)
      BY <2>2
    <3>. QED
      BY <3>1, <3>2 DEF JobInv
  <2>. QED
    BY <2>1, <2>2
<1>11. (\A d \in Calls : call[d].at = "postAuthor" => AtPostAuthor(call[d].target))'
  <2>. SUFFICES ASSUME NEW d \in Calls, call'[d].at = "postAuthor",
                       NEW j, j = call'[d].target
                PROVE  AtPostAuthor(j)'
    BY DEF AtPostAuthor
  <2>1. d # c /\ call[d].at = "postAuthor" /\ j = call[d].target
    BY <1>1, <1>2 DEF IdleCall
  <2>2. j # k /\ j \in Comments /\ AtPostAuthor(j)
    BY <1>9, <2>1 DEF JobInv, CallInv, CallFits, Notifies
  <2>. QED
    BY <2>2 DEF AtPostAuthor
<1>12. (\A d \in Calls : call[d].at = "parentAuthor" => AtParentAuthor(call[d].target))'
  <2>. SUFFICES ASSUME NEW d \in Calls, call'[d].at = "parentAuthor",
                       NEW j, j = call'[d].target
                PROVE  AtParentAuthor(j)'
    BY DEF AtParentAuthor, PostAuthorTold, ParentAuthorTold, ParentAuthor
  <2>1. CASE d = c
    <3>1. j = k /\ x.at = "parentAuthor"
      BY <1>2, <2>1 DEF IdleCall
    <3>. QED
      BY <1>8, <3>1 DEF AtParentAuthor
  <2>2. CASE d # c
    <3>1. call[d].at = "parentAuthor" /\ j = call[d].target
      BY <1>1, <2>2
    <3>2. j # k /\ j \in Comments /\ AtParentAuthor(j)
      BY <1>9, <2>2, <3>1 DEF JobInv, CallInv, CallFits, Notifies
    <3>3. jobs'[j] = jobs[j] /\ (j \notin cutShort' => j \notin cutShort)
      BY <3>2
    <3>. QED
      BY <1>8, <3>2, <3>3 DEF AtParentAuthor
  <2>. QED
    BY <2>1, <2>2
<1>13. JobInv'
  BY <1>8, <1>10, <1>11, <1>12 DEF JobInv
<1>. QED
  BY <1>3, <1>4, <1>5, <1>7, <1>13, RowsStand

(* The call has done with the author of the post, told her or not.         *)
LEMMA AfterPostAuthor ==
  ASSUME IInv, NEW c \in Calls, call[c].at = "postAuthor",
         NEW k, k = call[c].target,
         Moves(c, "parentAuthor", k, Nothing), UNCHANGED <<posts, rows>>,
         \/ PostAuthorTold(k) = {} /\ UNCHANGED <<jobs, cutShort>>
         \/ (\E u \in PostAuthorTold(k) : Told(k, u)) /\ UNCHANGED cutShort
         \/ UNCHANGED jobs /\ cutShort' = cutShort \cup {k}
  PROVE  IInv'
<1>. USE DEF IInv
<1>. DEFINE x == [at |-> "parentAuthor", target |-> k, parent |-> Nothing]
<1>1. k \in Comments /\ Written(k) /\ Notifies(c)
  BY DEF CallInv, CallFits, Notifies
<1>2. /\ x \in CallStates /\ x.at = "parentAuthor" /\ x.target = k
      /\ call' = [call EXCEPT ![c] = x]
  BY <1>1 DEF CallStates, Stages, Moves
<1>3. UNCHANGED <<audience, deleted, comment, mentions, commentCount, replyCount>>
  BY DEF posts, rows
<1>4. x # IdleCall
  BY DEF IdleCall
<1>. HIDE DEF x
<1>5. /\ Interested(k) = mentions[k] \cup PostAuthorTold(k) \cup ParentAuthorTold(k)
      /\ PostAuthorTold(k) \subseteq Users /\ ParentAuthorTold(k) \subseteq Users
      /\ PostAuthorTold(k) \cap ParentAuthorTold(k) = {}
      /\ PostAuthorTold(k) \cap mentions[k] = {}
      /\ ParentAuthorTold(k) \cap mentions[k] = {}
      /\ \A u, v \in PostAuthorTold(k) : u = v
  <2>1. PostAuthor[comment[k].post] \in Users
    BY <1>1, RowTypes
  <2>2. ParentAuthor(k) \subseteq Users
    BY <1>1, RowTypes DEF ParentAuthor, ThreadsStayOnPost
  <2>. QED
    BY <1>1, <2>1, <2>2, Reasons DEF PostAuthorTold, ParentAuthorTold
<1>6. \A u \in Users : /\ u \in mentions[k] => jobs[k][u] = 1
                       /\ u \notin mentions[k] => jobs[k][u] = 0
  BY <1>1 DEF JobInv, AtPostAuthor
<1>7. jobs \in [Comments -> [Users -> Nat]]
  BY DEF TypeOK
<1>a. /\ \A v \in Users : /\ v \in mentions[k] => jobs[k][v] = 1
                          /\ jobs[k][v] <= IF v \in Interested(k) THEN 1 ELSE 0
      /\ \A v \in ParentAuthorTold(k) : jobs[k][v] = 0
  BY <1>5, <1>6
<1>8. CASE PostAuthorTold(k) = {} /\ UNCHANGED <<jobs, cutShort>>
  <2>1. \A v \in Users \cap PostAuthorTold(k) : jobs'[k][v] = 1
    BY <1>8
  <2>2. jobs' = jobs /\ cutShort' = cutShort
    BY <1>8
  <2>. QED
    BY <1>1, <1>2, <1>3, <1>4, <1>7, <1>a, <2>1, <2>2, StageStep
<1>9. CASE (\E u \in PostAuthorTold(k) : Told(k, u)) /\ UNCHANGED cutShort
  <2>1. PICK u \in PostAuthorTold(k) : Told(k, u)
    BY <1>9
  <2>2. jobs' = [jobs EXCEPT ![k][u] = jobs[k][u] + 1]
    BY <2>1 DEF Told
  <2>3. jobs' \in [Comments -> [Users -> Nat]]
    BY <1>1, <1>5, <1>7, <2>1, <2>2
  <2>4. \A j \in Comments \ {k} : jobs'[j] = jobs[j]
    BY <1>7, <2>2
  <2>5. /\ jobs'[k][u] = 1
        /\ \A v \in Users \ {u} : jobs'[k][v] = jobs[k][v]
    BY <1>1, <1>5, <1>6, <1>7, <2>1, <2>2
  <2>6. /\ \A v \in Users : /\ v \in mentions[k] => jobs'[k][v] = 1
                            /\ jobs'[k][v] <= IF v \in Interested(k) THEN 1 ELSE 0
        /\ \A v \in ParentAuthorTold(k) : jobs'[k][v] = 0
        /\ \A v \in Users \cap PostAuthorTold(k) : jobs'[k][v] = 1
    BY <1>5, <1>6, <2>1, <2>5
  <2>. QED
    BY <1>1, <1>2, <1>3, <1>4, <1>9, <2>3, <2>4, <2>6, StageStep
<1>10. CASE UNCHANGED jobs /\ cutShort' = cutShort \cup {k}
  <2>1. jobs' = jobs /\ k \in cutShort'
    BY <1>10
  <2>. QED
    BY <1>1, <1>2, <1>3, <1>4, <1>7, <1>10, <1>a, <2>1, StageStep
<1>. QED
  BY <1>8, <1>9, <1>10

LEMMA NotifyPostAuthorStep ==
  ASSUME IInv, NEW c \in Calls, NotifyPostAuthor(c)
  PROVE  IInv'
BY AfterPostAuthor DEF NotifyPostAuthor

LEMMA JobRefusedStep ==
  ASSUME IInv, NEW c \in Calls, JobRefused(c)
  PROVE  IInv'
BY AfterPostAuthor DEF JobRefused

(* The last job: now everybody with an interest has been told.             *)
LEMMA NotifyParentAuthorStep ==
  ASSUME IInv, NEW c \in Calls, NotifyParentAuthor(c)
  PROVE  IInv'
<1>. PICK k : k = call[c].target
  OBVIOUS
<1>. USE DEF IInv
<1>1. k \in Comments /\ Written(k) /\ Notifies(c)
  BY DEF NotifyParentAuthor, CallInv, CallFits, Notifies
<1>2. /\ IdleCall \in CallStates /\ IdleCall.at # "parentAuthor"
      /\ call' = [call EXCEPT ![c] = IdleCall]
  BY DEF NotifyParentAuthor, Return, IdleCall, CallStates, Stages
<1>3. /\ UNCHANGED <<audience, deleted, comment, mentions, commentCount, replyCount>>
      /\ cutShort' = cutShort
  BY DEF NotifyParentAuthor, posts, rows
<1>4. /\ Interested(k) = mentions[k] \cup PostAuthorTold(k) \cup ParentAuthorTold(k)
      /\ ParentAuthorTold(k) \subseteq Users
      /\ PostAuthorTold(k) \cap ParentAuthorTold(k) = {}
      /\ ParentAuthorTold(k) \cap mentions[k] = {}
      /\ \A u, v \in ParentAuthorTold(k) : u = v
  <2>1. ParentAuthor(k) \subseteq Users
    BY <1>1, RowTypes DEF ParentAuthor, ThreadsStayOnPost
  <2>2. \A u, v \in ParentAuthor(k) : u = v
    BY DEF ParentAuthor
  <2>. QED
    BY <1>1, <2>1, <2>2, Reasons DEF PostAuthorTold, ParentAuthorTold
<1>5. /\ \A u \in Users : /\ u \in mentions[k] => jobs[k][u] = 1
                          /\ jobs[k][u] <= IF u \in Interested(k) THEN 1 ELSE 0
      /\ \A u \in ParentAuthorTold(k) : jobs[k][u] = 0
      /\ k \notin cutShort => \A u \in Users \cap PostAuthorTold(k) : jobs[k][u] = 1
  BY <1>1 DEF NotifyParentAuthor, JobInv, AtParentAuthor
<1>6. jobs \in [Comments -> [Users -> Nat]]
  BY DEF TypeOK
<1>7. CASE ParentAuthorTold(k) = {} /\ UNCHANGED jobs
  BY <1>1, <1>2, <1>3, <1>4, <1>5, <1>6, <1>7, StageStep
<1>8. CASE \E u \in ParentAuthorTold(k) : Told(k, u)
  <2>1. PICK u \in ParentAuthorTold(k) : Told(k, u)
    BY <1>8
  <2>2. jobs' = [jobs EXCEPT ![k][u] = jobs[k][u] + 1]
    BY <2>1 DEF Told
  <2>3. jobs' \in [Comments -> [Users -> Nat]]
    BY <1>1, <1>4, <1>6, <2>1, <2>2
  <2>4. \A j \in Comments \ {k} : jobs'[j] = jobs[j]
    BY <1>6, <2>2
  <2>5. /\ jobs'[k][u] = 1
        /\ \A v \in Users \ {u} : jobs'[k][v] = jobs[k][v]
    BY <1>1, <1>4, <1>5, <1>6, <2>1, <2>2
  <2>6. /\ \A v \in Users : /\ v \in mentions[k] => jobs'[k][v] = 1
                            /\ jobs'[k][v] <= IF v \in Interested(k) THEN 1 ELSE 0
        /\ k \notin cutShort => \A v \in Users \cap Interested(k) : jobs'[k][v] = 1
    BY <1>4, <1>5, <2>1, <2>5
  <2>. QED
    BY <1>1, <1>2, <1>3, <2>3, <2>4, <2>6, StageStep
<1>. QED
  BY <1>7, <1>8 DEF NotifyParentAuthor

-----------------------------------------------------------------------------
(* COMMIT: k appears, is counted, and its call goes on to notify.  No      *)
(* other comment, nor what a call knows of one, is touched.                *)
LEMMA CommittedStep ==
  ASSUME IInv, NEW c \in Calls, NEW k \in Comments, NEW M \in SUBSET (Users \ {Caller[c]}),
         call[c].at \in {"comment", "begun", "tagged"}, Committed(c, k, M)
  PROVE  IInv'
<1>a. PICK p : p = call[c].target
  OBVIOUS
<1>b. PICK r : r = call[c].parent
  OBVIOUS
<1>c. PICK row : row = [post |-> p, author |-> Caller[c], parent |-> r]
  OBVIOUS
<1>. USE DEF IInv
<1>1. /\ p \in Posts /\ r \in Comments \cup {Nothing}
      /\ r # Nothing => Written(r) /\ comment[r].post = p
  BY <1>a, <1>b DEF CallInv, CallFits, TypeOK, CallStates
<1>2. /\ row \in Rows /\ row # Nothing /\ Caller[c] \in Users
      /\ row.post = p /\ row.parent = r /\ row.author = Caller[c]
  BY <1>1, <1>c DEF Rows
<1>3. /\ ~Written(k)
      /\ comment' = [comment EXCEPT ![k] = row]
      /\ commentCount' = [commentCount EXCEPT ![p] = @ + 1]
      /\ replyCount' = IF r = Nothing THEN replyCount ELSE [replyCount EXCEPT ![r] = @ + 1]
      /\ mentions' = [mentions EXCEPT ![k] = M]
      /\ jobs' = [jobs EXCEPT ![k] = [u \in Users |-> IF u \in M THEN 1 ELSE 0]]
      /\ UNCHANGED <<audience, deleted, cutShort>>
  BY <1>a, <1>b, <1>c DEF Committed, CountComment, posts
<1>4. PICK x \in CallStates : /\ x.at = "postAuthor" /\ x.target = k
                              /\ call' = [call EXCEPT ![c] = x]
  <2>1. [at |-> "postAuthor", target |-> k, parent |-> Nothing] \in CallStates
    BY DEF CallStates, Stages
  <2>. QED
    BY <2>1 DEF Committed, Moves
<1>5. /\ comment'[k] = row /\ mentions'[k] = M
      /\ \A u \in Users : jobs'[k][u] = IF u \in M THEN 1 ELSE 0
      /\ \A j \in Comments \ {k} : /\ comment'[j] = comment[j]
                                   /\ mentions'[j] = mentions[j] /\ jobs'[j] = jobs[j]
  BY <1>3 DEF TypeOK
<1>6. Written(k)' /\ \A j \in Comments \ {k} : Written(j)' <=> Written(j)
  BY <1>2, <1>5 DEF Written
<1>7. call'[c] = x /\ \A d \in Calls \ {c} : call'[d] = call[d]
  BY <1>4 DEF TypeOK
<1>8. TypeOK'
  <2>1. comment' \in [Comments -> Rows \cup {Nothing}] /\ mentions' \in [Comments -> SUBSET Users]
    BY <1>2, <1>3 DEF TypeOK
  <2>2. commentCount' \in [Posts -> Nat] /\ replyCount' \in [Comments -> Nat]
    BY <1>1, <1>3 DEF TypeOK
  <2>3. jobs' \in [Comments -> [Users -> Nat]]
    <3>1. [u \in Users |-> IF u \in M THEN 1 ELSE 0] \in [Users -> Nat]
      OBVIOUS
    <3>. QED
      BY <1>3, <3>1 DEF TypeOK
  <2>. QED
    BY <1>3, <1>4, <2>1, <2>2, <2>3 DEF TypeOK
<1>9. CallInv'
  <2>. SUFFICES ASSUME NEW d \in Calls PROVE CallFits(call[d])'
    BY DEF CallInv
  <2>1. CASE d = c
    BY <1>4, <1>6, <1>7, <2>1 DEF CallFits
  <2>2. CASE d # c
    <3>1. CallFits(call[d]) /\ call[d] \in CallStates
      BY DEF CallInv, TypeOK
    <3>2. call[d].parent \in Comments \cup {Nothing}
      BY <3>1 DEF CallStates
    <3>3. \A j \in Comments : Written(j) => Written(j)' /\ comment'[j] = comment[j]
      BY <1>3, <1>5, <1>6
    <3>. QED
      BY <1>7, <2>2, <3>1, <3>2, <3>3 DEF CallFits
  <2>. QED
    BY <2>1, <2>2
<1>10. PoolInv'
  BY <1>4, PoolStep
<1>11. \A d \in Calls \ {c} : Notifies(d) => call[d].target # k /\ call[d].target \in Comments
  BY <1>3 DEF CallInv, CallFits, Notifies
<1>12. OneInv'
  BY <1>4, <1>7, <1>11 DEF OneInv, Notifies
<1>13. MentionInv'
  BY <1>2, <1>5, <1>6 DEF MentionInv
<1>14. ThreadsStayOnPost'
  <2>. SUFFICES ASSUME NEW j \in Comments, Written(j)', comment'[j].parent # Nothing
                PROVE  /\ Written(comment[j].parent)'
                       /\ comment'[comment'[j].parent].post = comment'[j].post
    BY DEF ThreadsStayOnPost
  <2>1. CASE j = k
    <3>1. r # Nothing /\ r # k /\ r \in Comments
      BY <1>1, <1>2, <1>3, <1>5, <2>1
    <3>2. Written(r)' /\ comment'[r].post = p
      BY <1>1, <1>5, <1>6, <3>1
    <3>. QED
      BY <1>2, <1>5, <2>1, <3>2 DEF Written
  <2>2. CASE j # k
    <3>. PICK s : s = comment[j].parent
      OBVIOUS
    <3>1. Written(j) /\ comment'[j] = comment[j] /\ s # Nothing
      BY <1>5, <1>6, <2>2
    <3>2. s \in Comments /\ Written(s) /\ comment[s].post = comment[j].post
      BY <3>1, RowTypes DEF ThreadsStayOnPost
    <3>3. s # k
      BY <1>3, <3>2
    <3>4. Written(s)' /\ comment'[s] = comment[s]
      BY <1>5, <1>6, <3>2, <3>3
    <3>. QED
      BY <3>1, <3>2, <3>4 DEF Written
  <2>. QED
    BY <2>1, <2>2
<1>15. CommentCountsExact'
  <2>1. ASSUME NEW q \in Posts
        PROVE  commentCount'[q] = Cardinality(CommentsOn(q)')
    <3>1. /\ CommentsOn(q) \subseteq Comments
          /\ commentCount[q] = Cardinality(CommentsOn(q)) /\ k \notin CommentsOn(q)
      BY <1>3 DEF CommentsOn, CommentCountsExact
    <3>2. IsFiniteSet(CommentsOn(q))
      BY <3>1, CommentSetsFinite
    <3>3. CASE q = p
      <4>1. CommentsOn(q)' = CommentsOn(q) \cup {k}
        BY <1>2, <1>5, <1>6, <3>3 DEF CommentsOn
      <4>2. Cardinality(CommentsOn(q)') = Cardinality(CommentsOn(q)) + 1
        BY <3>1, <3>2, <4>1, FS_AddElement
      <4>. QED
        BY <1>1, <1>3, <3>1, <3>3, <4>2 DEF TypeOK
    <3>4. CASE q # p
      <4>1. CommentsOn(q)' = CommentsOn(q)
        BY <1>2, <1>5, <1>6, <3>1, <3>4 DEF CommentsOn
      <4>. QED
        BY <1>1, <1>3, <3>1, <3>4, <4>1 DEF TypeOK
    <3>. QED
      BY <3>3, <3>4
  <2>2. ASSUME NEW s \in Comments
        PROVE  replyCount'[s] = Cardinality(RepliesTo(s)')
    <3>1. /\ RepliesTo(s) \subseteq Comments
          /\ replyCount[s] = Cardinality(RepliesTo(s)) /\ k \notin RepliesTo(s)
      BY <1>3 DEF RepliesTo, CommentCountsExact
    <3>2. IsFiniteSet(RepliesTo(s))
      BY <3>1, CommentSetsFinite
    <3>3. CASE s = r
      <4>1. RepliesTo(s)' = RepliesTo(s) \cup {k}
        BY <1>2, <1>5, <1>6, <3>3 DEF RepliesTo
      <4>2. Cardinality(RepliesTo(s)') = Cardinality(RepliesTo(s)) + 1
        BY <3>1, <3>2, <4>1, FS_AddElement
      <4>3. r # Nothing
        BY <3>3
      <4>. QED
        BY <1>3, <3>1, <3>3, <4>2, <4>3 DEF TypeOK
    <3>4. CASE s # r
      <4>1. RepliesTo(s)' = RepliesTo(s)
        BY <1>2, <1>5, <1>6, <3>1, <3>4 DEF RepliesTo
      <4>. QED
        BY <1>1, <1>3, <3>1, <3>4, <4>1 DEF TypeOK
    <3>. QED
      BY <3>3, <3>4
  <2>. QED
    BY <2>1, <2>2 DEF CommentCountsExact
<1>16. \A j \in Comments \ {k} : Written(j) =>
          /\ Interested(j)' = Interested(j)
          /\ PostAuthorTold(j)' = PostAuthorTold(j)
          /\ ParentAuthorTold(j)' = ParentAuthorTold(j)
  <2>. SUFFICES ASSUME NEW j \in Comments \ {k}, Written(j)
                PROVE  /\ Interested(j)' = Interested(j)
                       /\ PostAuthorTold(j)' = PostAuthorTold(j)
                       /\ ParentAuthorTold(j)' = ParentAuthorTold(j)
    OBVIOUS
  <2>1. comment'[j] = comment[j] /\ mentions'[j] = mentions[j]
    BY <1>5
  <2>2. comment[j].parent # Nothing =>
          comment[j].parent \in Comments \ {k}
    BY <1>3, RowTypes DEF ThreadsStayOnPost
  <2>3. ParentAuthor(j)' = ParentAuthor(j)
    BY <1>5, <2>1, <2>2 DEF ParentAuthor
  <2>. QED
    BY <2>1, <2>3 DEF Interested, PostAuthorTold, ParentAuthorTold
<1>17. JobInv'
  <2>1. ASSUME NEW j \in Comments, Written(j)', NEW u \in Users
        PROVE  /\ u \in mentions'[j] => jobs'[j][u] = 1
               /\ jobs'[j][u] <= IF u \in Interested(j)' THEN 1 ELSE 0
               /\ u \in Interested(j)' /\ ~Notifying(j)' /\ j \notin cutShort'
                     => jobs'[j][u] = 1
    <3>1. CASE j = k
      <4>1. M \subseteq Interested(k)'
        BY <1>2, <1>5 DEF Interested
      <4>2. Notifying(k)'
        BY <1>4, <1>7 DEF Notifying
      <4>. QED
        BY <1>5, <3>1, <4>1, <4>2
    <3>2. CASE j # k
      <4>1. Written(j) /\ jobs'[j] = jobs[j] /\ mentions'[j] = mentions[j]
        BY <1>5, <2>1, <3>2 DEF Written
      <4>2. ~Notifying(j)' => ~Notifying(j)
        BY <1>7 DEF Notifying
      <4>. QED
        BY <1>3, <1>16, <3>2, <4>1, <4>2 DEF JobInv
    <3>. QED
      BY <3>1, <3>2
  <2>2. (\A d \in Calls : call[d].at = "postAuthor" => AtPostAuthor(call[d].target))'
    <3>. SUFFICES ASSUME NEW d \in Calls, call'[d].at = "postAuthor",
                         NEW j, j = call'[d].target
                  PROVE  AtPostAuthor(j)'
      BY DEF AtPostAuthor
    <3>1. CASE d = c
      BY <1>4, <1>5, <1>7, <3>1 DEF AtPostAuthor
    <3>2. CASE d # c
      <4>1. call[d].at = "postAuthor" /\ j = call[d].target
        BY <1>7, <3>2
      <4>2. j \in Comments \ {k} /\ AtPostAuthor(j)
        BY <1>11, <3>2, <4>1 DEF JobInv, Notifies
      <4>. QED
        BY <1>5, <4>2 DEF AtPostAuthor
    <3>. QED
      BY <3>1, <3>2
  <2>3. (\A d \in Calls : call[d].at = "parentAuthor" => AtParentAuthor(call[d].target))'
    <3>. SUFFICES ASSUME NEW d \in Calls, call'[d].at = "parentAuthor",
                         NEW j, j = call'[d].target
                  PROVE  AtParentAuthor(j)'
      BY DEF AtParentAuthor, PostAuthorTold, ParentAuthorTold, ParentAuthor
    <3>1. d # c /\ call[d].at = "parentAuthor" /\ j = call[d].target
      BY <1>4, <1>7
    <3>2. j \in Comments \ {k} /\ Written(j) /\ AtParentAuthor(j)
      BY <1>11, <3>1 DEF JobInv, Notifies, CallInv, CallFits
    <3>3. jobs'[j] = jobs[j] /\ cutShort' = cutShort
      BY <1>3, <1>5, <3>2
    <3>. QED
      BY <1>16, <3>2, <3>3 DEF AtParentAuthor
  <2>. QED
    BY <2>1, <2>2, <2>3 DEF JobInv
<1>. QED
  BY <1>8, <1>9, <1>10, <1>12, <1>13, <1>14, <1>15, <1>17

LEMMA CommitPlainStep ==
  ASSUME IInv, NEW c \in Calls, NEW k \in Comments, CommitPlain(c, k)
  PROVE  IInv'
<1>1. call[c].at \in {"comment", "begun", "tagged"} /\ Committed(c, k, {})
  BY DEF CommitPlain, Counts
<1>. QED
  BY <1>1, CommittedStep

LEMMA CommitTaggedStep ==
  ASSUME IInv, NEW c \in Calls, NEW k \in Comments, CommitTagged(c, k)
  PROVE  IInv'
<1>1. PICK M \in SUBSET (Users \ {Caller[c]}) : Committed(c, k, M)
  BY DEF CommitTagged, Mentionable
<1>. QED
  BY <1>1, CommittedStep DEF CommitTagged

-----------------------------------------------------------------------------
(* Steps of others, and stuttering. *)
LEMMA EnvironmentStep ==
  ASSUME IInv, UNCHANGED <<comment, mentions, commentCount, replyCount, call, jobs, cutShort>>,
         audience' \in [Posts -> SUBSET Users],
         deleted' \in SUBSET (Posts \cup Comments)
  PROVE  IInv'
<1>. USE DEF IInv
<1>1. TypeOK' /\ CallInv' /\ OneInv'
  BY DEF TypeOK, CallInv, CallFits, Written, OneInv, Notifies
<1>2. Holders' = Holders
  BY DEF Holders, Holds
<1>3. PoolInv'
  BY <1>2 DEF PoolInv
<1>4. JobInv'
  BY DEF JobInv, AtPostAuthor, AtParentAuthor, Written, Interested, Notifying,
         PostAuthorTold, ParentAuthorTold, ParentAuthor
<1>. QED
  BY <1>1, <1>3, <1>4, RowsStand

LEMMA DeletePostStep ==
  ASSUME IInv, NEW p \in Posts, DeletePost(p)
  PROVE  IInv'
<1>1. /\ audience' \in [Posts -> SUBSET Users]
      /\ deleted' \in SUBSET (Posts \cup Comments)
  BY DEF DeletePost, IInv, TypeOK
<1>. QED
  BY <1>1, EnvironmentStep DEF DeletePost, rows

LEMMA ChangeAudienceStep ==
  ASSUME IInv, NEW p \in Posts, NEW u \in Users, ChangeAudience(p, u)
  PROVE  IInv'
<1>1. /\ audience' \in [Posts -> SUBSET Users]
      /\ deleted' \in SUBSET (Posts \cup Comments)
  BY DEF ChangeAudience, IInv, TypeOK
<1>. QED
  BY <1>1, EnvironmentStep DEF ChangeAudience, rows

LEMMA NextIInv == IInv /\ [Next]_vars => IInv'
<1>. SUFFICES ASSUME IInv, [Next]_vars PROVE IInv'
  OBVIOUS
<1>1. CASE UNCHANGED vars
  <2>1. /\ UNCHANGED <<comment, mentions, commentCount, replyCount, call, jobs, cutShort>>
        /\ audience' \in [Posts -> SUBSET Users]
        /\ deleted' \in SUBSET (Posts \cup Comments)
    BY <1>1 DEF vars, posts, rows, IInv, TypeOK
  <2>. QED
    BY <2>1, EnvironmentStep
<1>. QED
  BY <1>1, ResolveCommentStep, CommitPlainStep, CommitTaggedStep, ResolveDeleteStep,
     WaitForPostStep, LockRowsStep, NotifyPostAuthorStep, NotifyParentAuthorStep,
     WaitForRowStep, DeleteCommentStep, FailStep, JobRefusedStep, DeletePostStep,
     ChangeAudienceStep DEF Next

LEMMA SpecIInv == Spec => []IInv
BY InitIInv, NextIInv, PTL DEF Spec

-----------------------------------------------------------------------------
(* Every variable keeps its type, and so do the counters: for any users,   *)
(* posts, comments and calls.                                              *)
THEOREM TypeCorrect == Spec => []TypeOK
<1>1. IInv => TypeOK
  BY DEF IInv
<1>. QED
  BY <1>1, SpecIInv, PTL

(* comment_count and reply_count are the numbers of comments written on a  *)
(* post and in reply to a comment, whatever calls overlap and fail.        *)
THEOREM CommentsAreCounted == Spec => []CommentCountsExact
<1>1. IInv => CommentCountsExact
  BY DEF IInv
<1>. QED
  BY <1>1, SpecIInv, PTL

(* A reply's parent is a comment on the reply's post, although the parent  *)
(* was read before the transaction that inserts the reply.                 *)
THEOREM ThreadsAreOnOnePost == Spec => []ThreadsStayOnPost
<1>1. IInv => ThreadsStayOnPost
  BY DEF IInv
<1>. QED
  BY <1>1, SpecIInv, PTL

(* Every user with an interest in a comment is told of it once, whichever  *)
(* and however many of the three roles the user has, unless the call ended *)
(* or the job was refused; nobody else is.                                 *)
THEOREM InterestedAreToldOnce == Spec => []NotifiedOnce
<1>1. IInv => NotifiedOnce
  BY DEF IInv, JobInv, NotifiedOnce
<1>. QED
  BY <1>1, SpecIInv, PTL

(* Whatever calls overlap, they can only all wait for each other when the  *)
(* pool is exhausted and a transaction asks it for a second connection.    *)
THEOREM OnlyPoolStops == Spec => []StuckInPoolOnly
<1>1. IInv => StuckInPoolOnly
  <2>. SUFFICES ASSUME IInv, Active # {}, \A c \in Active : Waits(c)
                PROVE  /\ Cardinality({c \in Active : Connected(c)}) = MaxConnections
                       /\ \E c \in Active : call[c].at = "tagged"
    BY DEF StuckInPoolOnly
  <2>1. \A c \in Calls : Holds(c) <=> Connected(c)
    BY DEF Holds, Connected
  <2>2. {c \in Active : Connected(c)} = Holders
    BY <2>1 DEF Active, Holders, Holds, IdleCall
  <2>3. \A c \in Active : call[c].at \in {"begun", "erasing"} /\ Waits(c)
           => \E d \in Calls : call[d].at = "tagged"
    BY DEF Waits, NeedsConnection, PostLocked, CommentLocked
  <2>4. \A d \in Calls : call[d].at = "tagged" => d \in Active /\ Holds(d)
    BY DEF Active, Holds, IdleCall
  <2>5. ~Available
    <3>. SUFFICES ASSUME Available PROVE FALSE
      OBVIOUS
    <3>1. \A c \in Active : call[c].at \in {"begun", "erasing"}
      BY DEF Waits
    <3>. QED
      BY <2>3, <2>4, <3>1
  <2>6. Cardinality(Holders) = MaxConnections
    BY <2>5, HoldersFinite DEF Available, Holders, IInv, PoolInv
  <2>7. PICK h \in Calls : Holds(h)
    <3>1. Holders # {}
      BY <2>6, FS_EmptySet
    <3>. QED
      BY <3>1 DEF Holders
  <2>8. \E c \in Active : call[c].at = "tagged"
    BY <2>3, <2>4, <2>7 DEF Active, Holds, IdleCall
  <2>. QED
    BY <2>2, <2>6, <2>8
<1>. QED
  BY <1>1, SpecIInv, PTL
=============================================================================
