------------------------------- MODULE Likes -------------------------------
(***************************************************************************)
(* LikeService: like_post and unlike_post over the tables likes and        *)
(* comment_likes, the like_count kept beside them, and the notification    *)
(* jobs; with delete_account of AuthService, which takes rows away.        *)
(*                                                                         *)
(* resolve_like_target, with which a call authorises itself, is one step,  *)
(* before the transaction and never repeated in it.  The transaction is    *)
(* two steps, the INSERT or DELETE that takes the lock of the              *)
(* <<user, target>> row and the rest up to COMMIT; enqueueing the job      *)
(* comes after COMMIT, as a step that may be lost.                         *)
(***************************************************************************)
EXTENDS Naturals, FiniteSets

CONSTANTS Users,
          Targets,    \* the posts and comments there are to like
          Nothing,    \* the target of a call that has none
          AuthorOf,   \* the author of each target
          GoesWith,   \* the users whose account each target goes with
          Calls,      \* RPCs that may be in flight at the same time
          Caller,     \* the authenticated user of each call
          Fickle,     \* <<user, target>> pairs that visibility changes for
          MaxLikes    \* bound: likes of one user on one target

ASSUME LikesAssumption ==
    /\ IsFiniteSet(Users)
    /\ IsFiniteSet(Calls)
    /\ Nothing \notin Targets
    /\ AuthorOf \in [Targets -> Users]
    /\ GoesWith \in [Targets -> SUBSET Users]
    /\ \A t \in Targets : AuthorOf[t] \in GoesWith[t]
    /\ Caller \in [Calls -> Users]
    /\ Fickle \subseteq Users \X Targets
    /\ MaxLikes \in Nat

VARIABLES
    live,       \* accounts that exist: rows of users
    visible,    \* <<user, target>> pairs resolve_like_target lets pass
    likes,      \* committed rows of likes and comment_likes
    likeCount,  \* like_count of a post or comment
    call,       \* what each RPC in flight has read or done
    likeJobs,   \* notification jobs enqueued for a user's likes of a target
    inserts,    \* history: times that user's like was inserted
    ghosts      \* history: likes that went with the account of their user

vars == <<live, visible, likes, likeCount, call, likeJobs, inserts, ghosts>>

Pairs == Users \X Targets

(* "like" and "unlike" are authorised, "inserted" and "deleted" hold the    *)
(* lock of their row, "liked" has committed and has a job to enqueue.       *)
CallStates == [at     : {"idle", "like", "unlike", "inserted", "deleted", "liked"},
               target : Targets \cup {Nothing}]

IdleCall == [at |-> "idle", target |-> Nothing]

(* A post goes with its author, a comment with its author, that of its post *)
(* and that of its parent.                                                  *)
Exists(t) == GoesWith[t] \subseteq live

TypeOK ==
    /\ live \in SUBSET Users
    /\ visible \in SUBSET Pairs
    /\ likes \in SUBSET Pairs
    /\ likeCount \in [Targets -> Nat]
    /\ call \in [Calls -> CallStates]
    /\ likeJobs \in [Pairs -> Nat]
    /\ inserts \in [Pairs -> Nat]
    /\ ghosts \in SUBSET Pairs

Init ==
    /\ live = Users
    /\ visible = Pairs
    /\ likes = {}
    /\ likeCount = [t \in Targets |-> 0]
    /\ call = [c \in Calls |-> IdleCall]
    /\ likeJobs = [q \in Pairs |-> 0]
    /\ inserts = [q \in Pairs |-> 0]
    /\ ghosts = {}

Moves(c, at, t) == call' = [call EXCEPT ![c] = [at |-> at, target |-> t]]

Return(c) == call' = [call EXCEPT ![c] = IdleCall]

LikeOf(c) == <<Caller[c], call[c].target>>

-----------------------------------------------------------------------------
(* Both RPCs start with resolve_like_target. *)
ResolveLike(c, t) ==
    /\ call[c] = IdleCall
    /\ Exists(t) /\ <<Caller[c], t>> \in visible
    /\ \E at \in {"like", "unlike"} : Moves(c, at, t)
    /\ UNCHANGED <<live, visible, likes, likeCount, likeJobs, inserts, ghosts>>

(* Statements on a row that another transaction inserts or deletes wait.   *)
Locked(c, at) == \E d \in Calls \ {c} : call[d].at = at /\ LikeOf(d) = LikeOf(c)

(* The foreign keys want the user and the target. *)
CanInsert(c) ==
    /\ Caller[c] \in live /\ Exists(call[c].target)
    /\ inserts[LikeOf(c)] < MaxLikes

(* Mutants: the INSERT does not wait for the other transaction, or a       *)
(* second like notifies again.                                             *)
InsertUnlocked(c) ==
    /\ call[c].at = "like"
    /\ \/ LikeOf(c) \in likes /\ Return(c)
       \/ /\ LikeOf(c) \notin likes
          /\ CanInsert(c)
          /\ Moves(c, "inserted", call[c].target)
    /\ UNCHANGED <<live, visible, likes, likeCount, likeJobs, inserts, ghosts>>

NotifyAnyway(c) ==
    /\ call[c].at = "like"
    /\ ~Locked(c, "inserted") /\ ~Locked(c, "deleted")
    /\ \/ LikeOf(c) \in likes /\ Moves(c, "liked", call[c].target)
       \/ /\ LikeOf(c) \notin likes
          /\ CanInsert(c)
          /\ Moves(c, "inserted", call[c].target)
    /\ UNCHANGED <<live, visible, likes, likeCount, likeJobs, inserts, ghosts>>

(* INSERT ... ON CONFLICT DO NOTHING; without a new row the call is over.  *)
InsertLike(c) ==
    /\ call[c].at = "like"
    /\ ~Locked(c, "inserted") /\ ~Locked(c, "deleted")
    /\ \/ LikeOf(c) \in likes /\ Return(c)
       \/ /\ LikeOf(c) \notin likes
          /\ CanInsert(c)
          /\ Moves(c, "inserted", call[c].target)
    /\ UNCHANGED <<live, visible, likes, likeCount, likeJobs, inserts, ghosts>>

(* like_count + 1 and COMMIT. *)
CommitLike(c) ==
    LET q == LikeOf(c) IN
    /\ call[c].at = "inserted"
    /\ likes' = likes \cup {q}
    /\ likeCount' = [likeCount EXCEPT ![q[2]] = @ + 1]
    /\ inserts' = [inserts EXCEPT ![q] = @ + 1]
    /\ IF AuthorOf[q[2]] = Caller[c] THEN Return(c)
                                     ELSE Moves(c, "liked", q[2])
    /\ UNCHANGED <<live, visible, likeJobs, ghosts>>

NotifyLike(c) ==
    /\ call[c].at = "liked"
    /\ likeJobs' = [likeJobs EXCEPT ![LikeOf(c)] = @ + 1]
    /\ Return(c)
    /\ UNCHANGED <<live, visible, likes, likeCount, inserts, ghosts>>

(* DELETE sees committed rows only; without one the call is over.          *)
DeleteLike(c) ==
    /\ call[c].at = "unlike"
    /\ ~Locked(c, "deleted")
    /\ IF LikeOf(c) \in likes THEN Moves(c, "deleted", call[c].target)
                              ELSE Return(c)
    /\ UNCHANGED <<live, visible, likes, likeCount, likeJobs, inserts, ghosts>>

CommitUnlike(c) ==
    LET q == LikeOf(c) IN
    /\ call[c].at = "deleted"
    /\ likes' = likes \ {q}
    /\ likeCount' = [likeCount EXCEPT ![q[2]] = IF @ > 0 THEN @ - 1 ELSE 0]
    /\ Return(c)
    /\ UNCHANGED <<live, visible, likeJobs, inserts, ghosts>>

-----------------------------------------------------------------------------
(* A database error, a crash or a client that hangs up ends the call: an   *)
(* open transaction rolls back, a job still to enqueue is lost.            *)
Fail(c) ==
    /\ call[c] # IdleCall
    /\ Return(c)
    /\ UNCHANGED <<live, visible, likes, likeCount, likeJobs, inserts, ghosts>>

(* Follows, privacy and deletions, which can_view_post reads. *)
ChangeVisibility(q) ==
    /\ q \in Fickle
    /\ visible' = IF q \in visible THEN visible \ {q} ELSE visible \cup {q}
    /\ UNCHANGED <<live, likes, likeCount, call, likeJobs, inserts, ghosts>>

(* A transaction on a like by u, or on a target that goes with u, is open. *)
Busy(u) == \E c \in Calls : /\ call[c].at \in {"inserted", "deleted"}
                            /\ u = Caller[c] \/ u \in GoesWith[call[c].target]

(* delete_account: DELETE FROM users cascades to the likes of the user and *)
(* to the user's posts and comments with their likes.  The like_count of   *)
(* other users' posts and comments stays as it is.                         *)
DeleteAccount(u) ==
    /\ u \in live
    /\ ~Busy(u)
    /\ live' = live \ {u}
    /\ likes' = {q \in likes : q[1] # u /\ u \notin GoesWith[q[2]]}
    /\ likeCount' = [t \in Targets |-> IF u \in GoesWith[t] THEN 0 ELSE likeCount[t]]
    /\ ghosts' = {q \in ghosts : u \notin GoesWith[q[2]]}
                    \cup {q \in likes : q[1] = u /\ u \notin GoesWith[q[2]]}
    /\ UNCHANGED <<visible, call, likeJobs, inserts>>

Next ==
    \/ \E c \in Calls :
          \/ \E t \in Targets : ResolveLike(c, t)
          \/ InsertLike(c) \/ CommitLike(c) \/ NotifyLike(c)
          \/ DeleteLike(c) \/ CommitUnlike(c)
          \/ Fail(c)
    \/ \E q \in Pairs : ChangeVisibility(q)
    \/ \E u \in Users : DeleteAccount(u)

Spec == Init /\ [][Next]_vars

-----------------------------------------------------------------------------
(* like_count counts the like rows and, for good, those that went with the *)
(* account of their user: the cascade is the one way to leave the counter  *)
(* behind.  Otherwise counter and row change in one transaction, and the   *)
(* counter moves by what the INSERT or DELETE reported, whatever likes and *)
(* unlikes of the same users overlap.                                      *)
LikesCounted(t) == {u \in Users : <<u, t>> \in likes \/ <<u, t>> \in ghosts}

LikeCountExact ==
    \A t \in Targets : Exists(t) => likeCount[t] = Cardinality(LikesCounted(t))

(* A repeated like is silent: a like job per row inserted at the most,     *)
(* however many calls the client repeats or overlaps.                      *)
LikeNotifiesOnce == \A q \in Pairs : likeJobs[q] <= inserts[q]
=============================================================================
