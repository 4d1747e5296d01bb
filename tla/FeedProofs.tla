----------------------------- MODULE FeedProofs -----------------------------
(***************************************************************************)
(* Proofs about the feed and about the lists that clients page through.    *)
(*                                                                         *)
(* HomeFeed, for any users, posts, follows and attempts.  The three        *)
(* writers of feed_entries never see each other's work in progress; what   *)
(* makes them agree is what each knows of the committed state when it      *)
(* looked, and that posts are never brought back and never change their    *)
(* visibility.                                                             *)
(*                                                                         *)
(* Cursor, for texts of any length: decoding undoes encoding.  Paging, for *)
(* any rows, times and page sizes: its types and PagesPartition.           *)
(*                                                                         *)
(* HomeFeed shares no constant and no variable with the other two: a       *)
(* theorem is about one of them.                                           *)
(***************************************************************************)
EXTENDS HomeFeed, Paging, FiniteSetTheorems, SequenceTheorems, TLAPS

(* A post that does not exist has no entries, no job and no notifications; *)
(* one that exists is in its author's feed.                                *)
PostInv ==
    \A p \in Posts :
        /\ visibility[p] = "absent" => /\ fanout[p].at = "absent"
                                       /\ \A u \in Users : <<u, p>> \notin feed
        /\ visibility[p] # "absent" => <<Author[p], p>> \in feed

(* A transaction writes entries of the followee's posts: a follow those of *)
(* the posts it has seen that are not deleted, and an unfollow those that  *)
(* it can find, which leaves what no unfollow takes away.                  *)
TxInv ==
    \A q \in Pairs :
        /\ tx[q].posts \subseteq PostsOf(q[2])
        /\ tx[q].at = "follow" => tx[q].seen \ deleted \subseteq tx[q].posts
        /\ tx[q].at = "unfollow" =>
              \A p \in Posts : Author[p] = q[2] /\ <<q[1], p>> \in feed
                  => p \in tx[q].posts \/ <<q[1], p>> \in stale

(* Followers of a post's author whom the fan-out has not served, once it   *)
(* has read the followers, are still on its list.                          *)
Served(p, u) == <<u, p>> \in feed \cup late

ServeInv ==
    \A p \in Posts \ deleted : visibility[p] = "followers" =>
        \A u \in Followers(Author[p]) :
            /\ fanout[p].at \in {"notifying", "done"} => Served(p, u)
            /\ fanout[p].at = "feeding" => Served(p, u) \/ u \in fanout[p].left

(* No one has been notified before the second loop comes to them.          *)
JobInv ==
    \A p \in Posts, u \in Users :
        /\ postJobs[p][u] <= 1
        /\ fanout[p].at \in {"absent", "waiting", "claimed", "feeding"} => postJobs[p][u] = 0
        /\ fanout[p].at = "notifying" /\ u \in fanout[p].left => postJobs[p][u] = 0

IInv == TypeOK /\ PostInv /\ TxInv /\ EntriesHaveReason /\ ServeInv /\ JobInv

USE HomeFeedAssumption

-----------------------------------------------------------------------------
LEMMA PairEnds ==
  ASSUME NEW q \in Pairs
  PROVE  q = <<q[1], q[2]>> /\ q[1] \in Users /\ q[2] \in Users /\ q[1] # q[2]
OBVIOUS

(* The handler's variable with one or two fields changed is a record again. *)
LEMMA FanoutAt ==
  ASSUME TypeOK, NEW p \in Posts, NEW at \in Stages,
         fanout' = [fanout EXCEPT ![p].at = at]
  PROVE  \E x \in Fanouts : /\ fanout' = [fanout EXCEPT ![p] = x]
                            /\ x.at = at /\ x.left = fanout[p].left
<1>. DEFINE x == [at |-> at, list |-> fanout[p].list, left |-> fanout[p].left,
                  tries |-> fanout[p].tries]
<1>1. fanout[p] \in Fanouts
  BY DEF TypeOK
<1>2. x \in Fanouts /\ x = [fanout[p] EXCEPT !.at = at]
  BY <1>1 DEF Fanouts
<1>. QED
  BY <1>2 DEF TypeOK

LEMMA InitIInv == Init => IInv
<1>. SUFFICES ASSUME Init PROVE IInv
  OBVIOUS
<1>1. TypeOK
  BY DEF Init, TypeOK, Transactions, NoTx, Fanouts, Stages
<1>2. PostInv /\ EntriesHaveReason /\ ServeInv /\ JobInv
  BY DEF Init, PostInv, EntriesHaveReason, ServeInv, JobInv
<1>3. TxInv
  BY DEF Init, TxInv, NoTx
<1>. QED
  BY <1>1, <1>2, <1>3 DEF IInv

-----------------------------------------------------------------------------
(* Steps of the handler that write no entry. *)
LEMMA HandlerStep ==
  ASSUME IInv, NEW p \in Posts, NEW x \in Fanouts,
         fanout[p].at # "absent",
         fanout' = [fanout EXCEPT ![p] = x],
         UNCHANGED <<follows, tx, visibility, deleted, postCount, feed, late, stale>>,
         postJobs' \in [Posts -> [Users -> Nat]],
         \A r \in Posts \ {p} : postJobs'[r] = postJobs[r],
         x.at # "absent",
         p \notin deleted /\ visibility[p] = "followers" =>
            \A u \in Followers(Author[p]) :
               /\ x.at \in {"notifying", "done"} => Served(p, u)
               /\ x.at = "feeding" => Served(p, u) \/ u \in x.left,
         \A u \in Users :
            /\ postJobs'[p][u] <= 1
            /\ x.at \in {"waiting", "claimed", "feeding"} => postJobs'[p][u] = 0
            /\ x.at = "notifying" /\ u \in x.left => postJobs'[p][u] = 0
  PROVE  IInv'
<1>. USE DEF IInv
<1>1. fanout'[p] = x /\ \A r \in Posts \ {p} : fanout'[r] = fanout[r]
  BY DEF TypeOK
<1>2. TypeOK'
  BY DEF TypeOK
<1>3. PostInv'
  BY <1>1 DEF PostInv
<1>4. TxInv'
  BY DEF TxInv, PostsOf
<1>5. EntriesHaveReason'
  BY DEF EntriesHaveReason, Followers
<1>6. ServeInv'
  <2>. SUFFICES ASSUME NEW r \in Posts \ deleted, visibility[r] = "followers",
                       NEW u \in Followers(Author[r])
                PROVE  /\ fanout'[r].at \in {"notifying", "done"} => Served(r, u)
                       /\ fanout'[r].at = "feeding" => Served(r, u) \/ u \in fanout'[r].left
    BY DEF ServeInv, Served, Followers
  <2>1. CASE r = p
    BY <1>1, <2>1
  <2>2. CASE r # p
    BY <1>1, <2>2 DEF ServeInv
  <2>. QED
    BY <2>1, <2>2
<1>7. JobInv'
  <2>. SUFFICES ASSUME NEW r \in Posts, NEW u \in Users
                PROVE  /\ postJobs'[r][u] <= 1
                       /\ fanout'[r].at \in {"absent", "waiting", "claimed", "feeding"}
                             => postJobs'[r][u] = 0
                       /\ fanout'[r].at = "notifying" /\ u \in fanout'[r].left
                             => postJobs'[r][u] = 0
    BY DEF JobInv
  <2>1. CASE r = p
    BY <1>1, <2>1
  <2>2. CASE r # p
    BY <1>1, <2>2 DEF JobInv
  <2>. QED
    BY <2>1, <2>2
<1>. QED
  BY <1>2, <1>3, <1>4, <1>5, <1>6, <1>7

(* Only the stage changes, to one that promises nothing new. *)
LEMMA StageStep ==
  ASSUME IInv, NEW p \in Posts, NEW x \in Fanouts,
         fanout' = [fanout EXCEPT ![p] = x],
         UNCHANGED <<follows, tx, posts, feed, postJobs, late, stale>>,
         \/ x.at \in {"dead", "lost"} /\ fanout[p].at # "absent"
         \/ /\ x.at \in {"waiting", "claimed"}
            /\ fanout[p].at \in {"waiting", "claimed", "feeding"}
         \/ x.at = "done" /\ fanout[p].at = "notifying"
  PROVE  IInv'
<1>. USE DEF IInv
<1>1. UNCHANGED <<visibility, deleted, postCount, postJobs>>
  BY DEF posts
<1>2. postJobs' \in [Posts -> [Users -> Nat]]
  BY <1>1 DEF TypeOK
<1>3. p \notin deleted /\ visibility[p] = "followers" =>
         \A u \in Followers(Author[p]) :
            /\ x.at \in {"notifying", "done"} => Served(p, u)
            /\ x.at = "feeding" => Served(p, u) \/ u \in x.left
  BY DEF ServeInv
<1>4. \A u \in Users :
         /\ postJobs'[p][u] <= 1
         /\ x.at \in {"waiting", "claimed", "feeding"} => postJobs'[p][u] = 0
         /\ x.at = "notifying" /\ u \in x.left => postJobs'[p][u] = 0
  BY <1>1 DEF JobInv
<1>5. fanout[p].at # "absent" /\ x.at # "absent"
  OBVIOUS
<1>. QED
  BY <1>1, <1>2, <1>3, <1>4, <1>5, HandlerStep

LEMMA ClaimFanoutStep ==
  ASSUME IInv, NEW p \in Posts, ClaimFanout(p)
  PROVE  IInv'
<1>. DEFINE x == [at |-> "claimed", list |-> fanout[p].list, left |-> fanout[p].left,
                  tries |-> fanout[p].tries + 1]
<1>1. fanout[p] \in Fanouts
  BY DEF IInv, TypeOK
<1>2. x \in Fanouts /\ x.at = "claimed"
  BY <1>1 DEF Fanouts, Stages
<1>3. fanout' = [fanout EXCEPT ![p] = x]
  BY <1>1 DEF ClaimFanout, IInv, TypeOK, Fanouts
<1>. HIDE DEF x
<1>. QED
  BY <1>2, <1>3, StageStep DEF ClaimFanout

LEMMA FanoutDoneStep ==
  ASSUME IInv, NEW p \in Posts, FanoutDone(p)
  PROVE  IInv'
<1>1. PICK x \in Fanouts : fanout' = [fanout EXCEPT ![p] = x] /\ x.at = "done"
  BY FanoutAt DEF FanoutDone, IInv, Stages
<1>. QED
  BY <1>1, StageStep DEF FanoutDone

LEMMA WorkerLostStep ==
  ASSUME IInv, NEW p \in Posts, WorkerLost(p)
  PROVE  IInv'
<1>1. PICK x \in Fanouts : fanout' = [fanout EXCEPT ![p] = x] /\ x.at = "lost"
  BY FanoutAt DEF WorkerLost, IInv, Stages
<1>. QED
  BY <1>1, StageStep DEF WorkerLost

LEMMA FanoutFailsStep ==
  ASSUME IInv, NEW p \in Posts, FanoutFails(p)
  PROVE  IInv'
<1>1. PICK s \in {"dead", "waiting"} : fanout' = [fanout EXCEPT ![p].at = s]
  BY DEF FanoutFails, AfterFailure
<1>. DEFINE x == [at |-> s, list |-> fanout[p].list, left |-> fanout[p].left,
                  tries |-> fanout[p].tries]
<1>2. fanout[p] \in Fanouts
  BY DEF IInv, TypeOK
<1>3. x \in Fanouts /\ x.at = s /\ x = [fanout[p] EXCEPT !.at = s]
  BY <1>2 DEF Fanouts, Stages
<1>4. fanout' = [fanout EXCEPT ![p] = x]
  BY <1>1, <1>3 DEF IInv, TypeOK
<1>. HIDE DEF x
<1>. QED
  BY <1>3, <1>4, StageStep DEF FanoutFails, CanFail

(* The list is what follows says now; those who follow later see the post  *)
(* when they backfill, or are late.                                        *)
LEMMA ReadFollowersStep ==
  ASSUME IInv, NEW p \in Posts, ReadFollowers(p)
  PROVE  IInv'
<1>. USE DEF IInv
<1>. PICK readers : readers = Followers(Author[p])
  OBVIOUS
<1>1. fanout[p] \in Fanouts /\ readers \in SUBSET Users
  BY DEF TypeOK, Followers
<1>2. PICK x \in Fanouts :
        /\ fanout' = [fanout EXCEPT ![p] = x]
        /\ x.left = readers
        /\ x.at = IF readers = {} THEN "done" ELSE "feeding"
  <2>. DEFINE y == [at |-> IF readers = {} THEN "done" ELSE "feeding",
                    list |-> readers, left |-> readers, tries |-> fanout[p].tries]
  <2>1. y \in Fanouts
    BY <1>1 DEF Fanouts, Stages
  <2>2. fanout' = [fanout EXCEPT ![p] = y]
    BY DEF ReadFollowers
  <2>. QED
    BY <2>1, <2>2
<1>3. UNCHANGED <<visibility, deleted, postCount, postJobs>>
  BY DEF ReadFollowers, posts
<1>4. postJobs' \in [Posts -> [Users -> Nat]]
  BY <1>3 DEF TypeOK
<1>5. \A u \in Followers(Author[p]) :
         /\ x.at \in {"notifying", "done"} => Served(p, u)
         /\ x.at = "feeding" => Served(p, u) \/ u \in x.left
  BY <1>2
<1>6. \A u \in Users : postJobs'[p][u] = 0
  BY <1>3 DEF ReadFollowers, JobInv
<1>7. x.at \notin {"absent", "notifying"}
  BY <1>2
<1>9. \A u \in Users :
         /\ postJobs'[p][u] <= 1
         /\ x.at \in {"waiting", "claimed", "feeding"} => postJobs'[p][u] = 0
         /\ x.at = "notifying" /\ u \in x.left => postJobs'[p][u] = 0
  BY <1>6
<1>10. \A r \in Posts \ {p} : postJobs'[r] = postJobs[r]
  BY <1>3
<1>11. fanout' = [fanout EXCEPT ![p] = x]
  BY <1>2
<1>8. /\ fanout[p].at # "absent"
      /\ UNCHANGED <<follows, tx, visibility, deleted, postCount, feed, late, stale>>
  BY <1>3 DEF ReadFollowers
<1>. QED
  BY <1>4, <1>5, <1>7, <1>8, <1>9, <1>10, <1>11, HandlerStep

LEMMA EntriesWrittenStep ==
  ASSUME IInv, NEW p \in Posts, EntriesWritten(p)
  PROVE  IInv'
<1>. USE DEF IInv
<1>. DEFINE x == [at |-> "notifying", list |-> fanout[p].list, left |-> fanout[p].list,
                  tries |-> fanout[p].tries]
<1>1. fanout[p] \in Fanouts
  BY DEF TypeOK
<1>2. x \in Fanouts /\ x.at = "notifying"
  BY <1>1 DEF Fanouts, Stages
<1>3. fanout' = [fanout EXCEPT ![p] = x]
  <2>. DEFINE y == [at |-> "notifying", list |-> fanout[p].list, left |-> fanout[p].left,
                    tries |-> fanout[p].tries]
  <2>1. y = [fanout[p] EXCEPT !.at = "notifying"]
    BY <1>1 DEF Fanouts
  <2>2. x = [y EXCEPT !.left = fanout[p].list]
    OBVIOUS
  <2>3. fanout' = [[fanout EXCEPT ![p] = y] EXCEPT ![p].left = fanout[p].list]
    BY <2>1 DEF EntriesWritten, TypeOK
  <2>. QED
    BY <2>2, <2>3 DEF TypeOK
<1>. HIDE DEF x
<1>4. UNCHANGED <<visibility, deleted, postCount, postJobs>>
  BY DEF EntriesWritten, posts
<1>5. postJobs' \in [Posts -> [Users -> Nat]]
  BY <1>4 DEF TypeOK
<1>6. p \notin deleted /\ visibility[p] = "followers" =>
         \A u \in Followers(Author[p]) : Served(p, u)
  BY DEF EntriesWritten, ServeInv
<1>7. \A u \in Users : postJobs'[p][u] = 0
  BY <1>4 DEF EntriesWritten, JobInv
<1>9. \A u \in Users :
         /\ postJobs'[p][u] <= 1
         /\ x.at \in {"waiting", "claimed", "feeding"} => postJobs'[p][u] = 0
         /\ x.at = "notifying" /\ u \in x.left => postJobs'[p][u] = 0
  BY <1>7
<1>10. \A r \in Posts \ {p} : postJobs'[r] = postJobs[r]
  BY <1>4
<1>8. /\ fanout[p].at # "absent"
      /\ UNCHANGED <<follows, tx, visibility, deleted, postCount, feed, late, stale>>
  BY <1>4 DEF EntriesWritten
<1>. QED
  BY <1>2, <1>3, <1>5, <1>6, <1>8, <1>9, <1>10, HandlerStep

LEMMA NotifyFollowerStep ==
  ASSUME IInv, NEW p \in Posts, NEW u \in Users, NotifyFollower(p, u)
  PROVE  IInv'
<1>. USE DEF IInv
<1>. DEFINE x == [at |-> "notifying", list |-> fanout[p].list,
                  left |-> fanout[p].left \ {u}, tries |-> fanout[p].tries]
<1>1. fanout[p] \in Fanouts /\ fanout[p].at = "notifying" /\ u \in fanout[p].left
  BY DEF NotifyFollower, TypeOK
<1>2. x \in Fanouts /\ x.at = "notifying" /\ x.left = fanout[p].left \ {u}
  BY <1>1 DEF Fanouts
<1>3. fanout' = [fanout EXCEPT ![p] = x]
  <2>1. x = [fanout[p] EXCEPT !.left = fanout[p].left \ {u}]
    BY <1>1 DEF Fanouts
  <2>. QED
    BY <2>1 DEF NotifyFollower, TypeOK
<1>. HIDE DEF x
<1>4. UNCHANGED <<visibility, deleted, postCount>>
  BY DEF NotifyFollower, posts
<1>5. \/ postJobs' = [postJobs EXCEPT ![p][u] = @ + 1]
      \/ postJobs' = postJobs
  BY DEF NotifyFollower
<1>6. /\ postJobs' \in [Posts -> [Users -> Nat]]
      /\ \A r \in Posts \ {p} : postJobs'[r] = postJobs[r]
      /\ \A v \in Users \ {u} : postJobs'[p][v] = postJobs[p][v]
      /\ postJobs'[p][u] <= postJobs[p][u] + 1
  <2>1. postJobs \in [Posts -> [Users -> Nat]] /\ postJobs[p][u] \in Nat
    BY DEF TypeOK
  <2>2. CASE postJobs' = [postJobs EXCEPT ![p][u] = @ + 1]
    BY <2>1, <2>2
  <2>3. CASE postJobs' = postJobs
    BY <2>1, <2>3
  <2>. QED
    BY <1>5, <2>2, <2>3
<1>7. /\ postJobs[p][u] = 0
      /\ \A v \in Users : /\ postJobs[p][v] <= 1
                          /\ v \in fanout[p].left => postJobs[p][v] = 0
  BY <1>1 DEF JobInv
<1>8. \A v \in Users : /\ postJobs'[p][v] <= 1
                       /\ v \in x.left => postJobs'[p][v] = 0
  BY <1>2, <1>6, <1>7
<1>9. p \notin deleted /\ visibility[p] = "followers" =>
         \A v \in Followers(Author[p]) : Served(p, v)
  BY <1>1 DEF ServeInv
<1>10. /\ fanout[p].at # "absent"
       /\ UNCHANGED <<follows, tx, visibility, deleted, postCount, feed, late, stale>>
  BY <1>1, <1>4 DEF NotifyFollower
<1>. QED
  BY <1>2, <1>3, <1>4, <1>6, <1>8, <1>9, <1>10, HandlerStep

-----------------------------------------------------------------------------
(* Steps that only open or abandon a transaction. *)
LEMMA TransactionStep ==
  ASSUME IInv, NEW q \in Pairs, NEW t \in Transactions,
         tx' = [tx EXCEPT ![q] = t],
         UNCHANGED <<follows, posts, feed, jobs, late, stale>>,
         t.posts \subseteq PostsOf(q[2]),
         t.at = "follow" => t.seen \ deleted \subseteq t.posts,
         t.at = "unfollow" =>
            \A p \in Posts : Author[p] = q[2] /\ <<q[1], p>> \in feed
               => p \in t.posts \/ <<q[1], p>> \in stale
  PROVE  IInv'
<1>. USE DEF IInv
<1>1. UNCHANGED <<visibility, deleted, postCount, fanout, postJobs>>
  BY DEF posts, jobs
<1>2. TypeOK'
  BY <1>1 DEF TypeOK
<1>3. PostInv' /\ JobInv'
  BY <1>1 DEF PostInv, JobInv
<1>4. EntriesHaveReason' /\ ServeInv'
  BY <1>1 DEF EntriesHaveReason, ServeInv, Served, Followers
<1>5. TxInv'
  <2>1. tx'[q] = t /\ \A r \in Pairs \ {q} : tx'[r] = tx[r]
    BY DEF TypeOK
  <2>. SUFFICES ASSUME NEW r \in Pairs
                PROVE  /\ tx'[r].posts \subseteq PostsOf(r[2])
                       /\ tx'[r].at = "follow" => tx'[r].seen \ deleted \subseteq tx'[r].posts
                       /\ tx'[r].at = "unfollow" =>
                             \A p \in Posts : Author[p] = r[2] /\ <<r[1], p>> \in feed
                                => p \in tx'[r].posts \/ <<r[1], p>> \in stale
    BY <1>1 DEF TxInv, PostsOf
  <2>2. CASE r = q
    BY <2>1, <2>2
  <2>3. CASE r # q
    BY <2>1, <2>3 DEF TxInv
  <2>. QED
    BY <2>2, <2>3
<1>. QED
  BY <1>2, <1>3, <1>4, <1>5

LEMMA RollbackStep ==
  ASSUME IInv, NEW q \in Pairs, Rollback(q)
  PROVE  IInv'
<1>1. NoTx \in Transactions /\ NoTx.at = "none" /\ NoTx.posts = {}
  BY DEF NoTx, Transactions
<1>. QED
  BY <1>1, TransactionStep DEF Rollback

LEMMA BeginFollowStep ==
  ASSUME IInv, NEW q \in Pairs, BeginFollow(q)
  PROVE  IInv'
<1>. DEFINE t == [at |-> "follow", posts |-> Backfilled(q), seen |-> PostsOf(q[2])]
<1>1. /\ t \in Transactions
      /\ t.at = "follow"
      /\ t.posts \subseteq PostsOf(q[2])
      /\ t.seen \ deleted \subseteq t.posts
  BY DEF Transactions, Backfilled, PostsOf
<1>2. tx' = [tx EXCEPT ![q] = t]
  BY DEF BeginFollow
<1>. HIDE DEF t
<1>. QED
  BY <1>1, <1>2, TransactionStep DEF BeginFollow

(* An entry of a followee's post is one the DELETE finds, unless the post  *)
(* is private: then a fan-out wrote it.                                    *)
LEMMA BeginUnfollowStep ==
  ASSUME IInv, NEW q \in Pairs, BeginUnfollow(q)
  PROVE  IInv'
<1>. DEFINE t == [at |-> "unfollow", posts |-> Removed(q), seen |-> PostsOf(q[2])]
<1>1. /\ t \in Transactions
      /\ t.at = "unfollow"
      /\ t.posts \subseteq PostsOf(q[2])
  BY DEF Transactions, Removed, PostsOf
<1>2. tx' = [tx EXCEPT ![q] = t]
  BY DEF BeginUnfollow
<1>3. ASSUME NEW p \in Posts, Author[p] = q[2], <<q[1], p>> \in feed
      PROVE  p \in t.posts \/ <<q[1], p>> \in stale
  <2>1. q[1] \in Users \ {Author[p]}
    BY <1>3, PairEnds
  <2>2. visibility[p] \in {"absent", "followers", "private"}
    BY DEF IInv, TypeOK
  <2>3. CASE visibility[p] = "followers"
    BY <1>3, <2>3 DEF Removed, PostsOf
  <2>4. CASE visibility[p] = "private"
    BY <1>3, <2>1, <2>4 DEF IInv, EntriesHaveReason
  <2>5. CASE visibility[p] = "absent"
    BY <1>3, <2>1, <2>5 DEF IInv, PostInv
  <2>. QED
    BY <2>2, <2>3, <2>4, <2>5
<1>. HIDE DEF t
<1>. QED
  BY <1>1, <1>2, <1>3, TransactionStep DEF BeginUnfollow

(* Whoever begins to follow has the posts that the backfill saw, is late   *)
(* for those whose fan-out has read the followers, and will be read by the *)
(* others.                                                                 *)
LEMMA CommitFollowStep ==
  ASSUME IInv, NEW q \in Pairs, CommitFollow(q)
  PROVE  IInv'
<1>. USE DEF IInv
<1>1. UNCHANGED <<visibility, deleted, postCount, fanout, postJobs, stale>>
  BY DEF CommitFollow, posts, jobs
<1>2. /\ tx[q].at = "follow"
      /\ follows' = follows \cup {q}
      /\ feed' = feed \cup EntriesOf(q)
      /\ late' = late \cup {<<q[1], p>> : p \in Overtaken(q)}
      /\ tx' = [tx EXCEPT ![q] = NoTx]
  BY DEF CommitFollow
<1>3. q = <<q[1], q[2]>> /\ q[1] \in Users /\ q[2] \in Users /\ q[1] # q[2]
  BY PairEnds
<1>4. /\ tx[q].posts \subseteq PostsOf(q[2])
      /\ tx[q].seen \ deleted \subseteq tx[q].posts
  BY <1>2 DEF TxInv
<1>5. \A e \in EntriesOf(q) : \E p \in tx[q].posts :
          e = <<q[1], p>> /\ p \in Posts /\ Author[p] = q[2] /\ visibility[p] = "followers"
  BY <1>4 DEF EntriesOf, PostsOf
<1>6. \A p \in tx[q].posts : <<q[1], p>> \in feed'
  BY <1>2 DEF EntriesOf
<1>7. TypeOK'
  <2>1. NoTx \in Transactions
    BY DEF NoTx, Transactions
  <2>2. feed' \subseteq Entries
    BY <1>2, <1>3, <1>5 DEF TypeOK, Entries
  <2>3. late' \subseteq Entries
    BY <1>2, <1>3 DEF TypeOK, Entries, Overtaken, PostsOf
  <2>. QED
    BY <1>1, <1>2, <2>1, <2>2, <2>3 DEF TypeOK
<1>8. PostInv'
  BY <1>1, <1>2, <1>5 DEF PostInv
<1>9. TxInv'
  <2>1. tx'[q] = NoTx /\ \A r \in Pairs \ {q} : tx'[r] = tx[r]
    BY <1>2 DEF TypeOK
  <2>. SUFFICES ASSUME NEW r \in Pairs
                PROVE  /\ tx'[r].posts \subseteq PostsOf(r[2])
                       /\ tx'[r].at = "follow" => tx'[r].seen \ deleted \subseteq tx'[r].posts
                       /\ tx'[r].at = "unfollow" =>
                             \A p \in Posts : Author[p] = r[2] /\ <<r[1], p>> \in feed'
                                => p \in tx'[r].posts \/ <<r[1], p>> \in stale
    BY <1>1 DEF TxInv, PostsOf
  <2>2. CASE r = q
    BY <2>1, <2>2 DEF NoTx
  <2>3. CASE r # q
    <3>1. \A p \in Posts : Author[p] = r[2] /\ <<r[1], p>> \in feed' => <<r[1], p>> \in feed
      BY <1>2, <1>3, <1>5, <2>3, PairEnds
    <3>. QED
      BY <2>1, <2>3, <3>1 DEF TxInv
  <2>. QED
    BY <2>2, <2>3
<1>10. EntriesHaveReason'
  <2>. SUFFICES ASSUME NEW p \in Posts, NEW u \in Users, u # Author[p],
                       <<u, p>> \in feed',
                       visibility[p] = "private" \/ <<u, Author[p]>> \notin follows'
                PROVE  <<u, p>> \in stale
    BY <1>1 DEF EntriesHaveReason, Followers
  <2>1. CASE <<u, p>> \in feed
    BY <1>2, <2>1 DEF EntriesHaveReason, Followers
  <2>2. CASE <<u, p>> \in EntriesOf(q)
    BY <1>2, <1>3, <1>5, <2>2
  <2>. QED
    BY <1>2, <2>1, <2>2
<1>11. ServeInv'
  <2>. SUFFICES ASSUME NEW p \in Posts, p \notin deleted, visibility[p] = "followers",
                       NEW u \in Users, <<u, Author[p]>> \in follows'
                PROVE  /\ fanout[p].at \in {"notifying", "done"} => <<u, p>> \in feed' \cup late'
                       /\ fanout[p].at = "feeding"
                             => <<u, p>> \in feed' \cup late' \/ u \in fanout[p].left
    BY <1>1 DEF ServeInv, Served, Followers
  <2>1. CASE <<u, Author[p]>> \in follows
    BY <1>2, <2>1 DEF ServeInv, Served, Followers
  <2>2. CASE q = <<u, Author[p]>>
    <3>1. q[1] = u /\ q[2] = Author[p] /\ p \in PostsOf(q[2])
      BY <2>2 DEF PostsOf
    <3>2. CASE p \in tx[q].seen
      BY <1>4, <1>6, <3>1, <3>2
    <3>3. CASE p \notin tx[q].seen /\ fanout[p].at \in {"feeding", "notifying", "done"}
      <4>1. p \in Overtaken(q)
        BY <3>1, <3>3 DEF Overtaken
      <4>. QED
        BY <1>2, <3>1, <4>1
    <3>. QED
      BY <3>2, <3>3
  <2>. QED
    BY <1>2, <2>1, <2>2
<1>12. JobInv'
  BY <1>1 DEF JobInv
<1>. QED
  BY <1>7, <1>8, <1>9, <1>10, <1>11, <1>12

(* What is left of the followee's posts is what no unfollow takes away;    *)
(* the author's own entry is never of this follower.                       *)
LEMMA CommitUnfollowStep ==
  ASSUME IInv, NEW q \in Pairs, CommitUnfollow(q)
  PROVE  IInv'
<1>. USE DEF IInv
<1>1. UNCHANGED <<visibility, deleted, postCount, fanout, postJobs, late, stale>>
  BY DEF CommitUnfollow, posts, jobs
<1>2. /\ tx[q].at = "unfollow"
      /\ follows' = follows \ {q}
      /\ feed' = feed \ EntriesOf(q)
      /\ tx' = [tx EXCEPT ![q] = NoTx]
  BY DEF CommitUnfollow
<1>3. q = <<q[1], q[2]>> /\ q[1] \in Users /\ q[2] \in Users /\ q[1] # q[2]
  BY PairEnds
<1>4. /\ tx[q].posts \subseteq PostsOf(q[2])
      /\ \A p \in Posts : Author[p] = q[2] /\ <<q[1], p>> \in feed
            => p \in tx[q].posts \/ <<q[1], p>> \in stale
  BY <1>2 DEF TxInv
<1>5. \A e \in EntriesOf(q) : \E p \in tx[q].posts :
          e = <<q[1], p>> /\ p \in Posts /\ Author[p] = q[2]
  BY <1>4 DEF EntriesOf, PostsOf
<1>6. TypeOK'
  <2>1. NoTx \in Transactions
    BY DEF NoTx, Transactions
  <2>. QED
    BY <1>1, <1>2, <2>1 DEF TypeOK
<1>7. PostInv'
  BY <1>1, <1>2, <1>3, <1>5 DEF PostInv
<1>8. TxInv'
  <2>1. tx'[q] = NoTx /\ \A r \in Pairs \ {q} : tx'[r] = tx[r]
    BY <1>2 DEF TypeOK
  <2>. SUFFICES ASSUME NEW r \in Pairs
                PROVE  /\ tx'[r].posts \subseteq PostsOf(r[2])
                       /\ tx'[r].at = "follow" => tx'[r].seen \ deleted \subseteq tx'[r].posts
                       /\ tx'[r].at = "unfollow" =>
                             \A p \in Posts : Author[p] = r[2] /\ <<r[1], p>> \in feed'
                                => p \in tx'[r].posts \/ <<r[1], p>> \in stale
    BY <1>1 DEF TxInv, PostsOf
  <2>2. CASE r = q
    BY <2>1, <2>2 DEF NoTx
  <2>3. CASE r # q
    BY <1>2, <2>1, <2>3 DEF TxInv
  <2>. QED
    BY <2>2, <2>3
<1>9. EntriesHaveReason'
  <2>. SUFFICES ASSUME NEW p \in Posts, NEW u \in Users, u # Author[p],
                       <<u, p>> \in feed',
                       visibility[p] = "private" \/ <<u, Author[p]>> \notin follows'
                PROVE  <<u, p>> \in stale
    BY <1>1 DEF EntriesHaveReason, Followers
  <2>1. <<u, p>> \in feed /\ <<u, p>> \notin EntriesOf(q)
    BY <1>2
  <2>2. CASE q = <<u, Author[p]>>
    <3>1. q[1] = u /\ q[2] = Author[p]
      BY <2>2
    <3>2. p \notin tx[q].posts
      BY <2>1, <3>1 DEF EntriesOf
    <3>. QED
      BY <1>4, <2>1, <3>1, <3>2
  <2>3. CASE q # <<u, Author[p]>>
    BY <1>2, <2>1, <2>3 DEF EntriesHaveReason, Followers
  <2>. QED
    BY <2>2, <2>3
<1>10. ServeInv'
  <2>. SUFFICES ASSUME NEW p \in Posts, p \notin deleted, visibility[p] = "followers",
                       NEW u \in Users, <<u, Author[p]>> \in follows, <<u, Author[p]>> # q
                PROVE  /\ fanout[p].at \in {"notifying", "done"} => <<u, p>> \in feed' \cup late
                       /\ fanout[p].at = "feeding"
                             => <<u, p>> \in feed' \cup late \/ u \in fanout[p].left
    BY <1>1, <1>2 DEF ServeInv, Served, Followers
  <2>1. <<u, p>> \notin EntriesOf(q)
    BY <1>3, <1>5
  <2>. QED
    BY <1>2, <2>1 DEF ServeInv, Served, Followers
<1>11. JobInv'
  BY <1>1 DEF JobInv
<1>. QED
  BY <1>6, <1>7, <1>8, <1>9, <1>10, <1>11

-----------------------------------------------------------------------------
LEMMA CreatePostStep ==
  ASSUME IInv, NEW p \in Posts, NEW v \in {"followers", "private"}, CreatePost(p, v)
  PROVE  IInv'
<1>. USE DEF IInv
<1>1. /\ visibility[p] = "absent"
      /\ visibility' = [visibility EXCEPT ![p] = v]
      /\ feed' = feed \cup {<<Author[p], p>>}
      /\ postCount' = [postCount EXCEPT ![Author[p]] = @ + 1]
      /\ fanout' = [fanout EXCEPT ![p].at = "waiting"]
      /\ UNCHANGED <<follows, tx, deleted, postJobs, late, stale>>
  BY DEF CreatePost
<1>2. Author[p] \in Users /\ "waiting" \in Stages
  BY DEF Stages
<1>3. PICK x \in Fanouts : fanout' = [fanout EXCEPT ![p] = x] /\ x.at = "waiting"
  BY FanoutAt DEF CreatePost, Stages
<1>4. /\ fanout'[p].at = "waiting" /\ visibility'[p] = v
      /\ \A r \in Posts \ {p} : fanout'[r] = fanout[r] /\ visibility'[r] = visibility[r]
  BY <1>1, <1>3 DEF TypeOK
<1>5. fanout[p].at = "absent" /\ \A u \in Users : <<u, p>> \notin feed
  BY <1>1 DEF PostInv
<1>6. TypeOK'
  <2>1. feed' \subseteq Entries
    BY <1>1, <1>2 DEF TypeOK, Entries
  <2>2. postCount' \in [Users -> Nat]
    BY <1>1, <1>2 DEF TypeOK
  <2>3. visibility' \in [Posts -> {"absent", "followers", "private"}]
    BY <1>1 DEF TypeOK
  <2>4. fanout' \in [Posts -> Fanouts]
    BY <1>3 DEF TypeOK
  <2>. QED
    BY <1>1, <2>1, <2>2, <2>3, <2>4 DEF TypeOK
<1>7. PostInv'
  <2>. SUFFICES ASSUME NEW r \in Posts
                PROVE  /\ visibility'[r] = "absent" => /\ fanout'[r].at = "absent"
                                                        /\ \A u \in Users : <<u, r>> \notin feed'
                       /\ visibility'[r] # "absent" => <<Author[r], r>> \in feed'
    BY DEF PostInv
  <2>1. CASE r = p
    BY <1>1, <1>4, <2>1
  <2>2. CASE r # p
    BY <1>1, <1>4, <2>2 DEF PostInv
  <2>. QED
    BY <2>1, <2>2
<1>8. TxInv'
  <2>1. \A a : PostsOf(a) \subseteq PostsOf(a)'
    BY <1>1, <1>4 DEF PostsOf
  <2>2. \A q \in Pairs, r \in Posts :
           Author[r] = q[2] /\ <<q[1], r>> \in feed' => <<q[1], r>> \in feed
    BY <1>1, PairEnds
  <2>3. \A q \in Pairs : tx[q].posts \subseteq PostsOf(q[2])'
    BY <2>1 DEF TxInv
  <2>. QED
    BY <1>1, <2>2, <2>3 DEF TxInv
<1>9. EntriesHaveReason'
  <2>. SUFFICES ASSUME NEW r \in Posts, NEW u \in Users, u # Author[r],
                       <<u, r>> \in feed',
                       visibility'[r] = "private" \/ <<u, Author[r]>> \notin follows
                PROVE  <<u, r>> \in stale
    BY <1>1 DEF EntriesHaveReason, Followers
  <2>1. <<u, r>> \in feed /\ r # p
    BY <1>1, <1>5
  <2>. QED
    BY <1>4, <2>1 DEF EntriesHaveReason, Followers
<1>10. ServeInv'
  <2>. SUFFICES ASSUME NEW r \in Posts, r \notin deleted, visibility'[r] = "followers",
                       NEW u \in Users, <<u, Author[r]>> \in follows
                PROVE  /\ fanout'[r].at \in {"notifying", "done"} => <<u, r>> \in feed' \cup late
                       /\ fanout'[r].at = "feeding"
                             => <<u, r>> \in feed' \cup late \/ u \in fanout'[r].left
    BY <1>1 DEF ServeInv, Served, Followers
  <2>1. CASE r = p
    BY <1>4, <2>1
  <2>2. CASE r # p
    BY <1>1, <1>4, <2>2 DEF ServeInv, Served, Followers
  <2>. QED
    BY <2>1, <2>2
<1>11. JobInv'
  <2>. SUFFICES ASSUME NEW r \in Posts, NEW u \in Users
                PROVE  /\ postJobs[r][u] <= 1
                       /\ fanout'[r].at \in {"absent", "waiting", "claimed", "feeding"}
                             => postJobs[r][u] = 0
                       /\ fanout'[r].at = "notifying" /\ u \in fanout'[r].left
                             => postJobs[r][u] = 0
    BY <1>1 DEF JobInv
  <2>1. CASE r = p
    BY <1>4, <1>5, <2>1 DEF JobInv
  <2>2. CASE r # p
    BY <1>4, <2>2 DEF JobInv
  <2>. QED
    BY <2>1, <2>2
<1>. QED
  BY <1>6, <1>7, <1>8, <1>9, <1>10, <1>11

(* There are fewer posts to answer for. *)
LEMMA DeletePostStep ==
  ASSUME IInv, NEW p \in Posts, DeletePost(p)
  PROVE  IInv'
<1>. USE DEF IInv
<1>1. /\ deleted' = deleted \cup {p}
      /\ UNCHANGED <<follows, tx, visibility, postCount, feed, fanout, postJobs, late, stale>>
  BY DEF DeletePost, jobs
<1>2. TypeOK'
  BY <1>1 DEF TypeOK
<1>3. PostInv' /\ EntriesHaveReason' /\ JobInv'
  BY <1>1 DEF PostInv, EntriesHaveReason, JobInv, Followers
<1>4. TxInv'
  BY <1>1 DEF TxInv, PostsOf
<1>5. ServeInv'
  BY <1>1 DEF ServeInv, Served, Followers
<1>. QED
  BY <1>2, <1>3, <1>4, <1>5

(* The fan-out knows of an unfollow only what tx says: an entry it writes  *)
(* for someone who is leaving is one that the DELETE has passed by.        *)
LEMMA InsertEntryStep ==
  ASSUME IInv, NEW p \in Posts, NEW u \in Users, InsertEntry(p, u)
  PROVE  IInv'
<1>. USE DEF IInv
<1>1. /\ fanout[p].at = "feeding"
      /\ feed' = feed \cup {<<u, p>>}
      /\ OutOfReach(u, p) => <<u, p>> \in stale'
      /\ stale \subseteq stale' /\ stale' \subseteq stale \cup {<<u, p>>}
      /\ UNCHANGED <<follows, tx, visibility, deleted, postCount, postJobs, late>>
  BY DEF InsertEntry, posts
<1>. DEFINE x == [at |-> "feeding", list |-> fanout[p].list,
                  left |-> fanout[p].left \ {u}, tries |-> fanout[p].tries]
<1>2. fanout[p] \in Fanouts /\ fanout[p].at = "feeding" /\ u \in fanout[p].left
  BY DEF TypeOK, InsertEntry
<1>3. x \in Fanouts /\ x.at = "feeding" /\ x.left = fanout[p].left \ {u}
  BY <1>1, <1>2 DEF Fanouts
<1>4. fanout' = [fanout EXCEPT ![p] = x]
  <2>1. x = [fanout[p] EXCEPT !.left = fanout[p].left \ {u}]
    <3>1. fanout[p] = [at |-> "feeding", list |-> fanout[p].list,
                       left |-> fanout[p].left, tries |-> fanout[p].tries]
      BY <1>2 DEF Fanouts
    <3>. QED
      BY <3>1
  <2>. QED
    BY <2>1 DEF InsertEntry, TypeOK
<1>. HIDE DEF x
<1>5. fanout'[p] = x /\ \A r \in Posts \ {p} : fanout'[r] = fanout[r]
  BY <1>4 DEF TypeOK
<1>6. TypeOK'
  <2>1. feed' \subseteq Entries /\ stale' \subseteq Entries
    BY <1>1 DEF TypeOK, Entries
  <2>. QED
    BY <1>1, <1>3, <1>4, <2>1 DEF TypeOK
<1>7. PostInv'
  <2>1. visibility[p] # "absent"
    BY <1>1 DEF PostInv
  <2>. QED
    BY <1>1, <1>5, <2>1 DEF PostInv
<1>8. TxInv'
  <2>. SUFFICES ASSUME NEW q \in Pairs
                PROVE  /\ tx[q].posts \subseteq PostsOf(q[2])
                       /\ tx[q].at = "follow" => tx[q].seen \ deleted \subseteq tx[q].posts
                       /\ tx[q].at = "unfollow" =>
                             \A r \in Posts : Author[r] = q[2] /\ <<q[1], r>> \in feed'
                                => r \in tx[q].posts \/ <<q[1], r>> \in stale'
    BY <1>1 DEF TxInv, PostsOf
  <2>1. ASSUME tx[q].at = "unfollow", Author[p] = q[2], q[1] = u
        PROVE  <<u, p>> \in stale'
    <3>1. q = <<u, Author[p]>>
      BY <2>1, PairEnds
    <3>. QED
      BY <1>1, <2>1, <3>1 DEF OutOfReach, Unfollowing
  <2>. QED
    BY <1>1, <2>1 DEF TxInv
<1>9. EntriesHaveReason'
  <2>. SUFFICES ASSUME NEW r \in Posts, NEW w \in Users, w # Author[r],
                       <<w, r>> \in feed',
                       visibility[r] = "private" \/ <<w, Author[r]>> \notin follows
                PROVE  <<w, r>> \in stale'
    BY <1>1 DEF EntriesHaveReason, Followers
  <2>1. CASE <<w, r>> \in feed
    BY <1>1, <2>1 DEF EntriesHaveReason, Followers
  <2>2. CASE w = u /\ r = p
    BY <1>1, <2>2 DEF OutOfReach, Unfollowing
  <2>. QED
    BY <1>1, <2>1, <2>2
<1>10. ServeInv'
  <2>. SUFFICES ASSUME NEW r \in Posts, r \notin deleted, visibility[r] = "followers",
                       NEW w \in Users, <<w, Author[r]>> \in follows
                PROVE  /\ fanout'[r].at \in {"notifying", "done"} => <<w, r>> \in feed' \cup late
                       /\ fanout'[r].at = "feeding"
                             => <<w, r>> \in feed' \cup late \/ w \in fanout'[r].left
    BY <1>1 DEF ServeInv, Served, Followers
  <2>1. CASE r = p
    BY <1>1, <1>3, <1>5, <2>1 DEF ServeInv, Served, Followers
  <2>2. CASE r # p
    BY <1>1, <1>5, <2>2 DEF ServeInv, Served, Followers
  <2>. QED
    BY <2>1, <2>2
<1>11. JobInv'
  <2>. SUFFICES ASSUME NEW r \in Posts, NEW w \in Users
                PROVE  /\ postJobs[r][w] <= 1
                       /\ fanout'[r].at \in {"absent", "waiting", "claimed", "feeding"}
                             => postJobs[r][w] = 0
                       /\ fanout'[r].at = "notifying" /\ w \in fanout'[r].left
                             => postJobs[r][w] = 0
    BY <1>1 DEF JobInv
  <2>1. CASE r = p
    BY <1>1, <1>3, <1>5, <2>1 DEF JobInv
  <2>2. CASE r # p
    BY <1>5, <2>2 DEF JobInv
  <2>. QED
    BY <2>1, <2>2
<1>. QED
  BY <1>6, <1>7, <1>8, <1>9, <1>10, <1>11

-----------------------------------------------------------------------------
LEMMA NextIInv == IInv /\ [Next]_vars => IInv'
<1>. SUFFICES ASSUME IInv, [Next]_vars PROVE IInv'
  OBVIOUS
<1>1. CASE UNCHANGED vars
  <2>1. UNCHANGED <<follows, tx, visibility, deleted, postCount, feed, fanout,
                    postJobs, late, stale>>
    BY <1>1 DEF vars, posts, jobs
  <2>2. TypeOK' /\ PostInv' /\ JobInv'
    BY <2>1 DEF IInv, TypeOK, PostInv, JobInv
  <2>3. TxInv'
    BY <2>1 DEF IInv, TxInv, PostsOf
  <2>4. EntriesHaveReason' /\ ServeInv'
    BY <2>1 DEF IInv, EntriesHaveReason, ServeInv, Served, Followers
  <2>. QED
    BY <2>2, <2>3, <2>4 DEF IInv
<1>2. ASSUME NEW p \in Posts, NEW v \in {"followers", "private"}, CreatePost(p, v) PROVE IInv'
  BY <1>2, CreatePostStep
<1>3. ASSUME NEW p \in Posts, DeletePost(p) PROVE IInv'
  BY <1>3, DeletePostStep
<1>4. ASSUME NEW p \in Posts, ClaimFanout(p) PROVE IInv'
  BY <1>4, ClaimFanoutStep
<1>5. ASSUME NEW p \in Posts, ReadFollowers(p) PROVE IInv'
  BY <1>5, ReadFollowersStep
<1>6. ASSUME NEW p \in Posts, EntriesWritten(p) PROVE IInv'
  BY <1>6, EntriesWrittenStep
<1>7. ASSUME NEW p \in Posts, FanoutDone(p) PROVE IInv'
  BY <1>7, FanoutDoneStep
<1>8. ASSUME NEW p \in Posts, FanoutFails(p) PROVE IInv'
  BY <1>8, FanoutFailsStep
<1>9. ASSUME NEW p \in Posts, WorkerLost(p) PROVE IInv'
  BY <1>9, WorkerLostStep
<1>10. ASSUME NEW p \in Posts, NEW u \in Users, InsertEntry(p, u) PROVE IInv'
  BY <1>10, InsertEntryStep
<1>11. ASSUME NEW p \in Posts, NEW u \in Users, NotifyFollower(p, u) PROVE IInv'
  BY <1>11, NotifyFollowerStep
<1>12. ASSUME NEW q \in Pairs, BeginFollow(q) PROVE IInv'
  BY <1>12, BeginFollowStep
<1>13. ASSUME NEW q \in Pairs, BeginUnfollow(q) PROVE IInv'
  BY <1>13, BeginUnfollowStep
<1>14. ASSUME NEW q \in Pairs, CommitFollow(q) PROVE IInv'
  BY <1>14, CommitFollowStep
<1>15. ASSUME NEW q \in Pairs, CommitUnfollow(q) PROVE IInv'
  BY <1>15, CommitUnfollowStep
<1>16. ASSUME NEW q \in Pairs, Rollback(q) PROVE IInv'
  BY <1>16, RollbackStep
<1>. QED
  BY <1>1, <1>2, <1>3, <1>4, <1>5, <1>6, <1>7, <1>8, <1>9, <1>10, <1>11, <1>12,
     <1>13, <1>14, <1>15, <1>16 DEF Next

LEMMA SpecIInv == Spec => []IInv
<1>1. Init => IInv
  BY InitIInv
<1>2. IInv /\ [Next]_vars => IInv'
  BY NextIInv
<1>. QED
  BY <1>1, <1>2, PTL DEF Spec

(* Every variable keeps its type. *)
THEOREM TypeCorrect == Spec => []TypeOK
<1>1. IInv => TypeOK
  BY DEF IInv
<1>. QED
  BY <1>1, SpecIInv, PTL

(* Once the fan-out of a post is done, its author and all the followers    *)
(* have it in the feed, but for those who were late: create_post,          *)
(* handle_feed_fanout and the transactions of follow and unfollow, in any  *)
(* order, with any failures and retries of the job.                        *)
THEOREM FollowersAreServed == Spec => []FollowersServed
<1>1. IInv => FollowersServed
  BY DEF IInv, PostInv, ServeInv, Served, FollowersServed, Shown, Followers
<1>. QED
  BY <1>1, SpecIInv, PTL

(* A backfill and an unfollow never leave in a feed a post of someone not  *)
(* followed, or a private one: only a fan-out does.                        *)
THEOREM EntriesAreExplained == Spec => []EntriesHaveReason
<1>1. IInv => EntriesHaveReason
  BY DEF IInv
<1>. QED
  BY <1>1, SpecIInv, PTL

(* handle_feed_fanout enqueues no second new_post for the same follower,   *)
(* whatever is retried.                                                    *)
THEOREM FollowersAreNotifiedOnce == Spec => []NotifiedOncePerPost
<1>1. IInv => NotifiedOncePerPost
  BY DEF IInv, JobInv, NotifiedOncePerPost
<1>. QED
  BY <1>1, SpecIInv, PTL

-----------------------------------------------------------------------------
(* What a step does to one job, as JobLifecycle sees it: Moves(p) is       *)
(* Lifecycle!JobStep(p) with the mapping carried out.                      *)
Moves(p) ==
    \/ JobStatus(p)' = JobStatus(p) /\ fanout'[p].tries = fanout[p].tries
    \/ /\ fanout[p].at = "absent" /\ fanout'[p].at = "waiting"
       /\ fanout'[p].tries = fanout[p].tries
    \/ /\ fanout[p].at = "waiting" /\ JobStatus(p)' = "held"
       /\ fanout'[p].tries = fanout[p].tries + 1
    \/ /\ JobStatus(p) = "held"
       /\ \/ JobStatus(p)' \in {"completed", "waiting", "lost"}
          \/ JobStatus(p)' = "dead" /\ fanout[p].tries >= MaxAttempts
       /\ fanout'[p].tries = fanout[p].tries

LEMMA StagesOfOthers ==
  ASSUME TypeOK, NEW p \in Posts, NEW q \in Posts, q # p,
         \E x : fanout' = [fanout EXCEPT ![p] = x]
  PROVE  Moves(q)
<1>1. fanout'[q] = fanout[q]
  BY DEF TypeOK
<1>. QED
  BY <1>1 DEF Moves, JobStatus

(* The stage changes and nothing else. *)
LEMMA StageOf ==
  ASSUME TypeOK, NEW p \in Posts, NEW s, fanout' = [fanout EXCEPT ![p].at = s]
  PROVE  /\ fanout'[p].at = s /\ fanout'[p].tries = fanout[p].tries
         /\ \E x : fanout' = [fanout EXCEPT ![p] = x]
BY DEF TypeOK, Fanouts

LEMMA FanoutMoves ==
  ASSUME IInv, NEW p \in Posts,
         \/ \E v \in {"followers", "private"} : CreatePost(p, v)
         \/ ClaimFanout(p) \/ ReadFollowers(p) \/ EntriesWritten(p) \/ FanoutDone(p)
         \/ FanoutFails(p) \/ WorkerLost(p)
         \/ \E u \in Users : InsertEntry(p, u) \/ NotifyFollower(p, u)
  PROVE  Moves(p) /\ \E x : fanout' = [fanout EXCEPT ![p] = x]
<1>. USE DEF IInv, JobStatus, Moves
<1>1. ASSUME NEW v \in {"followers", "private"}, CreatePost(p, v)
      PROVE  Moves(p) /\ \E x : fanout' = [fanout EXCEPT ![p] = x]
  <2>1. fanout[p].at = "absent"
    BY <1>1 DEF CreatePost, PostInv
  <2>. QED
    BY <1>1, <2>1, StageOf DEF CreatePost
<1>2. CASE ClaimFanout(p)
  BY <1>2 DEF ClaimFanout, TypeOK, Fanouts
<1>3. CASE ReadFollowers(p)
  BY <1>3 DEF ReadFollowers, TypeOK, Fanouts
<1>4. CASE EntriesWritten(p)
  <2>1. fanout' = [fanout EXCEPT ![p] = [fanout[p] EXCEPT !.at = "notifying",
                                                          !.left = fanout[p].list]]
    BY <1>4 DEF EntriesWritten, TypeOK
  <2>2. fanout'[p].at = "notifying" /\ fanout'[p].tries = fanout[p].tries
    BY <2>1 DEF TypeOK, Fanouts
  <2>. QED
    BY <1>4, <2>1, <2>2 DEF EntriesWritten
<1>5. CASE FanoutDone(p)
  BY <1>5, StageOf DEF FanoutDone
<1>6. CASE FanoutFails(p)
  BY <1>6, StageOf DEF FanoutFails, AfterFailure, CanFail
<1>7. CASE WorkerLost(p)
  BY <1>7, StageOf DEF WorkerLost
<1>8. ASSUME NEW u \in Users, InsertEntry(p, u)
      PROVE  Moves(p) /\ \E x : fanout' = [fanout EXCEPT ![p] = x]
  BY <1>8 DEF InsertEntry, TypeOK, Fanouts
<1>9. ASSUME NEW u \in Users, NotifyFollower(p, u)
      PROVE  Moves(p) /\ \E x : fanout' = [fanout EXCEPT ![p] = x]
  <2>1. fanout' = [fanout EXCEPT ![p].left = fanout[p].left \ {u}]
    BY <1>9 DEF NotifyFollower
  <2>. QED
    BY <2>1 DEF TypeOK, Fanouts
<1>. QED
  BY <1>1, <1>2, <1>3, <1>4, <1>5, <1>6, <1>7, <1>8, <1>9

LEMMA FanoutStays ==
  ASSUME UNCHANGED fanout, NEW p \in Posts
  PROVE  Moves(p)
BY DEF Moves, JobStatus

LEMMA NextMoves ==
  ASSUME IInv, Next, NEW q \in Posts
  PROVE  Moves(q)
<1>1. ASSUME NEW p \in Posts,
             \/ \E v \in {"followers", "private"} : CreatePost(p, v)
             \/ ClaimFanout(p) \/ ReadFollowers(p) \/ EntriesWritten(p) \/ FanoutDone(p)
             \/ FanoutFails(p) \/ WorkerLost(p)
             \/ \E u \in Users : InsertEntry(p, u) \/ NotifyFollower(p, u)
      PROVE  Moves(q)
  <2>1. Moves(p) /\ \E x : fanout' = [fanout EXCEPT ![p] = x]
    BY <1>1, FanoutMoves
  <2>2. CASE q = p
    BY <2>1, <2>2
  <2>3. CASE q # p
    BY <2>1, <2>3, StagesOfOthers DEF IInv
  <2>. QED
    BY <2>2, <2>3
<1>2. ASSUME NEW p \in Posts, DeletePost(p) PROVE Moves(q)
  BY <1>2, FanoutStays DEF DeletePost, jobs
<1>3. ASSUME NEW r \in Pairs,
             \/ BeginFollow(r) \/ BeginUnfollow(r)
             \/ CommitFollow(r) \/ CommitUnfollow(r) \/ Rollback(r)
      PROVE  Moves(q)
  BY <1>3, FanoutStays
     DEF BeginFollow, BeginUnfollow, CommitFollow, CommitUnfollow, Rollback, jobs
<1>. QED
  BY <1>1, <1>2, <1>3 DEF Next

(* The fan-out's job implements the abstract life of a job that JobQueue   *)
(* implements: it is submitted once, with its post, tried again only after *)
(* a failure, given up only when its attempts are used up, and what is     *)
(* lost with a worker stays lost.                                          *)
THEOREM FanoutImplementsLifecycle == Spec => ImplementsLifecycle
<1>. DEFINE st == [p \in Posts |-> JobStatus(p)]
            tr == [p \in Posts |-> fanout[p].tries]
<1>1. Init => Lifecycle!Init
  BY DEF Init, Lifecycle!Init, JobStatus
<1>2. IInv /\ IInv' /\ [Next]_vars => [Lifecycle!Next]_Lifecycle!vars
  <2>. SUFFICES ASSUME IInv, IInv', [Next]_vars
                PROVE  Lifecycle!Next \/ UNCHANGED Lifecycle!vars
    OBVIOUS
  <2>1. CASE Next
    <3>1. \A p \in Posts : Moves(p)
      BY <2>1, NextMoves
    <3>2. \A p \in Posts : /\ st[p] = JobStatus(p) /\ st'[p] = JobStatus(p)'
                           /\ tr[p] = fanout[p].tries /\ tr'[p] = fanout'[p].tries
      OBVIOUS
    <3>3. st' \in [Posts -> Lifecycle!Statuses] /\ tr' \in [Posts -> Nat]
      BY DEF IInv, TypeOK, Fanouts, Stages, JobStatus, Lifecycle!Statuses
    <3>. HIDE DEF st, tr
    <3>4. ASSUME NEW p \in Posts
          PROVE  Lifecycle!JobStep(p)
      <4>1. Moves(p) /\ st[p] = JobStatus(p) /\ st'[p] = JobStatus(p)'
        BY <3>1, <3>2
      <4>2. tr[p] = fanout[p].tries /\ tr'[p] = fanout'[p].tries
        BY <3>2
      <4>. QED
        BY <4>1, <4>2 DEF st, tr, Moves, JobStatus, Lifecycle!JobStep, Lifecycle!Becomes,
           Lifecycle!Submit, Lifecycle!Take, Lifecycle!Succeed, Lifecycle!Fail,
           Lifecycle!Lose, Lifecycle!Renew, Lifecycle!Keep, Lifecycle!Settled
    <3>. QED
      BY <3>3, <3>4 DEF st, tr, Lifecycle!Next
  <2>2. CASE UNCHANGED vars
    <3>1. UNCHANGED fanout
      BY <2>2 DEF vars, jobs
    <3>. QED
      BY <3>1 DEF Lifecycle!vars, JobStatus
  <2>. QED
    BY <2>1, <2>2
<1>. QED
  BY <1>1, <1>2, SpecIInv, PTL DEF Spec, ImplementsLifecycle, Lifecycle!Spec

HIDE HomeFeedAssumption

-----------------------------------------------------------------------------
(* Cursor.                                                                 *)

(* Every nonempty set of naturals has a least element: what fails for some *)
(* length fails for a first one.                                           *)
LEMMA LeastNatural ==
  ASSUME NEW T \in SUBSET Nat, T # {}
  PROVE  \E m \in T : \A k \in T : m <= k
<1>1. IsWellFoundedOn(OpToRel(<, Nat), Nat)
  BY NatLessThanWellFounded
<1>2. \A x, y \in Nat : <<y, x>> \in OpToRel(<, Nat) <=> y < x
  BY DEF OpToRel
<1>3. PICK R : /\ IsWellFoundedOn(R, Nat)
               /\ \A x, y \in Nat : <<y, x>> \in R <=> y < x
  BY <1>1, <1>2, Zenon
<1>4. PICK m \in T : \A k \in T : <<k, m>> \notin R
  BY <1>3, WFMin
<1>5. ASSUME NEW k \in T
      PROVE  m <= k
  <2>1. k \in Nat /\ m \in Nat
    OBVIOUS
  <2>2. ~(k < m)
    BY <1>3, <1>4, <2>1, Zenon
  <2>. QED
    BY <2>1, <2>2
<1>. QED
  BY <1>5


(* The loop of base64_decode is defined after any number of characters.    *)
Loops(f, chars, k) ==
    f = [n \in 0 .. k |-> IF n = 0 THEN NoBits ELSE Accumulate(f[n - 1], chars[n])]

LEMMA LoopDefined ==
  ASSUME NEW chars, NEW k \in Nat
  PROVE  \E f : Loops(f, chars, k)
<1>. DEFINE Bad == {m \in Nat : ~ \E f : Loops(f, chars, m)}
<1>. SUFFICES ASSUME k \in Bad PROVE FALSE
  OBVIOUS
<1>1. PICK m \in Bad : \A l \in Bad : m <= l
  <2>1. Bad \in SUBSET Nat /\ Bad # {}
    OBVIOUS
  <2>. HIDE DEF Bad
  <2>. QED
    BY <2>1, LeastNatural
<1>2. CASE m = 0
  <2>1. Loops([n \in 0 .. 0 |-> NoBits], chars, 0)
    BY DEF Loops
  <2>. QED
    BY <1>2, <2>1
<1>3. CASE m # 0
  <2>1. m - 1 \in Nat /\ m \in Nat /\ ~(m <= m - 1)
    BY <1>3
  <2>2. PICK g : Loops(g, chars, m - 1)
    BY <1>1, <2>1
  <2>. DEFINE f == [n \in 0 .. m |-> IF n = m THEN Accumulate(g[m - 1], chars[m]) ELSE g[n]]
  <2>3. \A n \in 0 .. m - 1 :
           g[n] = IF n = 0 THEN NoBits ELSE Accumulate(g[n - 1], chars[n])
    BY <2>2 DEF Loops
  <2>4. \A n \in 0 .. m :
           f[n] = IF n = 0 THEN NoBits ELSE Accumulate(f[n - 1], chars[n])
    BY <1>3, <2>1, <2>3
  <2>5. f = [n \in 0 .. m |-> f[n]]
    OBVIOUS
  <2>. HIDE DEF f
  <2>6. Loops(f, chars, m)
    BY <2>4, <2>5 DEF Loops
  <2>. QED
    BY <2>6
<1>. QED
  BY <1>2, <1>3

LEMMA LoopResult ==
  ASSUME NEW chars, Len(chars) \in Nat
  PROVE  \E f : Loops(f, chars, Len(chars)) /\ Accumulated(chars) = f[Len(chars)]
<1>. DEFINE loop == CHOOSE f : Loops(f, chars, Len(chars))
<1>1. Loops(loop, chars, Len(chars))
  BY LoopDefined
<1>2. Accumulated(chars) = loop[Len(chars)]
  BY DEF Accumulated, Loops
<1>. QED
  BY <1>1, <1>2

-----------------------------------------------------------------------------
(* What each character adds to the bits that are left over: x, y and z are *)
(* the bytes before it, that end with it, and after it.                    *)
LEMMA FirstBits ==
  ASSUME NEW o, NEW x \in Bytes
  PROVE  Accumulate([out |-> o, accum |-> 0, bits |-> 0], x \div 4)
            = [out |-> o, accum |-> x \div 4, bits |-> 6]
BY DEF Accumulate, Bytes

LEMMA FirstByte ==
  ASSUME NEW o, NEW x \in Bytes, NEW y \in Bytes
  PROVE  Accumulate([out |-> o, accum |-> x \div 4, bits |-> 6], (x % 4) * 16 + y \div 16)
            = [out |-> Append(o, x), accum |-> y \div 16, bits |-> 4]
<1>. DEFINE a == 64 * (x \div 4) + ((x % 4) * 16 + y \div 16)
<1>1. 2 ^ ((6 + 6) - 8) = 16
  OBVIOUS
<1>2. (a \div 16) % 256 = x /\ a % 16 = y \div 16
  BY DEF Bytes
<1>. HIDE DEF a
<1>3. Accumulate([out |-> o, accum |-> x \div 4, bits |-> 6], (x % 4) * 16 + y \div 16)
        = [out |-> Append(o, (a \div 16) % 256), accum |-> a % 16, bits |-> 4]
  BY <1>1 DEF Accumulate, a
<1>. QED
  BY <1>2, <1>3

LEMMA SecondByte ==
  ASSUME NEW o, NEW x \in Bytes, NEW y \in Bytes
  PROVE  Accumulate([out |-> o, accum |-> x \div 16, bits |-> 4], (x % 16) * 4 + y \div 64)
            = [out |-> Append(o, x), accum |-> y \div 64, bits |-> 2]
<1>. DEFINE a == 64 * (x \div 16) + ((x % 16) * 4 + y \div 64)
<1>1. 2 ^ ((4 + 6) - 8) = 4
  OBVIOUS
<1>2. (a \div 4) % 256 = x /\ a % 4 = y \div 64
  BY DEF Bytes
<1>. HIDE DEF a
<1>3. Accumulate([out |-> o, accum |-> x \div 16, bits |-> 4], (x % 16) * 4 + y \div 64)
        = [out |-> Append(o, (a \div 4) % 256), accum |-> a % 4, bits |-> 2]
  BY <1>1 DEF Accumulate, a
<1>. QED
  BY <1>2, <1>3

LEMMA ThirdByte ==
  ASSUME NEW o, NEW x \in Bytes
  PROVE  Accumulate([out |-> o, accum |-> x \div 64, bits |-> 2], x % 64)
            = [out |-> Append(o, x), accum |-> 0, bits |-> 0]
<1>. DEFINE a == 64 * (x \div 64) + (x % 64)
<1>1. 2 ^ ((2 + 6) - 8) = 1
  OBVIOUS
<1>2. (a \div 1) % 256 = x /\ a % 1 = 0
  BY DEF Bytes
<1>. HIDE DEF a
<1>3. Accumulate([out |-> o, accum |-> x \div 64, bits |-> 2], x % 64)
        = [out |-> Append(o, (a \div 1) % 256), accum |-> a % 1, bits |-> 0]
  BY <1>1 DEF Accumulate, a
<1>. QED
  BY <1>2, <1>3

-----------------------------------------------------------------------------
LEMMA ByteRange ==
  ASSUME NEW b \in Seq(Bytes), NEW i \in Nat \ {0}
  PROVE  ByteAt(b, i) \in Bytes /\ (i <= Len(b) => ByteAt(b, i) = b[i])
<1>1. CASE i <= Len(b)
  <2>1. i \in 1 .. Len(b)
    BY <1>1
  <2>2. b[i] \in Bytes
    BY <2>1
  <2>. QED
    BY <1>1, <2>2 DEF ByteAt
<1>2. CASE ~(i <= Len(b))
  BY <1>2 DEF ByteAt, Bytes
<1>. QED
  BY <1>1, <1>2

(* The four characters of a chunk of one to three bytes.                   *)
LEMMA ChunkCharacters ==
  ASSUME NEW b \in Seq(Bytes), NEW q \in Nat, 3 * q < Len(b)
  PROVE  LET c == Base64Encode(b)
             x == ByteAt(b, 3 * q + 1)
             y == ByteAt(b, 3 * q + 2)
             z == ByteAt(b, 3 * q + 3)
         IN  /\ 4 * q + 4 <= 4 * ((Len(b) + 2) \div 3)
             /\ c[4 * q + 1] = x \div 4
             /\ c[4 * q + 2] = (x % 4) * 16 + y \div 16
             /\ c[4 * q + 3] = IF 3 * q + 2 <= Len(b) THEN (y % 16) * 4 + z \div 64 ELSE Pad
             /\ c[4 * q + 4] = IF 3 * q + 3 <= Len(b) THEN z % 64 ELSE Pad
<1>. DEFINE L == Len(b)
            N == 4 * ((L + 2) \div 3)
            Q == Quad(ByteAt(b, 3 * q + 1), ByteAt(b, 3 * q + 2), ByteAt(b, 3 * q + 3), L - 3 * q)
<1>1. L \in Nat /\ 4 * q + 4 <= N /\ N \in Nat
  OBVIOUS
<1>2. \A r \in 0 .. 3 : Base64Encode(b)[4 * q + 1 + r] = Q[1 + r]
  <2>. SUFFICES ASSUME NEW r \in 0 .. 3
                PROVE  Base64Encode(b)[4 * q + 1 + r] = Q[1 + r]
    OBVIOUS
  <2>. DEFINE n == 4 * q + 1 + r
  <2>1. n \in 1 .. N /\ (n - 1) \div 4 = q /\ (n - 1) % 4 = r
    BY <1>1
  <2>. HIDE DEF n
  <2>2. Base64Encode(b)[n] = Q[1 + r]
    BY <2>1 DEF Base64Encode
  <2>. QED
    BY <2>2 DEF n
<1>3. \A r \in 0 .. 3 : 4 * q + 1 + r = 4 * q + (r + 1)
  OBVIOUS
<1>4. /\ Base64Encode(b)[4 * q + 1] = Q[1] /\ Base64Encode(b)[4 * q + 2] = Q[2]
      /\ Base64Encode(b)[4 * q + 3] = Q[3] /\ Base64Encode(b)[4 * q + 4] = Q[4]
  BY <1>2, <1>3
<1>. QED
  BY <1>1, <1>4 DEF Quad

(* The characters of 3 * q + r bytes that are not padding come first: this *)
(* is their number.                                                        *)
Kept(q, r) == IF r = 0 THEN 4 * q ELSE 4 * q + r + 1

LEMMA Characters ==
  ASSUME NEW b \in Seq(Bytes), NEW q \in Nat, NEW r \in 0 .. 2, Len(b) = 3 * q + r,
         NEW i \in 1 .. 4 * ((Len(b) + 2) \div 3)
  PROVE  /\ Base64Encode(b)[i] \in 0 .. Pad
         /\ Base64Encode(b)[i] # Pad <=> i <= Kept(q, r)
<1>. DEFINE c == Base64Encode(b)
            L == Len(b)
<1>1. PICK p \in Nat, s \in 0 .. 3 : i = 4 * p + 1 + s
  <2>1. (i - 1) \div 4 \in Nat /\ (i - 1) % 4 \in 0 .. 3
        /\ i = 4 * ((i - 1) \div 4) + 1 + ((i - 1) % 4)
    OBVIOUS
  <2>. QED
    BY <2>1
<1>2. L \in Nat /\ 3 * p < L
  BY <1>1
<1>. DEFINE x == ByteAt(b, 3 * p + 1)
            y == ByteAt(b, 3 * p + 2)
            z == ByteAt(b, 3 * p + 3)
<1>3. x \in Bytes /\ y \in Bytes /\ z \in Bytes
  BY ByteRange
<1>4. /\ c[4 * p + 1] = x \div 4
      /\ c[4 * p + 2] = (x % 4) * 16 + y \div 16
      /\ c[4 * p + 3] = IF 3 * p + 2 <= L THEN (y % 16) * 4 + z \div 64 ELSE Pad
      /\ c[4 * p + 4] = IF 3 * p + 3 <= L THEN z % 64 ELSE Pad
  BY <1>2, ChunkCharacters
<1>. HIDE DEF x, y, z
<1>5. PICK v1, v2, v3, v4 \in 0 .. 63 :
        /\ v1 = x \div 4 /\ v2 = (x % 4) * 16 + y \div 16
        /\ v3 = (y % 16) * 4 + z \div 64 /\ v4 = z % 64
  <2>1. /\ x \div 4 \in 0 .. 63 /\ (x % 4) * 16 + y \div 16 \in 0 .. 63
        /\ (y % 16) * 4 + z \div 64 \in 0 .. 63 /\ z % 64 \in 0 .. 63
    BY <1>3 DEF Bytes
  <2>. QED
    BY <2>1
<1>6. /\ s \in {0, 1} => i <= Kept(q, r)
      /\ s = 2 => (3 * p + 2 <= L <=> i <= Kept(q, r))
      /\ s = 3 => (3 * p + 3 <= L <=> i <= Kept(q, r))
  BY <1>1, <1>2 DEF Kept
<1>. HIDE DEF c, L
<1>7. /\ s = 0 => c[i] = v1
      /\ s = 1 => c[i] = v2
      /\ s = 2 => c[i] = IF 3 * p + 2 <= L THEN v3 ELSE Pad
      /\ s = 3 => c[i] = IF 3 * p + 3 <= L THEN v4 ELSE Pad
  <2>1. /\ s = 0 => i = 4 * p + 1
        /\ s = 1 => i = 4 * p + 2
        /\ s = 2 => i = 4 * p + 3
        /\ s = 3 => i = 4 * p + 4
    BY <1>1
  <2>. QED
    BY <1>4, <1>5, <2>1, Zenon
<1>8. Pad \in 0 .. Pad /\ \A v \in 0 .. 63 : v \in 0 .. Pad /\ v # Pad
  BY DEF Pad
<1>9. c[i] \in 0 .. Pad /\ (c[i] # Pad <=> i <= Kept(q, r))
  <2>1. CASE s = 0
    BY <1>6, <1>7, <1>8, <2>1, Zenon
  <2>2. CASE s = 1
    BY <1>6, <1>7, <1>8, <2>2, Zenon
  <2>3. CASE s = 2
    BY <1>6, <1>7, <1>8, <2>3, Zenon
  <2>4. CASE s = 3
    BY <1>6, <1>7, <1>8, <2>4, Zenon
  <2>. QED
    BY <2>1, <2>2, <2>3, <2>4
<1>. QED
  BY <1>9 DEF c

(* Functions on 1 .. n are sequences.                                      *)
LEMMA PlainSequence ==
  ASSUME NEW S, NEW n \in Nat, NEW f \in [1 .. n -> S]
  PROVE  f \in Seq(S) /\ Len(f) = n
<1>1. f \in Seq(S)
  BY SeqDef
<1>2. DOMAIN f = 1 .. n /\ DOMAIN f = 1 .. Len(f) /\ Len(f) \in Nat
  BY <1>1, LenProperties
<1>. QED
  BY <1>1, <1>2

(* Decoding trims exactly the padding.                                     *)
LEMMA DecodeKept ==
  ASSUME NEW b \in Seq(Bytes), NEW q \in Nat, NEW r \in 0 .. 2, Len(b) = 3 * q + r, b # <<>>
  PROVE  LET c == Base64Encode(b)
         IN  /\ c \in Seq(0 .. Pad) /\ Kept(q, r) \in Nat /\ Kept(q, r) <= Len(c)
             /\ Base64Decode(c) = Accumulated(SubSeq(c, 1, Kept(q, r))).out
<1>. DEFINE c == Base64Encode(b)
            N == 4 * ((Len(b) + 2) \div 3)
            K == Kept(q, r)
            T == {0} \cup {i \in DOMAIN c : c[i] # Pad}
            kept == SubSeq(c, 1, K)
<1>1. N \in Nat /\ K \in 1 .. N
  <2>1. 3 * q + r > 0
    OBVIOUS
  <2>. QED
    BY <2>1 DEF Kept
<1>2. \A i \in 1 .. N : c[i] \in 0 .. Pad /\ (c[i] # Pad <=> i <= K)
  BY Characters
<1>3. DOMAIN c = 1 .. N /\ c = [i \in 1 .. N |-> c[i]]
  BY DEF Base64Encode
<1>4. c \in Seq(0 .. Pad) /\ Len(c) = N
  <2>. HIDE DEF c, N, K
  <2>1. c \in [1 .. N -> 0 .. Pad]
    BY <1>2, <1>3
  <2>. QED
    BY <1>1, <2>1, PlainSequence
<1>. HIDE DEF c, N, K
<1>5. Max(T) = K
  <2>1. K \in T /\ \A i \in T : i \in Int /\ K >= i
    BY <1>1, <1>2, <1>3
  <2>2. \A m \in T : (\A i \in T : m >= i) => m = K
    BY <2>1
  <2>. HIDE DEF T
  <2>. QED
    BY <2>1, <2>2 DEF Max
<1>6. DOMAIN kept = 1 .. K /\ \A i \in 1 .. K : kept[i] = c[i]
  BY <1>1, <1>4
<1>7. Pad \notin Range(kept)
  <2>. HIDE DEF kept
  <2>. QED
    BY <1>1, <1>2, <1>6 DEF Range
<1>8. Base64Decode(c) = Accumulated(kept).out
  BY <1>5, <1>7 DEF Base64Decode
<1>. QED
  BY <1>1, <1>4, <1>8 DEF c, K

-----------------------------------------------------------------------------
LEMMA Prefix ==
  ASSUME NEW S, NEW b \in Seq(S), NEW k \in Nat, k < Len(b)
  PROVE  Append(SubSeq(b, 1, k), b[k + 1]) = SubSeq(b, 1, k + 1)
<1>1. SubSeq(b, 1, k) \in Seq(S) /\ Len(SubSeq(b, 1, k)) = k
      /\ \A i \in 1 .. k : SubSeq(b, 1, k)[i] = b[i]
  <2>1. \A i \in 1 .. k : b[i] \in S
    BY ElementOfSeq
  <2>. QED
    BY <2>1, SubSeqProperties
<1>2. SubSeq(b, 1, k + 1) \in Seq(S) /\ Len(SubSeq(b, 1, k + 1)) = k + 1
      /\ \A i \in 1 .. k + 1 : SubSeq(b, 1, k + 1)[i] = b[i]
  <2>1. \A i \in 1 .. k + 1 : b[i] \in S
    BY ElementOfSeq
  <2>. QED
    BY <2>1, SubSeqProperties
<1>3. b[k + 1] \in S
  BY ElementOfSeq
<1>4. PICK u \in Seq(S) : u = SubSeq(b, 1, k) /\ Len(u) = k /\ \A i \in 1 .. k : u[i] = b[i]
  BY <1>1
<1>5. Append(u, b[k + 1]) \in Seq(S) /\ Len(Append(u, b[k + 1])) = k + 1
      /\ \A i \in 1 .. k + 1 : Append(u, b[k + 1])[i] = b[i]
  BY <1>3, <1>4
<1>. QED
  BY <1>2, <1>4, <1>5, SeqEqual

(* Where the loop is when it has k bytes, and over the characters of the   *)
(* chunk p.                                                                *)
Upto(b, k, accum, bits) == [out |-> SubSeq(b, 1, k), accum |-> accum, bits |-> bits]

Reads(f, chars, k) ==
    \A n \in Nat : n + 1 <= k => f[n + 1] = Accumulate(f[n], chars[n + 1])

LEMMA ChunkLoop ==
  ASSUME NEW b \in Seq(Bytes), NEW p \in Nat, 3 * p < Len(b), NEW c, c = Base64Encode(b),
         NEW f, NEW K \in Nat, Reads(f, c, K), 4 * p + 2 <= K, f[4 * p] = Upto(b, 3 * p, 0, 0)
  PROVE  /\ f[4 * p + 2].out = SubSeq(b, 1, 3 * p + 1)
         /\ 3 * p + 2 <= Len(b) /\ 4 * p + 3 <= K => f[4 * p + 3].out = SubSeq(b, 1, 3 * p + 2)
         /\ 3 * p + 3 <= Len(b) /\ 4 * p + 4 <= K => f[4 * p + 4] = Upto(b, 3 * p + 3, 0, 0)
<1>. DEFINE xx == ByteAt(b, 3 * p + 1)
            yy == ByteAt(b, 3 * p + 2)
            zz == ByteAt(b, 3 * p + 3)
<1>1. PICK x \in Bytes, y \in Bytes, z \in Bytes : x = xx /\ y = yy /\ z = zz
  BY ByteRange
<1>2. /\ x = b[3 * p + 1]
      /\ 3 * p + 2 <= Len(b) => y = b[3 * p + 2]
      /\ 3 * p + 3 <= Len(b) => z = b[3 * p + 3]
  BY <1>1, ByteRange
<1>3. /\ c[4 * p + 1] = x \div 4
      /\ c[4 * p + 2] = (x % 4) * 16 + y \div 16
      /\ c[4 * p + 3] = IF 3 * p + 2 <= Len(b) THEN (y % 16) * 4 + z \div 64 ELSE Pad
      /\ c[4 * p + 4] = IF 3 * p + 3 <= Len(b) THEN z % 64 ELSE Pad
  BY <1>1, ChunkCharacters
<1>4. /\ Append(SubSeq(b, 1, 3 * p), x) = SubSeq(b, 1, 3 * p + 1)
      /\ 3 * p + 2 <= Len(b) => Append(SubSeq(b, 1, 3 * p + 1), y) = SubSeq(b, 1, 3 * p + 2)
      /\ 3 * p + 3 <= Len(b) => Append(SubSeq(b, 1, 3 * p + 2), z) = SubSeq(b, 1, 3 * p + 3)
  <2>1. 3 * p \in Nat /\ 3 * p + 1 \in Nat /\ 3 * p + 2 \in Nat
        /\ (3 * p + 1) + 1 = 3 * p + 2 /\ (3 * p + 2) + 1 = 3 * p + 3 /\ Len(b) \in Nat
    OBVIOUS
  <2>2. Append(SubSeq(b, 1, 3 * p), b[3 * p + 1]) = SubSeq(b, 1, 3 * p + 1)
    BY <2>1, Prefix
  <2>3. 3 * p + 2 <= Len(b)
          => Append(SubSeq(b, 1, 3 * p + 1), b[(3 * p + 1) + 1]) = SubSeq(b, 1, (3 * p + 1) + 1)
    BY <2>1, Prefix
  <2>4. 3 * p + 3 <= Len(b)
          => Append(SubSeq(b, 1, 3 * p + 2), b[(3 * p + 2) + 1]) = SubSeq(b, 1, (3 * p + 2) + 1)
    BY <2>1, Prefix
  <2>. QED
    BY <1>2, <2>1, <2>2, <2>3, <2>4
<1>. HIDE DEF xx, yy, zz
<1>5. /\ f[4 * p + 1] = Accumulate(f[4 * p], c[4 * p + 1])
      /\ f[4 * p + 2] = Accumulate(f[4 * p + 1], c[4 * p + 2])
      /\ 4 * p + 3 <= K => f[4 * p + 3] = Accumulate(f[4 * p + 2], c[4 * p + 3])
      /\ 4 * p + 4 <= K => f[4 * p + 4] = Accumulate(f[4 * p + 3], c[4 * p + 4])
  <2>1. /\ 4 * p \in Nat /\ 4 * p + 1 \in Nat /\ 4 * p + 2 \in Nat /\ 4 * p + 3 \in Nat
        /\ (4 * p + 1) + 1 = 4 * p + 2 /\ (4 * p + 2) + 1 = 4 * p + 3 /\ (4 * p + 3) + 1 = 4 * p + 4
        /\ 4 * p + 1 <= K
    OBVIOUS
  <2>. QED
    BY <2>1 DEF Reads
<1>6. f[4 * p + 1] = Upto(b, 3 * p, x \div 4, 6)
  BY <1>3, <1>5, FirstBits DEF Upto
<1>7. f[4 * p + 2] = Upto(b, 3 * p + 1, y \div 16, 4)
  BY <1>3, <1>4, <1>5, <1>6, FirstByte DEF Upto
<1>8. ASSUME 3 * p + 2 <= Len(b), 4 * p + 3 <= K
      PROVE  f[4 * p + 3] = Upto(b, 3 * p + 2, z \div 64, 2)
  <2>1. Append(SubSeq(b, 1, 3 * p + 1), y) = SubSeq(b, 1, 3 * p + 2)
        /\ c[4 * p + 3] = (y % 16) * 4 + z \div 64
    BY <1>3, <1>4, <1>8, Zenon
  <2>2. f[4 * p + 3] = Accumulate([out |-> SubSeq(b, 1, 3 * p + 1), accum |-> y \div 16, bits |-> 4],
                                  (y % 16) * 4 + z \div 64)
    BY <1>5, <1>7, <1>8, <2>1, Zenon DEF Upto
  <2>3. f[4 * p + 3] = [out |-> Append(SubSeq(b, 1, 3 * p + 1), y), accum |-> z \div 64, bits |-> 2]
    BY <2>2, SecondByte
  <2>. QED
    BY <2>1, <2>3, Zenon DEF Upto
<1>9. ASSUME 3 * p + 3 <= Len(b), 4 * p + 4 <= K
      PROVE  f[4 * p + 4] = Upto(b, 3 * p + 3, 0, 0)
  <2>1. 3 * p + 2 <= Len(b) /\ 4 * p + 3 <= K
    BY <1>9
  <2>. QED
    BY <1>3, <1>4, <1>5, <1>8, <1>9, <2>1, ThirdByte DEF Upto
<1>10. \A k, m, n : Upto(b, k, m, n).out = SubSeq(b, 1, k)
  BY DEF Upto
<1>11. f[4 * p + 2].out = SubSeq(b, 1, 3 * p + 1)
  BY <1>7, <1>10, Zenon
<1>12. 3 * p + 2 <= Len(b) /\ 4 * p + 3 <= K => f[4 * p + 3].out = SubSeq(b, 1, 3 * p + 2)
  BY <1>8, <1>10, Zenon
<1>. QED
  BY <1>9, <1>11, <1>12

(* Decoding undoes encoding, for texts of every length.                    *)
LEMMA Base64RoundTrip ==
  ASSUME NEW b \in Seq(Bytes), b # <<>>
  PROVE  /\ Base64Encode(b) \in Seq(0 .. Pad) /\ Base64Encode(b) # <<>>
         /\ Base64Decode(Base64Encode(b)) = b
<1>. DEFINE c == Base64Encode(b)
            L == Len(b)
<1>1. PICK q \in Nat, r \in 0 .. 2 : L = 3 * q + r
  <2>1. L \in Nat
    OBVIOUS
  <2>2. L \div 3 \in Nat /\ L % 3 \in 0 .. 2 /\ L = 3 * (L \div 3) + (L % 3)
    BY <2>1
  <2>. QED
    BY <2>2
<1>. DEFINE K == Kept(q, r)
            s == SubSeq(c, 1, K)
<1>2. c \in Seq(0 .. Pad) /\ K \in Nat /\ K <= Len(c) /\ Base64Decode(c) = Accumulated(s).out
  BY <1>1, DecodeKept
<1>3. K # 0 /\ 4 * q <= K /\ (r = 0 => K = 4 * q) /\ (r = 1 => K = 4 * q + 2) /\ (r = 2 => K = 4 * q + 3)
  <2>1. 3 * q + r # 0
    BY <1>1
  <2>. QED
    BY <2>1 DEF Kept
<1>0. c = Base64Encode(b)
  OBVIOUS
<1>. HIDE DEF c, K
<1>4. Len(s) = K /\ \A n \in 1 .. K : s[n] = c[n]
  BY <1>2
<1>5. PICK f : Loops(f, s, K) /\ Accumulated(s) = f[K]
  <2>. HIDE DEF s
  <2>. QED
    BY <1>2, <1>4, LoopResult
<1>6. f[0] = NoBits /\ \A n \in 1 .. K : f[n] = Accumulate(f[n - 1], c[n])
  <2>. HIDE DEF s
  <2>1. \A n \in 0 .. K : f[n] = IF n = 0 THEN NoBits ELSE Accumulate(f[n - 1], s[n])
    BY <1>5 DEF Loops
  <2>. QED
    BY <1>2, <1>4, <2>1
<1>7. Reads(f, c, K)
  BY <1>2, <1>6 DEF Reads
<1>. HIDE DEF s
<1>8. \A p \in Nat : p <= q => f[4 * p] = Upto(b, 3 * p, 0, 0)
  <2>. DEFINE Bad == {p \in Nat : p <= q /\ f[4 * p] # Upto(b, 3 * p, 0, 0)}
  <2>. SUFFICES ASSUME Bad # {} PROVE FALSE
    OBVIOUS
  <2>1. PICK m \in Bad : \A k \in Bad : m <= k
    <3>1. Bad \in SUBSET Nat
      OBVIOUS
    <3>. HIDE DEF Bad
    <3>. QED
      BY <3>1, LeastNatural
  <2>2. CASE m = 0
    <3>1. SubSeq(b, 1, 0) = <<>>
      BY SubSeqEmpty
    <3>2. f[4 * 0] = Upto(b, 3 * 0, 0, 0)
      BY <1>6, <3>1 DEF Upto, NoBits
    <3>. QED
      BY <2>2, <3>2
  <2>3. CASE m # 0
    <3>1. PICK n \in Nat : m = n + 1
      <4>1. m - 1 \in Nat /\ m = (m - 1) + 1
        BY <2>3
      <4>. QED
        BY <4>1
    <3>2. n \notin Bad /\ n <= q
      BY <2>1, <3>1
    <3>3. f[4 * n] = Upto(b, 3 * n, 0, 0)
      BY <3>2
    <3>4. 4 * n + 4 <= K /\ 3 * n < L /\ 3 * n + 3 <= L
      BY <1>1, <1>2, <1>3, <3>1
    <3>5. f[4 * n + 4] = Upto(b, 3 * n + 3, 0, 0)
      <4>1. 4 * n + 1 <= K /\ 4 * n + 2 <= K /\ 4 * n + 3 <= K
        BY <1>2, <3>4
      <4>. QED
        BY <1>2, <1>7, <3>3, <3>4, <4>1, <1>0, ChunkLoop
    <3>6. 4 * n + 4 = 4 * m /\ 3 * n + 3 = 3 * m
      BY <3>1
    <3>. QED
      BY <3>5, <3>6
  <2>. QED
    BY <2>2, <2>3
<1>9. f[4 * q] = Upto(b, 3 * q, 0, 0)
  BY <1>8
<1>10. f[K].out = SubSeq(b, 1, L)
  <2>1. CASE r = 0
    BY <1>1, <1>3, <1>9, <2>1 DEF Upto
  <2>2. CASE r = 1
    <3>1. 3 * q < L /\ 4 * q + 1 <= K /\ 4 * q + 2 <= K /\ K = 4 * q + 2 /\ L = 3 * q + 1
      BY <1>1, <1>3, <2>2
    <3>. QED
      BY <1>2, <1>7, <1>9, <3>1, <1>0, ChunkLoop
  <2>3. CASE r = 2
    <3>1. 3 * q < L /\ 4 * q + 1 <= K /\ 4 * q + 2 <= K /\ 4 * q + 3 <= K /\ K = 4 * q + 3
          /\ L = 3 * q + 2 /\ 3 * q + 2 <= L
      BY <1>1, <1>3, <2>3
    <3>. QED
      BY <1>2, <1>7, <1>9, <3>1, <1>0, ChunkLoop
  <2>. QED
    BY <2>1, <2>2, <2>3
<1>11. Base64Decode(c) = b
  BY <1>2, <1>5, <1>10, SubSeqFull
<1>12. c # <<>>
  BY <1>2, <1>3
<1>. QED
  BY <1>2, <1>11, <1>12 DEF c

(* A cursor that the server has handed out comes back as the position it   *)
(* stands for, whatever the length of its text; it is never empty, and so  *)
(* never taken for the request of a first page.                            *)
THEOREM CursorsRoundTrip ==
  /\ \A p \in Positions : /\ EncodeCursor[p] \in Seq(0 .. Pad) \ {<<>>}
                          /\ DecodeCursor[EncodeCursor[p]] = {p}
  /\ DecodeCursor[<<>>] = {}
<1>1. DecodeCursor[<<>>] = {}
  BY DEF DecodeCursor, Cursors
<1>2. ASSUME NEW p \in Positions
      PROVE  /\ EncodeCursor[p] \in Seq(0 .. Pad) \ {<<>>}
             /\ DecodeCursor[EncodeCursor[p]] = {p}
  <2>1. PositionText[p] \in Seq(Bytes) /\ PositionText[p] # <<>>
    BY CursorAssumption
  <2>2. EncodeCursor[p] = Base64Encode(PositionText[p])
    BY DEF EncodeCursor
  <2>3. /\ EncodeCursor[p] \in Seq(0 .. Pad) /\ EncodeCursor[p] # <<>>
        /\ Base64Decode(EncodeCursor[p]) = PositionText[p]
    BY <2>1, <2>2, Base64RoundTrip
  <2>4. EncodeCursor[p] \in Cursors
    BY DEF Cursors
  <2>5. DecodeCursor[EncodeCursor[p]] = {q \in Positions : PositionText[q] = PositionText[p]}
    BY <2>3, <2>4, Zenon DEF DecodeCursor
  <2>6. {q \in Positions : PositionText[q] = PositionText[p]} = {p}
    BY CursorAssumption
  <2>. QED
    BY <2>3, <2>5, <2>6
<1>. QED
  BY <1>1, <1>2

-----------------------------------------------------------------------------
(* Paging.                                                                 *)

(* The item is one that the next request will not select.                  *)
Passed(i) ==
    IF list = "audit" THEN cursor # <<>> /\ key[i].time >= cursor[1]
    ELSE \E p \in DecodeCursor[cursor] : ~Below(key[i], p)

(* The cursor is one the server has handed out.                            *)
CursorInv ==
    list # "audit" => cursor = <<>> \/ \E p \in Positions : cursor = EncodeCursor[p]

(* What the history knows of the two orders of search_users.               *)
CrossedInv == Crossings \subseteq crossed /\ (list # "users" => crossed = {})

(* What has been shown is behind the cursor, and what is behind the cursor *)
(* has been shown, but for the two lists whose cursors do not determine a  *)
(* position in their order.                                                *)
ShownBehind ==
    walk = "walking" =>
        \A i \in Items \ rekeyed : shown[i] > 0 =>
            Passed(i) \/ \E j \in Items : shown[j] > 0 /\ Crossed(i, j)

NoneLeftOut ==
    walk = "walking" =>
        \A i \in stayed : Asked(i) /\ Passed(i) =>
            shown[i] > 0 \/ \E j \in Items : shown[j] > 0 /\ (Crossed(j, i) \/ Tied(i, j))

(* What was there all along has kept its key.                              *)
StayedInv == stayed \cap rekeyed = {} /\ (byActor => list = "audit")

PagingInv ==
    /\ PagingTypeOK /\ PagesPartition /\ CursorInv
    /\ CrossedInv /\ ShownBehind /\ NoneLeftOut /\ StayedInv

-----------------------------------------------------------------------------
(* Below is a total order of the positions.                                *)
LEMMA BelowOrder ==
  ASSUME NEW p \in [time : Nat, id : Nat], NEW q \in [time : Nat, id : Nat]
  PROVE  /\ ~Below(p, p)
         /\ Below(p, q) => ~Below(q, p)
         /\ Below(p, q) \/ Below(q, p) \/ p = q
         /\ \A r \in [time : Nat, id : Nat] : ~Below(p, r) /\ Below(q, r) => ~Below(p, q)
<1>1. /\ p.time \in Nat /\ p.id \in Nat /\ q.time \in Nat /\ q.id \in Nat
      /\ p.time = q.time /\ p.id = q.id => p = q
  OBVIOUS
<1>2. ASSUME NEW r \in [time : Nat, id : Nat]
      PROVE  ~Below(p, r) /\ Below(q, r) => ~Below(p, q)
  <2>1. r.time \in Nat /\ r.id \in Nat
    OBVIOUS
  <2>. QED
    BY <1>1, <2>1 DEF Below
<1>. QED
  BY <1>1, <1>2 DEF Below

LEMMA KeyPositions ==
  ASSUME key \in [Items -> Positions]
  PROVE  /\ \A i \in Items : key[i] \in Positions /\ key[i] \in [time : Nat, id : Nat]
         /\ \A p \in Positions : p \in [time : Nat, id : Nat]
         /\ \A i \in Items : key[i].time \in Times /\ key[i].time \in Nat
BY PagingAssumption

(* Where a request goes on.                                                *)
LEMMA WherePassed ==
  ASSUME PagingTypeOK, CursorInv, NEW i \in Items
  PROVE  /\ list # "audit" => (i \in After(DecodeCursor[cursor]) <=> i \in rows /\ ~Passed(i))
         /\ list = "audit" => (i \in AuditSelected => i \in rows /\ ~Passed(i))
         /\ list = "audit" => (i \in rows /\ ~Passed(i) /\ Asked(i) => i \in AuditSelected)
<1>1. list # "audit" => (i \in After(DecodeCursor[cursor]) <=> i \in rows /\ ~Passed(i))
  BY DEF After, Passed
<1>2. ASSUME list = "audit", cursor = <<>>
      PROVE  /\ i \in AuditSelected => i \in rows /\ ~Passed(i)
             /\ i \in rows /\ ~Passed(i) /\ Asked(i) => i \in AuditSelected
  BY <1>2 DEF AuditSelected, Passed, Asked
<1>3. ASSUME list = "audit", cursor # <<>>
      PROVE  /\ i \in AuditSelected => i \in rows /\ ~Passed(i)
             /\ i \in rows /\ ~Passed(i) /\ Asked(i) => i \in AuditSelected
  <2>1. PICK t \in Times : cursor = <<t>>
    BY <1>3 DEF PagingTypeOK
  <2>2. cursor[1] = t /\ t \in Nat
    BY <2>1, PagingAssumption
  <2>3. key[i].time \in Nat
    BY KeyPositions DEF PagingTypeOK
  <2>4. key[i].time >= t <=> ~(key[i].time < t)
    BY <2>2, <2>3
  <2>5. i \in AuditSelected <=> i \in rows /\ key[i].time < t
    BY <1>3, <2>2, Zenon DEF AuditSelected
  <2>6. Passed(i) <=> key[i].time >= t
    BY <1>3, <2>2, Zenon DEF Passed
  <2>. QED
    BY <2>4, <2>5, <2>6
<1>. QED
  BY <1>1, <1>2, <1>3

(* The cursor of the last row of a page.                                   *)
LEMMA NextCursor ==
  ASSUME PagingTypeOK, CursorInv, NEW l \in Items, ~Passed(l), list' = list, key' = key,
         cursor' = IF list = "audit" THEN <<key[l].time>> ELSE EncodeCursor[key[l]]
  PROVE  /\ CursorInv'
         /\ cursor' \in IF list = "audit" THEN {<<>>} \cup {<<t>> : t \in Times} ELSE Seq(0 .. Pad)
         /\ \A i \in Items : Passed(i)' <=> IF list = "audit" THEN key[i].time >= key[l].time
                                           ELSE ~Below(key[i], key[l])
         /\ \A i \in Items : Passed(i) => Passed(i)'
<1>1. CASE list = "audit"
  <2>1. cursor' = <<key[l].time>> /\ cursor' # <<>> /\ cursor'[1] = key[l].time /\ key[l].time \in Times
    BY <1>1, KeyPositions DEF PagingTypeOK
  <2>2. \A i \in Items : Passed(i)' <=> key[i].time >= key[l].time
    BY <1>1, <2>1, Zenon DEF Passed
  <2>3. ASSUME NEW i \in Items, Passed(i)
        PROVE  key[i].time >= key[l].time
    <3>1. PICK t \in Times : cursor = <<t>>
      BY <1>1, <2>3 DEF PagingTypeOK, Passed
    <3>2. cursor # <<>> /\ cursor[1] = t /\ t \in Nat
      BY <3>1, PagingAssumption
    <3>3. key[i].time >= t /\ ~(key[l].time >= t)
      BY <1>1, <2>3, <3>2, Zenon DEF Passed
    <3>. QED
      BY <3>2, <3>3, KeyPositions DEF PagingTypeOK
  <2>. QED
    BY <1>1, <2>1, <2>2, <2>3, Zenon DEF CursorInv
<1>2. CASE list # "audit"
  <2>1. cursor' = EncodeCursor[key[l]] /\ key[l] \in Positions
    BY <1>2, KeyPositions DEF PagingTypeOK
  <2>2. cursor' \in Seq(0 .. Pad) /\ DecodeCursor[cursor'] = {key[l]}
    BY <2>1, CursorsRoundTrip
  <2>3. \A i \in Items : Passed(i)' <=> ~Below(key[i], key[l])
    <3>1. \A i : Passed(i)' <=> \E p \in DecodeCursor[cursor'] : ~Below(key[i], p)
      BY <1>2, Zenon DEF Passed
    <3>. QED
      BY <2>2, <3>1, Zenon
  <2>4. ASSUME NEW i \in Items, Passed(i)
        PROVE  ~Below(key[i], key[l])
    <3>1. PICK p \in DecodeCursor[cursor] : ~Below(key[i], p)
      BY <1>2, <2>4 DEF Passed
    <3>2. p \in Positions
      <4>1. DecodeCursor[cursor] = {} \/ \E s \in Positions : DecodeCursor[cursor] = {s}
        BY <1>2, CursorsRoundTrip DEF CursorInv
      <4>. QED
        BY <3>1, <4>1
    <3>3. Below(key[l], p)
      BY <1>2, <3>1 DEF Passed
    <3>. QED
      BY <3>1, <3>2, <3>3, KeyPositions, BelowOrder DEF PagingTypeOK
  <2>. QED
    BY <1>2, <2>1, <2>2, <2>3, <2>4, Zenon DEF CursorInv
<1>. QED
  BY <1>1, <1>2

-----------------------------------------------------------------------------
(* A page.                                                                 *)
LEMMA LimitPositive ==
  ASSUME PagingTypeOK
  PROVE  Limit \in Nat \ {0}
BY PagingAssumption DEF PagingTypeOK, Limit

LEMMA PageMembers ==
  ASSUME PagingTypeOK, NEW free \in SUBSET rows, NEW order, NEW page \in FirstOf(free, Limit, order)
  PROVE  /\ page \subseteq free
         /\ Cardinality(free) > Limit => page # {}
         /\ ~(Cardinality(free) > Limit) => page = free
         /\ \A i \in page, j \in free \ page : <<j, i>> \notin order
<1>1. PICK n \in Nat \ {0} : n = Limit
  BY LimitPositive
<1>2. free \subseteq Items /\ IsFiniteSet(free)
  <2>1. free \subseteq Items
    BY DEF PagingTypeOK
  <2>. QED
    BY <2>1, PagingAssumption, FS_Subset
<1>3. page \subseteq free /\ IsFiniteSet(page)
  <2>1. page \subseteq free
    BY DEF FirstOf
  <2>. QED
    BY <1>2, <2>1, FS_Subset
<1>4. PICK m \in Nat : m = Cardinality(free)
  BY <1>2, FS_CardinalityType
<1>5. Cardinality(page) = IF m < n THEN m ELSE n
  BY <1>1, <1>4 DEF FirstOf
<1>6. m > n => page # {}
  BY <1>5, FS_EmptySet
<1>7. ~(m > n) => page = free
  <2>1. ~(m > n) => Cardinality(page) = Cardinality(free)
    BY <1>4, <1>5
  <2>. QED
    BY <1>2, <1>3, <2>1, FS_Subset
<1>8. \A i \in page, j \in free \ page : <<j, i>> \notin order
  BY DEF FirstOf
<1>. QED
  BY <1>1, <1>3, <1>4, <1>6, <1>7, <1>8

(* The order of each list, and what its cursors keep of it.                *)
Precedes(i, j) ==
    IF list = "audit" THEN key[i].time > key[j].time
    ELSE IF list = "users"
    THEN rank[i] > rank[j] \/ (rank[i] = rank[j] /\ Below(key[j], key[i]))
    ELSE Below(key[j], key[i])

Reached(i, l) ==
    IF list = "audit" THEN key[i].time >= key[l].time ELSE ~Below(key[i], key[l])

LEMMA OrderGaps ==
  ASSUME PagingTypeOK, CrossedInv, NEW i \in Items, NEW l \in Items
  PROVE  /\ Reached(l, l)
         /\ ~Precedes(l, i) => Reached(i, l) \/ Crossed(i, l)
         /\ i # l /\ ~Precedes(i, l) /\ Reached(i, l) => Crossed(l, i) \/ Tied(i, l)
<1>1. /\ key[i] \in [time : Nat, id : Nat] /\ key[l] \in [time : Nat, id : Nat]
      /\ key[i].time \in Nat /\ key[l].time \in Nat
      /\ i # l => key[i] # key[l]
  BY KeyPositions DEF PagingTypeOK
<1>2. /\ ~Below(key[l], key[l])
      /\ i # l => Below(key[i], key[l]) \/ Below(key[l], key[i])
  BY <1>1, BelowOrder
<1>3. rank[i] \in Nat /\ rank[l] \in Nat
  BY PagingAssumption DEF PagingTypeOK
<1>4. CASE list = "audit"
  BY <1>1, <1>4 DEF Reached, Precedes, Tied
<1>5. CASE list = "users"
  BY <1>2, <1>3, <1>5 DEF Reached, Precedes, Crossed, CrossedInv, Crossings, ItemPairs
<1>6. CASE list # "audit" /\ list # "users"
  BY <1>2, <1>6 DEF Reached, Precedes
<1>. QED
  BY <1>4, <1>5, <1>6

(* A request that leaves its walk going on brings a row that was not       *)
(* behind the cursor and now is, and takes none from behind it.            *)
PageAdvances ==
    walk' = "walking" =>
        /\ \E i \in rows : ~Passed(i) /\ Passed(i)' /\ shown'[i] > shown[i]
        /\ \A i \in Items : Passed(i) => Passed(i)'

(* One page, for any list: free are the rows it is taken from.             *)
LEMMA PageStep ==
  ASSUME PagingInv, walk = "walking", UNCHANGED <<table, pageSize, history>>,
         NEW free \in SUBSET rows, NEW order, NEW cursorOf,
         \A i \in free : ~Passed(i),
         \A i \in rows : ~Passed(i) /\ Asked(i) => i \in free,
         \A i, j \in Items : <<i, j>> \in order <=> Precedes(i, j),
         \A i \in Items : cursorOf[i] = IF list = "audit" THEN <<key[i].time>>
                                        ELSE EncodeCursor[key[i]],
         Page(free, order, cursorOf)
  PROVE  PagingInv' /\ PageAdvances
<1>. USE DEF table, history
<1>1. PICK page \in FirstOf(free, Limit, order) :
        /\ shown' = [i \in Items |-> IF i \in page THEN shown[i] + 1 ELSE shown[i]]
        /\ IF Cardinality(free) > Limit
           THEN /\ walk' = walk
                /\ IF page = {} THEN cursor' = <<>>
                   ELSE \E last \in LastOf(page, order) : cursor' = cursorOf[last]
           ELSE walk' = "ended" /\ cursor' = <<>>
  BY DEF Page
<1>2. /\ page \subseteq free
      /\ Cardinality(free) > Limit => page # {}
      /\ ~(Cardinality(free) > Limit) => page = free
      /\ \A i \in page, j \in free \ page : <<j, i>> \notin order
  BY PageMembers DEF PagingInv
<1>3. free \subseteq Items /\ rows \subseteq Items /\ stayed \subseteq rows
      /\ shown \in [Items -> Nat]
  BY DEF PagingInv, PagingTypeOK
<1>4. /\ shown' \in [Items -> Nat]
      /\ \A i \in Items : shown[i] > 0 => shown'[i] > 0
      /\ \A i \in page : shown'[i] > 0 /\ shown'[i] = shown[i] + 1
      /\ \A i \in Items \ page : shown'[i] = shown[i]
  BY <1>1, <1>2, <1>3
<1>5. \A i, j \in Items : /\ Crossed(i, j)' <=> Crossed(i, j)
                          /\ Tied(i, j)' <=> Tied(i, j)
                          /\ Asked(i)' <=> Asked(i)
  BY DEF Crossed, Tied, Asked
<1>0. StayedInv' /\ CrossedInv'
  BY DEF PagingInv, StayedInv, CrossedInv, Crossings
<1>6. CASE Cardinality(free) > Limit
  <2>1. PICK l \in page : /\ \A j \in page : <<l, j>> \notin order
                          /\ cursor' = cursorOf[l]
    BY <1>1, <1>2, <1>6 DEF LastOf
  <2>2. l \in Items /\ ~Passed(l) /\ walk' = "walking"
    BY <1>1, <1>2, <1>3, <1>6, <2>1
  <2>3. /\ CursorInv'
        /\ cursor' \in IF list = "audit" THEN {<<>>} \cup {<<t>> : t \in Times} ELSE Seq(0 .. Pad)
        /\ \A i \in Items : Passed(i)' <=> Reached(i, l)
        /\ \A i \in Items : Passed(i) => Passed(i)'
    <3>1. cursor' = IF list = "audit" THEN <<key[l].time>> ELSE EncodeCursor[key[l]]
      BY <2>1, <2>2
    <3>. QED
      BY <2>2, <3>1, NextCursor, Zenon DEF PagingInv, Reached
  <2>4. PagingTypeOK'
    BY <1>3, <1>4, <2>2, <2>3 DEF PagingInv, PagingTypeOK
  <2>5. ASSUME NEW i \in Items \ rekeyed', shown'[i] > 0
        PROVE  Passed(i)' \/ \E j \in Items : shown'[j] > 0 /\ Crossed(i, j)'
    <3>1. CASE i \in page
      <4>1. ~Precedes(l, i)
        BY <1>3, <2>1, <2>2, <3>1
      <4>2. Reached(i, l) \/ Crossed(i, l)
        BY <2>2, <4>1, OrderGaps DEF PagingInv
      <4>. QED
        BY <1>4, <1>5, <2>1, <2>2, <2>3, <4>2
    <3>2. CASE i \notin page
      <4>1. Passed(i) \/ \E j \in Items : shown[j] > 0 /\ Crossed(i, j)
        BY <1>4, <2>5, <3>2 DEF PagingInv, ShownBehind
      <4>. QED
        BY <1>4, <1>5, <2>3, <4>1
    <3>. QED
      BY <3>1, <3>2
  <2>6. ASSUME NEW i \in stayed', Asked(i)', Passed(i)'
        PROVE  shown'[i] > 0 \/ \E j \in Items : shown'[j] > 0 /\ (Crossed(j, i)' \/ Tied(i, j)')
    <3>0. i \in rows /\ i \in stayed /\ i \in Items /\ Asked(i) /\ Reached(i, l)
      BY <1>3, <1>5, <2>3, <2>6
    <3>1. CASE Passed(i)
      <4>1. shown[i] > 0 \/ \E j \in Items : shown[j] > 0 /\ (Crossed(j, i) \/ Tied(i, j))
        BY <3>0, <3>1 DEF PagingInv, NoneLeftOut
      <4>. QED
        BY <1>4, <1>5, <3>0, <4>1
    <3>2. CASE i \in page
      BY <1>4, <3>2
    <3>3. CASE ~Passed(i) /\ i \notin page
      <4>1. i \in free \ page
        BY <3>0, <3>3
      <4>2. ~Precedes(i, l) /\ i # l
        BY <1>2, <1>3, <2>1, <2>2, <4>1
      <4>3. Crossed(l, i) \/ Tied(i, l)
        BY <2>2, <3>0, <4>2, OrderGaps DEF PagingInv
      <4>. QED
        BY <1>4, <1>5, <2>1, <2>2, <3>0, <4>3
    <3>. QED
      BY <3>1, <3>2, <3>3
  <2>7. PagesPartition'
    <3>1. ASSUME NEW i \in Items \ rekeyed', shown'[i] > 1
          PROVE  \E j \in Items : shown'[j] > 0 /\ Crossed(i, j)'
      <4>1. CASE i \in page
        <5>1. shown[i] > 0 /\ ~Passed(i)
          BY <1>2, <1>3, <1>4, <3>1, <4>1
        <5>2. PICK j \in Items : shown[j] > 0 /\ Crossed(i, j)
          BY <3>1, <5>1 DEF PagingInv, ShownBehind
        <5>. QED
          BY <1>4, <1>5, <5>2
      <4>2. CASE i \notin page
        <5>1. shown[i] > 1
          BY <1>4, <3>1, <4>2
        <5>2. PICK j \in Items : shown[j] > 0 /\ Crossed(i, j)
          BY <3>1, <5>1 DEF PagingInv, PagesPartition
        <5>. QED
          BY <1>4, <1>5, <5>2
      <4>. QED
        BY <4>1, <4>2
    <3>. QED
      BY <2>2, <3>1 DEF PagesPartition
  <2>8. PageAdvances
    <3>1. l \in rows /\ Passed(l)' /\ shown'[l] > shown[l]
      <4>1. Reached(l, l)
        BY <2>2, OrderGaps DEF PagingInv
      <4>2. Passed(l)' /\ l \in rows
        BY <1>2, <2>1, <2>2, <2>3, <4>1
      <4>3. shown'[l] = shown[l] + 1 /\ shown[l] \in Nat
        BY <1>3, <1>4, <2>1, <2>2
      <4>. QED
        BY <4>2, <4>3
    <3>. QED
      BY <2>2, <2>3, <3>1, Zenon DEF PageAdvances
  <2>. QED
    BY <1>0, <2>3, <2>4, <2>5, <2>6, <2>7, <2>8 DEF PagingInv, ShownBehind, NoneLeftOut
<1>7. CASE ~(Cardinality(free) > Limit)
  <2>1. page = free /\ walk' = "ended" /\ cursor' = <<>>
    BY <1>1, <1>2, <1>7
  <2>2. PagingTypeOK'
    BY <1>3, <1>4, <2>1 DEF PagingInv, PagingTypeOK
  <2>3. ASSUME NEW i \in Items \ rekeyed', shown'[i] > 1
        PROVE  \E j \in Items : shown'[j] > 0 /\ Crossed(i, j)'
    <3>1. CASE i \in page
      <4>1. shown[i] > 0 /\ ~Passed(i)
        BY <1>2, <1>3, <1>4, <2>3, <3>1
      <4>2. PICK j \in Items : shown[j] > 0 /\ Crossed(i, j)
        BY <2>3, <4>1 DEF PagingInv, ShownBehind
      <4>. QED
        BY <1>4, <1>5, <4>2
    <3>2. CASE i \notin page
      <4>1. shown[i] > 1
        BY <1>4, <2>3, <3>2
      <4>2. PICK j \in Items : shown[j] > 0 /\ Crossed(i, j)
        BY <2>3, <4>1 DEF PagingInv, PagesPartition
      <4>. QED
        BY <1>4, <1>5, <4>2
    <3>. QED
      BY <3>1, <3>2
  <2>4. ASSUME NEW i \in stayed', Asked(i)', shown'[i] = 0
        PROVE  \E j \in Items : shown'[j] > 0 /\ (Crossed(j, i)' \/ Tied(i, j)')
    <3>1. i \in rows /\ i \in stayed /\ i \in Items /\ Asked(i)
      BY <1>3, <1>5, <2>4
    <3>2. i \notin page /\ shown[i] = 0
      BY <1>4, <2>4, <3>1
    <3>3. Passed(i)
      BY <2>1, <3>1, <3>2
    <3>4. PICK j \in Items : shown[j] > 0 /\ (Crossed(j, i) \/ Tied(i, j))
      BY <3>1, <3>2, <3>3 DEF PagingInv, NoneLeftOut
    <3>. QED
      BY <1>4, <1>5, <3>1, <3>4
  <2>5. PagesPartition'
    BY <2>3, <2>4, Zenon DEF PagesPartition
  <2>. QED
    BY <1>0, <2>1, <2>2, <2>5 DEF PagingInv, CursorInv, ShownBehind, NoneLeftOut, PageAdvances
<1>. QED
  BY <1>6, <1>7

-----------------------------------------------------------------------------
LEMMA InitPagingInv == PagingInit => PagingInv
<1>. SUFFICES ASSUME PagingInit PROVE PagingInv
  OBVIOUS
<1>1. PICK t \in [Items -> Times] : key = [i \in Items |-> [time |-> t[i], id |-> i]]
  BY DEF PagingInit
<1>2. \A i \in Items : key[i] = [time |-> t[i], id |-> i] /\ key[i].id = i /\ key[i] \in Positions
  BY <1>1, PagingAssumption
<1>3. key \in [Items -> Positions]
  BY <1>1, <1>2
<1>4. /\ walk = "walking" /\ cursor = <<>> /\ rows \subseteq Items /\ stayed = rows
      /\ \A i \in Items : shown[i] = 0
      /\ DecodeCursor[cursor] = {}
  BY CursorsRoundTrip DEF PagingInit
<1>5. PagingTypeOK
  <2>1. \A i, j \in Items : i # j => key[i] # key[j]
    BY <1>2
  <2>2. cursor \in IF list = "audit" THEN {<<>>} \cup {<<s>> : s \in Times} ELSE Seq(0 .. Pad)
    BY <1>4
  <2>3. shown \in [Items -> Nat] /\ moves \in 0 .. MaxMoves
    BY PagingAssumption DEF PagingInit
  <2>4. byActor \in BOOLEAN
    BY Zenon DEF PagingInit
  <2>5. rank \in [Items -> Ranks]
    BY PagingAssumption DEF PagingInit
  <2>6. crossed \subseteq ItemPairs
    BY Zenon DEF PagingInit, Crossings
  <2>. QED
    BY <1>3, <2>1, <2>2, <2>3, <2>4, <2>5, <2>6 DEF PagingInit, PagingTypeOK
<1>6. \A i \in Items : ~Passed(i)
  BY <1>4 DEF Passed
<1>7. PagesPartition
  BY <1>4 DEF PagesPartition
<1>8. NoneLeftOut
  BY <1>4, <1>6 DEF NoneLeftOut
<1>9. ShownBehind /\ CursorInv
  BY <1>4 DEF ShownBehind, CursorInv
<1>10. StayedInv
  <2>1. byActor => list = "audit"
    BY Zenon DEF PagingInit
  <2>2. rekeyed = {}
    BY DEF PagingInit
  <2>. QED
    BY <2>1, <2>2 DEF StayedInv
<1>11. CrossedInv
  BY DEF PagingInit, CrossedInv, Crossings
<1>. QED
  BY <1>5, <1>7, <1>8, <1>9, <1>10, <1>11 DEF PagingInv

LEMMA KeysetPageStep ==
  ASSUME PagingInv, walk = "walking", UNCHANGED <<table, pageSize, history>>,
         list \notin {"audit", "users"}, KeysetPage
  PROVE  PagingInv' /\ PageAdvances
<1>1. PICK free, order, cursorOf : /\ free = After(DecodeCursor[cursor]) /\ order = Newer
                                   /\ cursorOf = PositionCursors
  OBVIOUS
<1>2. Page(free, order, cursorOf)
  BY <1>1 DEF KeysetPage
<1>3. PagingTypeOK /\ CursorInv /\ rows \subseteq Items
  BY DEF PagingInv, PagingTypeOK
<1>4. free \in SUBSET rows
  BY <1>1 DEF After
<1>5. /\ \A i \in free : ~Passed(i)
      /\ \A i \in rows : ~Passed(i) /\ Asked(i) => i \in free
  BY <1>1, <1>3, <1>4, WherePassed
<1>6. \A i, j \in Items : <<i, j>> \in order <=> Precedes(i, j)
  BY <1>1 DEF Newer, ItemPairs, Precedes
<1>7. \A i \in Items : cursorOf[i] = IF list = "audit" THEN <<key[i].time>> ELSE EncodeCursor[key[i]]
  BY <1>1 DEF PositionCursors
<1>. QED
  BY <1>2, <1>4, <1>5, <1>6, <1>7, PageStep

LEMMA SearchUsersStep == PagingInv /\ SearchUsers => PagingInv' /\ PageAdvances
<1>. SUFFICES ASSUME PagingInv, SearchUsers PROVE PagingInv' /\ PageAdvances
  OBVIOUS
<1>1. PICK free, order, cursorOf : /\ free = After(DecodeCursor[cursor]) /\ order = MoreSimilar
                                   /\ cursorOf = PositionCursors
  OBVIOUS
<1>2. /\ Page(free, order, cursorOf) /\ walk = "walking" /\ list = "users"
      /\ UNCHANGED <<table, pageSize, history>>
  BY <1>1 DEF SearchUsers, Request
<1>3. PagingTypeOK /\ CursorInv /\ rows \subseteq Items
  BY DEF PagingInv, PagingTypeOK
<1>4. free \in SUBSET rows
  BY <1>1 DEF After
<1>5. /\ \A i \in free : ~Passed(i)
      /\ \A i \in rows : ~Passed(i) /\ Asked(i) => i \in free
  BY <1>1, <1>2, <1>3, <1>4, WherePassed
<1>6. \A i, j \in Items : <<i, j>> \in order <=> Precedes(i, j)
  BY <1>1, <1>2 DEF MoreSimilar, Newer, ItemPairs, Precedes
<1>7. \A i \in Items : cursorOf[i] = IF list = "audit" THEN <<key[i].time>> ELSE EncodeCursor[key[i]]
  BY <1>1, <1>2 DEF PositionCursors
<1>. QED
  BY <1>2, <1>4, <1>5, <1>6, <1>7, PageStep

LEMMA GetAuditLogStep == PagingInv /\ GetAuditLog => PagingInv' /\ PageAdvances
<1>. SUFFICES ASSUME PagingInv, GetAuditLog PROVE PagingInv' /\ PageAdvances
  OBVIOUS
<1>1. PICK free, order, cursorOf : /\ free = AuditSelected /\ order = Later
                                   /\ cursorOf = [i \in Items |-> <<key[i].time>>]
  OBVIOUS
<1>2. /\ Page(free, order, cursorOf) /\ walk = "walking" /\ list = "audit"
      /\ UNCHANGED <<table, pageSize, history>>
  BY <1>1 DEF GetAuditLog, Request
<1>3. PagingTypeOK /\ CursorInv /\ rows \subseteq Items
  BY DEF PagingInv, PagingTypeOK
<1>4. free \in SUBSET rows
  BY <1>1 DEF AuditSelected
<1>5. /\ \A i \in free : ~Passed(i)
      /\ \A i \in rows : ~Passed(i) /\ Asked(i) => i \in free
  BY <1>1, <1>2, <1>3, <1>4, WherePassed
<1>6. \A i, j \in Items : <<i, j>> \in order <=> Precedes(i, j)
  BY <1>1, <1>2 DEF Later, ItemPairs, Precedes
<1>7. \A i \in Items : cursorOf[i] = IF list = "audit" THEN <<key[i].time>> ELSE EncodeCursor[key[i]]
  BY <1>1, <1>2
<1>. QED
  BY <1>2, <1>4, <1>5, <1>6, <1>7, PageStep

LEMMA ClientSteps == PagingInv /\ ClientStep => PagingInv' /\ PageAdvances
<1>. SUFFICES ASSUME PagingInv, ClientStep PROVE PagingInv' /\ PageAdvances
  OBVIOUS
<1>1. ASSUME NEW l \in Lists \ {"audit", "users"}, Request(l), KeysetPage
      PROVE  PagingInv' /\ PageAdvances
  BY <1>1, KeysetPageStep DEF Request
<1>2. ASSUME NEW l \in Lists, Request(l), Refused
      PROVE  PagingInv' /\ PageAdvances
  <2>1. walk' = "refused" /\ UNCHANGED <<table, pageSize, stayed, rekeyed, crossed, cursor, shown>>
    BY <1>2 DEF Request, Refused, history
  <2>2. PagingTypeOK'
    BY <2>1 DEF PagingInv, PagingTypeOK, table
  <2>3. PagesPartition'
    BY <2>1 DEF PagingInv, PagesPartition, Crossed, table
  <2>4. StayedInv' /\ CrossedInv'
    BY <2>1 DEF PagingInv, StayedInv, CrossedInv, Crossings, table
  <2>. QED
    BY <2>1, <2>2, <2>3, <2>4 DEF PagingInv, CursorInv, ShownBehind, NoneLeftOut, PageAdvances, table
<1>3. CASE GetHomeFeed \/ ListNotifications \/ GetPendingRequests \/ GetSharedPosts \/ SearchPosts
  BY <1>1, <1>3 DEF GetHomeFeed, ListNotifications, GetPendingRequests, GetSharedPosts,
                    SearchPosts, Lists
<1>4. CASE ListComments \/ GetFollowers \/ GetFollowing \/ GetProfileGrid \/ GetPortalFeed
  BY <1>1, <1>2, <1>4 DEF ListComments, GetFollowers, GetFollowing, GetProfileGrid,
                          GetPortalFeed, CheckedPage, CheckedLists, Lists
<1>5. CASE SearchUsers
  BY <1>5, SearchUsersStep
<1>6. CASE GetAuditLog
  BY <1>6, GetAuditLogStep
<1>. QED
  BY <1>3, <1>4, <1>5, <1>6, Zenon DEF ClientStep

-----------------------------------------------------------------------------
(* Rows come and go, and users change their names.                         *)
LEMMA RowsStep ==
  ASSUME PagingInv, UNCHANGED <<list, key, byActor, client, rekeyed>>,
         rank' \in [Items -> Ranks], crossed \subseteq crossed', crossed' \subseteq ItemPairs,
         CrossedInv',
         rows' \subseteq born', born' \subseteq Items, stayed' \subseteq stayed \cap rows',
         allowed' \in BOOLEAN, moves' \in 0 .. MaxMoves
  PROVE  PagingInv'
<1>1. PagingTypeOK'
  BY DEF PagingInv, PagingTypeOK, client
<1>2. \A i \in Items : Passed(i)' <=> Passed(i)
  BY DEF Passed, client
<1>3. \A i, j \in Items : /\ Crossed(i, j) => Crossed(i, j)'
                          /\ Tied(i, j)' <=> Tied(i, j)
                          /\ Asked(i)' <=> Asked(i)
  BY DEF Crossed, Tied, Asked
<1>4. stayed' \subseteq stayed /\ stayed \subseteq Items
      /\ UNCHANGED <<list, walk, cursor, shown, rekeyed>>
  BY DEF PagingInv, PagingTypeOK, client
<1>5. PagesPartition'
  BY <1>3, <1>4 DEF PagingInv, PagesPartition
<1>6. ShownBehind'
  BY <1>2, <1>3, <1>4 DEF PagingInv, ShownBehind
<1>7. NoneLeftOut'
  BY <1>2, <1>3, <1>4 DEF PagingInv, NoneLeftOut
<1>8. CursorInv'
  BY <1>4 DEF PagingInv, CursorInv
<1>9. StayedInv'
  BY <1>4 DEF PagingInv, StayedInv
<1>. QED
  BY <1>1, <1>5, <1>6, <1>7, <1>8, <1>9 DEF PagingInv

LEMMA OrdersKept ==
  ASSUME PagingInv, UNCHANGED <<list, key, rank, crossed>>
  PROVE  /\ rank' \in [Items -> Ranks] /\ crossed \subseteq crossed' /\ crossed' \subseteq ItemPairs
         /\ CrossedInv'
BY DEF PagingInv, PagingTypeOK, CrossedInv, Crossings, ItemPairs

LEMMA MoveBound ==
  ASSUME PagingTypeOK, Move
  PROVE  moves' \in 0 .. MaxMoves
BY PagingAssumption DEF PagingTypeOK, Move

LEMMA ArriveStep ==
  ASSUME PagingInv, NEW i \in Items, Arrive(i)
  PROVE  PagingInv'
<1>1. moves' \in 0 .. MaxMoves
  BY MoveBound DEF Arrive, PagingInv
<1>2. rows' \subseteq born' /\ born' \subseteq Items /\ stayed' \subseteq stayed \cap rows'
      /\ allowed' \in BOOLEAN
      /\ UNCHANGED <<list, key, rank, byActor, client, rekeyed, crossed>>
  BY DEF Arrive, PagingInv, PagingTypeOK, history
<1>. QED
  BY <1>1, <1>2, OrdersKept, RowsStep

LEMMA LeaveStep ==
  ASSUME PagingInv, NEW i \in Items, Leave(i)
  PROVE  PagingInv'
<1>1. moves' \in 0 .. MaxMoves
  BY MoveBound DEF Leave, PagingInv
<1>2. rows' \subseteq born' /\ born' \subseteq Items /\ stayed' \subseteq stayed \cap rows'
      /\ allowed' \in BOOLEAN
      /\ UNCHANGED <<list, key, rank, byActor, client, rekeyed, crossed>>
  BY DEF Leave, PagingInv, PagingTypeOK, history
<1>. QED
  BY <1>1, <1>2, OrdersKept, RowsStep

LEMMA ChangeAccessStep ==
  ASSUME PagingInv, ChangeAccess
  PROVE  PagingInv'
<1>1. moves' \in 0 .. MaxMoves
  BY MoveBound DEF ChangeAccess, PagingInv
<1>2. rows' \subseteq born' /\ born' \subseteq Items /\ stayed' \subseteq stayed \cap rows'
      /\ allowed' \in BOOLEAN
      /\ UNCHANGED <<list, key, rank, byActor, client, rekeyed, crossed>>
  BY DEF ChangeAccess, PagingInv, PagingTypeOK, history
<1>. QED
  BY <1>1, <1>2, OrdersKept, RowsStep

LEMMA RenameStep ==
  ASSUME PagingInv, NEW i \in Items, Rename(i)
  PROVE  PagingInv'
<1>1. moves' \in 0 .. MaxMoves
  BY MoveBound DEF Rename, PagingInv
<1>2. /\ list = "users" /\ rank' \in [Items -> Ranks] /\ crossed' = crossed \cup Crossings'
      /\ rows' = rows /\ born' = born /\ stayed' = stayed /\ allowed' = allowed
      /\ UNCHANGED <<list, key, byActor, client, rekeyed>>
  BY DEF Rename, PagingInv, PagingTypeOK
<1>3. crossed' \subseteq ItemPairs
  <2>1. Crossings' \subseteq ItemPairs
    BY DEF Crossings, ItemPairs
  <2>. QED
    BY <1>2, <2>1 DEF PagingInv, PagingTypeOK
<1>4. CrossedInv'
  BY <1>2 DEF CrossedInv
<1>. QED
  BY <1>1, <1>2, <1>3, <1>4, RowsStep DEF PagingInv, PagingTypeOK

(* A row that comes back was not there all along; where its key is another *)
(* one, the list is one whose walk no other item's key matters to.         *)
LEMMA ReturnStep ==
  ASSUME PagingInv, NEW i \in Items, Return(i)
  PROVE  PagingInv'
<1>1. PICK k \in ReturnKeys(i) :
        /\ \A j \in Items \ {i} : key[j] # k
        /\ key' = [key EXCEPT ![i] = k]
        /\ rekeyed' = IF k = key[i] THEN rekeyed ELSE rekeyed \cup {i}
  BY DEF Return
<1>2. /\ i \in born \ rows /\ rows' = rows \cup {i}
      /\ UNCHANGED <<list, rank, allowed, byActor, born, pageSize, walk, cursor, shown, stayed,
                     crossed>>
      /\ moves' \in 0 .. MaxMoves
  BY MoveBound DEF Return, PagingInv, client
<1>3. k \in Positions
  <2>1. key[i] \in Positions
    BY DEF PagingInv, PagingTypeOK
  <2>2. key[i].time \in Times /\ key[i].id \in Ids
    BY <2>1, PagingAssumption
  <2>3. \/ k \in [time : {key[i].time}, id : Ids]
        \/ k \in [time : {t \in Times : t >= key[i].time}, id : {key[i].id}]
        \/ k = key[i]
    BY <1>1 DEF ReturnKeys
  <2>. QED
    BY <2>1, <2>2, <2>3, PagingAssumption
<1>4. /\ key' \in [Items -> Positions]
      /\ key'[i] = k /\ \A j \in Items \ {i} : key'[j] = key[j]
  BY <1>1, <1>3 DEF PagingInv, PagingTypeOK
<1>5. PagingTypeOK'
  <2>1. \A j, m \in Items : j # m => key'[j] # key'[m]
    BY <1>1, <1>4 DEF PagingInv, PagingTypeOK
  <2>2. rekeyed' \subseteq Items
    BY <1>1 DEF PagingInv, PagingTypeOK
  <2>. QED
    BY <1>2, <1>4, <2>1, <2>2 DEF PagingInv, PagingTypeOK
<1>6. CursorInv'
  BY <1>2 DEF PagingInv, CursorInv
<1>7. CASE k = key[i]
  <2>1. key' = key /\ rekeyed' = rekeyed
    BY <1>1, <1>7 DEF PagingInv, PagingTypeOK
  <2>2. rows' \subseteq born' /\ born' \subseteq Items /\ stayed' \subseteq stayed \cap rows'
        /\ allowed' \in BOOLEAN
        /\ UNCHANGED <<list, key, rank, byActor, client, rekeyed, crossed>>
    BY <1>2, <2>1 DEF PagingInv, PagingTypeOK, client
  <2>. QED
    BY <1>2, <2>2, OrdersKept, RowsStep
<1>8. CASE k # key[i]
  <2>1. list \notin {"users", "audit"}
    BY <1>1, <1>8 DEF ReturnKeys
  <2>2. rekeyed' = rekeyed \cup {i} /\ i \notin stayed /\ stayed' = stayed /\ stayed \subseteq Items
    BY <1>1, <1>2, <1>8 DEF PagingInv, PagingTypeOK
  <2>3. \A j \in Items \ {i} : Passed(j)' <=> Passed(j)
    BY <1>2, <1>4, <2>1 DEF Passed
  <2>4. \A j, m : ~Crossed(j, m) /\ ~Tied(j, m) /\ ~Crossed(j, m)' /\ ~Tied(j, m)'
    BY <1>2, <2>1 DEF PagingInv, CrossedInv, Crossed, Tied
  <2>5. \A j \in Items : Asked(j)' <=> Asked(j)
    BY <1>2 DEF Asked
  <2>6. PagesPartition'
    BY <1>2, <2>2, <2>4, <2>5 DEF PagingInv, PagesPartition
  <2>7. ShownBehind'
    BY <1>2, <2>2, <2>3, <2>4 DEF PagingInv, ShownBehind
  <2>8. NoneLeftOut'
    BY <1>2, <2>2, <2>3, <2>4, <2>5 DEF PagingInv, NoneLeftOut
  <2>9. StayedInv' /\ CrossedInv'
    BY <1>2, <2>1, <2>2 DEF PagingInv, StayedInv, CrossedInv, Crossings
  <2>. QED
    BY <1>5, <1>6, <2>6, <2>7, <2>8, <2>9 DEF PagingInv
<1>. QED
  BY <1>7, <1>8

LEMMA StartAgainStep ==
  ASSUME PagingInv, StartAgain
  PROVE  PagingInv'
<1>1. /\ walk' = "walking" /\ cursor' = <<>> /\ stayed' = rows /\ rekeyed' = {}
      /\ crossed' = Crossings
      /\ shown' = [i \in Items |-> 0] /\ \A i \in Items : shown'[i] = 0
      /\ UNCHANGED <<list, rows, key, rank, allowed, byActor, born, moves, pageSize>>
  BY DEF StartAgain, table
<1>2. PagingTypeOK'
  <2>1. Crossings \subseteq ItemPairs
    BY DEF Crossings
  <2>. QED
    BY <1>1, <2>1 DEF PagingInv, PagingTypeOK, ItemPairs
<1>3. \A i : ~Passed(i)'
  BY <1>1, CursorsRoundTrip DEF Passed
<1>4. PagesPartition' /\ ShownBehind' /\ CursorInv'
  BY <1>1 DEF PagesPartition, ShownBehind, CursorInv
<1>5. NoneLeftOut'
  BY <1>3, Zenon DEF NoneLeftOut
<1>6. StayedInv' /\ CrossedInv'
  BY <1>1 DEF PagingInv, StayedInv, CrossedInv, Crossings
<1>. QED
  BY <1>2, <1>4, <1>5, <1>6 DEF PagingInv

LEMMA PagingIdle ==
  ASSUME PagingInv, UNCHANGED pagingVars
  PROVE  PagingInv'
<1>1. PagingTypeOK' /\ CursorInv'
  BY DEF PagingInv, PagingTypeOK, CursorInv, pagingVars, table, client, history, ItemPairs
<1>2. UNCHANGED <<list, key, rank, byActor, client, rekeyed, crossed, moves, allowed, rows,
                  born, stayed>>
  BY DEF pagingVars, table, client, history
<1>. QED
  BY <1>2, OrdersKept, RowsStep DEF PagingInv, PagingTypeOK

LEMMA NextPagingInv == PagingInv /\ [PagingNext]_pagingVars => PagingInv'
<1>. SUFFICES ASSUME PagingInv, [PagingNext]_pagingVars PROVE PagingInv'
  OBVIOUS
<1>1. CASE ClientStep
  BY <1>1, ClientSteps, Zenon
<1>2. ASSUME NEW i \in Items, Arrive(i) \/ Leave(i) \/ Return(i) \/ Rename(i)
      PROVE  PagingInv'
  BY <1>2, ArriveStep, LeaveStep, ReturnStep, RenameStep
<1>3. CASE ChangeAccess
  BY <1>3, ChangeAccessStep
<1>4. CASE StartAgain
  BY <1>4, StartAgainStep
<1>5. CASE UNCHANGED pagingVars
  BY <1>5, PagingIdle
<1>. QED
  BY <1>1, <1>2, <1>3, <1>4, <1>5, Zenon DEF PagingNext

LEMMA SpecPagingInv == PagingSpec => []PagingInv
BY InitPagingInv, NextPagingInv, PTL DEF PagingSpec

(* Every variable of Paging keeps its type: no request ever carries        *)
(* anything but characters of the alphabet and padding.                    *)
THEOREM PagingTypeCorrect == PagingSpec => []PagingTypeOK
<1>1. PagingInv => PagingTypeOK
  BY DEF PagingInv
<1>. QED
  BY <1>1, SpecPagingInv, PTL

(* No item comes twice in a walk and none that was there all along is left *)
(* out, however rows come and go between two requests, whatever page size  *)
(* the client asks for, and wherever the rows of one time are parted.      *)
THEOREM PagesArePartition == PagingSpec => []PagesPartition
<1>1. PagingInv => PagesPartition
  BY DEF PagingInv
<1>. QED
  BY <1>1, SpecPagingInv, PTL

(* In ten of the twelve lists the cursors determine a position: a walk     *)
(* that has ended brought every row that was there all along exactly once. *)
THEOREM TenListsAreExact ==
  PagingSpec =>
    [](list \notin {"users", "audit"} /\ walk = "ended" => \A i \in stayed : shown[i] = 1)
<1>1. PagingInv =>
        (list \notin {"users", "audit"} /\ walk = "ended" => \A i \in stayed : shown[i] = 1)
  <2>. SUFFICES ASSUME PagingInv, list \notin {"users", "audit"}, walk = "ended",
                       NEW i \in stayed
                PROVE  shown[i] = 1
    OBVIOUS
  <2>1. i \in Items \ rekeyed /\ Asked(i) /\ shown[i] \in Nat
    BY DEF PagingInv, PagingTypeOK, StayedInv, Asked
  <2>2. \A j : ~Crossed(i, j) /\ ~Crossed(j, i) /\ ~Tied(i, j)
    BY DEF PagingInv, CrossedInv, Crossed, Tied
  <2>3. ~(shown[i] > 1) /\ shown[i] # 0
    BY <2>1, <2>2 DEF PagingInv, PagesPartition
  <2>. QED
    BY <2>1, <2>3
<1>. QED
  BY <1>1, SpecPagingInv, PTL

(* Whatever page size a client asks for, a request that does not end its   *)
(* walk brings a row the walk had not come to, and puts none of those      *)
(* behind the cursor ahead of it again: what is left to come only grows by *)
(* rows that arrive or return.  This is why walks end.  It is stated of    *)
(* the step, as a step that changes nothing is what is to be excluded, in  *)
(* every state of a behaviour: PagingInv holds in all of them by           *)
(* SpecPagingInv.                                                          *)
THEOREM WalksAdvance == PagingInv /\ ClientStep => PageAdvances
BY ClientSteps, Zenon
=============================================================================
