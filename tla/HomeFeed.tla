------------------------------ MODULE HomeFeed ------------------------------
(***************************************************************************)
(* The table feed_entries and those who write it: create_post and          *)
(* delete_post of PostService, the worker's handler of the job             *)
(* feed_fanout, and the transactions of FollowService that make or end an  *)
(* accepted follow.                                                        *)
(*                                                                         *)
(* A transaction on a follows row is two steps, up to its statement on     *)
(* feed_entries and up to COMMIT, since under READ COMMITTED that          *)
(* statement sees the posts and entries of its own moment.  Every          *)
(* statement of the fan-out is a transaction of its own.  The life of the  *)
(* job is JobQueue's, reduced here to what the handler can meet.  The      *)
(* media, portals and mentions of a post are left out.                     *)
(***************************************************************************)
EXTENDS Naturals, FiniteSets

CONSTANTS Users,
          Posts,        \* post identifiers
          Author,       \* the user who creates each post
          Pairs,        \* the <<follower, followee>> pairs that occur
          MaxAttempts   \* column max_attempts of the fan-out job

ASSUME HomeFeedAssumption ==
    /\ Author \in [Posts -> Users]
    /\ Pairs \subseteq {q \in Users \X Users : q[1] # q[2]}
    /\ MaxAttempts \in Nat \ {0}

VARIABLES
    follows,     \* pairs with a committed, accepted follow
    tx,          \* the open transaction on each pair, if any
    visibility,  \* posts.visibility, "absent" before the post exists
    deleted,     \* posts with is_deleted
    postCount,   \* profiles.post_count
    feed,        \* committed <<user, post>> entries
    fanout,      \* the fan-out job of each post
    postJobs,    \* new_post notification jobs enqueued, per post and user
    late,        \* history: entries a follow committed too late to get
    stale        \* history: entries a fan-out wrote that no unfollow takes away

posts == <<visibility, deleted, postCount>>
jobs  == <<fanout, postJobs>>
vars  == <<follows, tx, posts, feed, jobs, late, stale>>

Entries == Users \X Posts

(* posts: those whose entries the transaction inserts, or deletes, when it  *)
(* commits; seen: those that existed when it looked.                        *)
Transactions == [at    : {"none", "follow", "unfollow"},
                 posts : SUBSET Posts,
                 seen  : SUBSET Posts]
NoTx == [at |-> "none", posts |-> {}, seen |-> {}]

(* A job waits for a worker, is claimed, reads the followers, writes their  *)
(* entries and then their notifications; it is lost with its worker.        *)
Stages == {"absent", "waiting", "claimed", "feeding", "notifying", "done", "dead", "lost"}

Fanouts == [at    : Stages,
            list  : SUBSET Users,   \* the followers read
            left  : SUBSET Users,   \* those the present loop has yet to serve
            tries : Nat]

TypeOK ==
    /\ follows \in SUBSET Pairs
    /\ tx \in [Pairs -> Transactions]
    /\ visibility \in [Posts -> {"absent", "followers", "private"}]
    /\ deleted \in SUBSET Posts
    /\ postCount \in [Users -> Nat]
    /\ feed \in SUBSET Entries
    /\ fanout \in [Posts -> Fanouts]
    /\ postJobs \in [Posts -> [Users -> Nat]]
    /\ late \in SUBSET Entries
    /\ stale \in SUBSET Entries

Init ==
    /\ follows = {}
    /\ tx = [q \in Pairs |-> NoTx]
    /\ visibility = [p \in Posts |-> "absent"]
    /\ deleted = {}
    /\ postCount = [u \in Users |-> 0]
    /\ feed = {}
    /\ fanout = [p \in Posts |->
                    [at |-> "absent", list |-> {}, left |-> {}, tries |-> 0]]
    /\ postJobs = [p \in Posts |-> [u \in Users |-> 0]]
    /\ late = {}
    /\ stale = {}

-----------------------------------------------------------------------------
(* PostService. *)

CreatePost(p, v) ==
    /\ visibility[p] = "absent"
    /\ visibility' = [visibility EXCEPT ![p] = v]
    /\ feed' = feed \cup {<<Author[p], p>>}
    /\ postCount' = [postCount EXCEPT ![Author[p]] = @ + 1]
    /\ fanout' = [fanout EXCEPT ![p].at = "waiting"]
    /\ UNCHANGED <<follows, tx, deleted, postJobs, late, stale>>

(* The entries, the counter and the job of the post stay. *)
DeletePost(p) ==
    /\ visibility[p] # "absent"
    /\ p \notin deleted
    /\ deleted' = deleted \cup {p}
    /\ UNCHANGED <<follows, tx, visibility, postCount, feed, jobs, late, stale>>

-----------------------------------------------------------------------------
(* FollowService, from either end of the relation. *)

PostsOf(a) == {p \in Posts : Author[p] = a /\ visibility[p] = "followers"}

(* Mutant: a follow does not backfill. *)
NoBackfill(q) == {}

(* What backfill_home_feed_for_follow inserts. *)
Backfilled(q) == PostsOf(q[2]) \ deleted

(* Mutant: an unfollow leaves the entries of posts that are deleted. *)
RemovedLive(q) == {p \in PostsOf(q[2]) \ deleted : <<q[1], p>> \in feed}

(* What remove_followee_posts_from_home_feed deletes. *)
Removed(q) == {p \in PostsOf(q[2]) : <<q[1], p>> \in feed}

BeginFollow(q) ==
    /\ tx[q] = NoTx
    /\ q \notin follows
    /\ tx' = [tx EXCEPT ![q] = [at |-> "follow", posts |-> Backfilled(q),
                                seen |-> PostsOf(q[2])]]
    /\ UNCHANGED <<follows, posts, feed, jobs, late, stale>>

BeginUnfollow(q) ==
    /\ tx[q] = NoTx
    /\ q \in follows
    /\ tx' = [tx EXCEPT ![q] = [at |-> "unfollow", posts |-> Removed(q),
                                seen |-> PostsOf(q[2])]]
    /\ UNCHANGED <<follows, posts, feed, jobs, late, stale>>

EntriesOf(q) == {<<q[1], p>> : p \in tx[q].posts}

(* Posts created since the backfill whose fan-out has read the followers.  *)
Overtaken(q) ==
    {p \in PostsOf(q[2]) \ tx[q].seen :
        fanout[p].at \notin {"absent", "waiting", "claimed"}}

CommitFollow(q) ==
    /\ tx[q].at = "follow"
    /\ follows' = follows \cup {q}
    /\ feed' = feed \cup EntriesOf(q)
    /\ late' = late \cup {<<q[1], p>> : p \in Overtaken(q)}
    /\ tx' = [tx EXCEPT ![q] = NoTx]
    /\ UNCHANGED <<posts, jobs, stale>>

CommitUnfollow(q) ==
    /\ tx[q].at = "unfollow"
    /\ follows' = follows \ {q}
    /\ feed' = feed \ EntriesOf(q)
    /\ tx' = [tx EXCEPT ![q] = NoTx]
    /\ UNCHANGED <<posts, jobs, late, stale>>

Rollback(q) ==
    /\ tx[q] # NoTx
    /\ tx' = [tx EXCEPT ![q] = NoTx]
    /\ UNCHANGED <<follows, posts, feed, jobs, late, stale>>

-----------------------------------------------------------------------------
(* handle_feed_fanout. *)

Followers(a) == {u \in Users : <<u, a>> \in follows}

ClaimFanout(p) ==
    /\ fanout[p].at = "waiting"
    /\ fanout' = [fanout EXCEPT ![p].at = "claimed", ![p].tries = @ + 1]
    /\ UNCHANGED <<follows, tx, posts, feed, postJobs, late, stale>>

(* The handler looks at neither visibility nor is_deleted.                 *)
ReadFollowers(p) ==
    LET list == Followers(Author[p])
        at   == IF list = {} THEN "done" ELSE "feeding"
    IN
    /\ fanout[p].at = "claimed"
    /\ fanout' = [fanout EXCEPT ![p] = [at |-> at, list |-> list, left |-> list,
                                        tries |-> @.tries]]
    /\ UNCHANGED <<follows, tx, posts, feed, postJobs, late, stale>>

(* The INSERT waits for a transaction that writes the same entry.          *)
EntryLocked(u, p) ==
    \E q \in Pairs : tx[q] # NoTx /\ <<u, p>> \in EntriesOf(q)

Unfollowing(u, a) ==
    \/ <<u, a>> \notin follows
    \/ tx[<<u, a>>].at = "unfollow"

(* No unfollow will find the entry: it is over, or has passed by, or does   *)
(* not look for posts of this visibility.                                   *)
OutOfReach(u, p) == Unfollowing(u, Author[p]) \/ visibility[p] = "private"

InsertEntry(p, u) ==
    /\ fanout[p].at = "feeding"
    /\ u \in fanout[p].left
    /\ ~EntryLocked(u, p)
    /\ feed' = feed \cup {<<u, p>>}
    /\ stale' = IF OutOfReach(u, p) THEN stale \cup {<<u, p>>} ELSE stale
    /\ fanout' = [fanout EXCEPT ![p].left = @ \ {u}]
    /\ UNCHANGED <<follows, tx, posts, postJobs, late>>

EntriesWritten(p) ==
    /\ fanout[p].at = "feeding"
    /\ fanout[p].left = {}
    /\ fanout' = [fanout EXCEPT ![p].at = "notifying", ![p].left = fanout[p].list]
    /\ UNCHANGED <<follows, tx, posts, feed, postJobs, late, stale>>

(* Each job is enqueued or refused; the handler goes on all the same.      *)
NotifyFollower(p, u) ==
    /\ fanout[p].at = "notifying"
    /\ u \in fanout[p].left
    /\ fanout' = [fanout EXCEPT ![p].left = @ \ {u}]
    /\ \/ postJobs' = [postJobs EXCEPT ![p][u] = @ + 1]
       \/ UNCHANGED postJobs
    /\ UNCHANGED <<follows, tx, posts, feed, late, stale>>

FanoutDone(p) ==
    /\ fanout[p].at = "notifying"
    /\ fanout[p].left = {}
    /\ fanout' = [fanout EXCEPT ![p].at = "done"]
    /\ UNCHANGED <<follows, tx, posts, feed, postJobs, late, stale>>

(* Mutant: an error while notifying fails the job as well. *)
FailsAnywhere(p) == fanout[p].at \in {"claimed", "feeding", "notifying"}

(* `?' leaves the handler up to the end of the first loop. *)
CanFail(p) == fanout[p].at \in {"claimed", "feeding"}

(* Mutant: the attempts are compared off by one. *)
AfterFailureEarly(p) == IF fanout[p].tries + 1 >= MaxAttempts THEN "dead" ELSE "waiting"

(* A failed handler starts again from the beginning, or is given up.       *)
AfterFailure(p) == IF fanout[p].tries >= MaxAttempts THEN "dead" ELSE "waiting"

FanoutFails(p) ==
    /\ CanFail(p)
    /\ fanout' = [fanout EXCEPT ![p].at = AfterFailure(p)]
    /\ UNCHANGED <<follows, tx, posts, feed, postJobs, late, stale>>

(* The worker dies with the job, or cannot record the result.              *)
WorkerLost(p) ==
    /\ fanout[p].at \in {"claimed", "feeding", "notifying"}
    /\ fanout' = [fanout EXCEPT ![p].at = "lost"]
    /\ UNCHANGED <<follows, tx, posts, feed, postJobs, late, stale>>

-----------------------------------------------------------------------------
Next ==
    \/ \E p \in Posts :
          \/ \E v \in {"followers", "private"} : CreatePost(p, v)
          \/ DeletePost(p)
          \/ ClaimFanout(p) \/ ReadFollowers(p) \/ EntriesWritten(p) \/ FanoutDone(p)
          \/ FanoutFails(p) \/ WorkerLost(p)
          \/ \E u \in Users : InsertEntry(p, u) \/ NotifyFollower(p, u)
    \/ \E q \in Pairs :
          \/ BeginFollow(q) \/ BeginUnfollow(q)
          \/ CommitFollow(q) \/ CommitUnfollow(q) \/ Rollback(q)

Spec == Init /\ [][Next]_vars

-----------------------------------------------------------------------------
(* What get_home_feed shows to a user, page by page. *)
Shown(u) == {p \in Posts \ deleted : <<u, p>> \in feed}

(* Once the fan-out of a post is done, its author and all who follow the   *)
(* author have it in their feeds, whenever they began to follow; the one   *)
(* exception is a follow whose backfill ran before the post and whose      *)
(* COMMIT came after the fan-out had read the followers.                   *)
FollowersServed ==
    \A p \in Posts \ deleted : visibility[p] = "followers" /\ fanout[p].at = "done" =>
        /\ p \in Shown(Author[p])
        /\ \A u \in Followers(Author[p]) : p \in Shown(u) \/ <<u, p>> \in late

(* Who has a post in the feed, and is not its author or a follower who may  *)
(* see it, has it from a fan-out that had read the followers before the     *)
(* unfollow, or that served a private post: a backfill adds no private post *)
(* and an unfollow takes every entry it can find, deleted posts included.   *)
EntriesHaveReason ==
    \A p \in Posts : \A u \in Users \ {Author[p]} :
        /\ <<u, p>> \in feed
        /\ visibility[p] = "private" \/ u \notin Followers(Author[p])
        => <<u, p>> \in stale

(* However often the fan-out is retried, no follower is notified twice of  *)
(* a post: the handler cannot fail any more once it has begun to notify.   *)
NotifiedOncePerPost ==
    \A p \in Posts, u \in Users : postJobs[p][u] <= 1

(* What the implementation guide says of the fan-out: entries "for         *)
(* followers who are allowed to see it", as can_view_post has it.          *)
OnlyAllowedInFeed ==
    \A u \in Users : \A p \in Shown(u) :
        u = Author[p] \/ visibility[p] = "followers"

(* The job of the fan-out as the queue sees it. *)
JobStatus(p) ==
    IF fanout[p].at \in {"claimed", "feeding", "notifying"} THEN "held"
    ELSE IF fanout[p].at = "done" THEN "completed" ELSE fanout[p].at

Lifecycle == INSTANCE JobLifecycle WITH Jobs <- Posts,
                                        status <- [p \in Posts |-> JobStatus(p)],
                                        tries <- [p \in Posts |-> fanout[p].tries]

(* The fan-out's job lives as JobQueue was shown to let a job live: so the *)
(* handler's failures and retries here are such that the queue can cause.  *)
ImplementsLifecycle == Lifecycle!Spec
=============================================================================
