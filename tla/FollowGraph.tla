---------------------------- MODULE FollowGraph ----------------------------
(***************************************************************************)
(* FollowService: follow, unfollow, accept_follow_request and              *)
(* reject_follow_request, with delete_account of AuthService, over the     *)
(* tables users, follows, profiles (counters), notifications and           *)
(* feed_entries.                                                           *)
(*                                                                         *)
(* The transactions of follow and accept are two steps: the statement that *)
(* takes the lock of the pair's follows row, with the NOT EXISTS it leads  *)
(* to, and COMMIT, with which their writes become visible.  Those of       *)
(* unfollow and delete_account, which wait for such locks and decide       *)
(* nothing after it, are one step.  What a call reads before its           *)
(* transaction is a step of its own, and so is each statement of           *)
(* reject_follow_request, which has none.                                  *)
(***************************************************************************)
EXTENDS Integers, FiniteSets

CONSTANTS Users,
          Pairs,          \* the <<follower, followee>> pairs that occur
          NoPair,         \* the pair of a call that has none
          Calls,          \* RPCs that may be in flight at the same time
          Caller,         \* the authenticated user of each call
          MuteRequests,   \* users with follow_requests_enabled = FALSE
          MuteActivity,   \* users with follow_activity_enabled = FALSE
          MaxOverlaps     \* bound: follows that start while another is in flight

ASSUME FollowAssumption ==
    /\ IsFiniteSet(Pairs)
    /\ Pairs \subseteq {p \in Users \X Users : p[1] # p[2]}
    /\ NoPair \notin Pairs
    /\ Caller \in [Calls -> Users]
    /\ MuteRequests \subseteq Users
    /\ MuteActivity \subseteq Users
    /\ MaxOverlaps \in Nat

VARIABLES
    live,         \* accounts that exist: rows of users
    edge,         \* follows.state per pair, "none" when there is no row
    followers,    \* profiles.follower_count
    following,    \* profiles.following_count
    private,      \* profiles.is_private
    request,      \* unread follow_request notifications, follower to followee
    accepted,     \* unread follow_accepted notifications, followee to follower
    feed,         \* pairs whose follower has the followee's post in the feed
    call,         \* what each RPC in flight has read or done
    halfRejected, \* history: pairs of a reject that has not cleared the request
    overlaps,     \* history: follows that started while another was in flight
    overlapped,   \* history: the follow calls in flight that took part in one
    overwritten,  \* history: pairs whose row a follow found there at its upsert
    ghosts        \* history: accepted pairs that went with an account

state   == <<live, edge, followers, following, private, request, accepted, feed>>
history == <<halfRejected, overlaps, overlapped, overwritten, ghosts>>
vars    == <<state, call, history>>

Follower(p) == p[1]
Followee(p) == p[2]
Followees   == {Followee(p) : p \in Pairs}

EdgeStates == {"none", "pending", "accepted"}

(* A call is idle; in follow, it has seen no row ("absent"), then decided   *)
(* on a state, then upserted the row ("written"); in accept, it has updated *)
(* the row ("accepting"); in reject, deleted it ("deleted").  "written" and *)
(* "accepting" hold the lock of the row, and know whether NOT EXISTS lets   *)
(* their notification through.                                              *)
CallStates == [at     : {"idle", "absent", "decided", "written", "accepting", "deleted"},
               pair   : Pairs \cup {NoPair},
               state  : EdgeStates,
               notify : BOOLEAN]

IdleCall == [at |-> "idle", pair |-> NoPair, state |-> "none", notify |-> FALSE]

TypeOK ==
    /\ live \in SUBSET Users
    /\ edge \in [Pairs -> EdgeStates]
    /\ followers \in [Users -> Int]
    /\ following \in [Users -> Int]
    /\ private \in [Followees -> BOOLEAN]
    /\ request \in [Pairs -> Nat]
    /\ accepted \in [Pairs -> Nat]
    /\ feed \in SUBSET Pairs
    /\ call \in [Calls -> CallStates]
    /\ halfRejected \in SUBSET Pairs
    /\ overlaps \in Nat
    /\ overlapped \in SUBSET Calls
    /\ overwritten \in SUBSET Pairs
    /\ ghosts \in SUBSET Pairs

Init ==
    /\ live = Users
    /\ edge = [p \in Pairs |-> "none"]
    /\ followers = [u \in Users |-> 0]
    /\ following = [u \in Users |-> 0]
    /\ private \in [Followees -> BOOLEAN]
    /\ request = [p \in Pairs |-> 0]
    /\ accepted = [p \in Pairs |-> 0]
    /\ feed = {}
    /\ call = [c \in Calls |-> IdleCall]
    /\ halfRejected = {}
    /\ overlaps = 0
    /\ overlapped = {}
    /\ overwritten = {}
    /\ ghosts = {}

Moves(c, at, p, s, n) ==
    call' = [call EXCEPT ![c] = [at |-> at, pair |-> p, state |-> s, notify |-> n]]

Return(c) ==
    /\ call' = [call EXCEPT ![c] = IdleCall]
    /\ overlapped' = overlapped \ {c}

-----------------------------------------------------------------------------
(* Parts of the transactions. *)

Holds(c, p) == call[c].at \in {"written", "accepting"} /\ call[c].pair = p

(* Mutant: the statements run on the pool, without a transaction. *)
NeverLocked(p) == TRUE

(* No transaction has inserted, updated or deleted the row of p and is open. *)
LockFree(p) == \A c \in Calls : ~Holds(c, p)

(* Mutant: the follower's own counter is forgotten. *)
CountFolloweeOnly(p, n) ==
    /\ followers' = [followers EXCEPT ![Followee(p)] = @ + n]
    /\ UNCHANGED following

CountFollow(p, n) ==
    /\ followers' = [followers EXCEPT ![Followee(p)] = @ + n]
    /\ following' = [following EXCEPT ![Follower(p)] = @ + n]

SetEdge(p, s) == edge' = [edge EXCEPT ![p] = s]

(* backfill_home_feed_for_follow, remove_followee_posts_from_home_feed. *)
Backfill(p) == feed' = feed \cup {p}

(* Mutant: unfollow leaves the posts in the feed. *)
KeepPosts(p) == feed' = feed

RemovePosts(p) == feed' = feed \ {p}

(* The INSERT INTO notifications of c, visible once c commits. *)
Notify(c, unread) ==
    IF call[c].notify THEN [unread EXCEPT ![call[c].pair] = @ + 1] ELSE unread

(* A follow of p has looked for unread requests and not committed. *)
Following(p) == \E c \in Calls : call[c].at = "written" /\ call[c].pair = p

(* Mutant: no notification is marked read. *)
ClearNothing(p) ==
    /\ halfRejected' = halfRejected \ {p}
    /\ UNCHANGED request

(* Mutant: the UPDATE does not ask for the actor. *)
ClearAllOf(p) ==
    /\ request' = [q \in Pairs |-> IF Followee(q) = Followee(p) THEN 0 ELSE request[q]]
    /\ halfRejected' = IF Following(p) THEN halfRejected ELSE halfRejected \ {p}

(* UPDATE notifications SET is_read = TRUE ... AND NOT is_read.  It comes  *)
(* too late for a follow that has already found them unread.               *)
ClearRequest(p) ==
    /\ request' = [request EXCEPT ![p] = 0]
    /\ halfRejected' = IF Following(p) THEN halfRejected ELSE halfRejected \ {p}

-----------------------------------------------------------------------------
(* The follow calls of p in flight, and what one more makes of them. *)
FollowsOf(p) == {d \in Calls : /\ call[d].at \in {"absent", "decided", "written"}
                               /\ call[d].pair = p}

CountOverlap(c, p) ==
    IF FollowsOf(p) = {}
    THEN UNCHANGED <<overlaps, overlapped>>
    ELSE /\ overlaps < MaxOverlaps
         /\ overlaps' = overlaps + 1
         /\ overlapped' = overlapped \cup FollowsOf(p) \cup {c}

(* Mutant: a row that exists does not end the call. *)
FollowUnread(c, p) ==
    /\ call[c] = IdleCall
    /\ Caller[c] = Follower(p)
    /\ Moves(c, "absent", p, "none", FALSE)
    /\ CountOverlap(c, p)
    /\ UNCHANGED <<state, halfRejected, overwritten, ghosts>>

(* follow: the row is read first; any row at all ends the call.            *)
FollowRead(c, p) ==
    /\ call[c] = IdleCall
    /\ Caller[c] = Follower(p)
    /\ edge[p] = "none"
    /\ Moves(c, "absent", p, "none", FALSE)
    /\ CountOverlap(c, p)
    /\ UNCHANGED <<state, halfRejected, overwritten, ghosts>>

(* Then is_private of the target, which decides the state to write; a      *)
(* target without a profile counts as private.                             *)
FollowDecide(c) ==
    LET p == call[c].pair IN
    /\ call[c].at = "absent"
    /\ \E s \in {"pending", "accepted"} :
          /\ s = "pending" <=> Followee(p) \notin live \/ private[Followee(p)]
          /\ Moves(c, "decided", p, s, FALSE)
    /\ UNCHANGED <<state, history>>

(* Then the transaction, which upserts the row whatever it holds by now    *)
(* and looks for an unread notification.  The foreign keys want both users.*)
FollowWrite(c) ==
    LET p == call[c].pair IN
    /\ call[c].at = "decided"
    /\ {Follower(p), Followee(p)} \subseteq live
    /\ LockFree(p)
    /\ Moves(c, "written", p, call[c].state,
             /\ call[c].state = "pending"
             /\ Followee(p) \notin MuteRequests
             /\ request[p] = 0)
    /\ UNCHANGED <<state, history>>

FollowCommit(c) ==
    LET p == call[c].pair IN
    /\ call[c].at = "written"
    /\ SetEdge(p, call[c].state)
    /\ \/ /\ call[c].state = "accepted"
          /\ CountFollow(p, 1)
          /\ Backfill(p)
          /\ UNCHANGED request
       \/ /\ call[c].state = "pending"
          /\ request' = Notify(c, request)
          /\ UNCHANGED <<followers, following, feed>>
    /\ overwritten' = IF edge[p] = "none" THEN overwritten ELSE overwritten \cup {p}
    /\ Return(c)
    /\ UNCHANGED <<live, private, accepted, halfRejected, overlaps, ghosts>>

(* unfollow: one transaction, by the state DELETE returned.                *)
Unfollow(c, p) ==
    /\ call[c] = IdleCall
    /\ Caller[c] = Follower(p)
    /\ LockFree(p)
    /\ SetEdge(p, "none")
    /\ \/ /\ edge[p] = "accepted"
          /\ CountFollow(p, -1)
          /\ RemovePosts(p)
          /\ UNCHANGED <<request, halfRejected>>
       \/ /\ edge[p] = "pending"
          /\ ClearRequest(p)
          /\ UNCHANGED <<followers, following, feed>>
    /\ UNCHANGED <<live, private, accepted, call, overlaps, overlapped, overwritten, ghosts>>

(* accept_follow_request: not_found unless pending, then one transaction.  *)
AcceptWrite(c, p) ==
    /\ call[c] = IdleCall
    /\ Caller[c] = Followee(p)
    /\ edge[p] = "pending"
    /\ LockFree(p)
    /\ Moves(c, "accepting", p, "accepted",
             Follower(p) \notin MuteActivity /\ accepted[p] = 0)
    /\ UNCHANGED <<state, history>>

AcceptCommit(c) ==
    LET p == call[c].pair IN
    /\ call[c].at = "accepting"
    /\ SetEdge(p, "accepted")
    /\ CountFollow(p, 1)
    /\ ClearRequest(p)
    /\ Backfill(p)
    /\ accepted' = Notify(c, accepted)
    /\ Return(c)
    /\ UNCHANGED <<live, private, overlaps, overwritten, ghosts>>

(* reject_follow_request: the DELETE, which waits for the lock of a        *)
(* pending row only ...                                                    *)
RejectDelete(c, p) ==
    /\ call[c] = IdleCall
    /\ Caller[c] = Followee(p)
    /\ \/ /\ edge[p] = "pending"
          /\ LockFree(p)
          /\ SetEdge(p, "none")
          /\ halfRejected' = halfRejected \cup {p}
       \/ /\ edge[p] # "pending"
          /\ UNCHANGED <<edge, halfRejected>>
    /\ Moves(c, "deleted", p, "none", FALSE)
    /\ UNCHANGED <<live, followers, following, private, request, accepted, feed,
                   overlaps, overlapped, overwritten, ghosts>>

(* ... and then, on another connection, the notifications.                 *)
RejectClear(c) ==
    /\ call[c].at = "deleted"
    /\ ClearRequest(call[c].pair)
    /\ Return(c)
    /\ UNCHANGED <<live, edge, followers, following, private, accepted, feed,
                   overlaps, overwritten, ghosts>>

(* A database error, an aborted transaction or a crash ends a call early.  *)
Fail(c) ==
    /\ call[c] # IdleCall
    /\ Return(c)
    /\ UNCHANGED <<state, halfRejected, overlaps, overwritten, ghosts>>

-----------------------------------------------------------------------------
(* Other services: update_profile, mark_read of one notification.          *)
SetPrivate(u) ==
    /\ u \in live
    /\ private' = [private EXCEPT ![u] = ~@]
    /\ UNCHANGED <<live, edge, followers, following, request, accepted, feed, call,
                   history>>

ReadRequest(p) ==
    /\ request[p] > 0
    /\ request' = [request EXCEPT ![p] = @ - 1]
    /\ UNCHANGED <<live, edge, followers, following, private, accepted, feed, call,
                   history>>

ReadAccepted(p) ==
    /\ accepted[p] > 0
    /\ accepted' = [accepted EXCEPT ![p] = @ - 1]
    /\ UNCHANGED <<live, edge, followers, following, private, request, feed, call,
                   history>>

(* delete_account: DELETE FROM users and what it cascades to.  The rows of *)
(* the user's pairs go, with the profile, the feed entries and the         *)
(* notifications (those of which the user is the actor lose it); the       *)
(* counters of the other users stay as they are.  A deleted user's token   *)
(* still authenticates: calls of theirs may go on, or start.               *)
DeleteAccount(u) ==
    LET theirs == {p \in Pairs : u \in {Follower(p), Followee(p)}} IN
    /\ u \in live
    /\ \A p \in theirs : LockFree(p)
    /\ live' = live \ {u}
    /\ edge' = [p \in Pairs |-> IF p \in theirs THEN "none" ELSE edge[p]]
    /\ followers' = [followers EXCEPT ![u] = 0]
    /\ following' = [following EXCEPT ![u] = 0]
    /\ private' = [f \in Followees |-> private[f] /\ f # u]
    /\ request' = [p \in Pairs |-> IF p \in theirs THEN 0 ELSE request[p]]
    /\ accepted' = [p \in Pairs |-> IF p \in theirs THEN 0 ELSE accepted[p]]
    /\ feed' = feed \ theirs
    /\ halfRejected' = halfRejected \ theirs
    /\ ghosts' = ghosts \cup {p \in theirs : edge[p] = "accepted"}
    /\ UNCHANGED <<call, overlaps, overlapped, overwritten>>

Next ==
    \/ \E c \in Calls, p \in Pairs :
          FollowRead(c, p) \/ Unfollow(c, p) \/ AcceptWrite(c, p) \/ RejectDelete(c, p)
    \/ \E c \in Calls :
          \/ FollowDecide(c) \/ FollowWrite(c) \/ FollowCommit(c)
          \/ AcceptCommit(c) \/ RejectClear(c) \/ Fail(c)
    \/ \E u \in Followees : SetPrivate(u)
    \/ \E u \in Users : DeleteAccount(u)
    \/ \E p \in Pairs : ReadRequest(p) \/ ReadAccepted(p)

Spec == Init /\ [][Next]_vars

-----------------------------------------------------------------------------
(* The follows that a counter should count. *)
FollowersOf(u) == {p \in Pairs : edge[p] = "accepted" /\ Followee(p) = u}
FollowedBy(u)  == {p \in Pairs : edge[p] = "accepted" /\ Follower(p) = u}

(* What the guide has in mind with counters "maintained transactionally".  *)
(* It does not hold: accounts are deleted, and follows overlap.            *)
CountersAreFollows ==
    \A u \in live : /\ followers[u] = Cardinality(FollowersOf(u))
                    /\ following[u] = Cardinality(FollowedBy(u))

(* The follows that it does count, those of deleted accounts included. *)
Counted(p) == edge[p] = "accepted" \/ p \in ghosts

CountedFollowers(u) == {p \in Pairs : Counted(p) /\ Followee(p) = u}
CountedFollowing(u) == {p \in Pairs : Counted(p) /\ Follower(p) = u}

Undisturbed(u) == \A p \in overwritten : u \notin {Follower(p), Followee(p)}

(* A counter of an existing profile counts the accepted follows and, for   *)
(* good, those that went with a deleted account: the cascade is the one    *)
(* way to leave the counters behind that needs no overlap.  Where a follow *)
(* has overwritten a row that another call made under its nose, the        *)
(* counters may be higher than that, and are never lower.                  *)
CountersExact ==
    \A u \in live :
        /\ followers[u] >= Cardinality(CountedFollowers(u))
        /\ following[u] >= Cardinality(CountedFollowing(u))
        /\ Undisturbed(u) => /\ followers[u] = Cardinality(CountedFollowers(u))
                             /\ following[u] = Cardinality(CountedFollowing(u))

(* The home feed holds the followers-only posts of the users one follows:  *)
(* backfill and removal go with every change of an accepted row.  Only an  *)
(* overwritten row may leave posts behind.                                 *)
FeedFollowsGraph ==
    /\ \A p \in Pairs : edge[p] = "accepted" => p \in feed
    /\ \A p \in feed : edge[p] = "accepted" \/ p \in overwritten

(* At most one unread notification of a kind per pair.  NOT EXISTS sees    *)
(* committed rows only; what makes it safe is that every transaction that  *)
(* notifies for a pair holds the lock of its follows row from before the   *)
(* look until the commit.                                                  *)
OneUnread == \A p \in Pairs : request[p] <= 1 /\ accepted[p] <= 1

(* An unread request notification belongs to a pending request, except for *)
(* what a reject left between its two statements, and for a pending row    *)
(* that an overlapping follow has turned into an accepted one.             *)
UnreadIsPending ==
    \A p \in Pairs : request[p] > 0 =>
        edge[p] = "pending" \/ p \in halfRejected \/ p \in overwritten

(* Only a follow that overlapped another one of the same pair can take an  *)
(* accepted row back to pending.  What a follow read long before it writes *)
(* does no harm otherwise: no accept, reject, privacy change or deleted    *)
(* account in between makes it overwrite what accept wrote.                *)
NoDowngrade ==
    [][\A p \in Pairs :
          edge[p] = "accepted" /\ edge'[p] = "pending"
             => \E c \in overlapped : call[c].pair = p /\ FollowCommit(c)]_vars

Requested(p) == edge[p] = "none" /\ edge'[p] = "pending"

(* A new request brings the followee an unread notification of its own.    *)
NotifiesFollowee(p) ==
    Followee(p) \notin MuteRequests => request[p] = 0 /\ request'[p] = 1

(* Every way of resolving a request lets the next one notify again, as the *)
(* comment in unfollow wants it, as long as no reject is between its two   *)
(* statements (a request made there gets no notification) and no           *)
(* overlapping follow has left the notification of a row it overwrote.     *)
RequestNotifies ==
    [][\A p \in Pairs : Requested(p) /\ p \notin halfRejected /\ p \notin overwritten
                            => NotifiesFollowee(p)]_vars

(* A reject of this pair has still its second statement to run. *)
Rejecting(p) == \E c \in Calls : call[c].at = "deleted" /\ call[c].pair = p

(* The notification of a request that stays open is silenced by its        *)
(* followee alone: by reading it, or by a late reject, whose second        *)
(* statement may hit a request made since its first one ran.  Nothing that *)
(* happens to the followee's other requests reaches it.                    *)
SilencedByFollowee ==
    [][\A p \in Pairs :
          edge[p] = "pending" /\ edge'[p] = "pending" /\ request'[p] < request[p]
             => ReadRequest(p) \/ Rejecting(p)]_vars
=============================================================================
