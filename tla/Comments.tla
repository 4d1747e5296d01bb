------------------------------ MODULE Comments ------------------------------
(***************************************************************************)
(* CommentService: add_comment and delete_comment over the tables comments *)
(* and comment_mentions, the counters kept beside them, and the            *)
(* notification jobs.                                                      *)
(*                                                                         *)
(* What a call reads to authorise itself is one step, before its           *)
(* transaction and never repeated in it.  The transaction begins, takes    *)
(* the lock of the post's row and commits; but a text that mentions        *)
(* somebody makes it ask the pool for a second connection in between, while*)
(* it holds the first and the lock.  The calls of                          *)
(* enqueue_notification_job come after COMMIT, each a step of its own that *)
(* may be lost.                                                            *)
(***************************************************************************)
EXTENDS Naturals, FiniteSets

CONSTANTS Users,
          Posts,         \* post identifiers
          Comments,      \* comment identifiers
          Nothing,       \* no parent, no target, no row
          PostAuthor,    \* the author of each post
          Calls,         \* RPCs that may be in flight at the same time
          Caller,        \* the authenticated user of each call
          Fickle,        \* <<user, post>> pairs whose follow may come and go
          Doomed,        \* posts that their authors may delete
          MaxConnections \* of the pool the calls share

(* A row of comments. *)
Rows == [post : Posts, author : Users, parent : Comments \cup {Nothing}]

ASSUME CommentsAssumption ==
    /\ IsFiniteSet(Comments)
    /\ IsFiniteSet(Calls)
    /\ Posts \cap Comments = {}
    /\ Nothing \notin Posts \cup Comments \cup Rows
    /\ PostAuthor \in [Posts -> Users]
    /\ Caller \in [Calls -> Users]
    /\ Fickle \subseteq Users \X Posts
    /\ Doomed \subseteq Posts
    /\ MaxConnections \in Nat \ {0}

VARIABLES
    audience,      \* users who see a post though it is not theirs
    deleted,       \* posts and comments with is_deleted
    comment,       \* rows of comments, Nothing before the row exists
    mentions,      \* comment_mentions: users mentioned in a comment
    commentCount,  \* posts.comment_count
    replyCount,    \* comments.reply_count
    call,          \* what each RPC in flight has read or done
    jobs,          \* notification jobs about a comment, per recipient
    cutShort       \* history: comments whose call ended before its last job

posts == <<audience, deleted>>
rows  == <<comment, mentions, commentCount, replyCount>>
vars  == <<posts, rows, call, jobs, cutShort>>

(* "comment" is authorised; "begun" is in its transaction, which waits for  *)
(* the post's row; "tagged" has locked it and is about to look up the       *)
(* mentions; "postAuthor" and "parentAuthor" have committed and are about   *)
(* to enqueue a job.  "erase" is an authorised delete, and "erasing" one    *)
(* whose UPDATE waits for the row.                                          *)
Stages == {"idle", "comment", "begun", "tagged",
           "postAuthor", "parentAuthor", "erase", "erasing"}

CallStates == [at     : Stages,
               target : Posts \cup Comments \cup {Nothing},
               parent : Comments \cup {Nothing}]

IdleCall == [at |-> "idle", target |-> Nothing, parent |-> Nothing]

TypeOK ==
    /\ audience \in [Posts -> SUBSET Users]
    /\ deleted \in SUBSET (Posts \cup Comments)
    /\ comment \in [Comments -> Rows \cup {Nothing}]
    /\ mentions \in [Comments -> SUBSET Users]
    /\ commentCount \in [Posts -> Nat]
    /\ replyCount \in [Comments -> Nat]
    /\ call \in [Calls -> CallStates]
    /\ jobs \in [Comments -> [Users -> Nat]]
    /\ cutShort \in SUBSET Comments

Init ==
    /\ audience = [p \in Posts |-> Users]
    /\ deleted = {}
    /\ comment = [k \in Comments |-> Nothing]
    /\ mentions = [k \in Comments |-> {}]
    /\ commentCount = [p \in Posts |-> 0]
    /\ replyCount = [k \in Comments |-> 0]
    /\ call = [c \in Calls |-> IdleCall]
    /\ jobs = [k \in Comments |-> [u \in Users |-> 0]]
    /\ cutShort = {}

Moves(c, at, target, parent) ==
    call' = [call EXCEPT ![c] = [at |-> at, target |-> target, parent |-> parent]]

Return(c) == call' = [call EXCEPT ![c] = IdleCall]

-----------------------------------------------------------------------------
(* The pool of connections and the locks of rows. *)

(* Mutant: a call keeps its connection until it returns. *)
HoldsToTheEnd(c) ==
    call[c].at \in {"begun", "tagged", "erasing", "postAuthor", "parentAuthor"}

(* The calls that have a connection for longer than a read.                *)
Holds(c) == call[c].at \in {"begun", "tagged", "erasing"}

(* pool.acquire, which begin and every statement outside of a transaction  *)
(* wait for.                                                               *)
Available == Cardinality({c \in Calls : Holds(c)}) < MaxConnections

(* The rows whose counters a transaction has updated.                      *)
PostLocked(p)    == \E c \in Calls : call[c].at = "tagged" /\ call[c].target = p
CommentLocked(k) == \E c \in Calls : call[c].at = "tagged" /\ call[c].parent = k

-----------------------------------------------------------------------------
Written(k) == comment[k] # Nothing

CanView(u, p) == /\ p \notin deleted
                 /\ u = PostAuthor[p] \/ u \in audience[p]

(* Mutant: the parent may be on any post. *)
ParentAnywhere(k, p) == Written(k) /\ k \notin deleted

(* The parent has to be a comment on the same post. *)
ParentFits(k, p) == Written(k) /\ comment[k].post = p /\ k \notin deleted

ResolveComment(c, p) ==
    /\ call[c] = IdleCall
    /\ Available
    /\ CanView(Caller[c], p)
    /\ \/ Moves(c, "comment", p, Nothing)
       \/ \E k \in Comments : ParentFits(k, p) /\ Moves(c, "comment", p, k)
    /\ UNCHANGED <<posts, rows, jobs, cutShort>>

(* BEGIN, the INSERT, and the UPDATE of the post's counter: it may find     *)
(* the row locked, and waits on its connection,                             *)
WaitForPost(c) ==
    /\ call[c].at = "comment"
    /\ Available
    /\ PostLocked(call[c].target)
    /\ Moves(c, "begun", call[c].target, call[c].parent)
    /\ UNCHANGED <<posts, rows, jobs, cutShort>>

(* or it does not.                                                          *)
Counts(c) ==
    /\ call[c].at = "begun" \/ (call[c].at = "comment" /\ Available)
    /\ ~PostLocked(call[c].target)

(* The counts wait for COMMIT while the mentions are looked up.             *)
LockRows(c) ==
    /\ Counts(c)
    /\ Moves(c, "tagged", call[c].target, call[c].parent)
    /\ UNCHANGED <<posts, rows, jobs, cutShort>>

(* Mutant: a reply does not count as a comment on the post. *)
CountTopLevel(p, r) ==
    /\ commentCount' = IF r # Nothing THEN commentCount
                       ELSE [commentCount EXCEPT ![p] = @ + 1]
    /\ replyCount' = IF r = Nothing THEN replyCount
                     ELSE [replyCount EXCEPT ![r] = @ + 1]

CountComment(p, r) ==
    /\ commentCount' = [commentCount EXCEPT ![p] = @ + 1]
    /\ replyCount' = IF r = Nothing THEN replyCount
                     ELSE [replyCount EXCEPT ![r] = @ + 1]

(* What extract_mentioned_usernames and resolve_mentionable_user_ids find   *)
(* depends on the text, on names and on profiles: any users but the caller. *)
Mentionable(u) == SUBSET (Users \ {u})

(* COMMIT of a comment that mentions M, with the jobs for them.            *)
Committed(c, k, M) ==
    LET p == call[c].target
        r == call[c].parent
    IN
    /\ ~Written(k)
    /\ comment' = [comment EXCEPT ![k] =
                       [post |-> p, author |-> Caller[c], parent |-> r]]
    /\ CountComment(p, r)
    /\ mentions' = [mentions EXCEPT ![k] = M]
    /\ jobs' = [jobs EXCEPT ![k] = [u \in Users |-> IF u \in M THEN 1 ELSE 0]]
    /\ Moves(c, "postAuthor", k, Nothing)
    /\ UNCHANGED <<posts, cutShort>>

(* A text that mentions nobody. *)
CommitPlain(c, k) ==
    /\ Counts(c)
    /\ Committed(c, k, {})

(* resolve_mentionable_user_ids on another connection, and the rest.       *)
CommitTagged(c, k) ==
    /\ call[c].at = "tagged"
    /\ Available
    /\ \E M \in Mentionable(Caller[c]) : Committed(c, k, M)

Told(k, u) ==
    /\ Available
    /\ jobs' = [jobs EXCEPT ![k][u] = @ + 1]

ParentAuthor(k) == LET r == comment[k].parent
                   IN  IF r = Nothing THEN {} ELSE {comment[r].author}

(* Mutant: the post's author is told twice of a reply to a comment of hers. *)
PostAuthorToldTwice(k) ==
    {PostAuthor[comment[k].post]} \ ({comment[k].author} \cup mentions[k])

(* The post's author, unless mentioned or told as the parent's author.     *)
PostAuthorTold(k) ==
    {PostAuthor[comment[k].post]}
        \ ({comment[k].author} \cup mentions[k] \cup ParentAuthor(k))

(* The parent's author, unless mentioned. *)
ParentAuthorTold(k) == ParentAuthor(k) \ ({comment[k].author} \cup mentions[k])

NotifyPostAuthor(c) ==
    LET k == call[c].target IN
    /\ call[c].at = "postAuthor"
    /\ \/ PostAuthorTold(k) = {} /\ UNCHANGED jobs
       \/ \E u \in PostAuthorTold(k) : Told(k, u)
    /\ Moves(c, "parentAuthor", k, Nothing)
    /\ UNCHANGED <<posts, rows, cutShort>>

NotifyParentAuthor(c) ==
    LET k == call[c].target IN
    /\ call[c].at = "parentAuthor"
    /\ \/ ParentAuthorTold(k) = {} /\ UNCHANGED jobs
       \/ \E u \in ParentAuthorTold(k) : Told(k, u)
    /\ Return(c)
    /\ UNCHANGED <<posts, rows, cutShort>>

(* delete_comment: by the author of the comment or of the post.  The       *)
(* counters stay as they are.                                              *)
ResolveDelete(c, k) ==
    /\ call[c] = IdleCall
    /\ Available
    /\ Written(k)
    /\ k \notin deleted
    /\ Caller[c] \in {comment[k].author, PostAuthor[comment[k].post]}
    /\ Moves(c, "erase", k, Nothing)
    /\ UNCHANGED <<posts, rows, jobs, cutShort>>

(* The UPDATE; it may find the row locked, and waits on its connection.    *)
WaitForRow(c) ==
    /\ call[c].at = "erase"
    /\ Available
    /\ CommentLocked(call[c].target)
    /\ Moves(c, "erasing", call[c].target, Nothing)
    /\ UNCHANGED <<posts, rows, jobs, cutShort>>

DeleteComment(c) ==
    /\ call[c].at = "erasing" \/ (call[c].at = "erase" /\ Available)
    /\ ~CommentLocked(call[c].target)
    /\ deleted' = deleted \cup {call[c].target}
    /\ Return(c)
    /\ UNCHANGED <<audience, rows, jobs, cutShort>>

-----------------------------------------------------------------------------
(* A database error, an acquire that times out, a crash or a client that   *)
(* hangs up ends the call; an open transaction rolls back.  After COMMIT   *)
(* the jobs to come are lost.                                              *)
Fail(c) ==
    /\ call[c] # IdleCall
    /\ Return(c)
    /\ cutShort' = IF call[c].at \in {"postAuthor", "parentAuthor"}
                   THEN cutShort \cup {call[c].target} ELSE cutShort
    /\ UNCHANGED <<posts, rows, jobs>>

(* The error of one job is ignored, and the next one is enqueued.          *)
JobRefused(c) ==
    /\ call[c].at = "postAuthor"
    /\ Moves(c, "parentAuthor", call[c].target, Nothing)
    /\ cutShort' = cutShort \cup {call[c].target}
    /\ UNCHANGED <<posts, rows, jobs>>

(* PostService::delete_post, which touches neither counters nor comments.  *)
DeletePost(p) ==
    /\ p \in Doomed \ deleted
    /\ ~PostLocked(p)
    /\ deleted' = deleted \cup {p}
    /\ UNCHANGED <<audience, rows, call, jobs, cutShort>>

(* FollowService, or a post made private. *)
ChangeAudience(p, u) ==
    /\ <<u, p>> \in Fickle
    /\ audience' = [audience EXCEPT ![p] = IF u \in @ THEN @ \ {u} ELSE @ \cup {u}]
    /\ UNCHANGED <<deleted, rows, call, jobs, cutShort>>

-----------------------------------------------------------------------------
Next ==
    \/ \E c \in Calls :
          \/ \E p \in Posts : ResolveComment(c, p)
          \/ \E k \in Comments : CommitPlain(c, k) \/ CommitTagged(c, k)
                                \/ ResolveDelete(c, k)
          \/ WaitForPost(c) \/ LockRows(c)
          \/ NotifyPostAuthor(c) \/ NotifyParentAuthor(c)
          \/ WaitForRow(c) \/ DeleteComment(c) \/ Fail(c) \/ JobRefused(c)
    \/ \E p \in Posts : DeletePost(p) \/ \E u \in Users : ChangeAudience(p, u)

Spec == Init /\ [][Next]_vars

-----------------------------------------------------------------------------
(* comment_count and reply_count are the numbers of comments written, on   *)
(* the post and in reply: no deletion takes from either.                   *)
CommentsOn(p) == {k \in Comments : Written(k) /\ comment[k].post = p}
RepliesTo(r)  == {k \in Comments : Written(k) /\ comment[k].parent = r}

CommentCountsExact ==
    /\ \A p \in Posts : commentCount[p] = Cardinality(CommentsOn(p))
    /\ \A k \in Comments : replyCount[k] = Cardinality(RepliesTo(k))

(* A thread does not leave its post: a reply's parent exists and is a      *)
(* comment on the reply's post, though it may be deleted by now.           *)
ThreadsStayOnPost ==
    \A k \in Comments : Written(k) /\ comment[k].parent # Nothing =>
        /\ Written(comment[k].parent)
        /\ comment[comment[k].parent].post = comment[k].post

(* Who has an interest in a comment: the users it mentions, the author of  *)
(* the post and the author of the parent, never the commenter.             *)
Interested(k) ==
    (mentions[k] \cup {PostAuthor[comment[k].post]} \cup ParentAuthor(k))
        \ {comment[k].author}

Notifying(k) == \E c \in Calls : /\ call[c].at \in {"postAuthor", "parentAuthor"}
                                 /\ call[c].target = k

(* A comment yields one notification job for each user with an interest    *)
(* in it, whichever of the three roles the user has, and none for others;  *)
(* some may be missing only while, or because, the call did not get to     *)
(* them after COMMIT.                                                      *)
NotifiedOnce ==
    \A k \in Comments : Written(k) =>
        \A u \in Users :
            /\ jobs[k][u] <= IF u \in Interested(k) THEN 1 ELSE 0
            /\ u \in Interested(k) /\ ~Notifying(k) /\ k \notin cutShort
                  => jobs[k][u] = 1

(* A call waits for a connection, or for a row that another call has       *)
(* locked.                                                                 *)
NeedsConnection(c) ==
    \/ call[c].at \in {"comment", "tagged", "erase"}
    \/ call[c].at = "postAuthor" /\ PostAuthorTold(call[c].target) # {}
    \/ call[c].at = "parentAuthor" /\ ParentAuthorTold(call[c].target) # {}

Waits(c) ==
    \/ NeedsConnection(c) /\ ~Available
    \/ call[c].at = "begun" /\ PostLocked(call[c].target)
    \/ call[c].at = "erasing" /\ CommentLocked(call[c].target)

Active == {c \in Calls : call[c] # IdleCall}

(* In a transaction, or in a statement that waits. *)
Connected(c) == call[c].at \in {"begun", "tagged", "erasing"}

(* There is one way only in which all calls wait for each other: every     *)
(* connection is held by one of them, and a transaction that holds one     *)
(* needs another to look up whom the text mentions.  It ends when that     *)
(* acquire times out, and cannot happen while fewer calls than the pool    *)
(* has connections are under way, or none of them mentions anybody.        *)
StuckInPoolOnly ==
    Active # {} /\ (\A c \in Active : Waits(c)) =>
        /\ Cardinality({c \in Active : Connected(c)}) = MaxConnections
        /\ \E c \in Active : call[c].at = "tagged"
=============================================================================
