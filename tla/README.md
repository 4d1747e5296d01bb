# CoveServer: a verification project

CoveServer is the backend of a private photo-sharing app: a gRPC monolith
(`src/cove-server`), a background worker (`src/cove-worker`), a PostgreSQL
database that both share (`src/migrations`), and an object store. This directory
holds TLA+ models of its core logic, the configurations that check them with TLC,
and proofs that TLAPS checks.

- [1. The system](#1-the-system): the inventory of components
- [2. How the models are built](#2-how-the-models-are-built)
- [3. The modules](#3-the-modules)
- [4. The runs](#4-the-runs)
- [5. What is proved](#5-what-is-proved)
- [6. Where code and documents disagree](#6-where-code-and-documents-disagree)
- [7. What is not modelled](#7-what-is-not-modelled)
- [8. The plan](#8-the-plan)

`PROJECT.json` lists the same things for tools: the components, the runs, the
source lines each definition stands for, and for each property a mutant of the
code that breaks it. The operators marked "Mutant" in the modules are those; no
`Next` uses them.

## 1. The system

Every request is a task of its own in the server (tonic), with a connection from
a pool for each statement or transaction (sqlx). Nothing is kept in memory between requests:
**all state is in PostgreSQL, all communication goes through its rows**, and all
concurrency is that of its transactions, at the default isolation level READ
COMMITTED. The server talks to the worker through the table `jobs`.

| Component | State it keeps | Operations that change it | Interacts with |
|---|---|---|---|
| worker (`cove-worker/src/main.rs`) | `jobs.state`, `attempts`, `run_at`; the batch in memory | claim, dispatch, complete, retry with backoff, dead letter | every producer of jobs; its handlers |
| job handlers (`cove-worker/src/handlers.rs`) | `feed_entries`, `media_items`, `notifications`, `jobs` | feed fan-out, media processing, notification and push | posts, media, notifications, push |
| social_graph | `follows`, `profiles.follower_count`, `following_count` | follow, unfollow, accept, reject | `notifications`, `feed_entries` (backfill, removal), jobs |
| likes | `likes`, `comment_likes`, `like_count` | like, unlike, on posts and comments | authorization, jobs |
| comments | `comments`, `comment_mentions`, `comment_count`, `reply_count` | add, delete (soft) | authorization, mentions, jobs |
| posts | `posts`, `media_items.post_id`, the posts of portals and mentions, `profiles.post_count` | create, delete (soft), edit caption, add to and remove from a portal | media, portals, feed, jobs |
| feed | `feed_entries` | none of its own: it reads what posts, social_graph and the fan-out write | posts |
| media | `media_items`, objects in the store | upload, processing (worker), attachment to a post | object store, jobs |
| auth, admin, users | `users`, `sessions`, `invites` | register, login, refresh, logout, revoke, delete account, suspend, invite | all (the caller of each request; `DELETE FROM users` cascades to almost every table) |
| profiles | `profiles`, `portals` | update profile, create, update, reorder portals | posts, social_graph (privacy) |
| notifications, preferences, push | `notifications`, preference rows, `push_tokens` | mark read, update preferences, register and revoke tokens | jobs, APNs |
| sharing | `shares`, `posts.share_count` | share a post | authorization, jobs |
| search, and the lists of all services | none | none: each reads one page at a time | cove-common (cursors) |
| audit, crypto, config, storage, cove-proto | `audit_log` | one INSERT, or none | |

### What is hard, and what makes each component correct

- **worker**: several workers poll one table; a claim, a handler and the record
  of its result are separate steps, each may fail, and a worker may die between
  any two. Correct means: a job is in one pair of hands, is attempted as often as
  `attempts` says and no more than `max_attempts`, is not starved by newer jobs,
  and follows one life cycle.
- **social_graph**: `follow` reads the row and the privacy setting *before* its
  transaction; `reject` is two statements without one; a deleted account takes rows with it
  and leaves the counters of others. Correct means: the counters are off by deleted
  accounts and overlapping follows at most, the home feed follows the graph, an accepted
  follow is undone by no late request but an overlapping one, each request is announced once.
- **likes**: a client repeats calls; two calls of one user overlap; the target's
  visibility is read before the transaction; a deleted account takes its likes with it.
  Correct means: `like_count` is off by the likes of deleted accounts and nothing else, and a
  like is announced once.
- **comments**: the parent is read before the transaction and may be gone; the
  jobs are sent after COMMIT, one by one, errors ignored; one user can be the
  post's author, the parent's author and mentioned; a text that mentions somebody makes
  the transaction ask the pool for a second connection. Correct means: counters equal rows,
  threads stay on their post, each interested user is told once, and calls stop each other
  in no way but that one.
- **posts, fan-out, follows**: three writers of `feed_entries` overlap, and the fan-out
  is a loop of separate statements over a list read at its start. Correct means:
  who follows has the post, who does not follow does not, and nobody is notified
  twice.
- **media**: object, row and job are written without a transaction, by two programs;
  the worker's handler is retried from its start, and its last UPDATE may succeed
  without its knowing; posts may compete for one upload. Correct means: a row
  names only objects that exist, a live job finds its row, a post has all of its media
  to itself, and an answered upload gets settled.
- **auth, admin (accounts)**: the invite and the name are checked outside the
  transaction that inserts the account and counts the use. Correct means: an invite
  is overused by overlapping calls at most, and a closed one by those that had passed
  the check; `invited_by` and the creators of invites exist.
- **auth, admin, users (sessions)**: refresh finds the session by its token and
  writes by its id; suspension marks the account and then revokes the
  sessions; answers get lost. Correct means: a client that loses no answer and
  overlaps no refreshes keeps its session, a suspended user has none, a revoked one does
  not come back.

- **portals**: a position is computed from what is committed and a new order is checked
  against a list read before the transaction. Correct means: the order has no ties, a
  name leads to one portal.
- **sharing, notification jobs, push**: a share is committed, its job enqueued after, and the
  worker's handler reads preferences, writes the notification and asks APNs device by
  device, each a statement or request of its own; tokens are handed on and
  revoked meanwhile. Correct means: a share brings one notification, each device is
  asked once whatever becomes of the others, a working registration is not taken away.
- **lists**: the server remembers nothing between two pages; all it has is the cursor,
  while rows come and go. Correct means: no row is repeated or skipped, and a client
  that follows `has_more` comes to an end.

The full list of hazards, each at its line, is in `PROJECT.json`.

## 2. How the models are built

- **A step is what the database makes atomic.** A single statement is a step. A
  transaction is one step where its first statement takes a row lock that every
  competing transaction needs as well and everything after it is a relative
  update (`count + 1`) or is guarded by that lock; where that is not so, it is
  split (FollowGraph: up to the statement that takes the lock of the `follows` row, with the
  NOT EXISTS whose answer decides on a notification, and up to COMMIT; Likes: up to the
  INSERT or DELETE that takes the lock, and up to COMMIT; HomeFeed: up to the statement on `feed_entries`, and up to COMMIT; Comments: where it
  waits for a lock, and where it leaves its own connection for the pool).
- **What is read before a transaction is a step of its own**, because its result
  may be stale when it is used. Several consecutive reads that only authorise a
  call are merged into one step; the two reads of `follow`, which decide what
  is written, are not.
- **What follows COMMIT is a step of its own** that may be lost.
- **Failures**: `Fail` ends a call at any point between its steps: a database
  error, an abort (deadlocks included), a panic, a client that hangs up. An open transaction
  leaves nothing behind.
- **Data** is reduced to what the properties tell apart: identifiers are model
  values, payloads and texts are left out, times are reduced to orders (`due` and
  `ahead` in JobQueue stand for `run_at`).
- **History variables** (`runs`, `inserts`, `cutShort`, `halfRejected`, `overlaps`,
  `overlapped`, `overwritten`, `ghosts`, `late`, `stale`, `seen`, `faults`, `misreads`,
  `usesAtClose`, `escaped`, `muddled`, `unheard`, `tangled`, `asked`, `moves`, `shown`,
  `stayed`, `rekeyed`, `crossed`)
  record what happened so that a property can speak of
  it. No guard reads them, except for the bounds `MaxFaults`, `MaxMisreads`,
  `MaxOverlaps`, `MaxLikes` and `MaxMoves`.

- **Names.** Some components share a proof module because they share a subject, and so
  extend one another's namespace there: JobQueue with Shares, MediaPipeline with Portals,
  HomeFeed with Paging. In the second one of each, what every module has carries the
  component's name (`SharesTypeOK`, `PortalsSpec`, `PagingInit`). They share no constant and
  no variable: a theorem is about one of them.

## 3. The modules

### JobQueue, JobLifecycle

`JobQueue` is the table `jobs` and `Worker::run` / `poll_and_process`.

| Model | Code |
|---|---|
| `Enqueue` | the producers' INSERT, `jobs::enqueue` |
| `LockRows`, `Claim` | the claiming UPDATE with `FOR UPDATE SKIP LOCKED`, before and at its commit |
| `Dispatch`, `HandlerReturns` | the loop over the rows and the `match` on `job_type` |
| `RecordResult`, `Finish` | the three UPDATEs to completed, dead or pending, with the backoff |
| `AfterFailure` | `attempts >= max_attempts`, with the read that falls back to 1 |
| `BackoffEnds` | `run_at` passes |
| `Abandon`, `ClaimUnheard`, `FinishUnheard` | crash or panic; an UPDATE that fails; one that commits but whose reply is lost |
| `Forget` | nothing: a settled row is never read again, its identifier is used anew, so that three jobs stand for an endless stream |

`JobLifecycle` is the abstract specification, the life of a job as a producer may
rely on it: waiting, held, completed or dead, with the count of tries, and lost.
`JobQueue` implements it under the mapping `Status` (`ImplementsLifecycle`).
`HomeFeed`, `MediaPipeline` and `Shares`, which reduce the queue to what their handlers meet of
it, implement it under a mapping `JobStatus` (`ImplementsLifecycle`,
`NoticesImplementLifecycle`): whatever happens to a job there, its failures
and retries included, is something the queue lets happen. They leave out what the queue
does besides (misread attempts, identifiers used anew).

### FollowGraph

The four RPCs of `FollowService` on `follows`, the counters, the unread
notifications and (per pair) the followee's posts in the follower's feed;
`SetPrivate` is `update_profile`, `ReadRequest` and `ReadAccepted` are `mark_read`.
`FollowRead`, `FollowDecide` are the two reads of `follow`; `FollowWrite`, `FollowCommit` its
transaction, and `AcceptWrite`, `AcceptCommit` that of `accept_follow_request`, which hold the
lock of the pair's row in between (`LockFree`). `RejectDelete`, `RejectClear` are the two
statements of `reject_follow_request`; `Unfollow` is one transaction. `Caller` says who
makes each call; a user may have several in flight.

`DeleteAccount` is the `DELETE FROM users` of `delete_account` with its cascade: the rows of
the user's pairs go, the counters of the others stay. The accepted pairs that went this way are
`ghosts`. The access token outlives the account, so calls of a deleted user go on and
start; the foreign keys stop them at the upsert. An upsert that finds a row after all, because
another follow of the pair got there first, makes the pair `overwritten`; `overlapped` are
the calls that such a thing can happen to.

### Likes

`like_post` and `unlike_post` on posts and comments. `ResolveLike` is
`resolve_like_target`; `InsertLike`, `CommitLike`, `NotifyLike` the INSERT with `ON
CONFLICT DO NOTHING`, the counter with COMMIT, and the job after it; `DeleteLike`,
`CommitUnlike` the same for unlike. `Locked` is the row lock.
`ChangeVisibility` is everything `can_view_post` depends on. `DeleteAccount` takes the likes
of the user, and the targets that go with the user (`GoesWith`: a comment goes with its author, its
post's and its parent's); `ghosts` are the likes it takes from targets that stay, whose
`like_count` goes on counting them.

### Comments

`add_comment` and `delete_comment`. `ResolveComment` authorises and reads the
parent. The transaction of a plain text is one step, `CommitPlain`, after `WaitForPost`
if another call has the post's row. With mentions it is two, `LockRows` up to the counters
and `CommitTagged` for the rest, because `resolve_mentionable_user_ids` runs in between on
a connection of its own; what that finds is any set of users but the caller.
`Committed` is what either leaves behind: the rows, the counters, the jobs for who is
mentioned. `NotifyPostAuthor`, `NotifyParentAuthor` are the jobs after COMMIT and
`JobRefused` an INSERT of one that fails; `ResolveDelete`, `WaitForRow`, `DeleteComment` the
soft delete; `DeletePost` and `ChangeAudience` are the environment. Deleting
changes no counter, in the code as in the model.

`MaxConnections` is the size of the pool, `Holds` says which calls have a connection
between steps, and `Available` guards every statement that needs one. `Fail` includes the
acquire that times out, so a jam ends; `StuckInPoolOnly` says what it takes to have one.

### HomeFeed

All writers of `feed_entries`: `CreatePost`, `DeletePost` of `PostService`; the
transactions on an accepted follow (`BeginFollow` .. `CommitUnfollow`) with `Backfilled`
and `Removed`, the two statements of social_graph on the feed; and
`handle_feed_fanout` statement by statement (`ReadFollowers`, `InsertEntry`,
`EntriesWritten`, `NotifyFollower`, `FanoutDone`). The life of its job is JobQueue's,
reduced to `ClaimFanout`, `FanoutFails` (`AfterFailure`: retried or dead) and `WorkerLost`. Accept
and follow are the same here: both make an accepted row and backfill. `Shown` is what
`get_home_feed` returns, its pages put together. `stale` collects the entries no unfollow
takes away: those a fan-out writes after the unfollow, and those of private posts, which
`remove_followee_posts_from_home_feed` does not look for (`OutOfReach`).

### Registration

`register`, `delete_account`, `create_invite` and `revoke_invite` on `users` and
`invites`. `CheckInvite` and `CheckName` are the two reads of `register`,
`CommitAccount` its transaction, in which the unique names decide and `CountUse`
raises `use_count` without asking again. `CloseInvite` is `revoke_invite` as well as the
passing of `expires_at`: both make `Usable` false. `DeleteAccount` has the effects of the
foreign keys: the invites of the account go, `invited_by` is cleared.

### Sessions

`login`, `refresh_token`, `logout`, `revoke_session`, `delete_account`,
`suspend_user`, `unsuspend_user` and `deactivate_account` on the accounts' states and
`sessions`, with the clients. `LoginRead`, `LoginInsert` and `RefreshFind`,
`RefreshUpdate` are the statements; `Answer` is the arrival of the new token and `Fail`
its loss, or the end of the call before. `Suspend`, `RevokeAll` are the two statements of
`suspend_user`, `RevokeFails` the second one failing, an error the code ignores.
What the code does not do is part of the model, too: a refresh looks neither at
the account's state nor at the age of the token, and deactivation leaves the
sessions as they are.

### MediaPipeline

`upload_media` statement by statement (`StoreOriginal`, `InsertRow`, `MarkProcessing`,
`EnqueueProcessing`); `handle_media_processing` and `process_image`, `process_video`,
`process_audio` (`FindRow`, `StoreVariant`, `Describe`, `Complete`, with the job around
them: `ClaimJob`, `RecordDone`, `HandlerFails`, `CompleteUnheard`, `WorkerLost`); and the media of
`create_post` (`BeginPost`, `TakeMedia`, `CommitPost`, `PostFails`), whose rows are locked one by
one and visible at COMMIT. `DeleteAccount` is the cascade from the owner: rows and posts go, the
objects and the job stay, and the handler finds no row, or updates none. `Served` is the object
that `download_media` reads. Media may
be attached before they are processed, and no code ever sets 'failed': media whose job
died stay in 'processing'.

### Portals

A user's collections of posts, for one owner, as every statement is. An adding call is
`add_post_to_portal` or the same lines of `create_post`: `FindById`, or by name
`ComputeIndex` (`MAX(order_index) + 1` of what is committed) and then `InsertPortal` or, on
conflict, `UpdateConflicting`, which locks the row; and one of three commits. `Rename` is
`update_portal`. `reorder_portals` is `ReadPortals`, which checks the list against the portals
there are, an `UpdateRow` for each, and `CommitOrder`.

### PushTokens, Shares

`PushTokens` is the table `push_tokens`: `SyncRegister` and `Unregister` are what
`sync_token_from_metadata` does with a request's headers, `ActiveTargets` the list that
`send_push` loads, `Answers` what `send_alert` makes of APNs' response, and `Revoke` is
`revoke_token`. A row is keyed by the token alone. APNs is external: it knows a token in the
environment that issued it (`TrueEnv`) and calls it invalid in the other, which is what a
client without the environment header gets into; any other refusal is an error.

`Shares` composes it with what causes deliveries. `ShareCheck`, `ShareCommit`, `ShareEnqueue`
are `share_post`: the checks, the transaction, and the job after it whose errors are
ignored. `LoadPreferences`, `InsertNotice` and `LoadTargets`, `SendAlert`, `RevokeToken`,
`SendEnds` are `handle_notification` and the delivery it calls; `HandlerFails` and
`InsertUnheard` are its errors up to the INSERT, the second with the row written all the
same, and `RevokeFails` the one error that leaves the loop over the devices, which the
handler swallows. The job's life is JobQueue's again (`ClaimJob`, `AfterError`,
`WorkerLost`), and `JobStatus` maps it to `JobLifecycle`. Other notification jobs go through the same handler with another switch
in the preferences, so a share stands for them.

### Cursor, Paging

`Cursor` is `pagination.rs`: `Base64Encode` and `Base64Decode` do the bit arithmetic of the
hand-written codec. The encoder's loop over chunks of three bytes is a function of the
position in its result (`Quad`, `ByteAt`), and the decoder's loop a recursive function
whose step is `Accumulate`, one character into the bits waiting for their byte. `EncodeCursor` and `DecodeCursor` put it around the serialization of a
position, which is a sequence of bytes given by `PositionText`.

`Paging` is a client that walks through one of the twelve paginated lists. `KeysetPage`
is the query that eight services share (`After`, `FirstOf`, `Limit`, `Page`), and each RPC is an
action: five of them check in every request who may see the list (`CheckedPage`),
`SearchUsers` orders by similarity first, and `GetAuditLog` has a timestamp for a cursor and
forgets the actor when it has one. Between two requests rows `Arrive`, `Leave` and
`Return`, and users `Rename` themselves, which changes how similar (`rank`) they are to a
query; `crossed` collects the pairs of users whose order by similarity was not that of the
cursor at some time during the walk. `ReturnKeys` says what key a row comes back with in each list: a feed
entry has its post's time and a new identifier, a follow that is made anew has a later
time, and notifications do not leave at all.

## 4. The runs

| Run | Instance | Shows |
|---|---|---|
| `job_queue` | 2 workers, 3 jobs, batch of 2, 2 attempts, 1 fault, 1 misread; 115,850 states | one holder per job, attempts count and bound the runs, no starvation, refinement of JobLifecycle |
| `job_stranded` | 1 worker, 2 jobs, 1 fault | *violation* of `RunningEnds` |
| `follow_graph` | 3 users, 2 pairs with one followee, 5 calls (2 of the followee and of one follower), 2 overlapping follows, deleted accounts, one user mutes activity; 815,304 states | what counters count, feed, one unread notification of a kind, which follow can downgrade, whose request a notification belongs to |
| `likes` | 2 users, a post and a comment, 3 calls, 2 of one user, each like inserted twice at most, deleted accounts; 1.62 million states | what the counter counts, and one notification per like |
| `comments` | 3 users, 2 posts, 2 comments, 2 calls, 2 connections; 3.8 million states | counters, threads, one job per interested user, when all calls wait |
| `home_feed` | 1 post, its author and 2 followers, 2 attempts; 102,902 states | who has a post in the feed, and who is notified; the job lives as JobLifecycle says |
| `registration` | 3 names, one a founder, 2 invites (3 uses and 1), 2 calls; 961,713 states | how far an invite can be overused, that a closed one ends |
| `sessions` | 1 user, 2 devices, 3 calls (2 on one device), 2 admins, 3 tokens each; 347,850 states | who stays logged in, and who is out after a suspension |
| `portals` | 2 portals, 2 names in 3 spellings, a post, 2 adding and 2 reordering calls; 341,535 states | when the order has ties; a name leads to one portal |
| `media_pipeline` | a photo and a film, 2 posts, 2 attempts, the owner's account may go; 166,357 states | objects, rows and jobs in step, whole posts, answered uploads settle |
| `shares` | 2 shares to one user, 2 devices that 2 users register in 2 environments, 2 attempts; 1.76 million states | one notification per share, one request per device, who loses a working registration |
| `paging` | lists of up to 3 rows, 2 timestamps, pages of one and two rows, 3 moves of rows or names; 402,701 states | pages are a partition of the list, walks end |

Why the bounds are enough to be interesting:

- **JobQueue**: three jobs and batches of two, so that a batch can be full and leave
  a row behind, and two workers can each hold some; `MaxAttempts` 2 separates
  first, retried and last attempts; one fault suffices to lose part of a batch
  while the other worker goes on. Jobs are renewed for ever, so starvation is
  possible in the model and a newest-first claim does starve.
- **FollowGraph**: two calls of one follower overlap with two of the followee, so that two
  follows, a follow and an unfollow, an accept and a late reject of one pair meet; the other
  follower gives the counters of the followee a second contributor. `MaxOverlaps` 2 allows a
  follow to overlap twice, and to overlap again after it was overwritten; without a bound
  overlaps could raise the counters for ever. All users may be deleted. Initial privacy settings
  are all combinations. Of a pair in both directions, in which a user is
  follower and followee at once, the theorems of section 5 speak, and no run.
- **Likes**: bob's two calls overlap on the same row, alice's on others; his own comment
  is one of the targets, so the case without a notification occurs. `MaxLikes` 2
  allows like, unlike and like again; it bounds the history only. Either target
  goes with its author; a like by one of the two of the other's target stays counted when the
  account of the first goes.
- **Comments**: the second comment can answer the first, and each can be on
  either post; carol's view of the first post comes and goes, and the second is deleted.
  Two connections for two calls: one call can hold the post's row and look for a second
  connection while the other holds that one and waits for the row, which is the jam.
- **HomeFeed**: two followers, so that the loop can be interrupted between them;
  two attempts, so that it can be retried and given up.
- **Registration**: an invite with one use, which two calls can both find unused,
  and one with three, which it takes deletions and new registrations to use up; the second
  invite's creator is not a founder, so it comes and goes with its creator.
- **Portals**: with two portals, two overlapping creations tie, and so do two reorders of which
  one is out of date; two spellings of one name meet in the unique index. A run with three
  portals and 1.4 million states, which left portal_posts out of the state, found no more.
- **Sessions**: two calls of one device can overlap and the other device shows that
  a suspension takes all sessions; two admins, because one may suspend while
  another is between the two statements. `MaxTokens` bounds how often a token is
  written; three are enough for a stale one to be two rotations old.
- **Shares**: both shares go to one user, so that one delivery revokes what the other is
  about to use; the tablet's token is from production while the server's default is
  development, so a registration without the header is refused and one with it works;
  two users, because a device can be handed on. Two attempts as in HomeFeed.
- **Paging**: three rows at two timestamps tie in some behaviours and not in others; page
  sizes 0 and 51 are clamped to 1 and `MaxPage`, which is 2 here, so walks have up to three
  pages; three moves let a row leave and return while another one arrives, or a user be renamed
  and back. The texts of
  the positions have one to four bytes, hence all three paddings. Each exception that
  `PagesPartition` makes was checked to be needed.
- **MediaPipeline**: a photo has variants and a film none; two posts may want both media, in
  either order, so that each can hold what the other waits for; two attempts as in HomeFeed.

**Symmetry** is used in six runs that check safety only: alice's two calls and bob's
two in `follow_graph`, bob's two in `likes`, the comment identifiers in `comments`, the calls in `registration`, the
portals and the calls in `portals`, the two shares in `shares`. None of these sets occurs asymmetrically in a constant or a property.

**Fairness** in JobQueue is weak fairness of each worker's next step,
because `Worker::run` loops for ever, sleeps a bounded time between polls and
survives the errors of `poll_and_process`; it includes that handlers return, for
which the code sets no timeout. And weak fairness of `BackoffEnds`, because
clocks advance. Faults are never fair. MediaPipeline takes from there that
the handler of each job goes on (`WF` of `HandlerStep`), its failures included: that a due
job is claimed in the end is `PendingSettles` of JobQueue. Neither the upload
nor a post is fair there. Paging assumes weak fairness of the client's next request, which
is what "walks through the list" means: a client that stops has nothing to wait for. The
requests answer without waiting for anybody. The other runs check safety and need none.

**Deadlock** is checked in all runs but two, which really may stop: in `sessions`, when the
account is deleted and its devices know it, and in `media_pipeline`, when everything is
uploaded, settled and posted.

## 5. What is proved

The proofs hold for every value of the constants that satisfies the named
assumption of the module (`JobQueueAssumption`, ...), which TLC evaluates in each run.

**WorkerProofs**, JobQueue - `TypeCorrect`, `HeldByOneWorker`, `AttemptsAreRuns`,
`AttemptsAreBounded`, `QueueImplementsLifecycle`, `NoEarlyDeath`, `LossIsFinal`. The inductive invariant is `IInv ==
TypeOK /\ RowInv /\ HoldInv /\ CountInv /\ BoundInv`. `HeldOnce` is not inductive: one
has to know that locked rows are still pending and due and locked by one worker
(so that a claim takes rows nobody holds), that a worker's current job is not in
its batch, and that a worker with an outcome has a current job. `CountInv`
sharpens `AttemptsCountRuns`: a running row whose run is not yet counted is one that waits
in a batch or is lost. The refinement is proved step by step: under `IInv` each
step moves each job as `JobLifecycle` allows or leaves it. From there follow the last two:
no job is given up before its attempts are spent, and a lost one stays lost for ever, which
is why `RunningEnds` fails, and not only on the run's instance.

**WorkerProofs**, Shares - `SharesTypeCorrect`, `SharesAreNoticedOnce`, `DevicesAreAskedOnce`,
`OnlyLateAnswersRevoke`, `NoticesLiveAsJobs`, for any calls, users and devices. The inductive
invariant is `SharesInv`: the types, and of each share three things. `TriesInv`: there is a
job only behind a committed share, and it waits only with attempts left. `NoticesInv`: rows
equal the answers not heard, plus one for the INSERT that was heard, after which the job is
not tried again; they never outnumber the attempts. `RequestsInv`:
the list that `send_push` loaded has one entry per device, and what is still to be asked is
exactly what has not been asked, so that no failure in between asks a device
twice or, unless it ends the loop, none at all. A device waits to be revoked only if its answer
was about the other environment; that it works by the time of the revocation takes a
registration in between, which is `RevokedByLateAnswer`.

**FollowGraphProofs** - `TypeCorrect`, `LockKeepsOneUnread`, `OnlyOverlapsDowngrade`,
`FolloweeSilences`, `UnreadRequestsArePending`, `NewRequestsNotify`, `CountersCountFollows`,
`FeedsFollowTheGraph`, `OnlyOverlapsOverwrite`, for any users and pairs, mutual ones included,
and any calls, those of one user included. That there is never a second unread notification
needs three facts: one call at most holds a pair's row (`LockInv`); the row does not change under
its holder (`HolderInv`, with the lemma `LockKeepsRow`); and a holder that will notify has
found nothing unread, which stays so because nobody else can notify for the pair. That a
row is overwritten, or an accepted one downgraded, by an overlapping follow only
needs `OverlapInv`: a follow under way that has met no other one still finds no row, because no
one but the follower creates it. From an account's cascade it follows that ghosts are of deleted
users and have no row (`GhostInv`), so that no follow is counted as a row and as a ghost. For the
notifications of requests, `WrittenInv` carries what the NOT EXISTS saw from the lock to
COMMIT.

`CountersExact` says how far the counters can be off: they count the rows and
the ghosts, exactly so for users none of whose rows was overwritten, and never less. That two
overlapping follows count twice, or leave the count of a row they took back to pending, makes them
higher only; no unfollow takes away a count that another row relies on.

**LikesProofs** - `TypeCorrect`, `LikesAreCounted`, `LikesNotifyOnce`, for any calls, those of
one user included, and any deleted accounts. The strengthening is `LockInv` (at most one call is
between the statement that took a row's lock and COMMIT, and the row is still as that
statement found it), `LifeInv` (rows, and what an open transaction inserts, are of living users, ghosts of
deleted ones) and
`JobInv` (jobs sent plus calls about to send one do not exceed the rows inserted).

**CommentsProofs** - `TypeCorrect`, `CommentsAreCounted`, `ThreadsAreOnOnePost`,
`InterestedAreToldOnce`, `OnlyPoolStops`, for any number of calls and connections. What a
call has read of the parent stays true while it waits (`CallInv`), since no comment changes
its post; one call notifies of a comment (`OneInv`), and `JobInv` says which jobs there are
at each of its stages. `OnlyPoolStops` needs that the pool never lends more than it has
(`PoolInv`): if all calls wait and a connection were left, somebody would wait for a
lock whose holder does not wait.

**RegistrationProofs** - `TypeCorrect`, `InvitesAreHonoured`,
`ClosedInvitesServeFew`, `ReferencesAreKept`. That an invite is used at most `MaxUses` times plus the
calls beyond the first is not inductive; `UsesLimited` is: uses *plus the calls under
way that have passed the check* stay within that bound, as a call enters only while
`use_count` is below `max_uses`. Finite sets enter through two lemmas on
cardinalities of sets that gain or lose one element.

**SessionsProofs** - `TypeCorrect`, `ClientsAreKeptUp`, `SuspendedUsersAreOut`,
`RevocationIsFinal`. The inductive invariant adds to the properties that a session
which is not muddled has one call in flight at the most, and that this call found the
client's token valid or carries the valid one (`AloneInv`).

**PostProofs**, MediaPipeline - `TypeCorrect`, `KeysNameObjects`, `JobsFindRows`, `PostsStayWhole`,
`ProcessingImplementsLifecycle`. What
is added: how far the upload of a row without a job has come (`UploadInv`), what the
handler has written by each stage (`HandlerInv`), that no row outlives the owner
(`OwnerInv`), and, for posts, that a taken row is still free and taken by one
transaction (`TakingInv`). TLC finds the refinement to hold on the
run's instance; no run repeats it. The same holds of the refinement in Shares.

**PostProofs**, Portals - `PortalsTypeCorrect`, `PortalsKeepTheirOrder`,
`PostsGoToTheNamedPortal`, for any portals, names and calls. `OrderIsTotal` excuses overlapping
creations and outdated reorders and nothing else; to be inductive it needs that the
positions lie below the number of portals (`IndexInv`). Then, without a tie, they are all of
`0..n-1` (`FullRange`, the pigeonhole), so `MAX + 1` is the first free position and a
creation that nobody overlaps ties with none. A reorder gives each portal it has read a place
of its own (`RankInv`), and unless it is outdated it has read them all. `AddedByName` needs what
a call knows of the portal it found or is creating (`AdderInv`), and that folded names are unique
among the portals and those under creation together (`NamesInv`), which is what the lock behind
`ON CONFLICT` gives.

**FeedProofs**, HomeFeed - `TypeCorrect`, `FollowersAreServed`, `EntriesAreExplained`,
`FollowersAreNotifiedOnce`, `FanoutImplementsLifecycle`, for any users, posts and transactions.
`EntriesHaveReason` is kept by COMMIT only because of what the transaction saw (`TxInv`): a
follow writes entries for all posts it has seen that are not deleted since, and an unfollow
removes all entries it does not leave in `stale`. `FollowersServed` speaks of finished
fan-outs; before that, followers not yet served are still on the handler's list
(`ServeInv`). No one is notified twice, because the second loop has told nobody
who is still on its list (`JobInv`). `PostInv` ties a post's row to its job and its author's entry.

**FeedProofs**, Cursor - `CursorsRoundTrip`: for texts of any length, what the server hands out as
a cursor decodes to the position it stands for, and is not empty, which would ask for the first
page. It rests on `Base64RoundTrip`. The decoder's function is unfolded for one character
(`FirstByte`, `SecondByte`, `ThirdByte` do the bit arithmetic), and the lengths are covered by
looking at the first one that fails (`LeastNatural`).

**FeedProofs**, Paging - `PagingTypeCorrect`, `PagesArePartition`, `TenListsAreExact`,
`WalksAdvance`, for any rows, times, page sizes and moves. The inductive invariant is
`PagingInv`: the cursor is one the server has handed out (`CursorInv`, where `CursorsRoundTrip`
enters), what was shown is behind it (`ShownBehind`), what stayed and is behind it was
shown (`NoneLeftOut`), each but for the pairs of rows that the orders of `search_users` and of the
audit log cross or tie; a pair that is crossed now has been recorded as such, whatever the users
call themselves meanwhile (`CrossedInv`). A page moves the cursor to its last row and takes the first rows past the
old one, so it repeats none and leaves none out. `TenListsAreExact` says it without the exceptions: in
the ten lists that have none, a walk that has ended showed every row that stayed exactly once.
`WalksAdvance` is the safety half of `WalkEnds`: a request that does not end its walk takes a
row from ahead of the cursor to behind it and none back, for every page size a client may ask for.

All type invariants, safety invariants and action properties that the runs check are theorems,
and the refinements of JobLifecycle; `AttemptsCountRuns`, `ReferencesHold` and the type invariants
of eight modules are proved only, which leaves the runs their time for the others.

Only model-checked is liveness (`PendingSettles`, `RunningEnds`, `AnsweredSettles`, `WalkEnds`),
which is beyond the proof system. Of `RunningEnds`, which fails, and `WalkEnds` the theorems say why
(`LossIsFinal`, `WalksAdvance`). `TrueEnv`, `PositionText` and the other constants that stand for what
is outside are assumed to be what the modules' assumptions say, no more.

## 6. Where code and documents disagree

1. *Lost jobs* (run `job_stranded`): a worker that dies, or whose UPDATE fails, leaves its rows
   'running', and no query ever selects them again; the implementation guide wants
   workers "to restart safely" (`cove_server_implementation_guide-2.md:796`). That nothing
   brings them back is proved for every instance (`LossIsFinal`).
2. *Counters of deleted accounts and overlapping follows*: `delete_account` is one `DELETE FROM
   users`, whose cascade takes follows and likes and changes no counter (`auth/mod.rs:589`,
   `001_initial_schema.sql:76`, `174`, `012_add_comment_likes.sql:5`), so the
   `follower_count` and `following_count` of the others and the `like_count` of their posts
   and comments stay too high for good. And two follows of one user may both find no row, both
   upsert it and both count it, or take an accepted row back to pending and leave it counted. The
   guide wants the counts "maintained transactionally or through background reconciliation"
   (line 371), and there is no reconciliation. `tlc -config FollowOverlap.cfg MCFollowGraph.tla`
   shows it as a violation of `CountersAreFollows`; `CountersExact` and `LikeCountExact` say
   that nothing else leads the counters astray.
3. *Private posts in feeds*: the fan-out looks at the followers and not at the post's
   visibility; the guide wants entries "for followers who are allowed to see it" (line 557).
   `tlc -config HomeFeedPrivate.cfg MCHomeFeed.tla` shows it as a violation of
   `OnlyAllowedInFeed`. Nor does an unfollow take such an entry away, as
   `EntriesHaveReason` makes explicit.
4. *Repeated notifications*: `handle_notification` has no key by which a retry could know the row of
   an attempt whose INSERT succeeded and whose answer was lost; the guide wants workers to
   restart "without [...] duplicating side effects" (line 796). `NoticePerShare` allows one
   notification more for each such answer.
5. *Pages of a search*: `search_users` orders by similarity, and its cursor compares time and
   identifier, so a second page can repeat users and skip others, all the more when users rename
   themselves. The audit log skips
   entries that share a timestamp with the last one of a page, and from the second page on
   returns the entries of all actors. `PagesPartition` makes these exceptions and no others.

Properties also make exceptions for what no document speaks of: between the two
statements of `reject_follow_request` a new request gets no unread notification
(`halfRejected` in FollowGraph); a follow that overlaps another one of its pair may undo an
accept (`overlapped` there); overlapping creations or an out-of-date reorder
give two portals one position (`tangled` in Portals); and a late answer of APNs revokes a
registration that was renewed in the meantime, even by another user (`LateAnswer` in Shares);
and calls of `add_comment` that mention somebody can jam the pool until an acquire times out
(`StuckInPoolOnly` in Comments).

## 7. What is not modelled

Reads that change nothing and have no pages (profiles, statuses, counts, the page of mention
candidates in `search_users`), audit rows, cryptography,
configuration, the object store's protocol, APNs' protocol and the provider token it asks for,
and generated code. Within the
modelled components: the display name and avatar lookups that feed a
notification's text, and the rest of a list's items; `job_type` dispatch, beyond that an unknown
type counts as success; the mentions of `create_post`, which ask for a second connection
just as those of a comment do; the checks of
an upload's size and type and the reading of its stream, which all come before its first
effect; the format of passwords, names and codes; the access tokens (JWTs), which no
table holds and which expire by themselves. `fanout_post` in `feed/mod.rs` has no caller.

*Deletion of an account* is an action of FollowGraph, Likes, MediaPipeline, Registration and
Sessions, each with what the cascade does to its tables, and of Paging as far as rows leave. It is
not one of:

- Comments: the cascade removes comments whose author or parent goes, and leaves the
  `comment_count` and `reply_count` of what stays. `CommentCountsExact` is about the comments written, which
  no count forgets, just as it keeps those deleted softly.
- HomeFeed, Shares and Portals: entries, posts, shares, tokens and portals go with the user whose
  they are. The fan-out meets a deleted follower or author as a failing statement, which
  `FanoutFails` of HomeFeed stands for.
- In FollowGraph, the notifications *to* the other user of a deleted actor: they stay and lose
  the actor (`001_initial_schema.sql:204`, ON DELETE SET NULL), so they belong to no pair any
  more, and `UnreadIsPending` and `OneUnread`, which are about pairs of living users, do not speak of them.

## 8. The plan

What is left, in this order:

1. *The mentions of a post*: `create_post` asks for a second connection as `add_comment`
   does; Comments shows the jam, a module of posts alone would show what the two do to each other.
2. *Pure functions*: the scanning of mentions in a text.
3. *Deletion of an account* in Comments, HomeFeed, Shares and Portals, whose rows go with it.
