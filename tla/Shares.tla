------------------------------- MODULE Shares -------------------------------
(***************************************************************************)
(* A shared post on its way to the recipient's devices: share_post of      *)
(* ShareService, the job it enqueues, handle_notification of the worker    *)
(* with the recipient's preferences, and the delivery of PushService.      *)
(*                                                                         *)
(* Each statement is a step: only share_post has a transaction.  The job   *)
(* queue is reduced to what it does to one job (JobQueue has the rest).    *)
(***************************************************************************)
EXTENDS PushTokens

CONSTANTS Calls,       \* calls of share_post; each has one job at most
          Recipient,   \* recipient_user_id of each call
          NoTarget,    \* "no device of the list is being revoked"
          MaxTries     \* column max_attempts

ASSUME SharesAssumption ==
    /\ IsFiniteSet(Calls)
    /\ Recipient \in [Calls -> Users]
    /\ NoTarget \notin Targets
    /\ MaxTries \in Nat \ {0}

VARIABLES
    viewable,    \* can_view_post holds for the sender
    muted,       \* recipients with shares_enabled = FALSE
    share,       \* progress of each call
    shareCount,  \* posts.share_count
    job,         \* progress of each call's job and its handler
    notices,     \* notifications written for each call
    unheard,     \* history: INSERTs done whose answer was lost
    asked        \* history: requests to APNs per call and device

sharesVars == <<token, viewable, muted, share, shareCount, job, notices, unheard, asked>>

Recipients == {Recipient[c] : c \in Calls}

ShareStates == {"idle", "checked", "committed", "answered"}

(* A job waits, or its handler is about to do what the stage says; it ends *)
(* "skipped" (muted) or "done", both completed, or "dead" or "lost".       *)
Stages == {"none", "waiting", "load", "insert", "push", "send", "revoke",
           "skipped", "done", "dead", "lost"}

(* Stages of a handler that runs. *)
Handling == {"load", "insert", "push", "send", "revoke"}

JobStates == [at      : Stages,
              tries   : 0 .. MaxTries,
              list    : SUBSET Targets,   \* what send_push has loaded
              todo    : SUBSET Targets,   \* what is left of it
              invalid : Targets \cup {NoTarget}]

NotQueued == [at |-> "none", tries |-> 0, list |-> {}, todo |-> {}, invalid |-> NoTarget]

SharesTypeOK ==
    /\ PushTypeOK
    /\ viewable \in BOOLEAN
    /\ muted \in SUBSET Recipients
    /\ share \in [Calls -> ShareStates]
    /\ shareCount = Cardinality({c \in Calls : share[c] \in {"committed", "answered"}})
    /\ job \in [Calls -> JobStates]
    /\ \A c \in Calls : job[c].todo \subseteq job[c].list
    /\ notices \in [Calls -> 0 .. MaxTries]
    /\ unheard \in [Calls -> 0 .. MaxTries]
    /\ asked \in [Calls -> [Devices -> Nat]]

SharesInit ==
    /\ PushInit
    /\ viewable \in BOOLEAN
    /\ muted = {}
    /\ share = [c \in Calls |-> "idle"]
    /\ shareCount = 0
    /\ job = [c \in Calls |-> NotQueued]
    /\ notices = [c \in Calls |-> 0]
    /\ unheard = [c \in Calls |-> 0]
    /\ asked = [c \in Calls |-> [d \in Devices |-> 0]]

-----------------------------------------------------------------------------
(* share_post.  The checks read; the transaction does not check again.     *)
ShareCheck(c) ==
    /\ share[c] = "idle"
    /\ viewable
    /\ share' = [share EXCEPT ![c] = "checked"]
    /\ UNCHANGED <<token, viewable, muted, shareCount, job, notices, unheard, asked>>

(* INSERT INTO shares and share_count + 1; the answer to COMMIT may be     *)
(* lost, which ends the call with an error.                                *)
ShareCommit(c) ==
    /\ share[c] = "checked"
    /\ \E s \in {"committed", "answered"} : share' = [share EXCEPT ![c] = s]
    /\ shareCount' = shareCount + 1
    /\ UNCHANGED <<token, viewable, muted, job, notices, unheard, asked>>

ShareFails(c) ==
    /\ share[c] = "checked"
    /\ share' = [share EXCEPT ![c] = "idle"]
    /\ UNCHANGED <<token, viewable, muted, shareCount, job, notices, unheard, asked>>

(* The job is enqueued on a connection of its own, and errors are ignored. *)
ShareEnqueue(c) ==
    /\ share[c] = "committed"
    /\ share' = [share EXCEPT ![c] = "answered"]
    /\ \E at \in {"none", "waiting"} : job' = [job EXCEPT ![c].at = at]
    /\ UNCHANGED <<token, viewable, muted, shareCount, notices, unheard, asked>>

-----------------------------------------------------------------------------
(* handle_notification. *)

JobMoves(c, from, to) ==
    /\ job[c].at = from
    /\ job' = [job EXCEPT ![c].at = to]

ClaimJob(c) ==
    /\ job[c].at = "waiting"
    /\ job' = [job EXCEPT ![c].at = "load", ![c].tries = @ + 1]
    /\ UNCHANGED <<token, viewable, muted, share, shareCount, notices, unheard, asked>>

LoadPreferences(c) ==
    /\ JobMoves(c, "load", IF Recipient[c] \in muted THEN "skipped" ELSE "insert")
    /\ UNCHANGED <<token, viewable, muted, share, shareCount, notices, unheard, asked>>

InsertNotice(c) ==
    /\ JobMoves(c, "insert", "push")
    /\ notices' = [notices EXCEPT ![c] = @ + 1]
    /\ UNCHANGED <<token, viewable, muted, share, shareCount, unheard, asked>>

(* Mutant: one attempt too many. *)
AfterErrorLate(c) == IF job[c].tries > MaxTries THEN "dead" ELSE "waiting"

AfterError(c) == IF job[c].tries >= MaxTries THEN "dead" ELSE "waiting"

(* An error of the handler: `?' after load or INSERT. *)
HandlerFails(c) ==
    /\ \E from \in {"load", "insert"} : JobMoves(c, from, AfterError(c))
    /\ UNCHANGED <<token, viewable, muted, share, shareCount, notices, unheard, asked>>

(* The INSERT is done, and its answer is an error all the same. *)
InsertUnheard(c) ==
    /\ JobMoves(c, "insert", AfterError(c))
    /\ notices' = [notices EXCEPT ![c] = @ + 1]
    /\ unheard' = [unheard EXCEPT ![c] = @ + 1]
    /\ UNCHANGED <<token, viewable, muted, share, shareCount, asked>>

(* send_push loads the list, or fails, as load_actor_name may.  From here  *)
(* on handle_notification swallows every error.                            *)
LoadTargets(c) ==
    /\ job[c].at = "push"
    /\ \E list \in {{}, ActiveTargets(Recipient[c])} :
          job' = [job EXCEPT ![c].at = "send", ![c].list = list, ![c].todo = list]
    /\ UNCHANGED <<token, viewable, muted, share, shareCount, notices, unheard, asked>>

(* Mutants: an error of APNs ends the loop, or the handler. *)
StopOnError(c, t) == [job[c] EXCEPT !.todo = @ \ {t}, !.at = "done"]

RetryOnError(c, t) == [job[c] EXCEPT !.todo = @ \ {t}, !.at = AfterError(c)]

(* An error is logged, and the loop goes on. *)
OnError(c, t) == [job[c] EXCEPT !.todo = @ \ {t}]

OnAnswer(c, t, answer) ==
    IF answer = "Err" THEN OnError(c, t)
    ELSE IF answer = "Sent" THEN [job[c] EXCEPT !.todo = @ \ {t}]
    ELSE [job[c] EXCEPT !.todo = @ \ {t}, !.at = "revoke", !.invalid = t]

SendAlert(c) ==
    /\ job[c].at = "send"
    /\ \E t \in job[c].todo :
          /\ \E answer \in Answers(t) :
                job' = [job EXCEPT ![c] = OnAnswer(c, t, answer)]
          /\ asked' = [asked EXCEPT ![c][t.device] = @ + 1]
    /\ UNCHANGED <<token, viewable, muted, share, shareCount, notices, unheard>>

(* revoke_token, some time after APNs has answered. *)
RevokeToken(c) ==
    /\ job[c].at = "revoke"
    /\ Revoke(job[c].invalid.device)
    /\ job' = [job EXCEPT ![c].at = "send", ![c].invalid = NoTarget]
    /\ UNCHANGED <<viewable, muted, share, shareCount, notices, unheard, asked>>

(* Its `?' gives up the devices that are left; the job is done.  "invalid" *)
(* keeps the device that could not be revoked.                             *)
RevokeFails(c) ==
    /\ JobMoves(c, "revoke", "done")
    /\ UNCHANGED <<token, viewable, muted, share, shareCount, notices, unheard, asked>>

SendEnds(c) ==
    /\ job[c].todo = {}
    /\ JobMoves(c, "send", "done")
    /\ UNCHANGED <<token, viewable, muted, share, shareCount, notices, unheard, asked>>

WorkerLost(c) ==
    /\ \E from \in Handling : JobMoves(c, from, "lost")
    /\ UNCHANGED <<token, viewable, muted, share, shareCount, notices, unheard, asked>>

-----------------------------------------------------------------------------
(* The clients: registrations, preferences, and the post's audience.       *)
Sync(u, d) ==
    /\ SyncRegister(u, d) \/ Unregister(u, d)
    /\ UNCHANGED <<viewable, muted, share, shareCount, job, notices, unheard, asked>>

UpdatePreferences(u) ==
    /\ \/ muted' = muted \cup {u}
       \/ muted' = muted \ {u}
    /\ UNCHANGED <<token, viewable, share, shareCount, job, notices, unheard, asked>>

ChangeAudience ==
    /\ viewable' = ~viewable
    /\ UNCHANGED <<token, muted, share, shareCount, job, notices, unheard, asked>>

SharesNext ==
    \/ \E c \in Calls :
          \/ ShareCheck(c) \/ ShareCommit(c) \/ ShareFails(c) \/ ShareEnqueue(c)
          \/ ClaimJob(c) \/ LoadPreferences(c) \/ InsertNotice(c) \/ InsertUnheard(c)
          \/ HandlerFails(c) \/ LoadTargets(c) \/ SendAlert(c) \/ SendEnds(c)
          \/ RevokeToken(c) \/ RevokeFails(c) \/ WorkerLost(c)
    \/ \E u \in Users, d \in Devices : Sync(u, d)
    \/ \E u \in Recipients : UpdatePreferences(u)
    \/ ChangeAudience

SharesSpec == SharesInit /\ [][SharesNext]_sharesVars

-----------------------------------------------------------------------------
(* A share that is committed brings one notification at most, and one more *)
(* for each INSERT whose answer was lost: the handler has no key to know a *)
(* retry by.  A handler that got past the INSERT never fails any more, so  *)
(* no trouble with a device writes a second row.                           *)
NoticePerShare ==
    \A c \in Calls :
        /\ notices[c] <= 1 + unheard[c]
        /\ notices[c] > 0 => share[c] = "answered"
        /\ job[c].at \in {"push", "send", "revoke", "done"} => notices[c] > unheard[c]

(* APNs is asked once at most about a share and a device, whatever is      *)
(* retried; and a job that is done has asked for every device it loaded,   *)
(* whatever APNs said of the others, unless a revocation failed.           *)
AskedOnce ==
    \A c \in Calls :
        /\ \A d \in Devices : asked[c][d] <= 1
        /\ job[c].at = "done" /\ job[c].invalid = NoTarget =>
              \A t \in job[c].list : asked[c][t.device] = 1

(* The handler that is about to revoke a device's token was told so of a   *)
(* registration in the other environment.                                  *)
LateAnswer(d) ==
    \E c \in Calls : /\ job[c].at = "revoke"
                     /\ job[c].invalid.device = d
                     /\ job[c].invalid.env # TrueEnv[d]

(* A delivery revokes a registration that works only by carrying out late  *)
(* what APNs said of an older registration of the same token, and then it  *)
(* does so whoever the token belongs to by now.  No other answer of APNs   *)
(* takes a working device away from its user.                              *)
RevokedByLateAnswer ==
    [][\A d \in Devices :
          Good(d) /\ ~token'[d].active /\ job' # job => LateAnswer(d)]_sharesVars

(* The notification's job as the queue sees it. *)
JobStatus(c) ==
    IF job[c].at = "none" THEN "absent"
    ELSE IF job[c].at \in Handling THEN "held"
    ELSE IF job[c].at \in {"skipped", "done"} THEN "completed" ELSE job[c].at

NoticeLifecycle == INSTANCE JobLifecycle WITH
    Jobs        <- Calls,
    MaxAttempts <- MaxTries,
    status      <- [c \in Calls |-> JobStatus(c)],
    tries       <- [c \in Calls |-> job[c].tries]

(* The notification's job lives as JobQueue was shown to let a job live:   *)
(* retried while attempts are left, settled by the handler that holds it,  *)
(* and never taken up again by anybody once its worker is gone.            *)
NoticesImplementLifecycle == NoticeLifecycle!Spec
=============================================================================
