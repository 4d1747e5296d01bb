------------------------------ MODULE JobQueue ------------------------------
(***************************************************************************)
(* The table jobs and the workers that drain it: Worker::run and           *)
(* Worker::poll_and_process of cove-worker, and jobs::enqueue of the API   *)
(* server.  A worker claims up to BatchLimit due rows in one UPDATE, runs  *)
(* their handlers one after the other, and records each result in an       *)
(* UPDATE of its own.  An error of such an UPDATE leaves poll_and_process  *)
(* through `?', and with it the jobs of the batch that are still to do.    *)
(***************************************************************************)
EXTENDS Naturals, FiniteSets

CONSTANTS Jobs,          \* job identifiers
          Workers,       \* worker processes
          NoJob,         \* "this worker is between two jobs"
          BatchLimit,    \* LIMIT of the claiming query (10 in the code)
          MaxAttempts,   \* column max_attempts (default 3)
          MaxFaults,     \* bound: crashes and failed UPDATEs in a behaviour
          MaxMisreads    \* bound: failed reads of attempts in a behaviour

ASSUME JobQueueAssumption ==
    /\ IsFiniteSet(Jobs)
    /\ NoJob \notin Jobs
    /\ BatchLimit \in Nat \ {0}
    /\ MaxAttempts \in Nat \ {0}
    /\ MaxFaults \in Nat
    /\ MaxMisreads \in Nat

VARIABLES
    state,      \* column state of each row; "absent" before the row exists
    attempts,   \* column attempts
    due,        \* pending rows with run_at <= NOW()
    ahead,      \* for a due row, the due rows whose run_at is smaller
    locked,     \* rows a worker's claiming query has locked, not yet committed
    batch,      \* claimed rows a worker has yet to process
    current,    \* the job whose handler a worker is in or has just left
    outcome,    \* result of that handler
    runs,       \* history: times the handler was entered for a job
    faults,     \* history: crashes and failed UPDATEs so far
    misreads    \* history: failed reads of attempts so far

rows   == <<state, attempts, due, ahead>>
worker == <<locked, batch, current, outcome>>
vars   == <<rows, worker, runs, faults, misreads>>

(* 'failed' is allowed by the CHECK of the column, but nothing writes it. *)
States   == {"absent", "pending", "running", "completed", "dead"}
Settled  == {"completed", "dead"}
Outcomes == {"none", "busy", "ok", "err"}

TypeOK ==
    /\ state \in [Jobs -> States]
    /\ attempts \in [Jobs -> Nat]
    /\ due \in SUBSET Jobs
    /\ ahead \in [Jobs -> SUBSET Jobs]
    /\ locked \in [Workers -> SUBSET Jobs]
    /\ batch \in [Workers -> SUBSET Jobs]
    /\ current \in [Workers -> Jobs \cup {NoJob}]
    /\ outcome \in [Workers -> Outcomes]
    /\ runs \in [Jobs -> Nat]
    /\ faults \in Nat
    /\ misreads \in Nat

Init ==
    /\ state = [j \in Jobs |-> "absent"]
    /\ attempts = [j \in Jobs |-> 0]
    /\ due = {}
    /\ ahead = [j \in Jobs |-> {}]
    /\ locked = [w \in Workers |-> {}]
    /\ batch = [w \in Workers |-> {}]
    /\ current = [w \in Workers |-> NoJob]
    /\ outcome = [w \in Workers |-> "none"]
    /\ runs = [j \in Jobs |-> 0]
    /\ faults = 0
    /\ misreads = 0

(* The jobs a worker is responsible for: in a handler, or waiting for one. *)
Held(w) == batch[w] \cup ({current[w]} \ {NoJob})

-----------------------------------------------------------------------------
(* Rows entering the queue.  run_at is NOW() when the row becomes due, so  *)
(* it sorts after every row that is due already.                           *)

Arrive(j) == /\ due' = due \cup {j}
             /\ ahead' = [ahead EXCEPT ![j] = due]

Enqueue(j) ==
    /\ state[j] = "absent"
    /\ state' = [state EXCEPT ![j] = "pending"]
    /\ Arrive(j)
    /\ UNCHANGED <<attempts, worker, runs, faults, misreads>>

(* The backoff of a failed job runs out. *)
BackoffEnds(j) ==
    /\ state[j] = "pending"
    /\ j \notin due
    /\ Arrive(j)
    /\ UNCHANGED <<state, attempts, worker, runs, faults, misreads>>

(* A settled row is never read again; its identifier serves for a new job, *)
(* so that a finite set of jobs stands for an endless stream of them.      *)
Forget(j) ==
    /\ state[j] \in Settled
    /\ state' = [state EXCEPT ![j] = "absent"]
    /\ attempts' = [attempts EXCEPT ![j] = 0]
    /\ runs' = [runs EXCEPT ![j] = 0]
    /\ UNCHANGED <<due, ahead, worker, faults, misreads>>

-----------------------------------------------------------------------------
(* Claiming: UPDATE ... WHERE id IN (SELECT ... FOR UPDATE SKIP LOCKED).   *)

(* Mutant: FOR UPDATE SKIP LOCKED is missing. *)
LockIgnored == due

SkipLocked == due \ UNION {locked[w] : w \in Workers}

(* Mutant: ORDER BY run_at DESC. *)
Newest(free) ==
    {S \in SUBSET free :
        /\ Cardinality(S) = IF Cardinality(free) < BatchLimit
                            THEN Cardinality(free) ELSE BatchLimit
        /\ \A j \in free \ S : ahead[j] \cap S = {}}

(* ORDER BY run_at ASC LIMIT n. *)
Oldest(free) ==
    {S \in SUBSET free :
        /\ Cardinality(S) = IF Cardinality(free) < BatchLimit
                            THEN Cardinality(free) ELSE BatchLimit
        /\ \A j \in S : ahead[j] \cap free \subseteq S}

Idle(w) == locked[w] = {} /\ batch[w] = {} /\ current[w] = NoJob

LockRows(w) ==
    /\ Idle(w)
    /\ SkipLocked # {}
    /\ \E S \in Oldest(SkipLocked) : locked' = [locked EXCEPT ![w] = S]
    /\ UNCHANGED <<rows, batch, current, outcome, runs, faults, misreads>>

(* The statement's transaction commits. *)
Claimed(S) ==
    /\ state' = [j \in Jobs |-> IF j \in S THEN "running" ELSE state[j]]
    /\ attempts' = [j \in Jobs |-> IF j \in S THEN attempts[j] + 1 ELSE attempts[j]]
    /\ due' = due \ S
    /\ ahead' = [j \in Jobs |-> IF j \in S THEN {} ELSE ahead[j] \ S]

Claim(w) ==
    /\ locked[w] # {}
    /\ Claimed(locked[w])
    /\ batch' = [batch EXCEPT ![w] = locked[w]]
    /\ locked' = [locked EXCEPT ![w] = {}]
    /\ UNCHANGED <<current, outcome, runs, faults, misreads>>

-----------------------------------------------------------------------------
(* Processing: the loop over the claimed rows.                             *)

Dispatch(w) ==
    /\ current[w] = NoJob
    /\ \E j \in batch[w] :
          /\ current' = [current EXCEPT ![w] = j]
          /\ batch' = [batch EXCEPT ![w] = @ \ {j}]
          /\ runs' = [runs EXCEPT ![j] = @ + 1]
    /\ outcome' = [outcome EXCEPT ![w] = "busy"]
    /\ UNCHANGED <<rows, locked, faults, misreads>>

(* The handler returns; an unknown job_type counts as Ok. *)
HandlerReturns(w) ==
    /\ outcome[w] = "busy"
    /\ \E r \in {"ok", "err"} : outcome' = [outcome EXCEPT ![w] = r]
    /\ UNCHANGED <<rows, locked, batch, current, runs, faults, misreads>>

(* Mutants: the attempts are compared off by one. *)
AfterFailureLate(j, misread) ==
    IF ~misread /\ attempts[j] > MaxAttempts THEN "dead" ELSE "pending"

AfterFailureEarly(j, misread) ==
    IF ~misread /\ attempts[j] + 1 >= MaxAttempts THEN "dead" ELSE "pending"

(* What a failed job becomes: the read of attempts falls back to 1. *)
AfterFailure(j, misread) ==
    LET seen == IF misread THEN 1 ELSE attempts[j]
    IN  IF seen >= MaxAttempts THEN "dead" ELSE "pending"

(* The UPDATE that records the handler's result; a retry is not due yet. *)
RecordResult(w) ==
    /\ UNCHANGED <<attempts, due, ahead>>
    /\ \/ /\ outcome[w] = "ok"
          /\ state' = [state EXCEPT ![current[w]] = "completed"]
          /\ UNCHANGED misreads
       \/ /\ outcome[w] = "err"
          /\ \E misread \in BOOLEAN :
                /\ misread => misreads < MaxMisreads
                /\ state' = [state EXCEPT ![current[w]] =
                                 AfterFailure(current[w], misread)]
                /\ misreads' = IF misread THEN misreads + 1 ELSE misreads

NextJob(w) ==
    /\ current' = [current EXCEPT ![w] = NoJob]
    /\ outcome' = [outcome EXCEPT ![w] = "none"]

Finish(w) ==
    /\ RecordResult(w)
    /\ NextJob(w)
    /\ UNCHANGED <<locked, batch, runs, faults>>

-----------------------------------------------------------------------------
(* Faults.  The process dies, or `?' leaves poll_and_process: both drop    *)
(* the worker's batch, and nothing else remembers it.                      *)

Drop(w) ==
    /\ faults < MaxFaults
    /\ faults' = faults + 1
    /\ batch' = [batch EXCEPT ![w] = {}]
    /\ locked' = [locked EXCEPT ![w] = {}]
    /\ NextJob(w)

(* A crash, a panic of a handler, or an UPDATE the database refuses. *)
Abandon(w) ==
    /\ ~Idle(w)
    /\ Drop(w)
    /\ UNCHANGED <<rows, runs, misreads>>

(* The claim commits but its reply is lost. *)
ClaimUnheard(w) ==
    /\ locked[w] # {}
    /\ Claimed(locked[w])
    /\ Drop(w)
    /\ UNCHANGED <<runs, misreads>>

(* The result is recorded but the reply is lost: the rest of the batch goes. *)
FinishUnheard(w) ==
    /\ RecordResult(w)
    /\ Drop(w)
    /\ UNCHANGED runs

-----------------------------------------------------------------------------
WorkerStep(w) ==
    \/ LockRows(w)
    \/ Claim(w)
    \/ Dispatch(w)
    \/ HandlerReturns(w)
    \/ Finish(w)

Fault(w) == Abandon(w) \/ ClaimUnheard(w) \/ FinishUnheard(w)

Next ==
    \/ \E j \in Jobs : Enqueue(j) \/ BackoffEnds(j) \/ Forget(j)
    \/ \E w \in Workers : WorkerStep(w) \/ Fault(w)

Spec == Init /\ [][Next]_vars

(* The worker loops for ever and sleeps a bounded time; clocks advance. *)
Fairness == /\ \A w \in Workers : WF_vars(WorkerStep(w))
            /\ \A j \in Jobs : WF_vars(BackoffEnds(j))

FairSpec == Spec /\ Fairness

-----------------------------------------------------------------------------
(* A row is 'running' in the hands of at most one worker, and a worker     *)
(* holds running rows only: FOR UPDATE SKIP LOCKED hands a row to a single *)
(* poll_and_process, and nothing gives it away before its result is in.    *)
HeldOnce ==
    /\ \A w \in Workers : \A j \in Held(w) : state[j] = "running"
    /\ \A v, w \in Workers : v # w => Held(v) \cap Held(w) = {}

(* Column attempts tells how often the handler was entered: exactly, for a *)
(* job that is not running, and at most one too many while it is (claimed, *)
(* not yet dispatched, or lost in between).  A crash never runs a handler  *)
(* twice for one claim, so attempts bounds the duplicated side effects.    *)
AttemptsCountRuns ==
    \A j \in Jobs :
        \/ state[j] # "absent" /\ runs[j] = attempts[j]
        \/ state[j] = "running" /\ runs[j] + 1 = attempts[j]
        \/ state[j] = "absent" /\ runs[j] = 0

(* A job is attempted max_attempts times at most, and once more for each   *)
(* time the worker could not read attempts and took it for 1.              *)
AttemptsBounded ==
    \A j \in Jobs : attempts[j] <= MaxAttempts + misreads

(* The workers implement the abstract life of a job: a row is lost when it *)
(* is 'running' and no worker holds it any more.                           *)
Lost(j) == state[j] = "running" /\ \A w \in Workers : j \notin Held(w)

Status(j) ==
    IF state[j] = "pending" THEN "waiting"
    ELSE IF state[j] # "running" THEN state[j]
    ELSE IF Lost(j) THEN "lost" ELSE "held"

Lifecycle == INSTANCE JobLifecycle WITH status <- [j \in Jobs |-> Status(j)],
                                        tries <- attempts

(* Every state change of a row is one its abstract life allows: only the   *)
(* holder settles it, it dies only when its attempts are used up, and a    *)
(* lost row stays lost.                                                    *)
ImplementsLifecycle == Lifecycle!Spec

(* No job starves: with the oldest due row claimed first, a pending row is *)
(* completed, dies, or is lost to a fault, however many newer rows keep    *)
(* arriving and however many workers compete.                              *)
PendingSettles ==
    \A j \in Jobs : state[j] = "pending" ~> (state[j] \in Settled \/ Lost(j))

(* What the implementation guide asks of a restart ("Workers must be able  *)
(* to restart safely"): a row that is 'running' does not stay so for ever. *)
RunningEnds ==
    \A j \in Jobs : state[j] = "running" ~> state[j] # "running"
=============================================================================
