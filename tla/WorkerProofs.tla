---------------------------- MODULE WorkerProofs ----------------------------
(***************************************************************************)
(* Proofs about the worker: the queue it polls (JobQueue), for any finite  *)
(* set of jobs, any set of workers, any batch limit and max_attempts, and  *)
(* the notification of a share that it delivers (Shares), for any set of   *)
(* calls, users and devices.                                               *)
(*                                                                         *)
(* JobQueue: type correctness, HeldOnce, AttemptsCountRuns,                *)
(* AttemptsBounded, and the implementation of JobLifecycle, with what it   *)
(* says of dead and lost rows, from one inductive invariant, IInv.         *)
(*                                                                         *)
(* Shares: type correctness, NoticePerShare, AskedOnce,                    *)
(* RevokedByLateAnswer, and the implementation of JobLifecycle once more,  *)
(* from the inductive invariant SharesInv.                                 *)
(*                                                                         *)
(* The two specifications share no constant and no variable: a theorem is  *)
(* about one of them.                                                      *)
(***************************************************************************)
EXTENDS JobQueue, Shares, FiniteSetTheorems, TLAPS

(* Due rows wait; a row is locked by one worker, which holds nothing else. *)
RowInv ==
    /\ \A j \in due : state[j] = "pending"
    /\ \A w \in Workers : locked[w] \subseteq due
    /\ \A v, w \in Workers : v # w => locked[v] \cap locked[w] = {}
    /\ \A w \in Workers : locked[w] # {} => batch[w] = {} /\ current[w] = NoJob

(* HeldOnce, with the batch and the current job of a worker told apart.    *)
HoldInv ==
    /\ \A w \in Workers : \A j \in batch[w] : state[j] = "running"
    /\ \A w \in Workers : current[w] # NoJob => state[current[w]] = "running"
    /\ \A w \in Workers : current[w] \notin batch[w]
    /\ \A v, w \in Workers : v # w => batch[v] \cap batch[w] = {}
    /\ \A v, w \in Workers : v # w => current[v] \notin batch[w]
    /\ \A v, w \in Workers : v # w /\ current[v] # NoJob => current[v] # current[w]
    /\ \A w \in Workers : outcome[w] = "none" <=> current[w] = NoJob

(* AttemptsCountRuns, by the place of the job.                             *)
CountInv ==
    /\ AttemptsCountRuns
    /\ \A j \in Jobs : state[j] = "absent" => attempts[j] = 0
    /\ \A j \in Jobs : state[j] = "running" => attempts[j] >= 1
    /\ \A w \in Workers : \A j \in batch[w] : runs[j] + 1 = attempts[j]
    /\ \A w \in Workers : current[w] # NoJob => runs[current[w]] = attempts[current[w]]

(* A pending job has an attempt left, or a misread gave it one.            *)
BoundInv ==
    /\ AttemptsBounded
    /\ \A j \in Jobs : state[j] \in {"absent", "pending"} =>
                           attempts[j] < MaxAttempts + misreads

IInv == TypeOK /\ RowInv /\ HoldInv /\ CountInv /\ BoundInv

-----------------------------------------------------------------------------
(* The initial states satisfy the inductive invariant. *)
LEMMA InitIInv == Init => IInv
<1>. SUFFICES ASSUME Init PROVE IInv
  OBVIOUS
<1>. USE JobQueueAssumption DEF Init
<1>1. TypeOK
  BY DEF TypeOK, States, Outcomes
<1>2. RowInv /\ HoldInv
  BY DEF RowInv, HoldInv
<1>3. CountInv /\ BoundInv
  BY DEF CountInv, AttemptsCountRuns, BoundInv, AttemptsBounded
<1>. QED
  BY <1>1, <1>2, <1>3 DEF IInv

(* A set of oldest rows is a set of the rows it was taken from. *)
LEMMA OldestSubset ==
  ASSUME NEW free, NEW S \in Oldest(free)
  PROVE  S \subseteq free
BY DEF Oldest

-----------------------------------------------------------------------------
(* Rows entering the queue, falling due again, and being forgotten. *)
LEMMA EnqueueStep ==
  ASSUME IInv, NEW j \in Jobs, Enqueue(j)
  PROVE  IInv'
<1>. USE JobQueueAssumption DEF IInv, Enqueue, Arrive, worker
<1>1. TypeOK'
  BY DEF TypeOK, States
<1>2. RowInv'
  BY DEF TypeOK, RowInv
<1>3. HoldInv'
  BY DEF TypeOK, HoldInv
<1>4. CountInv'
  BY DEF TypeOK, HoldInv, CountInv, AttemptsCountRuns
<1>5. BoundInv'
  BY DEF TypeOK, BoundInv, AttemptsBounded
<1>. QED
  BY <1>1, <1>2, <1>3, <1>4, <1>5

LEMMA BackoffEndsStep ==
  ASSUME IInv, NEW j \in Jobs, BackoffEnds(j)
  PROVE  IInv'
<1>. USE JobQueueAssumption DEF IInv, BackoffEnds, Arrive, worker
<1>1. TypeOK'
  BY DEF TypeOK
<1>2. RowInv'
  BY DEF TypeOK, RowInv
<1>3. HoldInv' /\ CountInv' /\ BoundInv'
  BY DEF TypeOK, HoldInv, CountInv, AttemptsCountRuns, BoundInv, AttemptsBounded
<1>. QED
  BY <1>1, <1>2, <1>3

LEMMA ForgetStep ==
  ASSUME IInv, NEW j \in Jobs, Forget(j)
  PROVE  IInv'
<1>. USE JobQueueAssumption DEF IInv, Forget, Settled, worker
<1>1. TypeOK'
  BY DEF TypeOK, States
<1>2. RowInv'
  BY DEF TypeOK, RowInv
<1>3. HoldInv'
  BY DEF TypeOK, HoldInv
<1>4. CountInv'
  BY DEF TypeOK, HoldInv, CountInv, AttemptsCountRuns
<1>5. BoundInv'
  BY DEF TypeOK, BoundInv, AttemptsBounded
<1>. QED
  BY <1>1, <1>2, <1>3, <1>4, <1>5

-----------------------------------------------------------------------------
(* Locking changes locked[w] only, and to rows nobody else has locked. *)
LEMMA LockRowsStep ==
  ASSUME IInv, NEW w \in Workers, LockRows(w)
  PROVE  IInv'
<1>. USE JobQueueAssumption DEF IInv, LockRows, rows
<1>1. PICK S \in Oldest(SkipLocked) : locked' = [locked EXCEPT ![w] = S]
  OBVIOUS
<1>2. S \subseteq due /\ \A v \in Workers : S \cap locked[v] = {}
  BY <1>1, OldestSubset DEF SkipLocked
<1>3. TypeOK'
  BY <1>1, <1>2 DEF TypeOK
<1>4. RowInv'
  BY <1>1, <1>2 DEF TypeOK, RowInv, Idle
<1>5. HoldInv' /\ CountInv' /\ BoundInv'
  BY DEF TypeOK, HoldInv, CountInv, AttemptsCountRuns, BoundInv, AttemptsBounded
<1>. QED
  BY <1>3, <1>4, <1>5

(* The effect of a committed claim on the rows alone. *)
LEMMA ClaimedRows ==
  ASSUME IInv, NEW w \in Workers, Claimed(locked[w]), UNCHANGED <<runs, misreads>>
  PROVE  /\ state' \in [Jobs -> States]
         /\ attempts' \in [Jobs -> Nat]
         /\ due' \in SUBSET Jobs
         /\ ahead' \in [Jobs -> SUBSET Jobs]
         /\ \A j \in due' : state'[j] = "pending"
         /\ \A v \in Workers : v # w => locked[v] \subseteq due'
         /\ \A j \in Jobs : state[j] # "pending" =>
                state'[j] = state[j] /\ attempts'[j] = attempts[j]
         /\ \A j \in locked[w] : /\ state'[j] = "running"
                                 /\ runs[j] + 1 = attempts'[j]
         /\ AttemptsCountRuns'
         /\ \A j \in Jobs : state'[j] = "absent" => attempts'[j] = 0
         /\ \A j \in Jobs : state'[j] = "running" => attempts'[j] >= 1
         /\ BoundInv'
<1>. DEFINE S == locked[w]
<1>. USE JobQueueAssumption DEF IInv, Claimed
<1>1. S \subseteq due /\ \A j \in S : state[j] = "pending"
  BY DEF TypeOK, RowInv
<1>2. \A j \in S : runs[j] = attempts[j]
  BY <1>1 DEF TypeOK, CountInv, AttemptsCountRuns
<1>3. /\ state' \in [Jobs -> States] /\ attempts' \in [Jobs -> Nat]
      /\ due' \in SUBSET Jobs /\ ahead' \in [Jobs -> SUBSET Jobs]
  BY DEF TypeOK, States
<1>4. \A j \in Jobs : IF j \in S
         THEN state'[j] = "running" /\ attempts'[j] = attempts[j] + 1
         ELSE state'[j] = state[j] /\ attempts'[j] = attempts[j]
  BY DEF TypeOK
<1>5. /\ \A j \in due' : state'[j] = "pending"
      /\ \A v \in Workers : v # w => locked[v] \subseteq due'
  BY <1>4 DEF TypeOK, RowInv
<1>6. AttemptsCountRuns'
  BY <1>1, <1>2, <1>4 DEF TypeOK, CountInv, AttemptsCountRuns
<1>7. BoundInv'
  BY <1>1, <1>4 DEF TypeOK, BoundInv, AttemptsBounded
<1>8. /\ \A j \in Jobs : state'[j] = "absent" => attempts'[j] = 0
      /\ \A j \in Jobs : state'[j] = "running" => attempts'[j] >= 1
  BY <1>1, <1>4 DEF TypeOK, CountInv
<1>. QED
  BY <1>1, <1>2, <1>3, <1>4, <1>5, <1>6, <1>7, <1>8 DEF TypeOK

LEMMA ClaimStep ==
  ASSUME IInv, NEW w \in Workers, Claim(w)
  PROVE  IInv'
<1>. USE JobQueueAssumption DEF IInv, Claim
<1>1. TypeOK'
  BY ClaimedRows DEF TypeOK
<1>2. RowInv'
  BY ClaimedRows DEF TypeOK, RowInv
<1>3. HoldInv'
  BY ClaimedRows DEF TypeOK, RowInv, HoldInv
<1>4. CountInv'
  BY ClaimedRows DEF TypeOK, RowInv, HoldInv, CountInv
<1>5. BoundInv'
  BY ClaimedRows
<1>. QED
  BY <1>1, <1>2, <1>3, <1>4, <1>5

LEMMA DispatchStep ==
  ASSUME IInv, NEW w \in Workers, Dispatch(w)
  PROVE  IInv'
<1>. USE JobQueueAssumption DEF IInv, Dispatch, rows
<1>1. PICK j \in batch[w] : /\ current' = [current EXCEPT ![w] = j]
                            /\ batch' = [batch EXCEPT ![w] = @ \ {j}]
                            /\ runs' = [runs EXCEPT ![j] = @ + 1]
  OBVIOUS
<1>2. j \in Jobs /\ state[j] = "running" /\ runs[j] + 1 = attempts[j]
  BY <1>1 DEF TypeOK, HoldInv, CountInv
<1>3. TypeOK'
  BY <1>1, <1>2 DEF TypeOK, Outcomes
<1>4. RowInv'
  BY <1>1 DEF TypeOK, RowInv
<1>5. HoldInv'
  BY <1>1, <1>2 DEF TypeOK, HoldInv
<1>6. CountInv'
  BY <1>1, <1>2 DEF TypeOK, HoldInv, CountInv, AttemptsCountRuns
<1>7. BoundInv'
  BY DEF TypeOK, BoundInv, AttemptsBounded
<1>. QED
  BY <1>3, <1>4, <1>5, <1>6, <1>7

LEMMA HandlerReturnsStep ==
  ASSUME IInv, NEW w \in Workers, HandlerReturns(w)
  PROVE  IInv'
<1>. USE JobQueueAssumption DEF IInv, HandlerReturns, rows
<1>1. TypeOK'
  BY DEF TypeOK, Outcomes
<1>2. RowInv' /\ CountInv' /\ BoundInv'
  BY DEF TypeOK, RowInv, CountInv, AttemptsCountRuns, BoundInv, AttemptsBounded
<1>3. HoldInv'
  BY DEF TypeOK, HoldInv
<1>. QED
  BY <1>1, <1>2, <1>3

-----------------------------------------------------------------------------
(* Recording a result touches one row, the current one, which leaves       *)
(* 'running'; it dies only with its attempts used up, and it waits again   *)
(* only with an attempt left or misread.                                   *)
LEMMA RecordedRow ==
  ASSUME IInv, NEW w \in Workers, RecordResult(w)
  PROVE  /\ current[w] \in Jobs
         /\ current[w] # NoJob
         /\ misreads' \in Nat /\ misreads' >= misreads
         /\ \E s \in {"completed", "dead", "pending"} :
               /\ state' = [state EXCEPT ![current[w]] = s]
               /\ s = "pending" => attempts[current[w]] < MaxAttempts + misreads'
               /\ s = "dead" => attempts[current[w]] >= MaxAttempts
<1>. USE JobQueueAssumption DEF IInv, RecordResult
<1>1. current[w] \in Jobs /\ current[w] # NoJob /\ state[current[w]] = "running"
  BY DEF TypeOK, HoldInv
<1>2. /\ attempts[current[w]] \in Nat
      /\ 1 <= attempts[current[w]]
      /\ attempts[current[w]] <= MaxAttempts + misreads
  BY <1>1 DEF TypeOK, CountInv, BoundInv, AttemptsBounded
<1>3. CASE outcome[w] = "ok"
  BY <1>1, <1>3 DEF TypeOK
<1>4. CASE outcome[w] = "err"
  <2>1. PICK misread \in BOOLEAN :
           /\ state' = [state EXCEPT ![current[w]] = AfterFailure(current[w], misread)]
           /\ misreads' = IF misread THEN misreads + 1 ELSE misreads
    BY <1>4
  <2>. DEFINE s == AfterFailure(current[w], misread)
              m == IF misread THEN misreads + 1 ELSE misreads
  <2>2. /\ s \in {"completed", "dead", "pending"}
        /\ s = "pending" => attempts[current[w]] < MaxAttempts + m
        /\ s = "dead" => attempts[current[w]] >= MaxAttempts
    BY <1>2 DEF TypeOK, AfterFailure
  <2>3. m \in Nat /\ m >= misreads
    BY DEF TypeOK
  <2>. HIDE DEF s, m
  <2>4. state' = [state EXCEPT ![current[w]] = s] /\ misreads' = m
    BY <2>1 DEF s, m
  <2>. QED
    BY <1>1, <2>2, <2>3, <2>4
<1>. QED
  BY <1>3, <1>4

(* What a recorded result preserves, whether or not the worker hears of it: *)
(* the parts of the invariant that speak of the rows and of other workers.  *)
LEMMA RecordedInv ==
  ASSUME IInv, NEW w \in Workers, RecordResult(w), UNCHANGED runs
  PROVE  /\ state' \in [Jobs -> States]
         /\ \A j \in due : state'[j] = "pending"
         /\ \A j \in Jobs : j # current[w] => state'[j] = state[j]
         /\ AttemptsCountRuns'
         /\ \A j \in Jobs : state'[j] = "absent" => attempts'[j] = 0
         /\ \A j \in Jobs : state'[j] = "running" => attempts'[j] >= 1
         /\ BoundInv'
<1>. USE JobQueueAssumption DEF IInv
<1>. DEFINE c == current[w]
<1>1. /\ c \in Jobs
      /\ c # NoJob
      /\ misreads' \in Nat /\ misreads' >= misreads
      /\ UNCHANGED <<attempts, due, ahead>>
  BY RecordedRow DEF RecordResult
<1>2. PICK s \in {"completed", "dead", "pending"} :
        /\ state' = [state EXCEPT ![c] = s]
        /\ s = "pending" => attempts[c] < MaxAttempts + misreads'
  BY RecordedRow
<1>3. state[c] = "running" /\ runs[c] = attempts[c] /\ c \notin due
  BY <1>1 DEF TypeOK, HoldInv, CountInv, RowInv
<1>4. \A j \in Jobs : state'[j] = IF j = c THEN s ELSE state[j]
  BY <1>2 DEF TypeOK
<1>5. state' \in [Jobs -> States]
  BY <1>2 DEF TypeOK, States
<1>6. \A j \in due : state'[j] = "pending"
  BY <1>3, <1>4 DEF TypeOK, RowInv
<1>7. AttemptsCountRuns'
  BY <1>1, <1>3, <1>4 DEF TypeOK, CountInv, AttemptsCountRuns
<1>8. /\ \A j \in Jobs : state'[j] = "absent" => attempts'[j] = 0
      /\ \A j \in Jobs : state'[j] = "running" => attempts'[j] >= 1
  BY <1>1, <1>4 DEF TypeOK, CountInv
<1>9. BoundInv'
  BY <1>1, <1>2, <1>4 DEF TypeOK, BoundInv, AttemptsBounded
<1>. QED
  BY <1>4, <1>5, <1>6, <1>7, <1>8, <1>9

LEMMA FinishStep ==
  ASSUME IInv, NEW w \in Workers, Finish(w)
  PROVE  IInv'
<1>. USE JobQueueAssumption DEF IInv, Finish, NextJob
<1>1. current[w] \in Jobs /\ misreads' \in Nat /\ UNCHANGED <<attempts, due, ahead>>
  BY RecordedRow DEF RecordResult
<1>2. TypeOK'
  BY <1>1, RecordedInv DEF TypeOK, Outcomes
<1>3. RowInv'
  BY <1>1, RecordedInv DEF TypeOK, RowInv
<1>4. HoldInv'
  BY RecordedInv DEF TypeOK, HoldInv
<1>5. CountInv'
  BY <1>1, RecordedInv DEF TypeOK, HoldInv, CountInv
<1>6. BoundInv'
  BY RecordedInv
<1>. QED
  BY <1>2, <1>3, <1>4, <1>5, <1>6

LEMMA AbandonStep ==
  ASSUME IInv, NEW w \in Workers, Abandon(w)
  PROVE  IInv'
<1>. USE JobQueueAssumption DEF IInv, Abandon, Drop, NextJob, rows
<1>1. TypeOK'
  BY DEF TypeOK, Outcomes
<1>2. RowInv'
  BY DEF TypeOK, RowInv
<1>3. HoldInv'
  BY DEF TypeOK, HoldInv
<1>4. CountInv' /\ BoundInv'
  BY DEF TypeOK, CountInv, AttemptsCountRuns, BoundInv, AttemptsBounded
<1>. QED
  BY <1>1, <1>2, <1>3, <1>4

LEMMA ClaimUnheardStep ==
  ASSUME IInv, NEW w \in Workers, ClaimUnheard(w)
  PROVE  IInv'
<1>. USE JobQueueAssumption DEF IInv, ClaimUnheard, Drop, NextJob
<1>1. TypeOK'
  BY ClaimedRows DEF TypeOK, Outcomes
<1>2. RowInv'
  BY ClaimedRows DEF TypeOK, RowInv
<1>3. HoldInv'
  BY ClaimedRows DEF TypeOK, RowInv, HoldInv
<1>4. CountInv'
  BY ClaimedRows DEF TypeOK, RowInv, HoldInv, CountInv
<1>5. BoundInv'
  BY ClaimedRows
<1>. QED
  BY <1>1, <1>2, <1>3, <1>4, <1>5

LEMMA FinishUnheardStep ==
  ASSUME IInv, NEW w \in Workers, FinishUnheard(w)
  PROVE  IInv'
<1>. USE JobQueueAssumption DEF IInv, FinishUnheard, Drop, NextJob
<1>1. current[w] \in Jobs /\ misreads' \in Nat /\ UNCHANGED <<attempts, due, ahead>>
  BY RecordedRow DEF RecordResult
<1>2. TypeOK'
  BY <1>1, RecordedInv DEF TypeOK, Outcomes
<1>3. RowInv'
  BY <1>1, RecordedInv DEF TypeOK, RowInv
<1>4. HoldInv'
  BY RecordedInv DEF TypeOK, HoldInv
<1>5. CountInv'
  BY <1>1, RecordedInv DEF TypeOK, HoldInv, CountInv
<1>6. BoundInv'
  BY RecordedInv
<1>. QED
  BY <1>2, <1>3, <1>4, <1>5, <1>6

-----------------------------------------------------------------------------
(* Every step keeps the inductive invariant. *)
LEMMA NextIInv == IInv /\ [Next]_vars => IInv'
<1>. SUFFICES ASSUME IInv, [Next]_vars PROVE IInv'
  OBVIOUS
<1>1. ASSUME NEW j \in Jobs, Enqueue(j) \/ BackoffEnds(j) \/ Forget(j)
      PROVE  IInv'
  BY <1>1, EnqueueStep, BackoffEndsStep, ForgetStep
<1>2. ASSUME NEW w \in Workers, WorkerStep(w)
      PROVE  IInv'
  BY <1>2, LockRowsStep, ClaimStep, DispatchStep, HandlerReturnsStep, FinishStep
     DEF WorkerStep
<1>3. ASSUME NEW w \in Workers, Fault(w)
      PROVE  IInv'
  BY <1>3, AbandonStep, ClaimUnheardStep, FinishUnheardStep DEF Fault
<1>4. CASE UNCHANGED vars
  BY <1>4 DEF vars, rows, worker, IInv, TypeOK, RowInv, HoldInv, CountInv,
              AttemptsCountRuns, BoundInv, AttemptsBounded
<1>. QED
  BY <1>1, <1>2, <1>3, <1>4 DEF Next

(* The inductive invariant holds throughout every behaviour. *)
LEMMA SpecIInv == Spec => []IInv
BY InitIInv, NextIInv, PTL DEF Spec

(* Every variable keeps its type, for any instance of the queue. *)
THEOREM TypeCorrect == Spec => []TypeOK
<1>1. IInv => TypeOK
  BY DEF IInv
<1>. QED
  BY <1>1, SpecIInv, PTL

(* No two workers ever hold the same job, however many poll concurrently:  *)
(* the claiming query and the loop over its rows hand each row to one.     *)
THEOREM HeldByOneWorker == Spec => []HeldOnce
<1>1. IInv => HeldOnce
  BY DEF IInv, HoldInv, HeldOnce, Held
<1>. QED
  BY <1>1, SpecIInv, PTL

(* Column attempts counts the runs of the handler, under any crashes. *)
THEOREM AttemptsAreRuns == Spec => []AttemptsCountRuns
<1>1. IInv => AttemptsCountRuns
  BY DEF IInv, CountInv
<1>. QED
  BY <1>1, SpecIInv, PTL

(* max_attempts bounds the attempts of every job, up to misread rows. *)
THEOREM AttemptsAreBounded == Spec => []AttemptsBounded
<1>1. IInv => AttemptsBounded
  BY DEF IInv, BoundInv
<1>. QED
  BY <1>1, SpecIInv, PTL

-----------------------------------------------------------------------------
(* Refinement: what one step of the queue does to the abstract life of one *)
(* job.  Move(j) is Lifecycle!JobStep(j) with the mapping carried out.     *)
Becomes(j, s) == Status(j)' = s /\ attempts'[j] = attempts[j]

Move(j) ==
    \/ Becomes(j, Status(j))
    \/ Status(j) = "absent" /\ Becomes(j, "waiting")
    \/ /\ Status(j) = "waiting" /\ Status(j)' \in {"held", "lost"}
       /\ attempts'[j] = attempts[j] + 1
    \/ Status(j) = "held" /\ Status(j)' \in {"completed", "waiting", "lost"}
          /\ attempts'[j] = attempts[j]
    \/ Status(j) = "held" /\ attempts[j] >= MaxAttempts /\ Becomes(j, "dead")
    \/ Status(j) \in Settled /\ Status(j)' = "absent" /\ attempts'[j] = 0

(* Moves of every job together are a step of the abstract specification. *)
LEMMA MovesAreAbstract ==
  ASSUME IInv', \A j \in Jobs : Move(j)
  PROVE  Lifecycle!Next
<1>. DEFINE st == [j \in Jobs |-> Status(j)]
<1>1. \A j \in Jobs : st[j] = Status(j) /\ st'[j] = Status(j)'
  OBVIOUS
<1>2. st' \in [Jobs -> Lifecycle!Statuses] /\ attempts' \in [Jobs -> Nat]
  BY DEF IInv, TypeOK, States, Status, Lifecycle!Statuses
<1>. HIDE DEF st
<1>3. ASSUME NEW j \in Jobs
      PROVE  Lifecycle!JobStep(j)
  BY <1>1, <1>3 DEF st, Move, Becomes, Settled, Lifecycle!JobStep, Lifecycle!Becomes,
     Lifecycle!Submit, Lifecycle!Take, Lifecycle!Succeed, Lifecycle!Fail, Lifecycle!Lose,
     Lifecycle!Renew, Lifecycle!Keep, Lifecycle!Settled
<1>. QED
  BY <1>2, <1>3 DEF st, Lifecycle!Next

(* A step that leaves the rows alone and the holders of every job. *)
LEMMA NothingMoves ==
  ASSUME UNCHANGED <<state, attempts>>,
         \A w \in Workers : Held(w)' = Held(w),
         NEW j \in Jobs
  PROVE  Move(j)
BY DEF Move, Becomes, Status, Lost

LEMMA ArrivalMoves ==
  ASSUME IInv, NEW k \in Jobs, Enqueue(k) \/ BackoffEnds(k) \/ Forget(k),
         NEW j \in Jobs
  PROVE  Move(j)
<1>1. \A w \in Workers : Held(w)' = Held(w)
  BY DEF Enqueue, BackoffEnds, Forget, worker, Held
<1>2. CASE Enqueue(k)
  BY <1>1, <1>2 DEF IInv, TypeOK, Enqueue, Move, Becomes, Status, Lost
<1>3. CASE BackoffEnds(k)
  BY <1>1, <1>3, NothingMoves DEF BackoffEnds
<1>4. CASE Forget(k)
  BY <1>1, <1>4 DEF IInv, TypeOK, Forget, Settled, Move, Becomes, Status, Lost
<1>. QED
  BY <1>2, <1>3, <1>4

(* A claimed job moves from waiting to held or, its poller gone, to lost. *)
LEMMA ClaimMoves ==
  ASSUME IInv, NEW w \in Workers, Claimed(locked[w]), locked[w] # {},
         \A v \in Workers : v # w => Held(v)' = Held(v),
         Held(w) = {}, Held(w)' \in {{}, locked[w]},
         NEW j \in Jobs
  PROVE  Move(j)
<1>1. \A k \in locked[w] : state[k] = "pending"
  BY DEF IInv, TypeOK, RowInv
<1>2. CASE j \in locked[w]
  BY <1>1, <1>2 DEF IInv, TypeOK, Claimed, Move, Status, Lost
<1>3. CASE j \notin locked[w]
  BY <1>3 DEF IInv, TypeOK, Claimed, Move, Becomes, Status, Lost
<1>. QED
  BY <1>2, <1>3

(* A recorded result moves the current job from held to a settled or a     *)
(* waiting one; of the rest of the batch nothing, or all of it, is lost.   *)
LEMMA RecordMoves ==
  ASSUME IInv, IInv', NEW w \in Workers, RecordResult(w),
         \A v \in Workers : v # w => Held(v)' = Held(v),
         Held(w)' \in {{}, batch[w]},
         NEW j \in Jobs
  PROVE  Move(j)
<1>. DEFINE c == current[w]
<1>1. c \in Jobs /\ c # NoJob /\ attempts' = attempts
  BY RecordedRow DEF RecordResult
<1>2. PICK s \in {"completed", "dead", "pending"} :
        /\ state' = [state EXCEPT ![c] = s]
        /\ s = "dead" => attempts[c] >= MaxAttempts
  BY RecordedRow
<1>3. Held(w) = batch[w] \cup {c} /\ state[c] = "running"
  BY <1>1 DEF Held, IInv, HoldInv
<1>4. CASE j = c
  BY <1>1, <1>2, <1>3, <1>4 DEF IInv, TypeOK, Move, Becomes, Status, Lost
<1>5. CASE j # c /\ j \in batch[w]
  BY <1>1, <1>2, <1>3, <1>5 DEF IInv, TypeOK, Move, Becomes, Status, Lost
<1>6. CASE j # c /\ j \notin batch[w]
  BY <1>1, <1>2, <1>3, <1>6 DEF IInv, TypeOK, Move, Becomes, Status, Lost
<1>. QED
  BY <1>4, <1>5, <1>6

LEMMA WorkerMoves ==
  ASSUME IInv, IInv', NEW w \in Workers, WorkerStep(w), NEW j \in Jobs
  PROVE  Move(j)
<1>1. CASE LockRows(w)
  BY <1>1, NothingMoves DEF LockRows, rows, Held
<1>2. CASE Claim(w)
  <2>1. batch[w] = {} /\ current[w] = NoJob
    BY <1>2 DEF Claim, IInv, RowInv
  <2>. QED
    BY <1>2, <2>1, ClaimMoves DEF Claim, IInv, TypeOK, Held
<1>3. CASE Dispatch(w)
  <2>1. \A v \in Workers : Held(v)' = Held(v)
    BY <1>3, JobQueueAssumption DEF Dispatch, IInv, TypeOK, Held
  <2>. QED
    BY <1>3, <2>1, NothingMoves DEF Dispatch, rows
<1>4. CASE HandlerReturns(w)
  BY <1>4, NothingMoves DEF HandlerReturns, rows, Held
<1>5. CASE Finish(w)
  BY <1>5, RecordMoves DEF Finish, NextJob, IInv, TypeOK, Held
<1>. QED
  BY <1>1, <1>2, <1>3, <1>4, <1>5 DEF WorkerStep

LEMMA FaultMoves ==
  ASSUME IInv, IInv', NEW w \in Workers, Fault(w), NEW j \in Jobs
  PROVE  Move(j)
<1>1. /\ Held(w)' = {}
      /\ \A v \in Workers : v # w => Held(v)' = Held(v)
  BY DEF Fault, Abandon, ClaimUnheard, FinishUnheard, Drop, NextJob, IInv, TypeOK, Held
<1>2. CASE Abandon(w)
  BY <1>1, <1>2 DEF Abandon, rows, IInv, TypeOK, HoldInv, Move, Becomes, Status, Lost, Held
<1>3. CASE ClaimUnheard(w)
  <2>1. Held(w) = {}
    BY <1>3 DEF ClaimUnheard, IInv, RowInv, Held
  <2>. QED
    BY <1>1, <1>3, <2>1, ClaimMoves DEF ClaimUnheard
<1>4. CASE FinishUnheard(w)
  BY <1>1, <1>4, RecordMoves DEF FinishUnheard
<1>. QED
  BY <1>2, <1>3, <1>4 DEF Fault

LEMMA NextMoves ==
  ASSUME IInv, IInv', [Next]_vars
  PROVE  \A j \in Jobs : Move(j)
<1>1. CASE Next
  BY <1>1, ArrivalMoves, WorkerMoves, FaultMoves DEF Next
<1>2. CASE UNCHANGED vars
  <2>1. UNCHANGED <<state, attempts, batch, current>>
    BY <1>2 DEF vars, rows, worker
  <2>2. \A w \in Workers : Held(w)' = Held(w)
    BY <2>1 DEF Held
  <2>. QED
    BY <2>1, <2>2, NothingMoves
<1>. QED
  BY <1>1, <1>2

(* The queue implements the abstract life of its jobs: only its one holder *)
(* settles a job, no job dies with attempts left, and what a fault loses   *)
(* nothing in the system takes up again.                                   *)
THEOREM QueueImplementsLifecycle == Spec => ImplementsLifecycle
<1>1. Init => Lifecycle!Init
  BY DEF Init, Lifecycle!Init, Status
<1>2. IInv /\ IInv' /\ [Next]_vars => [Lifecycle!Next]_Lifecycle!vars
  BY NextMoves, MovesAreAbstract
<1>. QED
  BY <1>1, <1>2, SpecIInv, PTL DEF Spec, ImplementsLifecycle, Lifecycle!Spec

(* A dead row has used up its attempts: poll_and_process kills none early, *)
(* whatever crashes, lost answers and misread attempts came before.        *)
DeadAreSpent == \A j \in Jobs : state[j] = "dead" => attempts[j] >= MaxAttempts

THEOREM NoEarlyDeath == Spec => []DeadAreSpent
<1>1. Init => DeadAreSpent
  BY DEF Init, DeadAreSpent
<1>2. IInv /\ IInv' /\ DeadAreSpent /\ [Next]_vars => DeadAreSpent'
  <2>. SUFFICES ASSUME IInv, IInv', DeadAreSpent, [Next]_vars, NEW j \in Jobs,
                       state'[j] = "dead"
                PROVE  attempts'[j] >= MaxAttempts
    BY DEF DeadAreSpent
  <2>1. Move(j) /\ Status(j)' = "dead"
    BY NextMoves DEF Status
  <2>2. Status(j) = "dead" => state[j] = "dead"
    BY DEF Status
  <2>. QED
    BY <2>1, <2>2 DEF Move, Becomes, DeadAreSpent, Settled
<1>. QED
  BY <1>1, <1>2, SpecIInv, PTL DEF Spec

(* No step of a worker, a client or a clock ends the 'running' of a row    *)
(* that no worker holds: poll_and_process selects pending rows only.  So   *)
(* RunningEnds fails for every number of workers.                          *)
LostStayLost == \A j \in Jobs : Lost(j) => Lost(j)'

THEOREM LossIsFinal == Spec => [][LostStayLost]_vars
<1>1. IInv /\ IInv' /\ [Next]_vars => [LostStayLost]_vars
  <2>. SUFFICES ASSUME IInv, IInv', [Next]_vars, NEW j \in Jobs, Lost(j)
                PROVE  Lost(j)'
    BY DEF LostStayLost
  <2>1. Status(j) = "lost" /\ Move(j)
    BY NextMoves DEF Status, Lost
  <2>2. Status(j)' = "lost"
    BY <2>1 DEF Move, Becomes, Settled
  <2>3. state'[j] \in States
    BY DEF IInv, TypeOK
  <2>. QED
    BY <2>2, <2>3 DEF Status, States
<1>. QED
  BY <1>1, SpecIInv, PTL DEF Spec

-----------------------------------------------------------------------------
(* Shares.                                                                 *)

(* A job has a share behind it, and waits only with attempts left. *)
TriesInv(j, s) ==
    /\ s # "answered" => j.at = "none"
    /\ j.at = "none" => j.tries = 0
    /\ j.at = "waiting" => j.tries < MaxTries

(* A handler that is past the INSERT has heard of it once, and every other *)
(* row is one that was not heard of; none is written without an attempt.   *)
NoticesInv(j, n, u) ==
    /\ j.at \in {"none", "waiting", "load", "insert", "skipped", "dead"} => n = u
    /\ j.at \in {"push", "send", "revoke", "done"} => n = u + 1
    /\ n \in {u, u + 1}
    /\ n <= j.tries
    /\ j.at \in {"load", "insert"} => n < j.tries

(* What is left to do is exactly what has not been asked; and a device is  *)
(* about to be revoked only for an answer about the other environment.     *)
RequestsInv(j, a) ==
    /\ \A s, t \in j.list : s.device = t.device => s = t
    /\ \A d \in Devices :
          /\ a[d] <= 1
          /\ j.at \in {"none", "waiting", "load", "insert", "push"} => a[d] = 0
    /\ j.at \in {"send", "revoke", "done"} =>
          \A t \in j.list : a[t.device] = IF t \in j.todo THEN 0 ELSE 1
    /\ j.at \in {"none", "waiting", "load", "insert", "push", "send"} => j.invalid = NoTarget
    /\ j.at = "revoke" => j.invalid \in Targets /\ j.invalid.env # TrueEnv[j.invalid.device]
    /\ j.at = "done" /\ j.invalid = NoTarget => j.todo = {}

DeliveryInv ==
    \A c \in Calls : /\ TriesInv(job[c], share[c])
                     /\ NoticesInv(job[c], notices[c], unheard[c])
                     /\ RequestsInv(job[c], asked[c])

SharesInv == SharesTypeOK /\ DeliveryInv

-----------------------------------------------------------------------------
LEMMA InitSharesInv == SharesInit => SharesInv
<1>. SUFFICES ASSUME SharesInit PROVE SharesInv
  OBVIOUS
<1>1. NotQueued \in JobStates
  BY SharesAssumption DEF NotQueued, JobStates, Stages
<1>2. {c \in Calls : share[c] \in {"committed", "answered"}} = {}
  BY DEF SharesInit
<1>3. shareCount = Cardinality({c \in Calls : share[c] \in {"committed", "answered"}})
  BY <1>2, FS_EmptySet DEF SharesInit
<1>4. PushTypeOK
  BY PushAssumption DEF SharesInit, PushInit, PushTypeOK, NoRow, Rows
<1>5. SharesTypeOK
  BY <1>1, <1>3, <1>4, SharesAssumption
     DEF SharesInit, SharesTypeOK, ShareStates, NotQueued
<1>6. DeliveryInv
  BY SharesAssumption
     DEF SharesInit, DeliveryInv, TriesInv, NoticesInv, RequestsInv, NotQueued
<1>. QED
  BY <1>5, <1>6 DEF SharesInv

(* A step of one job, whose call is answered, and of what it has caused.   *)
LEMMA OneJobMoves ==
  ASSUME SharesInv, NEW c \in Calls, NEW r \in JobStates, r.todo \subseteq r.list,
         NEW n \in Nat, NEW u \in Nat, NEW a \in [Devices -> Nat],
         share[c] = "answered",
         job' = [job EXCEPT ![c] = r],
         notices' = [notices EXCEPT ![c] = n],
         unheard' = [unheard EXCEPT ![c] = u],
         asked' = [asked EXCEPT ![c] = a],
         UNCHANGED <<viewable, muted, share, shareCount>>,
         PushTypeOK',
         TriesInv(r, "answered"), NoticesInv(r, n, u), RequestsInv(r, a)
  PROVE  SharesInv'
<1>1. n \in 0 .. MaxTries /\ u \in 0 .. MaxTries
  <2>1. r.tries \in 0 .. MaxTries
    BY DEF JobStates
  <2>. QED
    BY <2>1, SharesAssumption DEF NoticesInv
<1>2. SharesTypeOK'
  BY <1>1 DEF SharesInv, SharesTypeOK
<1>3. ASSUME NEW x \in Calls
      PROVE  /\ TriesInv(job'[x], share'[x])
             /\ NoticesInv(job'[x], notices'[x], unheard'[x])
             /\ RequestsInv(job'[x], asked'[x])
  <2>1. CASE x = c
    <3>1. /\ job'[x] = r /\ share'[x] = "answered"
          /\ notices'[x] = n /\ unheard'[x] = u /\ asked'[x] = a
      BY <2>1 DEF SharesInv, SharesTypeOK
    <3>. QED
      BY <3>1
  <2>2. CASE x # c
    <3>1. /\ job'[x] = job[x] /\ share'[x] = share[x]
          /\ notices'[x] = notices[x] /\ unheard'[x] = unheard[x] /\ asked'[x] = asked[x]
      BY <2>2 DEF SharesInv, SharesTypeOK
    <3>2. /\ TriesInv(job[x], share[x])
          /\ NoticesInv(job[x], notices[x], unheard[x])
          /\ RequestsInv(job[x], asked[x])
      BY DEF SharesInv, DeliveryInv
    <3>. QED
      BY <3>1, <3>2
  <2>. QED
    BY <2>1, <2>2
<1>4. DeliveryInv'
  BY <1>3 DEF DeliveryInv
<1>. QED
  BY <1>2, <1>4 DEF SharesInv

-----------------------------------------------------------------------------
(* share_post.  Its calls and their rows are counted.                      *)
LEMMA ShareMoves ==
  ASSUME SharesInv, NEW c \in Calls, NEW s \in ShareStates,
         share' = [share EXCEPT ![c] = s],
         IF share[c] \notin {"committed", "answered"} /\ s \in {"committed", "answered"}
         THEN shareCount' = shareCount + 1
         ELSE /\ share[c] \in {"committed", "answered"} <=> s \in {"committed", "answered"}
              /\ UNCHANGED shareCount
  PROVE  /\ share' \in [Calls -> ShareStates]
         /\ shareCount' = Cardinality({x \in Calls : share'[x] \in {"committed", "answered"}})
<1>. DEFINE C == {x \in Calls : share[x] \in {"committed", "answered"}}
            D == {x \in Calls : share'[x] \in {"committed", "answered"}}
<1>1. share' \in [Calls -> ShareStates] /\ shareCount = Cardinality(C)
  BY DEF SharesInv, SharesTypeOK
<1>2. IsFiniteSet(C)
  BY SharesAssumption, FS_Subset
<1>3. \A x \in Calls : share'[x] = IF x = c THEN s ELSE share[x]
  BY DEF SharesInv, SharesTypeOK
<1>4. CASE share[c] \notin {"committed", "answered"} /\ s \in {"committed", "answered"}
  <2>1. D = C \cup {c} /\ c \notin C
    BY <1>3, <1>4
  <2>. HIDE DEF C, D
  <2>2. Cardinality(D) = Cardinality(C) + 1
    BY <2>1, <1>2, FS_AddElement
  <2>. QED
    BY <1>1, <1>4, <2>2 DEF D
<1>5. CASE share[c] \in {"committed", "answered"} <=> s \in {"committed", "answered"}
  <2>1. D = C
    BY <1>3, <1>5
  <2>. QED
    BY <1>1, <1>5, <2>1
<1>. QED
  BY <1>4, <1>5

(* Before the job is enqueued there is none. *)
LEMMA CallStep ==
  ASSUME SharesInv, NEW c \in Calls,
         ShareCheck(c) \/ ShareCommit(c) \/ ShareFails(c) \/ ShareEnqueue(c)
  PROVE  SharesInv'
<1>1. share[c] # "answered" /\ job[c].at = "none"
  BY DEF ShareCheck, ShareCommit, ShareFails, ShareEnqueue, SharesInv, DeliveryInv, TriesInv
<1>2. /\ share' \in [Calls -> ShareStates]
      /\ shareCount' = Cardinality({x \in Calls : share'[x] \in {"committed", "answered"}})
      /\ \A x \in Calls \ {c} : share'[x] = share[x]
  <2>1. PICK s \in ShareStates :
          /\ share' = [share EXCEPT ![c] = s]
          /\ IF share[c] \notin {"committed", "answered"} /\ s \in {"committed", "answered"}
             THEN shareCount' = shareCount + 1
             ELSE /\ share[c] \in {"committed", "answered"} <=> s \in {"committed", "answered"}
                  /\ UNCHANGED shareCount
    <3>1. CASE ShareCheck(c)
      BY <3>1 DEF ShareCheck, ShareStates
    <3>2. CASE ShareCommit(c)
      BY <3>2 DEF ShareCommit, ShareStates
    <3>3. CASE ShareFails(c)
      BY <3>3 DEF ShareFails, ShareStates
    <3>4. CASE ShareEnqueue(c)
      BY <3>4 DEF ShareEnqueue, ShareStates
    <3>. QED
      BY <3>1, <3>2, <3>3, <3>4
  <2>2. \A x \in Calls \ {c} : share'[x] = share[x]
    BY <2>1 DEF SharesInv, SharesTypeOK
  <2>. QED
    BY <2>1, <2>2, ShareMoves
<1>3. PICK at \in {"none", "waiting"} :
        /\ job' = [job EXCEPT ![c] = [job[c] EXCEPT !.at = at]]
        /\ share'[c] # "answered" => at = "none"
  <2>1. CASE ShareEnqueue(c)
    <3>1. share'[c] = "answered"
      BY <2>1 DEF ShareEnqueue, SharesInv, SharesTypeOK
    <3>. QED
      BY <2>1, <3>1 DEF ShareEnqueue
  <2>2. CASE UNCHANGED job
    <3>1. job' = [job EXCEPT ![c] = [job[c] EXCEPT !.at = "none"]]
      BY <1>1, <2>2 DEF SharesInv, SharesTypeOK, JobStates
    <3>. QED
      BY <3>1
  <2>. QED
    BY <2>1, <2>2 DEF ShareCheck, ShareCommit, ShareFails
<1>. DEFINE r == [job[c] EXCEPT !.at = at]
<1>4. /\ r \in JobStates /\ r.todo = job[c].todo /\ r.list = job[c].list
      /\ r.at = at /\ r.tries = job[c].tries /\ r.invalid = job[c].invalid
  <2>1. job[c] \in JobStates
    BY DEF SharesInv, SharesTypeOK
  <2>. QED
    BY <2>1 DEF JobStates, Stages
<1>5. job' = [job EXCEPT ![c] = r]
  BY <1>3
<1>. HIDE DEF r
<1>6. UNCHANGED <<token, viewable, muted, notices, unheard, asked>>
  BY DEF ShareCheck, ShareCommit, ShareFails, ShareEnqueue
<1>7. SharesTypeOK'
  BY <1>2, <1>4, <1>5, <1>6 DEF SharesInv, SharesTypeOK, PushTypeOK
<1>8. /\ TriesInv(r, share'[c])
      /\ NoticesInv(r, notices[c], unheard[c])
      /\ RequestsInv(r, asked[c])
  <2>1. /\ TriesInv(job[c], share[c])
        /\ NoticesInv(job[c], notices[c], unheard[c])
        /\ RequestsInv(job[c], asked[c])
    BY DEF SharesInv, DeliveryInv
  <2>. QED
    BY <1>1, <1>3, <1>4, <2>1, SharesAssumption DEF TriesInv, NoticesInv, RequestsInv
<1>9. DeliveryInv'
  <2>. SUFFICES ASSUME NEW x \in Calls
                PROVE  /\ TriesInv(job'[x], share'[x])
                       /\ NoticesInv(job'[x], notices'[x], unheard'[x])
                       /\ RequestsInv(job'[x], asked'[x])
    BY DEF DeliveryInv
  <2>1. CASE x = c
    <3>1. job'[x] = r
      BY <2>1, <1>5 DEF SharesInv, SharesTypeOK
    <3>. QED
      BY <2>1, <3>1, <1>6, <1>8
  <2>2. CASE x # c
    <3>1. job'[x] = job[x] /\ share'[x] = share[x]
      BY <2>2, <1>2, <1>5 DEF SharesInv, SharesTypeOK
    <3>. QED
      BY <3>1, <1>6 DEF SharesInv, DeliveryInv
  <2>. QED
    BY <2>1, <2>2
<1>. QED
  BY <1>7, <1>9 DEF SharesInv

-----------------------------------------------------------------------------
(* handle_notification. *)
LEMMA HandledCall ==
  ASSUME SharesInv, NEW c \in Calls, job[c].at # "none"
  PROVE  /\ share[c] = "answered"
         /\ job[c] \in JobStates /\ job[c].todo \subseteq job[c].list
         /\ notices[c] \in Nat /\ unheard[c] \in Nat /\ asked[c] \in [Devices -> Nat]
         /\ notices = [notices EXCEPT ![c] = notices[c]]
         /\ unheard = [unheard EXCEPT ![c] = unheard[c]]
         /\ asked = [asked EXCEPT ![c] = asked[c]]
         /\ TriesInv(job[c], "answered")
         /\ NoticesInv(job[c], notices[c], unheard[c])
         /\ RequestsInv(job[c], asked[c])
<1>1. /\ TriesInv(job[c], share[c])
      /\ NoticesInv(job[c], notices[c], unheard[c])
      /\ RequestsInv(job[c], asked[c])
  BY DEF SharesInv, DeliveryInv
<1>2. share[c] = "answered"
  BY <1>1 DEF TriesInv
<1>. QED
  BY <1>1, <1>2 DEF SharesInv, SharesTypeOK

(* A handler's record with some of its fields changed. *)
LEMMA OneField ==
  ASSUME NEW at, NEW tries, NEW list, NEW todo, NEW invalid, NEW v, NEW j,
         j = [at |-> at, tries |-> tries, list |-> list, todo |-> todo, invalid |-> invalid]
  PROVE  /\ [j EXCEPT !.at = v]
              = [at |-> v, tries |-> tries, list |-> list, todo |-> todo, invalid |-> invalid]
         /\ [j EXCEPT !.tries = v]
              = [at |-> at, tries |-> v, list |-> list, todo |-> todo, invalid |-> invalid]
         /\ [j EXCEPT !.list = v]
              = [at |-> at, tries |-> tries, list |-> v, todo |-> todo, invalid |-> invalid]
         /\ [j EXCEPT !.todo = v]
              = [at |-> at, tries |-> tries, list |-> list, todo |-> v, invalid |-> invalid]
         /\ [j EXCEPT !.invalid = v]
              = [at |-> at, tries |-> tries, list |-> list, todo |-> todo, invalid |-> v]
OBVIOUS

LEMMA JobAt ==
  ASSUME NEW j \in JobStates, NEW at
  PROVE  [j EXCEPT !.at = at]
            = [at |-> at, tries |-> j.tries, list |-> j.list, todo |-> j.todo, invalid |-> j.invalid]
<1>1. j = [at |-> j.at, tries |-> j.tries, list |-> j.list, todo |-> j.todo, invalid |-> j.invalid]
  BY DEF JobStates
<1>. QED
  BY <1>1, OneField

LEMMA JobTodo ==
  ASSUME NEW j \in JobStates, NEW D
  PROVE  [j EXCEPT !.todo = D]
            = [at |-> j.at, tries |-> j.tries, list |-> j.list, todo |-> D, invalid |-> j.invalid]
<1>1. j = [at |-> j.at, tries |-> j.tries, list |-> j.list, todo |-> j.todo, invalid |-> j.invalid]
  BY DEF JobStates
<1>. QED
  BY <1>1, OneField

LEMMA JobAtTries ==
  ASSUME NEW j \in JobStates, NEW at, NEW t
  PROVE  [j EXCEPT !.at = at, !.tries = t]
            = [at |-> at, tries |-> t, list |-> j.list, todo |-> j.todo, invalid |-> j.invalid]
<1>1. j = [at |-> j.at, tries |-> j.tries, list |-> j.list, todo |-> j.todo, invalid |-> j.invalid]
  BY DEF JobStates
<1>. DEFINE x == [j EXCEPT !.at = at]
<1>2. [j EXCEPT !.at = at, !.tries = t] = [x EXCEPT !.tries = t]
  OBVIOUS
<1>3. x = [at |-> at, tries |-> j.tries, list |-> j.list, todo |-> j.todo, invalid |-> j.invalid]
  BY <1>1, OneField
<1>. HIDE DEF x
<1>4. [x EXCEPT !.tries = t] = [at |-> at, tries |-> t, list |-> j.list, todo |-> j.todo, invalid |-> j.invalid]
  BY <1>3, OneField
<1>. QED
  BY <1>2, <1>4

LEMMA JobAtInvalid ==
  ASSUME NEW j \in JobStates, NEW at, NEW i
  PROVE  [j EXCEPT !.at = at, !.invalid = i]
            = [at |-> at, tries |-> j.tries, list |-> j.list, todo |-> j.todo, invalid |-> i]
<1>1. j = [at |-> j.at, tries |-> j.tries, list |-> j.list, todo |-> j.todo, invalid |-> j.invalid]
  BY DEF JobStates
<1>. DEFINE x == [j EXCEPT !.at = at]
<1>2. [j EXCEPT !.at = at, !.invalid = i] = [x EXCEPT !.invalid = i]
  OBVIOUS
<1>3. x = [at |-> at, tries |-> j.tries, list |-> j.list, todo |-> j.todo, invalid |-> j.invalid]
  BY <1>1, OneField
<1>. HIDE DEF x
<1>4. [x EXCEPT !.invalid = i] = [at |-> at, tries |-> j.tries, list |-> j.list, todo |-> j.todo, invalid |-> i]
  BY <1>3, OneField
<1>. QED
  BY <1>2, <1>4

LEMMA JobAtLists ==
  ASSUME NEW j \in JobStates, NEW at, NEW L, NEW D
  PROVE  [j EXCEPT !.at = at, !.list = L, !.todo = D]
            = [at |-> at, tries |-> j.tries, list |-> L, todo |-> D, invalid |-> j.invalid]
<1>1. j = [at |-> j.at, tries |-> j.tries, list |-> j.list, todo |-> j.todo, invalid |-> j.invalid]
  BY DEF JobStates
<1>. DEFINE x == [j EXCEPT !.at = at]
            y == [x EXCEPT !.list = L]
<1>2. [j EXCEPT !.at = at, !.list = L, !.todo = D] = [y EXCEPT !.todo = D]
  OBVIOUS
<1>3. x = [at |-> at, tries |-> j.tries, list |-> j.list, todo |-> j.todo, invalid |-> j.invalid]
  BY <1>1, OneField
<1>. HIDE DEF x
<1>4. y = [at |-> at, tries |-> j.tries, list |-> L, todo |-> j.todo, invalid |-> j.invalid]
  BY <1>3, OneField
<1>. HIDE DEF y
<1>5. [y EXCEPT !.todo = D] = [at |-> at, tries |-> j.tries, list |-> L, todo |-> D, invalid |-> j.invalid]
  BY <1>4, OneField
<1>. QED
  BY <1>2, <1>5

LEMMA JobTodoInvalid ==
  ASSUME NEW j \in JobStates, NEW D, NEW i
  PROVE  [j EXCEPT !.todo = D, !.at = "revoke", !.invalid = i]
            = [at |-> "revoke", tries |-> j.tries, list |-> j.list, todo |-> D, invalid |-> i]
<1>1. j = [at |-> j.at, tries |-> j.tries, list |-> j.list, todo |-> j.todo, invalid |-> j.invalid]
  BY DEF JobStates
<1>. DEFINE x == [j EXCEPT !.todo = D]
            y == [x EXCEPT !.at = "revoke"]
<1>2. [j EXCEPT !.todo = D, !.at = "revoke", !.invalid = i] = [y EXCEPT !.invalid = i]
  OBVIOUS
<1>3. x = [at |-> j.at, tries |-> j.tries, list |-> j.list, todo |-> D, invalid |-> j.invalid]
  BY <1>1, OneField
<1>. HIDE DEF x
<1>4. y = [at |-> "revoke", tries |-> j.tries, list |-> j.list, todo |-> D, invalid |-> j.invalid]
  BY <1>3, OneField
<1>. HIDE DEF y
<1>5. [y EXCEPT !.invalid = i] = [at |-> "revoke", tries |-> j.tries, list |-> j.list, todo |-> D, invalid |-> i]
  BY <1>4, OneField
<1>. QED
  BY <1>2, <1>5

(* Up to the INSERT: the attempt is counted before there is a row.         *)
LEMMA InsertStep ==
  ASSUME SharesInv, NEW c \in Calls,
         ClaimJob(c) \/ LoadPreferences(c) \/ InsertNotice(c) \/ HandlerFails(c)
         \/ InsertUnheard(c)
  PROVE  SharesInv'
<1>1. job[c].at \in {"waiting", "load", "insert"}
  BY DEF ClaimJob, LoadPreferences, InsertNotice, HandlerFails, InsertUnheard, JobMoves
<1>. DEFINE j == job[c]
<1>2. /\ share[c] = "answered"
      /\ j \in JobStates /\ j.todo \subseteq j.list
      /\ notices[c] \in Nat /\ unheard[c] \in Nat /\ asked[c] \in [Devices -> Nat]
      /\ notices = [notices EXCEPT ![c] = notices[c]]
      /\ unheard = [unheard EXCEPT ![c] = unheard[c]]
      /\ asked = [asked EXCEPT ![c] = asked[c]]
      /\ TriesInv(j, "answered")
      /\ NoticesInv(j, notices[c], unheard[c])
      /\ RequestsInv(j, asked[c])
  BY <1>1, HandledCall
<1>3. ASSUME NEW at \in Stages, NEW k \in {0, 1}, NEW n \in {0, 1}, NEW u \in {0, 1},
             job' = [job EXCEPT ![c] = [at |-> at, tries |-> j.tries + k, list |-> j.list,
                                        todo |-> j.todo, invalid |-> j.invalid]],
             notices' = [notices EXCEPT ![c] = notices[c] + n],
             unheard' = [unheard EXCEPT ![c] = unheard[c] + u],
             UNCHANGED <<token, viewable, muted, share, shareCount, asked>>,
             \/ j.at = "waiting" /\ at = "load" /\ k = 1 /\ n = 0 /\ u = 0
             \/ j.at = "load" /\ at \in {"skipped", "insert"} /\ k = 0 /\ n = 0 /\ u = 0
             \/ j.at = "insert" /\ at = "push" /\ k = 0 /\ n = 1 /\ u = 0
             \/ /\ j.at \in {"load", "insert"} /\ at = AfterError(c) /\ k = 0 /\ n = u
                /\ n = 1 => j.at = "insert"
      PROVE  SharesInv'
  <2>. DEFINE r == [at |-> at, tries |-> j.tries + k, list |-> j.list,
                    todo |-> j.todo, invalid |-> j.invalid]
  <2>1. j.tries \in Nat /\ MaxTries \in Nat /\ j.tries <= MaxTries
    BY <1>2, SharesAssumption DEF JobStates
  <2>2. r \in JobStates
    <3>1. j.tries + k \in 0 .. MaxTries
      BY <1>2, <1>3, <2>1 DEF TriesInv
    <3>. QED
      BY <1>2, <3>1 DEF JobStates
  <2>3. /\ r.at = at /\ r.tries = j.tries + k
        /\ r.list = j.list /\ r.todo = j.todo /\ r.invalid = j.invalid
    OBVIOUS
  <2>4. job' = [job EXCEPT ![c] = r]
    BY <1>3
  <2>. HIDE DEF r, j
  <2>5. TriesInv(r, "answered")
    BY <1>2, <1>3, <2>1, <2>3 DEF TriesInv, AfterError, j
  <2>6. NoticesInv(r, notices[c] + n, unheard[c] + u)
    BY <1>2, <1>3, <2>1, <2>3 DEF NoticesInv, AfterError
  <2>7. RequestsInv(r, asked[c])
    BY <1>2, <1>3, <2>3 DEF RequestsInv, AfterError
  <2>8. /\ PushTypeOK' /\ notices[c] + n \in Nat /\ unheard[c] + u \in Nat
        /\ asked' = [asked EXCEPT ![c] = asked[c]]
    BY <1>2, <1>3 DEF SharesInv, SharesTypeOK, PushTypeOK
  <2>. QED
    BY <1>2, <1>3, <2>2, <2>3, <2>4, <2>5, <2>6, <2>7, <2>8, OneJobMoves
<1>4. /\ notices = [notices EXCEPT ![c] = notices[c] + 0]
      /\ unheard = [unheard EXCEPT ![c] = unheard[c] + 0]
  BY <1>2
<1>5. ASSUME NEW at \in Stages, JobMoves(c, j.at, at)
      PROVE  job' = [job EXCEPT ![c] = [at |-> at, tries |-> j.tries + 0, list |-> j.list,
                                        todo |-> j.todo, invalid |-> j.invalid]]
  <2>1. [j EXCEPT !.at = at] = [at |-> at, tries |-> j.tries, list |-> j.list,
                                todo |-> j.todo, invalid |-> j.invalid]
    BY <1>2, JobAt
  <2>2. job' = [job EXCEPT ![c] = [j EXCEPT !.at = at]] /\ j.tries + 0 = j.tries
    BY <1>2, <1>5 DEF JobStates, JobMoves
  <2>. QED
    BY <2>1, <2>2
<1>6. CASE ClaimJob(c)
  <2>1. job' = [job EXCEPT ![c] = [job[c] EXCEPT !.at = "load", !.tries = job[c].tries + 1]]
    BY <1>2, <1>6 DEF ClaimJob
  <2>2. job' = [job EXCEPT ![c] = [at |-> "load", tries |-> j.tries + 1, list |-> j.list,
                                   todo |-> j.todo, invalid |-> j.invalid]]
    BY <1>2, <2>1, JobAtTries
  <2>3. /\ j.at = "waiting" /\ "load" \in Stages
        /\ UNCHANGED <<token, viewable, muted, share, shareCount, notices, unheard, asked>>
    BY <1>6 DEF ClaimJob, Stages
  <2>. HIDE DEF j
  <2>. QED
    BY <1>3, <1>4, <2>2, <2>3
<1>7. CASE LoadPreferences(c)
  <2>. DEFINE at == IF Recipient[c] \in muted THEN "skipped" ELSE "insert"
  <2>1. JobMoves(c, j.at, at) /\ j.at = "load" /\ at \in Stages
    BY <1>7 DEF LoadPreferences, JobMoves, Stages
  <2>2. at \in {"skipped", "insert"} /\ UNCHANGED <<token, viewable, muted, share, shareCount, notices, unheard, asked>>
    BY <1>7 DEF LoadPreferences
  <2>. HIDE DEF at
  <2>. QED
    BY <1>3, <1>4, <1>5, <2>1, <2>2
<1>8. CASE InsertNotice(c)
  <2>1. JobMoves(c, j.at, "push") /\ j.at = "insert" /\ "push" \in Stages
    BY <1>8 DEF InsertNotice, JobMoves, Stages
  <2>2. job' = [job EXCEPT ![c] = [at |-> "push", tries |-> j.tries + 0, list |-> j.list,
                                   todo |-> j.todo, invalid |-> j.invalid]]
    BY <1>5, <2>1
  <2>3. /\ notices' = [notices EXCEPT ![c] = notices[c] + 1]
        /\ UNCHANGED <<token, viewable, muted, share, shareCount, unheard, asked>>
    BY <1>8 DEF InsertNotice
  <2>. QED
    BY <1>3, <1>4, <2>1, <2>2, <2>3
<1>9. CASE HandlerFails(c)
  <2>1. JobMoves(c, j.at, AfterError(c)) /\ j.at \in {"load", "insert"} /\ AfterError(c) \in Stages
    BY <1>9 DEF HandlerFails, JobMoves, Stages, AfterError
  <2>2. UNCHANGED <<token, viewable, muted, share, shareCount, notices, unheard, asked>>
    BY <1>9 DEF HandlerFails
  <2>. QED
    BY <1>3, <1>4, <1>5, <2>1, <2>2
<1>10. CASE InsertUnheard(c)
  <2>1. JobMoves(c, j.at, AfterError(c)) /\ j.at = "insert" /\ AfterError(c) \in Stages
    BY <1>10 DEF InsertUnheard, JobMoves, Stages, AfterError
  <2>2. job' = [job EXCEPT ![c] = [at |-> AfterError(c), tries |-> j.tries + 0,
                                   list |-> j.list, todo |-> j.todo, invalid |-> j.invalid]]
    BY <1>5, <2>1
  <2>3. /\ notices' = [notices EXCEPT ![c] = notices[c] + 1]
        /\ unheard' = [unheard EXCEPT ![c] = unheard[c] + 1]
        /\ UNCHANGED <<token, viewable, muted, share, shareCount, asked>>
    BY <1>10 DEF InsertUnheard
  <2>. QED
    BY <1>3, <2>1, <2>2, <2>3
<1>. QED
  BY <1>6, <1>7, <1>8, <1>9, <1>10

-----------------------------------------------------------------------------
(* send_push and what it does about APNs' answers.                         *)
LEMMA LoadTargetsStep ==
  ASSUME SharesInv, NEW c \in Calls, LoadTargets(c)
  PROVE  SharesInv'
<1>. DEFINE j == job[c]
<1>1. /\ share[c] = "answered"
      /\ j \in JobStates
      /\ notices[c] \in Nat /\ unheard[c] \in Nat /\ asked[c] \in [Devices -> Nat]
      /\ notices = [notices EXCEPT ![c] = notices[c]]
      /\ unheard = [unheard EXCEPT ![c] = unheard[c]]
      /\ asked = [asked EXCEPT ![c] = asked[c]]
      /\ TriesInv(j, "answered")
      /\ NoticesInv(j, notices[c], unheard[c])
      /\ RequestsInv(j, asked[c])
  BY HandledCall DEF LoadTargets
<1>2. PICK L \in {{}, ActiveTargets(Recipient[c])} :
        job' = [job EXCEPT ![c] = [job[c] EXCEPT !.at = "send", !.list = L, !.todo = L]]
  BY <1>1 DEF LoadTargets
<1>3. L \subseteq Targets /\ \A s, t \in L : s.device = t.device => s = t
  BY <1>2 DEF ActiveTargets, Targets, SharesInv, SharesTypeOK, PushTypeOK, Rows
<1>. DEFINE r == [at |-> "send", tries |-> j.tries, list |-> L, todo |-> L,
                  invalid |-> j.invalid]
<1>4. r \in JobStates /\ r.todo \subseteq r.list
  BY <1>1, <1>3 DEF JobStates, Stages
<1>5. job' = [job EXCEPT ![c] = r]
  <2>1. j \in JobStates
    BY <1>1
  <2>2. job' = [job EXCEPT ![c] = [j EXCEPT !.at = "send", !.list = L, !.todo = L]]
    BY <1>2
  <2>. HIDE DEF j
  <2>3. [j EXCEPT !.at = "send", !.list = L, !.todo = L] = r
    BY <2>1, JobAtLists, Zenon
  <2>. QED
    BY <2>2, <2>3
<1>6. j.at = "push" /\ UNCHANGED <<token, viewable, muted, share, shareCount, notices, unheard, asked>>
  BY DEF LoadTargets
<1>7. TriesInv(r, "answered") /\ NoticesInv(r, notices[c], unheard[c])
  BY <1>1, <1>6 DEF TriesInv, NoticesInv
<1>8. RequestsInv(r, asked[c])
  <2>1. \A t \in L : t.device \in Devices
    BY <1>3 DEF Targets
  <2>. QED
    BY <1>1, <1>3, <1>6, <2>1 DEF RequestsInv
<1>9. PushTypeOK'
  BY <1>6 DEF SharesInv, SharesTypeOK, PushTypeOK
<1>. HIDE DEF j, r
<1>. QED
  BY <1>1, <1>4, <1>5, <1>6, <1>7, <1>8, <1>9, OneJobMoves

(* One request: the device is no longer to do, and has been asked.         *)
LEMMA SendAlertStep ==
  ASSUME SharesInv, NEW c \in Calls, SendAlert(c)
  PROVE  SharesInv'
<1>. DEFINE j == job[c]
<1>1. /\ share[c] = "answered"
      /\ j \in JobStates /\ j.todo \subseteq j.list
      /\ notices[c] \in Nat /\ unheard[c] \in Nat /\ asked[c] \in [Devices -> Nat]
      /\ notices = [notices EXCEPT ![c] = notices[c]]
      /\ unheard = [unheard EXCEPT ![c] = unheard[c]]
      /\ TriesInv(j, "answered")
      /\ NoticesInv(j, notices[c], unheard[c])
      /\ RequestsInv(j, asked[c])
  BY HandledCall DEF SendAlert
<1>2. PICK t \in j.todo :
        /\ \E answer \in Answers(t) : job' = [job EXCEPT ![c] = OnAnswer(c, t, answer)]
        /\ asked' = [asked EXCEPT ![c][t.device] = @ + 1]
  BY DEF SendAlert
<1>3. PICK answer \in Answers(t) : job' = [job EXCEPT ![c] = OnAnswer(c, t, answer)]
  BY <1>2
<1>4. /\ j.at = "send"
      /\ UNCHANGED <<token, viewable, muted, share, shareCount, notices, unheard>>
  BY DEF SendAlert
<1>5. t \in Targets /\ t \in j.list /\ t.device \in Devices
  BY <1>1, <1>2 DEF JobStates, Targets
<1>. DEFINE a == [asked[c] EXCEPT ![t.device] = @ + 1]
<1>6. a \in [Devices -> Nat] /\ asked' = [asked EXCEPT ![c] = a]
  BY <1>1, <1>2, <1>5
<1>7. PICK at \in {"send", "revoke"}, i \in Targets \cup {NoTarget} :
        /\ job' = [job EXCEPT ![c] = [at |-> at, tries |-> j.tries, list |-> j.list,
                                      todo |-> j.todo \ {t}, invalid |-> i]]
        /\ at = "send" => i = j.invalid
        /\ at = "revoke" => i = t /\ t.env # TrueEnv[t.device]
  <2>1. CASE answer = "InvalidToken"
    <3>1. t.env # TrueEnv[t.device]
      BY <1>3, <2>1 DEF Answers
    <3>2. OnAnswer(c, t, answer) = [at |-> "revoke", tries |-> j.tries, list |-> j.list,
                                    todo |-> j.todo \ {t}, invalid |-> t]
      <4>1. PICK left : left = j.todo \ {t}
        OBVIOUS
      <4>2. OnAnswer(c, t, answer) = [j EXCEPT !.todo = left, !.at = "revoke", !.invalid = t]
        BY <2>1, <4>1 DEF OnAnswer
      <4>3. j \in JobStates
        BY <1>1
      <4>. HIDE DEF j
      <4>4. [j EXCEPT !.todo = left, !.at = "revoke", !.invalid = t]
              = [at |-> "revoke", tries |-> j.tries, list |-> j.list,
                 todo |-> left, invalid |-> t]
        BY <4>3, JobTodoInvalid, Zenon
      <4>. QED
        BY <4>1, <4>2, <4>4
    <3>. HIDE DEF j
    <3>. QED
      BY <1>3, <1>5, <3>1, <3>2
  <2>2. CASE answer # "InvalidToken"
    <3>1. OnAnswer(c, t, answer) = [job[c] EXCEPT !.todo = job[c].todo \ {t}]
      BY <1>3, <2>2 DEF OnAnswer, OnError, Answers
    <3>2. OnAnswer(c, t, answer) = [at |-> j.at, tries |-> j.tries, list |-> j.list,
                                    todo |-> j.todo \ {t}, invalid |-> j.invalid]
      BY <1>1, <3>1, JobTodo
    <3>3. j.invalid \in Targets \cup {NoTarget}
      BY <1>1 DEF JobStates
    <3>. HIDE DEF j
    <3>. QED
      BY <1>3, <1>4, <3>2, <3>3
  <2>. QED
    BY <2>1, <2>2
<1>. DEFINE r == [at |-> at, tries |-> j.tries, list |-> j.list,
                  todo |-> j.todo \ {t}, invalid |-> i]
<1>8. r \in JobStates /\ r.todo \subseteq r.list
  BY <1>1, <1>7 DEF JobStates, Stages
<1>9. TriesInv(r, "answered") /\ NoticesInv(r, notices[c], unheard[c])
  BY <1>1, <1>4, <1>7 DEF TriesInv, NoticesInv
<1>10. RequestsInv(r, a)
  <2>1. \A d \in Devices : a[d] = IF d = t.device THEN asked[c][d] + 1 ELSE asked[c][d]
    BY <1>1
  <2>2. asked[c][t.device] = 0
    BY <1>1, <1>2, <1>4, <1>5 DEF RequestsInv
  <2>3. \A d \in Devices : a[d] <= 1
    BY <1>1, <2>1, <2>2 DEF RequestsInv
  <2>4. ASSUME NEW s \in j.list
        PROVE  a[s.device] = IF s \in j.todo \ {t} THEN 0 ELSE 1
    <3>1. s.device \in Devices
      BY <1>1 DEF JobStates, Targets
    <3>2. s.device = t.device => s = t
      BY <1>1, <1>5 DEF RequestsInv
    <3>3. asked[c][s.device] = IF s \in j.todo THEN 0 ELSE 1
      BY <1>1, <1>4 DEF RequestsInv
    <3>. HIDE DEF a
    <3>. QED
      BY <2>1, <2>2, <3>1, <3>2, <3>3
  <2>5. \A s, u \in j.list : s.device = u.device => s = u
    BY <1>1 DEF RequestsInv
  <2>6. at = "send" => i = NoTarget
    BY <1>1, <1>4, <1>7 DEF RequestsInv
  <2>7. /\ r.at = at /\ r.list = j.list /\ r.todo = j.todo \ {t} /\ r.invalid = i
    OBVIOUS
  <2>. HIDE DEF a, r, j
  <2>. QED
    BY <1>5, <1>7, <2>3, <2>4, <2>5, <2>6, <2>7 DEF RequestsInv
<1>11. PushTypeOK'
  BY <1>4 DEF SharesInv, SharesTypeOK, PushTypeOK
<1>12. /\ job' = [job EXCEPT ![c] = r]
       /\ notices' = [notices EXCEPT ![c] = notices[c]]
       /\ unheard' = [unheard EXCEPT ![c] = unheard[c]]
  BY <1>1, <1>4, <1>7
<1>. HIDE DEF j, r, a
<1>. QED
  BY <1>1, <1>4, <1>6, <1>8, <1>9, <1>10, <1>11, <1>12, OneJobMoves

(* The end of a delivery, and its revocations.                             *)
LEMMA SendEndsStep ==
  ASSUME SharesInv, NEW c \in Calls,
         SendEnds(c) \/ RevokeToken(c) \/ RevokeFails(c) \/ WorkerLost(c)
  PROVE  SharesInv'
<1>. DEFINE j == job[c]
<1>1. j.at \in Handling
  BY DEF SendEnds, RevokeToken, RevokeFails, WorkerLost, JobMoves, Handling
<1>2. /\ share[c] = "answered"
      /\ j \in JobStates /\ j.todo \subseteq j.list
      /\ notices[c] \in Nat /\ unheard[c] \in Nat /\ asked[c] \in [Devices -> Nat]
      /\ notices = [notices EXCEPT ![c] = notices[c]]
      /\ unheard = [unheard EXCEPT ![c] = unheard[c]]
      /\ asked = [asked EXCEPT ![c] = asked[c]]
      /\ TriesInv(j, "answered")
      /\ NoticesInv(j, notices[c], unheard[c])
      /\ RequestsInv(j, asked[c])
  BY <1>1, HandledCall DEF Handling
<1>3. PICK at \in Stages, i \in Targets \cup {NoTarget} :
        /\ job' = [job EXCEPT ![c] = [at |-> at, tries |-> j.tries, list |-> j.list,
                                      todo |-> j.todo, invalid |-> i]]
        /\ \/ j.at = "send" /\ at = "done" /\ i = j.invalid /\ j.todo = {}
           \/ j.at = "revoke" /\ at = "send" /\ i = NoTarget
           \/ j.at = "revoke" /\ at = "done" /\ i = j.invalid
           \/ at = "lost" /\ i = j.invalid
  <2>1. j.invalid \in Targets \cup {NoTarget}
    BY <1>2 DEF JobStates
  <2>2. ASSUME NEW at \in Stages, job' = [job EXCEPT ![c].at = at]
        PROVE  job' = [job EXCEPT ![c] = [at |-> at, tries |-> j.tries, list |-> j.list,
                                          todo |-> j.todo, invalid |-> j.invalid]]
    <3>1. job' = [job EXCEPT ![c] = [j EXCEPT !.at = at]]
      BY <1>2, <2>2
    <3>. QED
      BY <1>2, <3>1, JobAt
  <2>3. CASE SendEnds(c)
    <3>1. j.at = "send" /\ j.todo = {} /\ job' = [job EXCEPT ![c].at = "done"]
          /\ "done" \in Stages
      BY <2>3 DEF SendEnds, JobMoves, Stages
    <3>. HIDE DEF j
    <3>. QED
      BY <2>1, <2>2, <3>1
  <2>4. CASE RevokeToken(c)
    <3>1. job' = [job EXCEPT ![c] = [j EXCEPT !.at = "send", !.invalid = NoTarget]]
          /\ j.at = "revoke" /\ "send" \in Stages
      BY <1>2, <2>4 DEF RevokeToken, Stages
    <3>2. job' = [job EXCEPT ![c] = [at |-> "send", tries |-> j.tries, list |-> j.list,
                                     todo |-> j.todo, invalid |-> NoTarget]]
      <4>1. j \in JobStates
        BY <1>2
      <4>. HIDE DEF j
      <4>2. [j EXCEPT !.at = "send", !.invalid = NoTarget]
              = [at |-> "send", tries |-> j.tries, list |-> j.list,
                 todo |-> j.todo, invalid |-> NoTarget]
        BY <4>1, JobAtInvalid, Zenon
      <4>. QED
        BY <3>1, <4>2
    <3>. HIDE DEF j
    <3>. QED
      BY <3>1, <3>2
  <2>5. CASE RevokeFails(c)
    <3>1. j.at = "revoke" /\ job' = [job EXCEPT ![c].at = "done"] /\ "done" \in Stages
      BY <2>5 DEF RevokeFails, JobMoves, Stages
    <3>. HIDE DEF j
    <3>. QED
      BY <2>1, <2>2, <3>1
  <2>6. CASE WorkerLost(c)
    <3>1. job' = [job EXCEPT ![c].at = "lost"] /\ "lost" \in Stages
      BY <2>6 DEF WorkerLost, JobMoves, Stages
    <3>. HIDE DEF j
    <3>. QED
      BY <2>1, <2>2, <3>1
  <2>. QED
    BY <2>3, <2>4, <2>5, <2>6
<1>. DEFINE r == [at |-> at, tries |-> j.tries, list |-> j.list, todo |-> j.todo,
                  invalid |-> i]
<1>4. r \in JobStates /\ r.todo \subseteq r.list
  BY <1>2, <1>3 DEF JobStates
<1>5. r.at = at /\ r.tries = j.tries /\ r.list = j.list /\ r.todo = j.todo /\ r.invalid = i
  OBVIOUS
<1>6. /\ UNCHANGED <<viewable, muted, share, shareCount, notices, unheard, asked>>
      /\ PushTypeOK'
  <2>1. PushTypeOK
    BY DEF SharesInv, SharesTypeOK
  <2>2. UNCHANGED <<viewable, muted, share, shareCount, notices, unheard, asked>>
    BY DEF SendEnds, RevokeToken, RevokeFails, WorkerLost
  <2>3. CASE UNCHANGED token
    BY <2>1, <2>2, <2>3 DEF PushTypeOK
  <2>4. CASE RevokeToken(c)
    BY <2>1, <2>2, <2>4 DEF RevokeToken, Revoke, PushTypeOK, Rows
  <2>. QED
    BY <2>3, <2>4 DEF SendEnds, RevokeFails, WorkerLost
<1>7. /\ job' = [job EXCEPT ![c] = r]
      /\ notices' = [notices EXCEPT ![c] = notices[c]]
      /\ unheard' = [unheard EXCEPT ![c] = unheard[c]]
      /\ asked' = [asked EXCEPT ![c] = asked[c]]
  BY <1>2, <1>3, <1>6
<1>. HIDE DEF j, r
<1>8. TriesInv(r, "answered") /\ NoticesInv(r, notices[c], unheard[c])
  BY <1>1, <1>2, <1>3, <1>5 DEF TriesInv, NoticesInv, Handling
<1>9. RequestsInv(r, asked[c])
  BY <1>1, <1>2, <1>3, <1>5, SharesAssumption DEF RequestsInv, Handling
<1>. QED
  BY <1>2, <1>4, <1>6, <1>7, <1>8, <1>9, OneJobMoves
-----------------------------------------------------------------------------
(* The clients touch no call. *)
LEMMA ClientStepKeeps ==
  ASSUME SharesInv,
         \/ \E u \in Users, d \in Devices : Sync(u, d)
         \/ \E u \in Recipients : UpdatePreferences(u)
         \/ ChangeAudience
         \/ UNCHANGED sharesVars
  PROVE  SharesInv'
<1>1. UNCHANGED <<share, shareCount, job, notices, unheard, asked>>
  BY DEF Sync, UpdatePreferences, ChangeAudience, sharesVars
<1>2. PushTypeOK /\ viewable \in BOOLEAN /\ muted \subseteq Recipients
  BY DEF SharesInv, SharesTypeOK
<1>3. PushTypeOK' /\ viewable' \in BOOLEAN /\ muted' \subseteq Recipients
  <2>1. ASSUME NEW u \in Users, NEW d \in Devices, Sync(u, d)
        PROVE  PushTypeOK' /\ UNCHANGED <<viewable, muted>>
    <3>1. CASE SyncRegister(u, d)
      <4>1. PICK e \in Envs : Register(u, d, e)
        BY <3>1, PushAssumption DEF SyncRegister
      <4>. QED
        BY <1>2, <2>1, <4>1 DEF Sync, Register, PushTypeOK, Rows
    <3>2. CASE Unregister(u, d)
      BY <1>2, <2>1, <3>2 DEF Sync, Unregister, PushTypeOK, Rows
    <3>. QED
      BY <2>1, <3>1, <3>2 DEF Sync
  <2>2. ASSUME NEW u \in Recipients, UpdatePreferences(u)
        PROVE  UNCHANGED <<token, viewable>> /\ muted' \subseteq Recipients
    BY <1>2, <2>2 DEF UpdatePreferences
  <2>3. ASSUME ChangeAudience
        PROVE  UNCHANGED <<token, muted>> /\ viewable' \in BOOLEAN
    BY <1>2, <2>3 DEF ChangeAudience
  <2>4. ASSUME UNCHANGED sharesVars
        PROVE  UNCHANGED <<token, viewable, muted>>
    BY <2>4 DEF sharesVars
  <2>. QED
    BY <1>2, <2>1, <2>2, <2>3, <2>4 DEF PushTypeOK
<1>. QED
  BY <1>1, <1>3 DEF SharesInv, SharesTypeOK, DeliveryInv

LEMMA NextSharesInv == SharesInv /\ [SharesNext]_sharesVars => SharesInv'
<1>. SUFFICES ASSUME SharesInv, [SharesNext]_sharesVars PROVE SharesInv'
  OBVIOUS
<1>1. ASSUME NEW c \in Calls,
             ShareCheck(c) \/ ShareCommit(c) \/ ShareFails(c) \/ ShareEnqueue(c)
      PROVE  SharesInv'
  BY <1>1, CallStep
<1>2. ASSUME NEW c \in Calls,
             ClaimJob(c) \/ LoadPreferences(c) \/ InsertNotice(c) \/ HandlerFails(c)
             \/ InsertUnheard(c)
      PROVE  SharesInv'
  BY <1>2, InsertStep
<1>3. ASSUME NEW c \in Calls, LoadTargets(c) PROVE SharesInv'
  BY <1>3, LoadTargetsStep
<1>4. ASSUME NEW c \in Calls, SendAlert(c) PROVE SharesInv'
  BY <1>4, SendAlertStep
<1>5. ASSUME NEW c \in Calls,
             SendEnds(c) \/ RevokeToken(c) \/ RevokeFails(c) \/ WorkerLost(c)
      PROVE  SharesInv'
  BY <1>5, SendEndsStep
<1>. QED
  BY <1>1, <1>2, <1>3, <1>4, <1>5, ClientStepKeeps DEF SharesNext

LEMMA SpecSharesInv == SharesSpec => []SharesInv
BY InitSharesInv, NextSharesInv, PTL DEF SharesSpec

(* Every variable of Shares keeps its type, posts.share_count the number   *)
(* of committed shares.                                                    *)
THEOREM SharesTypeCorrect == SharesSpec => []SharesTypeOK
<1>1. SharesInv => SharesTypeOK
  BY DEF SharesInv
<1>. QED
  BY <1>1, SpecSharesInv, PTL

(* handle_notification writes one row for a share, and one more for each   *)
(* INSERT of which it did not hear, whatever is retried, muted or lost.    *)
THEOREM SharesAreNoticedOnce == SharesSpec => []NoticePerShare
<1>1. SharesInv => NoticePerShare
  <2>. SUFFICES ASSUME SharesInv, NEW c \in Calls
                PROVE  /\ notices[c] <= 1 + unheard[c]
                       /\ notices[c] > 0 => share[c] = "answered"
                       /\ job[c].at \in {"push", "send", "revoke", "done"}
                             => notices[c] > unheard[c]
    BY DEF NoticePerShare
  <2>1. TriesInv(job[c], share[c]) /\ NoticesInv(job[c], notices[c], unheard[c])
    BY DEF SharesInv, DeliveryInv
  <2>2. notices[c] \in Nat /\ unheard[c] \in Nat
    BY DEF SharesInv, SharesTypeOK
  <2>. QED
    BY <2>1, <2>2 DEF TriesInv, NoticesInv
<1>. QED
  BY <1>1, SpecSharesInv, PTL

(* send_push asks APNs at most once about a share and a device, and leaves *)
(* out no device it has loaded unless a revocation failed.                 *)
THEOREM DevicesAreAskedOnce == SharesSpec => []AskedOnce
<1>1. SharesInv => AskedOnce
  <2>. SUFFICES ASSUME SharesInv, NEW c \in Calls
                PROVE  /\ \A d \in Devices : asked[c][d] <= 1
                       /\ job[c].at = "done" /\ job[c].invalid = NoTarget =>
                             \A t \in job[c].list : asked[c][t.device] = 1
    BY DEF AskedOnce
  <2>1. RequestsInv(job[c], asked[c])
    BY DEF SharesInv, DeliveryInv
  <2>. QED
    BY <2>1 DEF RequestsInv
<1>. QED
  BY <1>1, SpecSharesInv, PTL

(* Only revoke_token takes a working registration from a device, and only  *)
(* on an answer that APNs gave about the other environment.                *)
THEOREM OnlyLateAnswersRevoke == SharesSpec => RevokedByLateAnswer
<1>. DEFINE A == \A d \in Devices :
                    Good(d) /\ ~token'[d].active /\ job' # job => LateAnswer(d)
<1>1. SharesInv /\ [SharesNext]_sharesVars => [A]_sharesVars
  <2>. SUFFICES ASSUME SharesInv, [SharesNext]_sharesVars, NEW d \in Devices,
                       Good(d), ~token'[d].active, job' # job
                PROVE  LateAnswer(d)
    OBVIOUS
  <2>1. PICK c \in Calls : RevokeToken(c)
    <3>1. token' # token
      BY DEF Good
    <3>. QED
      BY <3>1 DEF SharesNext, ShareCheck, ShareCommit, ShareFails, ShareEnqueue, ClaimJob,
         LoadPreferences, InsertNotice, InsertUnheard, HandlerFails, LoadTargets, SendAlert,
         SendEnds, RevokeFails, WorkerLost, Sync, UpdatePreferences, ChangeAudience, sharesVars
  <2>2. job[c].at = "revoke" /\ token' = [token EXCEPT ![job[c].invalid.device].active = FALSE]
    BY <2>1 DEF RevokeToken, Revoke
  <2>3. job[c].invalid.device = d
    BY <2>2 DEF SharesInv, SharesTypeOK, PushTypeOK, Good
  <2>4. job[c].invalid.env # TrueEnv[job[c].invalid.device]
    BY <2>2 DEF SharesInv, DeliveryInv, RequestsInv
  <2>. QED
    BY <2>2, <2>3, <2>4 DEF LateAnswer
<1>. QED
  BY <1>1, SpecSharesInv, PTL DEF SharesSpec, RevokedByLateAnswer

-----------------------------------------------------------------------------
(* What a step does to one job, as JobLifecycle sees it. *)
NoticeMoves(c) ==
    \/ job'[c] = job[c]
    \/ /\ job[c].at = "none" /\ job'[c].at \in {"none", "waiting"}
       /\ job'[c].tries = job[c].tries
    \/ /\ job[c].at = "waiting" /\ job'[c].at = "load"
       /\ job'[c].tries = job[c].tries + 1
    \/ /\ job[c].at \in Handling
       /\ \/ job'[c].at \in Handling \cup {"waiting", "skipped", "done", "lost"}
          \/ job'[c].at = "dead" /\ job[c].tries >= MaxTries
       /\ job'[c].tries = job[c].tries

LEMMA CallMoves ==
  ASSUME SharesInv, NEW c \in Calls,
         \/ ShareEnqueue(c)
         \/ ClaimJob(c) \/ LoadPreferences(c) \/ InsertNotice(c) \/ InsertUnheard(c)
         \/ HandlerFails(c) \/ LoadTargets(c) \/ SendAlert(c) \/ SendEnds(c)
         \/ RevokeToken(c) \/ RevokeFails(c) \/ WorkerLost(c)
  PROVE  NoticeMoves(c) /\ \E r : job' = [job EXCEPT ![c] = r]
<1>. DEFINE j == job[c]
<1>1. /\ job \in [Calls -> JobStates] /\ j \in JobStates
      /\ TriesInv(j, share[c])
  BY DEF SharesInv, SharesTypeOK, DeliveryInv
<1>2. ASSUME NEW from, NEW to, JobMoves(c, from, to)
      PROVE  /\ j.at = from /\ job'[c].at = to /\ job'[c].tries = j.tries
             /\ \E r : job' = [job EXCEPT ![c] = r]
  BY <1>1, <1>2 DEF JobMoves, JobStates
<1>3. CASE ShareEnqueue(c)
  <2>1. PICK at \in {"none", "waiting"} : job' = [job EXCEPT ![c].at = at]
    BY <1>3 DEF ShareEnqueue
  <2>2. job[c].at = "none"
    BY <1>1, <1>3 DEF ShareEnqueue, TriesInv
  <2>. QED
    BY <1>1, <2>1, <2>2 DEF NoticeMoves, JobStates
<1>4. CASE ClaimJob(c)
  <2>1. job' = [job EXCEPT ![c] = [job[c] EXCEPT !.at = "load", !.tries = job[c].tries + 1]]
    BY <1>1, <1>4 DEF ClaimJob
  <2>2. job' = [job EXCEPT ![c] = [at |-> "load", tries |-> j.tries + 1, list |-> j.list,
                                   todo |-> j.todo, invalid |-> j.invalid]]
    BY <1>1, <2>1, JobAtTries
  <2>. QED
    BY <1>1, <1>4, <2>2 DEF ClaimJob, NoticeMoves
<1>5. CASE LoadPreferences(c)
  BY <1>2, <1>5 DEF LoadPreferences, NoticeMoves, Handling
<1>6. CASE InsertNotice(c)
  BY <1>2, <1>6 DEF InsertNotice, NoticeMoves, Handling
<1>7. CASE InsertUnheard(c) \/ HandlerFails(c)
  <2>1. PICK from \in {"load", "insert"} : JobMoves(c, from, AfterError(c))
    BY <1>7 DEF InsertUnheard, HandlerFails
  <2>2. \/ AfterError(c) = "waiting"
        \/ AfterError(c) = "dead" /\ job[c].tries >= MaxTries
    BY DEF AfterError
  <2>. QED
    BY <1>2, <2>1, <2>2 DEF NoticeMoves, Handling
<1>8. CASE LoadTargets(c)
  <2>1. job[c].at = "push"
    BY <1>8 DEF LoadTargets
  <2>2. PICK L : job' = [job EXCEPT ![c] = [job[c] EXCEPT !.at = "send", !.list = L, !.todo = L]]
    BY <1>1, <1>8 DEF LoadTargets
  <2>3. [job[c] EXCEPT !.at = "send", !.list = L, !.todo = L]
          = [at |-> "send", tries |-> job[c].tries, list |-> L, todo |-> L,
             invalid |-> job[c].invalid]
    BY <1>1, JobAtLists, Zenon
  <2>4. job' = [job EXCEPT ![c] = [at |-> "send", tries |-> job[c].tries, list |-> L,
                                   todo |-> L, invalid |-> job[c].invalid]]
    BY <2>2, <2>3
  <2>. QED
    BY <1>1, <2>1, <2>4 DEF NoticeMoves, Handling
<1>9. CASE SendAlert(c)
  <2>1. PICK t, answer : job' = [job EXCEPT ![c] = OnAnswer(c, t, answer)]
    BY <1>9 DEF SendAlert
  <2>2. /\ OnAnswer(c, t, answer).at \in {job[c].at, "revoke"}
        /\ OnAnswer(c, t, answer).tries = job[c].tries
    BY <1>1 DEF OnAnswer, OnError, JobStates
  <2>3. job'[c] = OnAnswer(c, t, answer) /\ job[c].at = "send"
    BY <1>1, <1>9, <2>1 DEF SendAlert
  <2>. QED
    BY <2>1, <2>2, <2>3 DEF NoticeMoves, Handling
<1>10. CASE SendEnds(c) \/ RevokeFails(c)
  BY <1>2, <1>10 DEF SendEnds, RevokeFails, NoticeMoves, Handling
<1>11. CASE RevokeToken(c)
  <2>1. job[c].at = "revoke"
    BY <1>11 DEF RevokeToken
  <2>2. job' = [job EXCEPT ![c] = [job[c] EXCEPT !.at = "send", !.invalid = NoTarget]]
    BY <1>1, <1>11 DEF RevokeToken
  <2>3. [job[c] EXCEPT !.at = "send", !.invalid = NoTarget]
          = [at |-> "send", tries |-> job[c].tries, list |-> job[c].list,
             todo |-> job[c].todo, invalid |-> NoTarget]
    BY <1>1, JobAtInvalid, Zenon
  <2>4. job' = [job EXCEPT ![c] = [at |-> "send", tries |-> job[c].tries,
                                   list |-> job[c].list, todo |-> job[c].todo,
                                   invalid |-> NoTarget]]
    BY <2>2, <2>3
  <2>. QED
    BY <1>1, <2>1, <2>4 DEF NoticeMoves, Handling
<1>12. CASE WorkerLost(c)
  BY <1>2, <1>12 DEF WorkerLost, NoticeMoves
<1>. QED
  BY <1>3, <1>4, <1>5, <1>6, <1>7, <1>8, <1>9, <1>10, <1>11, <1>12

LEMMA NextNoticeMoves ==
  ASSUME SharesInv, [SharesNext]_sharesVars, NEW q \in Calls
  PROVE  NoticeMoves(q)
<1>1. ASSUME NEW c \in Calls,
             \/ ShareEnqueue(c)
             \/ ClaimJob(c) \/ LoadPreferences(c) \/ InsertNotice(c) \/ InsertUnheard(c)
             \/ HandlerFails(c) \/ LoadTargets(c) \/ SendAlert(c) \/ SendEnds(c)
             \/ RevokeToken(c) \/ RevokeFails(c) \/ WorkerLost(c)
      PROVE  NoticeMoves(q)
  <2>1. NoticeMoves(c) /\ \E r : job' = [job EXCEPT ![c] = r]
    BY <1>1, CallMoves
  <2>2. CASE q = c
    BY <2>1, <2>2
  <2>3. CASE q # c
    BY <2>1, <2>3 DEF NoticeMoves, SharesInv, SharesTypeOK
  <2>. QED
    BY <2>2, <2>3
<1>2. CASE UNCHANGED job
  BY <1>2 DEF NoticeMoves
<1>3. \/ UNCHANGED job
      \/ \E c \in Calls :
            \/ ShareEnqueue(c)
            \/ ClaimJob(c) \/ LoadPreferences(c) \/ InsertNotice(c) \/ InsertUnheard(c)
            \/ HandlerFails(c) \/ LoadTargets(c) \/ SendAlert(c) \/ SendEnds(c)
            \/ RevokeToken(c) \/ RevokeFails(c) \/ WorkerLost(c)
  BY DEF SharesNext, ShareCheck, ShareCommit, ShareFails, Sync, UpdatePreferences,
     ChangeAudience, sharesVars
<1>. QED
  BY <1>1, <1>2, <1>3

(* The job of a share's notification implements the abstract life of a job *)
(* that JobQueue implements: taken up again only after an error of its     *)
(* handler, given up only when its attempts are used up, and what is lost  *)
(* with a worker stays lost.                                               *)
THEOREM NoticesLiveAsJobs == SharesSpec => NoticesImplementLifecycle
<1>. DEFINE st == [c \in Calls |-> JobStatus(c)]
            tr == [c \in Calls |-> job[c].tries]
<1>1. SharesInit => NoticeLifecycle!Init
  BY DEF SharesInit, NotQueued, NoticeLifecycle!Init, JobStatus
<1>2. SharesInv /\ SharesInv' /\ [SharesNext]_sharesVars
        => [NoticeLifecycle!Next]_NoticeLifecycle!vars
  <2>. SUFFICES ASSUME SharesInv, SharesInv', [SharesNext]_sharesVars
                PROVE  NoticeLifecycle!Next
    OBVIOUS
  <2>1. \A c \in Calls : NoticeMoves(c)
    BY NextNoticeMoves
  <2>2. \A c \in Calls : /\ st[c] = JobStatus(c) /\ st'[c] = JobStatus(c)'
                         /\ tr[c] = job[c].tries /\ tr'[c] = job'[c].tries
    OBVIOUS
  <2>3. st' \in [Calls -> NoticeLifecycle!Statuses] /\ tr' \in [Calls -> Nat]
    BY SharesAssumption DEF SharesInv, SharesTypeOK, JobStates, Stages, Handling, JobStatus,
       NoticeLifecycle!Statuses
  <2>. HIDE DEF st, tr
  <2>4. ASSUME NEW c \in Calls
        PROVE  NoticeLifecycle!JobStep(c)
    <3>1. NoticeMoves(c) /\ st[c] = JobStatus(c) /\ st'[c] = JobStatus(c)'
      BY <2>1, <2>2
    <3>2. tr[c] = job[c].tries /\ tr'[c] = job'[c].tries
      BY <2>2
    <3>. QED
      BY <3>1, <3>2 DEF st, tr, NoticeMoves, JobStatus, Handling, NoticeLifecycle!JobStep,
         NoticeLifecycle!Becomes, NoticeLifecycle!Submit, NoticeLifecycle!Take,
         NoticeLifecycle!Succeed, NoticeLifecycle!Fail, NoticeLifecycle!Lose,
         NoticeLifecycle!Renew, NoticeLifecycle!Keep, NoticeLifecycle!Settled
  <2>. QED
    BY <2>3, <2>4 DEF st, tr, NoticeLifecycle!Next
<1>. QED
  BY <1>1, <1>2, SpecSharesInv, PTL
     DEF SharesSpec, NoticesImplementLifecycle, NoticeLifecycle!Spec
=============================================================================
