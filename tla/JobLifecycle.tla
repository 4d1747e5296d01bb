---------------------------- MODULE JobLifecycle ----------------------------
(***************************************************************************)
(* What the background-job subsystem promises about one job, with the      *)
(* workers hidden.  A submitted job waits, is taken by exactly one holder, *)
(* and either settles (completed or dead) or goes back to waiting for      *)
(* another attempt.  A job whose holder disappears is lost.  JobQueue is   *)
(* shown to implement this module.                                         *)
(***************************************************************************)
EXTENDS Naturals

CONSTANTS Jobs,         \* job identifiers (rows of the table jobs)
          MaxAttempts   \* column max_attempts, the same for every job

VARIABLES status,       \* what has become of each job
          tries         \* how many times each job has been taken

vars == <<status, tries>>

Statuses == {"absent", "waiting", "held", "lost", "completed", "dead"}

Settled == {"completed", "dead"}

TypeOK == /\ status \in [Jobs -> Statuses]
          /\ tries \in [Jobs -> Nat]

Init == /\ status = [j \in Jobs |-> "absent"]
        /\ tries = [j \in Jobs |-> 0]

(* The moves one job can make; a step of the system moves several at once. *)
Becomes(j, s) == status'[j] = s /\ tries'[j] = tries[j]

Submit(j)  == status[j] = "absent" /\ Becomes(j, "waiting")

(* A poll takes the job; the poller may be gone before it has the job. *)
Take(j)    == /\ status[j] = "waiting"
              /\ status'[j] \in {"held", "lost"}
              /\ tries'[j] = tries[j] + 1

Succeed(j) == status[j] = "held" /\ Becomes(j, "completed")

(* A failed attempt waits again; only a job that used up its attempts dies. *)
Fail(j)    == \/ status[j] = "held" /\ Becomes(j, "waiting")
              \/ status[j] = "held" /\ tries[j] >= MaxAttempts /\ Becomes(j, "dead")

Lose(j)    == status[j] = "held" /\ Becomes(j, "lost")

(* A settled row is never read again: its identifier can stand for a new job. *)
Renew(j)   == /\ status[j] \in Settled
              /\ status'[j] = "absent"
              /\ tries'[j] = 0

Keep(j)    == Becomes(j, status[j])

JobStep(j) == \/ Submit(j) \/ Take(j) \/ Succeed(j) \/ Fail(j)
              \/ Lose(j) \/ Renew(j) \/ Keep(j)

Next == /\ status' \in [Jobs -> Statuses]
        /\ tries' \in [Jobs -> Nat]
        /\ \A j \in Jobs : JobStep(j)

Spec == Init /\ [][Next]_vars
=============================================================================
