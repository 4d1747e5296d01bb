----------------------------- MODULE MCJobQueue -----------------------------
(* JobQueue on a small instance; the configurations give the bounds.       *)
EXTENDS JobQueue
=============================================================================
