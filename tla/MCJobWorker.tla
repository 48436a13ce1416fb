---------------------------- MODULE MCJobWorker -----------------------------
(***************************************************************************)
(* Two worker processes, one job with two attempts, and one interruption.  *)
(***************************************************************************)
EXTENDS JobWorker
=============================================================================
