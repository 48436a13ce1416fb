----------------------------- MODULE MCJobQueue -----------------------------
(***************************************************************************)
(* Small instances of the job queue: two jobs contend for two workers, a   *)
(* lease lasts two ticks and a clock reading may be one tick old.          *)
(***************************************************************************)
EXTENDS JobQueue, TLC

Symmetry == Permutations(Jobs) \cup Permutations(Workers)
=============================================================================
