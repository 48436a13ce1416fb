----------------------------- MODULE MCRunEngine -----------------------------
(* The engine on small runs; the cfg files choose the sizes. *)
EXTENDS RunEngine
=============================================================================
