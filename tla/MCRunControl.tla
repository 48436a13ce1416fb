---------------------------- MODULE MCRunControl ----------------------------
EXTENDS RunControl, TLC

CallSymmetry == Permutations(Calls)
=============================================================================
