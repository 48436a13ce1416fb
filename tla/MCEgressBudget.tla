--------------------------- MODULE MCEgressBudget ---------------------------
EXTENDS EgressBudget, TLC

RequestSymmetry == Permutations(Requests)
WorstCases == 1..2
BillSizes == 0..3
=============================================================================
