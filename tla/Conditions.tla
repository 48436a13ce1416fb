----------------------------- MODULE Conditions ------------------------------
(***************************************************************************)
(* The trees of both expression languages, and scoring conditions over     *)
(* raw_value (evaluators.py): the value of a tree.                         *)
(***************************************************************************)
EXTENDS PredicateLogic, Sequences

CONSTANT MaxHeight    \* operators above one another in the expressions considered

ASSUME HeightAssumption == MaxHeight \in Nat

Comparisons == {"==", "!=", "<", "<=", ">", ">="}
Connectives == {"and", "or"}

Atoms == ({"lit"} \X PredicateValues) \cup ({"path"} \X Seq(STRING))
OperatorsOn(S) ==
    ({"compare"} \X Comparisons \X S \X S) \cup ({"not"} \X S) \cup (Connectives \X S \X S)

TreesUpTo[h \in 0..MaxHeight] ==
    IF h = 0 THEN Atoms ELSE Atoms \cup OperatorsOn(TreesUpTo[h - 1])
Trees == TreesUpTo[MaxHeight]

RawValue == <<"path", <<"raw_value">>>>

CondValueOf(node, raw) ==
    LET value[e \in Trees] ==
          CASE e[1] = "lit" -> e[2]
            [] e[1] = "path" -> raw      \* raw_value: a condition has no other
            [] e[1] = "compare" -> CondCompared(e[2], value[e[3]], value[e[4]])
            [] e[1] = "and" -> CondAnd(value[e[2]], value[e[3]])
            [] e[1] = "or" -> CondOr(value[e[2]], value[e[3]])
            [] OTHER -> CondNot(value[e[2]])
    IN value[node]

\* Unknown is false.
ConditionHolds(node, raw) == CondValueOf(node, raw) = Yes
=============================================================================
