--------------------------- MODULE PredicateLogic ----------------------------
(***************************************************************************)
(* The values predicates compare and the three-valued logic they combine   *)
(* in (predicates.py), with the variant that scoring conditions use        *)
(* (evaluators.py). A value is its type and a number that stands for it    *)
(* within the type; "iso" strings parse as the datetime of their number.   *)
(***************************************************************************)
EXTENDS Integers

Of(type, n) == [type |-> type, v |-> n]
Null == Of("null", 0)
Yes == Of("bool", 1)
No == Of("bool", 0)
Missing == Of("missing", 0)     \* the path did not resolve
Unknown == Of("unknown", 0)     \* the comparison has no answer

Types == {"null", "bool", "number", "string", "iso", "time", "list"}
PredicateValues == [type: Types, v: Int]

Truth(holds) == IF holds THEN Yes ELSE No
Text(a) == a.type \in {"string", "iso"}

\* Booleans equal booleans only, numbers numerically, a datetime the text that
\* parses to it, anything else the same value of its own type.
TypedEq(a, b) ==
    \/ a.type = b.type /\ a.v = b.v
    \/ {a.type, b.type} = {"time", "iso"} /\ a.v = b.v
    \/ Text(a) /\ Text(b) /\ a.v = b.v

Orderable(a, b) ==
    \/ a.type = "number" /\ b.type = "number"
    \/ Text(a) /\ Text(b)
    \/ {a.type, b.type} \in {{"time"}, {"time", "iso"}}

\* Mutant of MissingCompared: a comparison with a missing field is false.
MissingIsUnequal(op, a, b) == No

\* x == null holds of a missing x; nothing else is known of it.
MissingCompared(op, a, b) == IF op = "==" /\ Null \in {a, b} THEN Yes ELSE Unknown

Compared(op, a, b) ==
    IF Missing \in {a, b} THEN MissingCompared(op, a, b)
    ELSE IF op = "==" THEN Truth(TypedEq(a, b))
    ELSE IF op = "!=" THEN Truth(~TypedEq(a, b))
    ELSE IF ~Orderable(a, b) THEN Unknown
    ELSE IF op = "<" THEN Truth(a.v < b.v)
    ELSE IF op = "<=" THEN Truth(a.v <= b.v)
    ELSE IF op = ">" THEN Truth(a.v > b.v)
    ELSE Truth(a.v >= b.v)

\* A value in boolean position is never coerced.
AsTruth(a) == IF a.type = "bool" THEN a ELSE Unknown

And3(a, b) ==
    IF No \in {AsTruth(a), AsTruth(b)} THEN No
    ELSE IF Unknown \in {AsTruth(a), AsTruth(b)} THEN Unknown
    ELSE Yes
Or3(a, b) ==
    IF Yes \in {AsTruth(a), AsTruth(b)} THEN Yes
    ELSE IF Unknown \in {AsTruth(a), AsTruth(b)} THEN Unknown
    ELSE No
Not3(a) == IF AsTruth(a) = Unknown THEN Unknown ELSE Truth(a = No)

-----------------------------------------------------------------------------
\* scoring.condition: the same comparisons without datetimes, and combinators
\* that take whatever is neither a boolean nor unknown for true in && and, in
\* ||, for false; ! uses the value's truthiness.
CondCompared(op, a, b) ==
    IF op \in {"==", "!="} \/ ~(a.type = "time" \/ b.type = "time")
    THEN Compared(op, a, b) ELSE Unknown
CondAnd(a, b) ==
    IF No \in {a, b} THEN No ELSE IF Unknown \in {a, b} THEN Unknown ELSE Yes
CondOr(a, b) ==
    IF Yes \in {a, b} THEN Yes ELSE IF Unknown \in {a, b} THEN Unknown ELSE No
Falsy(a) == a.type = "null" \/ (a.type \in {"bool", "number"} /\ a.v = 0)
CondNot(a) == IF a = Unknown THEN Unknown ELSE Truth(Falsy(a))
=============================================================================
