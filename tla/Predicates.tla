----------------------------- MODULE Predicates ------------------------------
(***************************************************************************)
(* The two expression languages: scalar predicates over an event           *)
(* (predicates.py) and scoring conditions over raw_value (evaluators.py).  *)
(* Both are a recursive descent over the same grammar, tokens being pairs, *)
(* and an evaluation of the tree. One expression is written, compiled and  *)
(* evaluated while the values it reads become known one by one: each state *)
(* is one event, and a step goes to an event with one field more.          *)
(***************************************************************************)
EXTENDS Conditions

CONSTANTS
    Written,      \* the expressions considered, as trees
    Readings,     \* values a field may turn out to have
    MaxNesting    \* _MAX_NESTING_DEPTH

VARIABLES
    predicate,    \* the tree that was written
    compiled,     \* what Predicate.compile made of its tokens
    event         \* the value of each path, Missing until it is known

predicateVars == <<predicate, compiled, event>>

AllowedFields == {"payload", "cost", "timestamp", "provider_request_id",
                  "parent_event_id", "redaction_state"}
Reserved == {"true", "false", "null", "_"}

Tokens ==
    ({"lit"} \X PredicateValues) \cup ({"ident"} \X STRING) \cup {<<"dot", ".">>}
    \cup ({"op"} \X (Comparisons \cup {"!", "&&", "||"})) \cup ({"paren"} \X {"(", ")"})

-----------------------------------------------------------------------------
(***************************************************************************)
(* The parser: a result holds the node read and the tokens left, or says   *)
(* that a compile error was raised. d counts the open parentheses and      *)
(* negations of a predicate; it is Uncounted in a condition, whose parser  *)
(* has no cap. The rules of the grammar are numbered, 1 for _parse_or to 5 *)
(* for _parse_primary, and parse is the function through which a rule      *)
(* calls another.                                                          *)
(***************************************************************************)
Got(node, rest) == [ok |-> TRUE, node |-> node, rest |-> rest]
SyntaxError == [ok |-> FALSE, node |-> <<>>, rest |-> <<>>]

NextIs(ts, kind, value) == ts # <<>> /\ Head(ts) = <<kind, value>>

Uncounted == -1
Deeper(d) == IF d = Uncounted THEN d ELSE d + 1

\* Mutant of EnterNesting: one level more than the cap.
EnterNestingLate(d) == d <= MaxNesting

EnterNesting(d) == d < MaxNesting

\* Names joined by dots: n dots follow the first name, and a name each dot.
DotAt(ts, n) == 2 * n <= Len(ts) /\ ts[2 * n] = <<"dot", ".">>
NameAt(ts, i) == i <= Len(ts) /\ ts[i][1] = "ident" /\ ts[i][2] \notin Reserved
MorePath(ts) ==
    LET n == CHOOSE n \in 0..Len(ts) : (\A j \in 1..n : DotAt(ts, j)) /\ ~DotAt(ts, n + 1) IN
    IF \A j \in 1..n : NameAt(ts, 2 * j + 1)
    THEN Got(<<"path", [j \in 1..(n + 1) |-> ts[2 * j - 1][2]]>>, SubSeq(ts, 2 * n + 2, Len(ts)))
    ELSE SyntaxError

ParsePath(ts, d) ==
    CASE d = Uncounted /\ NextIs(ts, "ident", "raw_value") -> Got(RawValue, Tail(ts))
      [] d # Uncounted /\ Head(ts)[2] \in AllowedFields -> MorePath(ts)
      [] OTHER -> SyntaxError

ParsePrimary(parse, ts, d) ==
    IF ts = <<>> THEN SyntaxError
    ELSE CASE Head(ts)[1] = "lit" -> Got(Head(ts), Tail(ts))
           [] Head(ts)[1] = "ident" -> ParsePath(ts, d)
           [] NextIs(ts, "paren", "(") /\ EnterNesting(d) ->
                LET inner == parse[<<1, Tail(ts), Deeper(d)>>] IN
                IF inner.ok /\ NextIs(inner.rest, "paren", ")")
                THEN Got(inner.node, Tail(inner.rest)) ELSE SyntaxError
           [] OTHER -> SyntaxError

ParseComparison(parse, ts, d) ==
    LET left == parse[<<5, ts, d>>] IN
    IF ~left.ok \/ left.rest = <<>> THEN left
    ELSE IF Head(left.rest)[1] # "op" \/ Head(left.rest)[2] \notin Comparisons THEN left
    ELSE LET right == parse[<<5, Tail(left.rest), d>>] IN
         IF right.ok THEN Got(<<"compare", Head(left.rest)[2], left.node, right.node>>, right.rest)
                     ELSE SyntaxError

ParseNot(parse, ts, d) ==
    IF ~NextIs(ts, "op", "!") THEN parse[<<4, ts, d>>]
    ELSE IF ~EnterNesting(d) THEN SyntaxError
    ELSE LET child == parse[<<3, Tail(ts), Deeper(d)>>] IN
         IF child.ok THEN Got(<<"not", child.node>>, child.rest) ELSE SyntaxError

\* One turn of the loop of _parse_and and _parse_or: one operand more, if its
\* symbol is next.
MoreOf(parse, kind, symbol, operand, left, d) ==
    IF ~(left.ok /\ NextIs(left.rest, "op", symbol)) THEN left
    ELSE LET right == parse[<<operand, Tail(left.rest), d>>] IN
         IF right.ok THEN Got(<<kind, left.node, right.node>>, right.rest) ELSE SyntaxError

ParseChain(parse, kind, symbol, operand, ts, d) ==
    LET after[turns \in 0..Len(ts)] ==
          IF turns = 0 THEN parse[<<operand, ts, d>>]
          ELSE MoreOf(parse, kind, symbol, operand, after[turns - 1], d)
    IN after[Len(ts)]

ParseRule(parse, rule, ts, d) ==
    CASE rule = 1 -> ParseChain(parse, "or", "||", 2, ts, d)
      [] rule = 2 -> ParseChain(parse, "and", "&&", 3, ts, d)
      [] rule = 3 -> ParseNot(parse, ts, d)
      [] rule = 4 -> ParseComparison(parse, ts, d)
      [] OTHER -> ParsePrimary(parse, ts, d)

\* A call at which as many calls are open as there can be rules and tokens
\* would be one that consumed nothing: there is none.
Calls == (1..5) \X Seq(Tokens) \X Int
MostCalls(ts) == 5 * (Len(ts) + 1)

Parse(ts, d) ==
    LET parse[open \in 0..MostCalls(ts)] ==
          [call \in Calls |-> IF open = 0 THEN SyntaxError
                              ELSE ParseRule(parse[open - 1], call[1], call[2], call[3])]
        read == parse[MostCalls(ts)][<<1, ts, d>>]
    IN IF read.rest = <<>> THEN read ELSE SyntaxError

-----------------------------------------------------------------------------
(***************************************************************************)
(* Evaluation                                                              *)
(***************************************************************************)
ValueOf(node, on) ==
    LET value[e \in Trees] ==
          CASE e[1] = "lit" -> e[2]
            [] e[1] = "path" -> IF e[2] \in DOMAIN on THEN on[e[2]] ELSE Missing
            [] e[1] = "compare" -> Compared(e[2], value[e[3]], value[e[4]])
            [] e[1] = "and" -> And3(value[e[2]], value[e[3]])
            [] e[1] = "or" -> Or3(value[e[2]], value[e[3]])
            [] OTHER -> Not3(value[e[2]])
    IN value[node]

\* Unknown is false.
PredicateHolds(node, on) == ValueOf(node, on) = Yes

-----------------------------------------------------------------------------
(***************************************************************************)
(* How a tree is written: parentheses where the grammar needs them. A tree *)
(* is of the rule that reads it, and written for one that is to read it.   *)
(***************************************************************************)
Level(e) == CASE e[1] = "or" -> 1 [] e[1] = "and" -> 2 [] e[1] = "not" -> 3
              [] e[1] = "compare" -> 4 [] OTHER -> 5

Op(name) == <<<<"op", name>>>>

WriteSegments(segments) ==
    [i \in 1..(2 * Len(segments) - 1) |->
        IF i % 2 = 1 THEN <<"ident", segments[(i + 1) \div 2]>> ELSE <<"dot", ".">>]

Write(node, rule) ==
    LET tokens[at \in Trees \X (1..5)] ==
          LET e == at[1]
              body == CASE e[1] = "lit" -> <<e>>
                        [] e[1] = "path" -> WriteSegments(e[2])
                        [] e[1] = "compare" -> tokens[<<e[3], 5>>] \o Op(e[2]) \o tokens[<<e[4], 5>>]
                        [] e[1] = "not" -> Op("!") \o tokens[<<e[2], 3>>]
                        [] e[1] = "and" -> tokens[<<e[2], 2>>] \o Op("&&") \o tokens[<<e[3], 3>>]
                        [] OTHER -> tokens[<<e[2], 1>>] \o Op("||") \o tokens[<<e[3], 2>>]
          IN IF Level(e) >= at[2] THEN body
             ELSE <<<<"paren", "(">>>> \o body \o <<<<"paren", ")">>>>
    IN tokens[<<node, rule>>]

\* Parentheses and negations open at the innermost point of what Write makes.
Greater(a, b) == IF a > b THEN a ELSE b
Nesting(node, rule) ==
    LET open[at \in Trees \X (1..5)] ==
          LET e == at[1] IN
          (IF Level(e) < at[2] THEN 1 ELSE 0)
          + CASE e[1] = "compare" -> Greater(open[<<e[3], 5>>], open[<<e[4], 5>>])
              [] e[1] = "not" -> 1 + open[<<e[2], 3>>]
              [] e[1] = "and" -> Greater(open[<<e[2], 2>>], open[<<e[3], 3>>])
              [] e[1] = "or" -> Greater(open[<<e[2], 1>>], open[<<e[3], 2>>])
              [] OTHER -> 0
    IN open[<<node, rule>>]

-----------------------------------------------------------------------------
Operands(e) == CASE e[1] = "compare" -> {e[3], e[4]} [] e[1] = "not" -> {e[2]}
                 [] e[1] \in Connectives -> {e[2], e[3]} [] OTHER -> {}

\* An expression with its operands, and theirs.
PartsOf(node) ==
    LET parts[e \in Trees] == {e} \cup UNION {parts[x] : x \in Operands(e)}
    IN parts[node]

PathsOf(e) == {x[2] : x \in {y \in PartsOf(e) : y[1] = "path"}}

\* The paths that can be written: raw_value alone, or fields of an event.
FieldPaths == {p \in Seq(STRING) : p # <<>> /\ p[1] \in AllowedFields
                                    /\ \A i \in 2..Len(p) : p[i] \notin Reserved}

ASSUME PredicateAssumption ==
    /\ MaxNesting \in Nat \ {0} /\ Readings \subseteq PredicateValues /\ Written \subseteq Trees
    /\ \A e \in Written : PathsOf(e) \subseteq {RawValue[2]} \/ PathsOf(e) \subseteq FieldPaths

IsCondition(e) == RawValue[2] \in PathsOf(e)
StartDepth(e) == IF IsCondition(e) THEN Uncounted ELSE 0
Read(e) == Parse(Write(e, 1), StartDepth(e))

Passes(e, on) == IF IsCondition(e) THEN ConditionHolds(e, on[RawValue[2]]) ELSE PredicateHolds(e, on)

PredicatesInit ==
    /\ predicate \in Written
    /\ compiled = SyntaxError
    /\ event = [p \in PathsOf(predicate) |-> Missing]

Compile ==
    /\ compiled = SyntaxError /\ Read(predicate).ok
    /\ compiled' = Read(predicate)
    /\ UNCHANGED <<predicate, event>>

BecomesKnown(p, value) ==
    /\ compiled.ok /\ event[p] = Missing
    /\ event' = [event EXCEPT ![p] = value]
    /\ UNCHANGED <<predicate, compiled>>

PredicatesNext == Compile \/ \E p \in DOMAIN event, value \in Readings : BecomesKnown(p, value)

PredicatesSpec == PredicatesInit /\ [][PredicatesNext]_predicateVars

-----------------------------------------------------------------------------
\* What is compiled is what was written, by the precedence and associativity
\* of the grammar in the module's documentation; every condition compiles, and
\* the predicates that compile are those within the nesting cap
\* (predicates.py:532-660, evaluators.py:786-935).
ReadsBack ==
    /\ compiled.ok => compiled.node = predicate
    /\ Read(predicate).ok <=> IsCondition(predicate) \/ Nesting(predicate, 1) <= MaxNesting

\* No comparison is with null (nor, by ==, with a path that may hold one),
\* operands of comparisons are literals or paths, and a condition combines
\* comparisons only.
PlainComparison(e) ==
    /\ {e[3], e[4]} \subseteq Atoms
    /\ e[2] = "==" => "lit" \in {e[3][1], e[4][1]}
    /\ <<"lit", Null>> \notin {e[3], e[4]}
Plain(e) ==
    /\ e # RawValue
    /\ \A x \in PartsOf(e) : IF x[1] = "compare" THEN PlainComparison(x) ELSE RawValue \notin Operands(x)

\* "A missing field never passes a check by accident": an expression that passes
\* without a field passes whatever the field turns out to be. It holds of plain
\* expressions. One that compares with null says so; but one that compares the
\* outcome of a comparison, as in (x == 1) != true, does pass by accident,
\* because UNKNOWN is an ordinary operand there (predicates.py:416-520), and so
\* does a condition with a bare raw_value under &&, where _cond_and takes
\* MISSING for true (evaluators.py:764-783).
NoPassByAccident ==
    [][Plain(predicate) /\ Passes(predicate, event) => Passes(predicate, event')]_predicateVars

\* The same of every predicate that compares nothing with null, as the contract
\* of predicates.py:30-37 has it. The code violates it (README.md, 4)
\* where the outcome of a comparison is compared.
NamesNull(e) ==
    /\ e[1] = "compare"
    /\ \/ <<"lit", Null>> \in {e[3], e[4]}
       \/ e[2] = "==" /\ e[3][1] = "path" /\ e[4][1] = "path"
MissingNeverPasses ==
    [][~IsCondition(predicate) /\ ~(\E x \in PartsOf(predicate) : NamesNull(x))
         /\ Passes(predicate, event) => Passes(predicate, event')]_predicateVars
=============================================================================
