------------------------------- MODULE Scoring --------------------------------
(***************************************************************************)
(* From the evidence of one attempt to a case score, from case scores to   *)
(* the aggregate of a metric, and from the aggregate to its gate           *)
(* (evaluators.py, retrieval.py). Raw numbers are in halves, so that       *)
(* Of("number", 2) is 1.0, and scores in quarters.                         *)
(***************************************************************************)
EXTENDS PredicateLogic, Sequences, FiniteSetsExt, Functions, SequencesExt

CONSTANT Meets(_, _)    \* whether a condition holds of a raw value (see Conditions)

(***************************************************************************)
(* An observation of an attempt has                                        *)
(*   status   "completed" or "no_trace", and traced: the trace has events, *)
(*   seen     what the events of the target hold, in their order,          *)
(*   output   the output, or NoOutput,                                     *)
(*   verdict  what the rule, the judge or the custom evaluator answers.    *)
(* A metric has the fields of spec.Metric that its kind uses; target is    *)
(* "event", "output", "input" or "trace", gate its two bounds; a trace     *)
(* rule that counts has the evaluator "count".                             *)
(***************************************************************************)
Full == 4
NoScore == -1
Failure == Of("raised", 0)        \* an EvaluationError, TraceRuleError or JudgmentError
ListOf(items) == [type |-> "list", v |-> 0, items |-> items]
Number(n) == Of("number", n)
NoOutput == Of("no_output", 0)

CaseScore(status, score) == [status |-> status, score |-> score]
Erred == CaseScore("ERROR", NoScore)
Uncaught == CaseScore("UNCAUGHT", NoScore)     \* an exception leaves the evaluator
WithEntry(f, x, y) == [z \in DOMAIN f \cup {x} |-> IF z = x THEN y ELSE f[z]]
Binary(holds) == IF holds THEN CaseScore("PASS", Full) ELSE CaseScore("FAIL", 0)

HasRange(m) == m.lo <= m.hi
NoGate == <<-1, -1>>

\* What the specification accepts as a metric, whatever its words say.
ValidMetric(m) ==
    /\ m.scoring \in {"binary", "numeric"} => HasRange(m)
    /\ m.scoring = "binary" =>
         (m.evaluator \in {"numeric", "recall_at_k", "citation_correctness", "count"} => m.condition # <<>>)
    /\ m.evaluator = "exact_match" => m.expected # Null
    /\ m.evaluator = "recall_at_k" => m.k >= 1
    /\ m.kind = "judge" => m.evaluator = "llm_judge"
    /\ m.gate # NoGate /\ m.gate[2] >= 0 => m.gate[1] <= m.gate[2]

OnMissing(m) == CASE m.onMissing = "pass" -> Binary(TRUE)
                  [] m.onMissing = "skip" -> CaseScore("SKIPPED", NoScore)
                  [] OTHER -> Binary(FALSE)

-----------------------------------------------------------------------------
(***************************************************************************)
(* Selectors: a token is a key, the place of an item, or "*"; a dictionary *)
(* keeps its entries in order.                                             *)
(***************************************************************************)
DictOf(entries) == [type |-> "dict", v |-> 0, entries |-> entries]

Descend(value, token) ==
    CASE token = <<"*">> /\ value.type = "dict" ->
           ListOf([i \in DOMAIN value.entries |-> value.entries[i][2]])
      [] token = <<"*">> /\ value.type = "list" -> value
      [] token[1] = "at" /\ value.type = "list" ->
           IF token[2] \in DOMAIN value.items THEN value.items[token[2]] ELSE Missing
      [] token[1] = "key" /\ value.type = "dict" ->
           LET at == {i \in DOMAIN value.entries : value.entries[i][1] = token[2]} IN
           IF at = {} THEN Missing ELSE value.entries[Max(at)][2]
      [] OTHER -> Missing

SelectFrom(m, context) == FoldLeft(Descend, context, m.selector)

-----------------------------------------------------------------------------
(***************************************************************************)
(* Raw values                                                              *)
(***************************************************************************)
InScoreRange(m, raw) == raw.type = "number" /\ m.lo <= raw.v /\ raw.v <= m.hi

\* Scores of a range one or two halves wide are whole quarters.
NormalizeScore(m, raw) ==
    IF raw.type # "number" THEN 0
    ELSE IF m.hi > m.lo THEN Max({0, Min({Full, ((raw.v - m.lo) * Full) \div (m.hi - m.lo)})})
    ELSE IF raw.v = m.lo THEN Full ELSE 0

EvalCondition(m, raw) == Meets(m.condition, raw)

ScoreList(m, raws) ==
    IF m.scoring = "binary" /\ m.condition # <<>> THEN
           Binary(\A i \in DOMAIN raws : EvalCondition(m, raws[i]))
    ELSE IF m.scoring = "numeric" /\ raws = <<>> THEN Uncaught
    ELSE IF m.scoring = "numeric" THEN
           CaseScore(IF \A i \in DOMAIN raws : InScoreRange(m, raws[i]) THEN "PASS" ELSE "FAIL",
                     SumFunction([i \in DOMAIN raws |-> NormalizeScore(m, raws[i])]) \div Len(raws))
    ELSE IF m.scoring = "binary" /\ raws = <<>> THEN Binary(TRUE)
    ELSE Erred

ScoreRawValue(m, raw) ==
    IF raw.type = "list" THEN ScoreList(m, raw.items)
    ELSE IF m.scoring = "binary" THEN
           IF m.condition = <<>> THEN Erred ELSE Binary(EvalCondition(m, raw))
    ELSE IF m.scoring = "numeric" THEN
           CaseScore(IF InScoreRange(m, raw) THEN "PASS" ELSE "FAIL", NormalizeScore(m, raw))
    ELSE Binary(raw \in m.categories)

BooleanCaseScore(m, holds) ==
    IF m.scoring = "binary" THEN Binary(holds)
    ELSE ScoreRawValue(m, Number(IF holds THEN 2 ELSE 0))

-----------------------------------------------------------------------------
(***************************************************************************)
(* Evaluators over observed values                                         *)
(***************************************************************************)
RecallAtK(relevant, ranked, k) ==
    LET found == relevant \cap {ranked[i] : i \in {j \in DOMAIN ranked : j <= k}} IN
    IF relevant = {} THEN Number(0) ELSE Number((2 * Cardinality(found)) \div Cardinality(relevant))

\* evidence holds the citations that are known, with what is known of them.
CitationCorrectness(citations, evidence) ==
    IF citations = <<>> \/ \E i \in DOMAIN citations : citations[i] \notin DOMAIN evidence
    THEN Failure
    ELSE Number((2 * Cardinality({i \in DOMAIN citations : evidence[citations[i]]})) \div Len(citations))

IsRanked(raw) ==
    raw.type = "list" /\ \A i \in DOMAIN raw.items : raw.items[i].type = "string"

Retrieved(m, raw) ==
    IF ~IsRanked(raw) THEN Failure
    ELSE IF m.evaluator = "recall_at_k" THEN RecallAtK(m.relevant, raw.items, m.k)
    ELSE CitationCorrectness(raw.items, m.evidence)

\* A schema without a type accepts whatever its bounds do not concern.
JsonOk(schema, value) ==
    /\ schema.type \in {"any", value.type}
    /\ value.type = "number" => value.v >= schema.v

\* The one pattern of the model finds itself in the string 1.
RegexFinds(value) == value.type = "string" /\ value.v = 1

SameValue(value, expected) == value # Missing /\ TypedEq(value, expected)

Satisfies(m, value) ==
    CASE m.evaluator \in {"exact_match", "reference"} -> SameValue(value, m.expected)
      [] m.evaluator = "regex" -> RegexFinds(value)
      [] OTHER -> JsonOk(m.expected, value)

ScoreObservedValue(m, values) ==
    LET raw == IF Len(values) = 1 THEN values[1] ELSE ListOf(values) IN
    IF m.evaluator = "reference" /\ m.expected = Missing THEN Erred
    ELSE IF m.evaluator \in {"recall_at_k", "citation_correctness"} THEN
           IF Retrieved(m, raw) = Failure THEN Erred ELSE ScoreRawValue(m, Retrieved(m, raw))
    ELSE IF m.evaluator \in {"exact_match", "regex", "reference", "json_schema"}
           /\ m.scoring = "binary" THEN Binary(\A i \in DOMAIN values : Satisfies(m, values[i]))
    ELSE IF m.evaluator \in {"exact_match", "regex", "reference", "json_schema", "numeric"} THEN
           ScoreRawValue(m, raw)
    ELSE Erred           \* composite, and cel_predicate without an event

\* An index out of range selects nothing; the model's index is 1.
ApplyOccurrence(occurrence, seen) ==
    LET at == CASE occurrence = "first" -> 1 [] occurrence = "last" -> Len(seen) [] OTHER -> 2 IN
    IF occurrence = "all" THEN seen
    ELSE IF at \in DOMAIN seen THEN <<seen[at]>>
    ELSE <<>>

-----------------------------------------------------------------------------
(***************************************************************************)
(* The ways to a score                                                     *)
(***************************************************************************)
FinishJudge(m, o) ==
    IF o.verdict = Failure \/ (HasRange(m) /\ ~InScoreRange(m, o.verdict)) THEN Erred ELSE ScoreRawValue(m, o.verdict)

ScoreEvents(m, o) ==
    LET chosen == ApplyOccurrence(m.occurrence, o.seen)
        values == [i \in DOMAIN chosen |-> SelectFrom(m, chosen[i])]
    IN IF chosen = <<>> THEN OnMissing(m)
       ELSE IF m.kind = "judge" THEN FinishJudge(m, o)
       ELSE IF m.evaluator = "cel_predicate" THEN
              BooleanCaseScore(m, \A i \in DOMAIN chosen : Compared("==", values[i], m.expected) = Yes)
       ELSE ScoreObservedValue(m, values)

ScoreTraceRule(m, o) ==
    IF o.verdict = Failure THEN Erred
    ELSE IF o.verdict.type = "number" THEN ScoreRawValue(m, o.verdict)      \* count
    ELSE Binary(o.verdict = Yes)

AttemptScore(m, o) ==
    IF ~o.traced /\ m.target # "input" THEN OnMissing(m)
    ELSE IF m.kind = "trace_rule" THEN ScoreTraceRule(m, o)
    ELSE IF m.target = "event" THEN ScoreEvents(m, o)
    ELSE IF m.target = "input" THEN
           IF m.kind = "judge" THEN FinishJudge(m, o) ELSE ScoreObservedValue(m, <<SelectFrom(m, m.input)>>)
    ELSE IF m.target = "trace" /\ m.kind = "scalar" THEN Erred
    ELSE OnMissing(m)

ScoreOutput(m, o) ==
    CASE m.kind = "judge" -> FinishJudge(m, o)
      [] m.kind = "scalar" -> ScoreObservedValue(m, <<SelectFrom(m, o.output)>>)
      [] OTHER -> AttemptScore(m, [o EXCEPT !.traced = FALSE])

ScoreCustom(m, o) ==
    LET selected == IF m.target = "event" THEN o.seen # <<>> ELSE o.traced IN
    IF m.target = "output" /\ o.output = NoOutput THEN OnMissing(m)
    ELSE IF m.target = "trace" /\ ~o.traced THEN OnMissing(m)
    ELSE IF m.target # "input" /\ ~selected /\ o.output = NoOutput THEN OnMissing(m)
    ELSE IF o.verdict = Failure \/ ~HasRange(m) \/ ~InScoreRange(m, o.verdict) THEN Erred
    ELSE CaseScore(IF o.verdict.v >= m.threshold THEN "PASS" ELSE "FAIL",
                            NormalizeScore(m, o.verdict))

\* As an attempt completes; as the case of a run that is resumed; as re-scored.
ScoreLive(m, o) ==
    IF m.kind = "custom" THEN ScoreCustom(m, o)
    ELSE IF m.target = "output" /\ o.output # NoOutput /\ o.status = "completed" THEN ScoreOutput(m, o)
    ELSE AttemptScore(m, o)

\* A judge reads the context of the attempt that is being executed. There is none
\* when a stored trace is scored, and its judgment fails (judgment_context).
Unjudged(m, o) == IF m.kind = "judge" THEN [o EXCEPT !.verdict = Failure] ELSE o
ScoreFromTrace(m, o) ==
    IF m.kind = "custom" THEN ScoreCustom(m, o) ELSE AttemptScore(m, Unjudged(m, o))
ScoreAgain(m, o) ==
    IF m.kind = "custom" THEN ScoreCustom(m, o)
    ELSE IF m.target = "output" THEN ScoreOutput(m, o)
    ELSE AttemptScore(m, o)

-----------------------------------------------------------------------------
(***************************************************************************)
(* Aggregates are fractions of the score 1.0, or NoValue; scores is a      *)
(* function with case scores as values.                                    *)
(***************************************************************************)
NoValue == <<-1, 1>>

Denominator(m, scores) ==
    {i \in DOMAIN scores : scores[i].status \in
        {"PASS", "FAIL"} \cup (IF m.onError = "exclude" THEN {} ELSE {"ERROR"})}

\* The nearest rank of a percentile.
Percentile(counted, scores, percent) ==
    LET rank == Max({1, (percent * Cardinality(counted) + 99) \div 100}) IN
    CHOOSE q \in {scores[i] : i \in counted} :
        /\ Cardinality({i \in counted : scores[i] <= q}) >= rank
        /\ Cardinality({i \in counted : scores[i] < q}) < rank

AggregateMetric(m, scores) ==
    LET counted == Denominator(m, scores)
        value == [i \in counted |-> IF scores[i].score = NoScore THEN 0 ELSE scores[i].score]
        passes == {i \in counted : scores[i].status = "PASS"}
    IN IF counted = {} THEN NoValue
       ELSE IF m.method = "pass_rate" THEN <<Cardinality(passes), Cardinality(counted)>>
       ELSE IF m.method = "mean" THEN <<SumFunction(value), Full * Cardinality(counted)>>
       ELSE IF m.method = "sum" THEN <<SumFunction(value), Full>>
       ELSE IF m.method = "min" THEN <<Min({value[i] : i \in counted}), Full>>
       ELSE <<Percentile(counted, value, IF m.method = "p50" THEN 50 ELSE 95), Full>>

\* Bounds of a gate are in halves, -1 for none.
EvaluateGate(m, value) ==
    /\ value # NoValue
    /\ m.gate[1] >= 0 => 2 * value[1] >= m.gate[1] * value[2]
    /\ m.gate[2] >= 0 => 2 * value[1] <= m.gate[2] * value[2]

\* Provisional metrics and judges that are not calibrated never gate.
GateSafe(m) == ~m.provisional /\ (m.kind = "judge" => m.calibrated)

GateStatus(m, value) ==
    IF ~GateSafe(m) THEN "NOT_APPLICABLE"
    ELSE IF m.gate = NoGate \/ EvaluateGate(m, value) THEN "PASS" ELSE "FAIL"
=============================================================================
