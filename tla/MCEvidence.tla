------------------------------ MODULE MCEvidence ------------------------------
(***************************************************************************)
(* The engine with repeats, and what becomes of the evidence its attempts  *)
(* leave: predicates, trace rules, scores, re-scoring and the calibration  *)
(* of judges. They share no state: the initial state picks the component   *)
(* in focus, and the others rest in an initial state.                      *)
(***************************************************************************)
EXTENDS MCRunEngine, Predicates, TraceRules, ScoredRuns, Rescoring, Calibration

VARIABLE focus   \* the component that takes steps

evidenceVars == <<focus, engineVars, predicateVars, traceVars, scoredVars, rescoringVars, calibrationVars>>

InputPath == <<"path", <<"payload", "x">>>>
Cost == <<"path", <<"cost">>>>
Literals == {<<"lit", l>> : l \in {Null, Yes, Of("number", 1), Of("iso", 1)}}
Checks == {<<"compare", op, InputPath, l>> : op \in Comparisons, l \in Literals \cup {Cost}}
FewChecks == {InputPath, <<"compare", "==", InputPath, <<"lit", Of("number",1)>>>>, <<"compare", "<", Cost, InputPath>>, <<"compare", "!=", <<"lit", Of("iso",1)>>, Cost>>}
Joins(S) == {<<"not", a>> : a \in S} \cup {<<k, a, b>> : k \in {"and", "or"}, a \in S, b \in S}
Once == Joins(FewChecks)
Twice == {<<"not", a>> : a \in Once} \cup {<<k, a, b>> : k \in {"and", "or"}, a \in Once, b \in FewChecks} \cup {<<k, b, a>> : k \in {"and", "or"}, a \in Once, b \in {InputPath}}
   \cup {<<"compare", "!=", a, <<"lit", Yes>>>> : a \in Once}
 \cup {<<"not", <<"not", a>>>> : a \in Once}
RawPath == <<"path", <<"raw_value">>>>
AtLeastOne == <<"compare", ">=", RawPath, <<"lit", Of("number", 1)>>>>
SomeConditions == {AtLeastOne, <<"not", AtLeastOne>>, <<"and", RawPath, AtLeastOne>>, <<"or", AtLeastOne, <<"not", RawPath>>>>,
    <<"and", <<"or", AtLeastOne, AtLeastOne>>, <<"not", <<"not", <<"not", AtLeastOne>>>>>>>>, <<"compare", "!=", RawPath, <<"lit", Yes>>>>}
MCWritten == Literals \cup Checks \cup Once \cup Twice \cup SomeConditions
MCReadings == {Null, Yes, Of("number", 1), Of("number", 2), Of("iso", 1), Of("string", 2), Of("time", 1)}

Event(id, type, source, ts, seq, parent, flag) ==
  [id |-> id, type |-> type, source |-> source, tool |-> "t", ts |-> ts, seq |-> seq, parent |-> parent, flag |-> flag]
MCRecorded == {
  \* a chain whose clock runs backwards, and a sibling between
  {Event("a", "call", "proxy", 3, 0, NoEvent, "yes"), Event("b", "result", "proxy", 1, 1, "a", "yes"),
   Event("c", "call", "adapter", 2, 2, NoEvent, "no"), Event("d", "result", "adapter", 2, 3, "b", "yes")},
  \* equal timestamps, an absent parent, a runner event
  {Event("a", "call", "proxy", 1, 0, NoEvent, "yes"), Event("b", "result", "adapter", 1, 1, "gone", "no"),
   Event("c", "result", "runner", 1, 2, "a", "yes"), Event("d", "call", "proxy", 2, 0, "c", "no")}}
Criterion(type, source, where) == [event |-> type, source |-> source, tool |-> "any", where |-> where]
Crits == {Criterion("call", "any", "any"), Criterion("result", "any", "any"), Criterion("result", "any", "yes"), Criterion("result", "runner", "any"), Criterion("call", "any", "bad")}
Leaf(op, m, w) == [op |-> op, match |-> m, window |-> w]
Leaves == {Leaf(op, m, w) : op \in {"exists", "never", "count"}, m \in Crits, w \in {NoWindow, 0, 1}}
Anchored == {Leaf(op, m, w) : op \in AnchoredOps, m \in Crits, w \in {NoWindow, 1}}
ForAlls == {[op |-> "for_all", match |-> m, window |-> w, assert |-> l] : m \in Crits, w \in {NoWindow, 1}, l \in Anchored}
FewRules == {Leaf("exists", Criterion("result", "any", "yes"), NoWindow), Leaf("never", Criterion("call", "any", "any"), 0),
   CHOOSE r \in ForAlls : r.window = NoWindow /\ r.assert.op = "exists_before" /\ r.match.event = "call"}
JoinedRules == {[op |-> op, rules |-> <<a, b>>] : op \in {"and", "or", "implies"}, a \in FewRules, b \in FewRules}
  \cup {[op |-> "not", rules |-> <<a>>] : a \in FewRules}
DeepRules == {[op |-> "for_all", match |-> Criterion("call", "any", "any"), window |-> NoWindow, assert |-> [op |-> "not", rules |-> <<l>>]] : l \in Anchored}
   \cup {[op |-> "and", rules |-> <<l, l>>] : l \in Anchored}
   \cup {[op |-> "not", rules |-> <<[op |-> "not", rules |-> <<[op |-> "not", rules |-> <<j>>]>>]>>] : j \in JoinedRules}
Deepest == [op |-> "implies", rules |-> <<Leaf("exists", Criterion("call", "any", "any"), NoWindow),
   [op |-> "not", rules |-> <<[op |-> "not", rules |-> <<[op |-> "not", rules |-> <<Leaf("count", Criterion("call", "any", "any"), 1)>>]>>]>>]>>]
MCRules == {r \in Leaves \cup ForAlls \cup JoinedRules \cup DeepRules \cup {Deepest} : ValidRule(r)}

RawIsOne == <<"compare", ">=", RawValue, <<"lit", Number(1)>>>>
Numeric == [kind |-> "scalar", target |-> "event", onMissing |-> "fail", occurrence |-> "all", evaluator |-> "numeric",
  selector |-> <<<<"key", "x">>>>, expected |-> Number(1), input |-> DictOf(<<<<"x", Number(1)>>>>), scoring |-> "numeric",
  lo |-> 0, hi |-> 2, condition |-> <<>>, categories |-> {Of("string", 1)}, onError |-> "fail", method |-> "pass_rate",
  gate |-> <<1, -1>>, provisional |-> FALSE, calibrated |-> TRUE, threshold |-> 1, relevant |-> {Of("string",1), Of("string",2)}, k |-> 1,
  evidence |-> (Of("string",1) :> TRUE)]
BinaryMetric == [Numeric EXCEPT !.scoring = "binary"]
OfValues == {[BinaryMetric EXCEPT !.evaluator = e] : e \in {"exact_match", "regex", "reference", "json_schema", "cel_predicate", "composite"}}
  \cup {[BinaryMetric EXCEPT !.condition = RawIsOne], [Numeric EXCEPT !.scoring = "categorical", !.hi = -1, !.occurrence = "first"], [Numeric EXCEPT !.lo=1, !.hi = 1, !.occurrence = "last"],
        [Numeric EXCEPT !.evaluator = "cel_predicate", !.occurrence = "index"]}
  \cup {[Numeric EXCEPT !.evaluator = e, !.selector = <<<<"*">>>>, !.occurrence = "first"] : e \in {"recall_at_k", "citation_correctness", "numeric"}}
Methods == {[Numeric EXCEPT !.method = a, !.onError = p[1], !.onMissing = p[2]] : a \in {"mean", "p50", "p95", "min", "sum"},
   p \in {<<"fail", "pass">>, <<"exclude", "skip">>}}
JudgeMetric == [Numeric EXCEPT !.kind = "judge", !.evaluator = "llm_judge"]
OfOtherKinds == {[JudgeMetric EXCEPT !.target = t, !.onMissing = "pass"] : t \in {"event", "output", "input", "trace"}}
   \cup {[JudgeMetric EXCEPT !.calibrated = FALSE], [JudgeMetric EXCEPT !.scoring = "categorical", !.hi = -1]}
   \cup {[Numeric EXCEPT !.kind = "custom", !.target = t] : t \in {"event", "output", "trace"}}
   \cup {[Numeric EXCEPT !.target = t] : t \in {"output", "input", "trace"}}
   \cup {[BinaryMetric EXCEPT !.kind = "trace_rule", !.evaluator = "trace_rule", !.onMissing = "pass"],
         [BinaryMetric EXCEPT !.kind = "trace_rule", !.evaluator = "count", !.condition = RawIsOne],
         [BinaryMetric EXCEPT !.condition = RawIsOne, !.gate = NoGate, !.provisional = TRUE]}
MCMetrics == OfValues \cup Methods \cup OfOtherKinds
Payload(v) == DictOf(<<<<"x", v>>>>)
Scalars == {Null, Yes, No} \cup {Of("string", n) : n \in 1..2} \cup {Number(n) : n \in 0..3}
TwoStrings == DictOf(<<<<"x", Of("string", 2)>>, <<"y", Of("string",1)>>>>)
MCContents == Scalars \cup {Payload(v) : v \in Scalars} \cup {DictOf(<<>>), TwoStrings}
Observation(seen, output, verdict) == [status |-> "completed", traced |-> TRUE, seen |-> seen, output |-> output, verdict |-> verdict]
Untraced(output) == [status |-> "no_trace", traced |-> FALSE, seen |-> <<>>, output |-> output, verdict |-> Failure]
HighAttempt == Observation(<<Payload(Number(2))>>, Payload(Number(2)), No)
LowAttempt == Observation(<<Payload(Number(0))>>, Payload(Number(0)), No)
MCObserved(m) ==
  IF m.evaluator = "trace_rule" THEN {Observation(<<>>, NoOutput, v) : v \in {Yes, No, Failure}}
  ELSE IF m.evaluator = "count" THEN {Observation(<<>>, NoOutput, Number(v)) : v \in {0, 2}}
  ELSE IF m.kind \in {"judge", "custom"} THEN {Observation(<<Payload(Number(1))>>, Payload(Number(2)), v) : v \in {Number(0), Number(3)}} \cup {Untraced(NoOutput)}
  ELSE IF m.selector = <<<<"*">>>> THEN {Observation(<<d>>, NoOutput, No) : d \in {DictOf(<<>>), TwoStrings}}
  ELSE IF m \in OfValues THEN {HighAttempt, Observation(<<DictOf(<<>>), Payload(Of("string", 1))>>, Payload(Null), No), Observation(<<>>, NoOutput, No)}
  ELSE IF m \in OfOtherKinds THEN {HighAttempt, LowAttempt, Observation(<<Payload(Number(0))>>, NoOutput, No)}
  ELSE {HighAttempt, Observation(<<DictOf(<<>>), Payload(Number(1))>>, NoOutput, No), Untraced(NoOutput)}

MCOriginal == Numeric
MCReplacements == {[Numeric EXCEPT !.target = "output", !.gate = <<2, -1>>]}
MCStored == <<HighAttempt, Observation(<<>>, Payload(Number(0)), No), Gone>>

-----------------------------------------------------------------------------
EvidenceInit ==
    /\ focus \in {"engine", "predicates", "rules", "scores", "rescoring", "calibration"}
    /\ focus = "predicates" \/ predicate = <<"lit", Yes>>
    /\ \/ focus = "rules"
       \/ rule = (CHOOSE r \in MCRules : TRUE) /\ unseen = (CHOOSE u \in MCRecorded : TRUE)
    /\ focus = "scores" \/ measure = [JudgeMetric EXCEPT !.calibrated = FALSE]
    /\ EngineInit
    /\ PredicatesInit
    /\ TraceInit
    /\ ScoredInit
    /\ RescoringInit
    /\ CalibrationInit

EvidenceNext ==
    /\ UNCHANGED focus
    /\ \/ focus = "engine" /\ EngineNext
          /\ UNCHANGED <<predicateVars, traceVars, scoredVars, rescoringVars, calibrationVars>>
       \/ focus = "predicates" /\ PredicatesNext
          /\ UNCHANGED <<engineVars, traceVars, scoredVars, rescoringVars, calibrationVars>>
       \/ focus = "rules" /\ TraceNext
          /\ UNCHANGED <<engineVars, predicateVars, scoredVars, rescoringVars, calibrationVars>>
       \/ focus = "scores" /\ ScoredNext
          /\ UNCHANGED <<engineVars, predicateVars, traceVars, rescoringVars, calibrationVars>>
       \/ focus = "rescoring" /\ RescoringNext
          /\ UNCHANGED <<engineVars, predicateVars, traceVars, scoredVars, calibrationVars>>
       \/ focus = "calibration" /\ CalibrationNext
          /\ UNCHANGED <<engineVars, predicateVars, traceVars, scoredVars, rescoringVars>>

EvidenceSpec == EvidenceInit /\ [][EvidenceNext]_evidenceVars
=============================================================================
