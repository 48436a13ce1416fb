----------------------------- MODULE TraceRules ------------------------------
(***************************************************************************)
(* Trace rules over the events of one attempt (trace_rules.py). The events *)
(* reach the store one by one, in any order, while parents may still be    *)
(* missing; a rule is evaluated on the rows there are, in the order they   *)
(* are handed over. Errors are results of their own: on_error decides.     *)
(***************************************************************************)
EXTENDS Integers, Sequences, FiniteSets, SequencesExt

CONSTANTS
    Recorded,     \* sets of events an attempt may record, ids and keys unique
    Rules,        \* the rules considered, as trees
    MaxDepth      \* _MAX_DEPTH

\* The engine numbers the events of an attempt (engine.py:1106, 1183). A parent
\* is an event that came before, or the event itself (targets/local.py:186).
Numbered(S) ==
    /\ \A e, f \in S : e # f => e.ts # f.ts \/ e.seq # f.seq
    /\ \E rank \in [S -> 1..Cardinality(S)] :
          \A e, p \in S : p.id = e.parent => p = e \/ rank[p] < rank[e]

ASSUME TraceRulesAssumption ==
    /\ MaxDepth \in Nat
    /\ \A S \in Recorded :
          IsFiniteSet(S) /\ (\A e \in S : e.ts \in Int /\ e.seq \in Nat) /\ Numbered(S)

VARIABLES
    rule,         \* the rule of the metric
    unseen,       \* events of the attempt that are not in the store yet
    trace         \* the events handed to evaluate_rule, in this order

traceVars == <<rule, unseen, trace>>

\* An event has id, type, source, tool, ts, seq, parent and flag, which stands
\* for what a where predicate may read of it. A criterion holds "any" for a key
\* that is absent; where = "bad" does not compile.
NoEvent == "none"
NoWindow == -1
RootAnchor == [id |-> NoEvent]

-----------------------------------------------------------------------------
(***************************************************************************)
(* What the specification of a metric accepts: of an implication only the  *)
(* antecedent is looked at, rules[1].                                      *)
(***************************************************************************)
AnchoredOps == {"exists_before", "exists_after", "immediately_precedes"}

ValidAt(valid, node, depth, root) ==
    /\ depth <= MaxDepth
    /\ node.op \in {"and", "or"} =>
         /\ node.rules # <<>>
         /\ \A i \in DOMAIN node.rules : valid[node.rules[i], depth + 1, FALSE]
    /\ node.op \in {"not", "implies"} => valid[node.rules[1], depth + 1, FALSE]
    /\ node.op = "count" => root
    /\ node.op = "for_all" => valid[node.assert, depth + 1, FALSE]

Depths == 0..(MaxDepth + 1)

Children(node) ==
    IF node.op \in {"and", "or", "not", "implies"} THEN ToSet(node.rules)
    ELSE IF node.op = "for_all" THEN {node.assert} ELSE {}

\* The nodes a rule is built of, as far down as they are looked at.
NodesOf(r) ==
    LET below[d \in Depths] ==
            IF d = 0 THEN {r} ELSE UNION {Children(n) : n \in below[d - 1]}
    IN UNION {below[d] : d \in Depths}

ValidRule(r) ==
    LET valid[place \in NodesOf(r) \X Depths \X BOOLEAN] ==
            ValidAt(valid, place[1], place[2], place[3])
    IN valid[<<r, 0, TRUE>>]

ASSUME RulesAreValid == \A r \in Rules : ValidRule(r)

-----------------------------------------------------------------------------
(***************************************************************************)
(* The ordering contract                                                   *)
(***************************************************************************)
KeyBefore(e, f) == e.ts < f.ts \/ (e.ts = f.ts /\ e.seq < f.seq)

\* e is on the chain of parents of f: in every set that holds the parent of f
\* and the parent of whatever it holds.
IsAncestor(events, e, f) ==
    \A above \in SUBSET events :
        (\A p \in events : (\E x \in {f} \cup above : p.id = x.parent) => p \in above) => e \in above

\* Mutant of Precedes: descendants are compared by their keys.
PrecedesOrBefore(events, e, f) == IsAncestor(events, e, f) \/ KeyBefore(e, f)

Precedes(events, e, f) ==
    \/ IsAncestor(events, e, f)
    \/ ~IsAncestor(events, f, e) /\ KeyBefore(e, f)
Follows(events, e, f) ==
    \/ IsAncestor(events, f, e)
    \/ ~IsAncestor(events, e, f) /\ KeyBefore(f, e)

-----------------------------------------------------------------------------
(***************************************************************************)
(* The events a criterion matches                                          *)
(***************************************************************************)
Distance(a, b) == IF a > b THEN a - b ELSE b - a

\* The anchor of a window is the attempt's start when there is no event.
AnchorTime(events, anchor) ==
    IF anchor # RootAnchor THEN anchor.ts ELSE Min({e.ts : e \in events})

Chosen(m, e) ==
    /\ e.type = m.event
    /\ IF m.source = "any" THEN e.source \in {"proxy", "adapter"} ELSE e.source = m.source
    /\ m.tool \in {"any", e.tool}
    /\ m.where \in {"any", e.flag}

Within(events, e, anchor, window) ==
    window = NoWindow \/ Distance(e.ts, AnchorTime(events, anchor)) <= window

\* The events of S in the order of their keys.
InOrder(S) ==
    [i \in 1..Cardinality(S) |->
        CHOOSE e \in S : Cardinality({f \in S : KeyBefore(f, e)}) = i - 1]

\* Mutant of Matches: in the order of arrival.
MatchesAsArrived(m, tr, anchor, window) ==
    SelectSeq(tr, LAMBDA e : Chosen(m, e) /\ Within(ToSet(tr), e, anchor, window))

Matches(m, tr, anchor, window) ==
    InOrder({e \in ToSet(tr) : Chosen(m, e) /\ Within(ToSet(tr), e, anchor, window)})

\* A where is compiled only when an event gets as far as it.
WhereFails(m, events) ==
    m.where = "bad" /\ \E e \in events : Chosen([m EXCEPT !.where = "any"], e)

ImmediatePredecessors(candidates, events, anchor) ==
    LET before == {e \in events : e.id # anchor.id /\ ~IsAncestor(events, anchor, e)
                                  /\ KeyBefore(e, anchor)}
        is(e) == IF anchor.parent # NoEvent THEN e.id = anchor.parent
                 ELSE e \in before /\ \A f \in before : ~KeyBefore(e, f)
    IN SelectSeq(candidates, is)

-----------------------------------------------------------------------------
(***************************************************************************)
(* Evaluation: a RuleResult, or Raised                                     *)
(***************************************************************************)
Raised == [result |-> "error", matched |-> <<>>, failing |-> <<>>, value |-> "none"]
RuleResult(holds, matched, failing) ==
    [result |-> IF holds THEN "true" ELSE "false", matched |-> matched,
     failing |-> failing, value |-> "none"]
Holds(r) == r.result = "true"

Ids(events) == [i \in DOMAIN events |-> events[i].id]
Dedupe(ids) ==
    FoldLeft(LAMBDA seen, i : IF Contains(seen, i) THEN seen ELSE Append(seen, i), <<>>, ids)

AllMatched(rs) == FlattenSeq([i \in DOMAIN rs |-> rs[i].matched])
FailureEvidence(rs) == FlattenSeq([i \in DOMAIN rs |-> rs[i].matched \o rs[i].failing])

\* eval is _eval_node, of a node, an anchor and a depth.
EvalChildren(eval, children, anchor, depth) ==
    [i \in DOMAIN children |-> eval[children[i], anchor, depth + 1]]

EvalAndOr(node, rs) ==
    LET holds == IF node.op = "and" THEN \A i \in DOMAIN rs : Holds(rs[i])
                                    ELSE \E i \in DOMAIN rs : Holds(rs[i])
    IN RuleResult(holds, Dedupe(AllMatched(rs)),
           IF holds THEN <<>> ELSE Dedupe(FailureEvidence(SelectSeq(rs, LAMBDA r : ~Holds(r)))))

\* The failing events are those of a child that did not hold.
EvalNot(r) ==
    RuleResult(~Holds(r), r.matched, IF Holds(r) THEN <<>> ELSE Dedupe(r.matched \o r.failing))

EvalImplies(rs) ==
    LET holds == Holds(rs[1]) => Holds(rs[2]) IN
    RuleResult(holds, Dedupe(AllMatched(rs)), IF holds THEN <<>> ELSE Dedupe(FailureEvidence(rs)))

EvalForAll(eval, node, candidates, depth) ==
    LET rs == [i \in DOMAIN candidates |-> eval[node.assert, candidates[i], depth + 1]]
        failed == SelectSeq(rs, LAMBDA r : ~Holds(r))
    IN IF \E i \in DOMAIN rs : rs[i] = Raised THEN Raised
       ELSE RuleResult(failed = <<>>, Ids(candidates), Dedupe(FailureEvidence(failed)))

EvalAnchored(node, candidates, events, anchor) ==
    LET satisfying ==
            CASE node.op = "exists_before" ->
                   SelectSeq(candidates, LAMBDA e : Precedes(events, e, anchor))
              [] node.op = "exists_after" ->
                   SelectSeq(candidates, LAMBDA e : Follows(events, e, anchor))
              [] OTHER -> ImmediatePredecessors(candidates, events, anchor)
    IN RuleResult(satisfying # <<>>, Ids(satisfying),
                  IF satisfying # <<>> THEN <<>> ELSE Ids(candidates))

EvalMatchBearing(node, candidates) ==
    CASE node.op = "count" ->
           [RuleResult(TRUE, Ids(candidates), <<>>) EXCEPT !.value = Len(candidates)]
      [] node.op = "never" ->
           RuleResult(candidates = <<>>, Ids(candidates), Ids(candidates))
      [] OTHER -> RuleResult(candidates # <<>>, Ids(candidates), <<>>)

EvalJoined(eval, node, anchor, depth) ==
    LET rs == EvalChildren(eval, node.rules, anchor, depth) IN
    IF \E i \in DOMAIN rs : rs[i] = Raised THEN Raised
    ELSE CASE node.op = "not" -> EvalNot(rs[1])
           [] node.op = "implies" -> EvalImplies(rs)
           [] OTHER -> EvalAndOr(node, rs)

EvalMatching(eval, node, candidates, events, anchor, depth) ==
    CASE node.op = "for_all" -> EvalForAll(eval, node, candidates, depth)
      [] node.op \in AnchoredOps -> EvalAnchored(node, candidates, events, anchor)
      [] OTHER -> EvalMatchBearing(node, candidates)

EvalNode(eval, node, tr, anchor, depth) ==
    IF depth > MaxDepth THEN Raised
    ELSE IF node.op \in {"and", "or", "not", "implies"} THEN EvalJoined(eval, node, anchor, depth)
    ELSE IF (node.op \in AnchoredOps /\ anchor = RootAnchor) \/ WhereFails(node.match, ToSet(tr))
         THEN Raised
    ELSE EvalMatching(eval, node, Matches(node.match, tr, anchor, node.window), ToSet(tr),
                      anchor, depth)

EvaluateRule(r, tr) ==
    LET eval[place \in NodesOf(r) \X (ToSet(tr) \cup {RootAnchor}) \X Depths] ==
            EvalNode(eval, place[1], tr, place[2], place[3])
    IN eval[<<r, RootAnchor, 0>>]

-----------------------------------------------------------------------------
TraceInit ==
    /\ rule \in Rules
    /\ unseen \in Recorded
    /\ trace = <<>>

\* An event is stored; get_trace_events may hand it over at any place.
StoreEvent(e, i) ==
    /\ unseen' = unseen \ {e}
    /\ trace' = InsertAt(trace, i, e)
    /\ UNCHANGED rule

TraceNext == \E e \in unseen, i \in 1..(Len(trace) + 1) : StoreEvent(e, i)

TraceSpec == TraceInit /\ [][TraceNext]_traceVars

-----------------------------------------------------------------------------
\* "A deterministic total order that makes every operator total and
\* reproducible": a rule's verdict, evidence and count depend on the events an
\* attempt recorded and never on the order they come in (trace_rules.py:215).
ArrivalOrderIrrelevant ==
    EvaluateRule(rule, trace) = EvaluateRule(rule, InOrder(ToSet(trace)))

\* Of two events exactly one precedes the other, which follows it, so that
\* exists_before and exists_after say the same from either end, even while the
\* chain between them has gaps (trace_rules.py:145-166).
OrderIsDecided ==
    LET events == ToSet(trace) IN
    \A e, f \in events : e # f =>
        /\ Precedes(events, e, f) <=> ~Precedes(events, f, e)
        /\ Precedes(events, e, f) <=> Follows(events, f, e)
=============================================================================
