----------------------------- MODULE ScoredRuns ------------------------------
(***************************************************************************)
(* One metric over a run: attempts are scored as they complete, scores of  *)
(* first attempts land in the engine's memory, a crash loses what has      *)
(* landed, and the run that is resumed scores the cases that had finished  *)
(* from their stored traces before it aggregates (engine.py).              *)
(***************************************************************************)
EXTENDS Scoring

CONSTANTS
    CaseCount,         \* the cases of the specification are 1..CaseCount
    Metrics,       \* the metrics considered
    Contents,      \* the JSON values that observations are made of
    Observed(_),   \* what attempts may leave for a metric
    MaxRetries,      \* retry_max of the run
    MaxOutages     \* how often the run is resumed

\* What is left of an attempt without events or output.
NoEvidence == [status |-> "no_trace", traced |-> FALSE, seen |-> <<>>, output |-> NoOutput,
               verdict |-> Failure]

\* Numbers are numbers, and what a value is made of are values.
WellFormed(x) ==
    /\ x.type = "number" => x.v \in Int
    /\ x.type = "list" => x.items \in Seq(Contents)
    /\ x.type = "dict" => x.entries \in Seq(STRING \X Contents)

SelectorTokens == {<<"*">>} \cup ({"at"} \X Nat) \cup ({"key"} \X STRING)

Observations ==
    [status : {"completed", "no_trace"}, traced : BOOLEAN, seen : Seq(Contents),
     output : Contents \cup {NoOutput}, verdict : Contents \cup {Failure}]

ASSUME ScoredRunsAssumption ==
    /\ {CaseCount, MaxRetries, MaxOutages} \subseteq Nat
    /\ \A x \in Contents : WellFormed(x)
    /\ \A m \in Metrics :
         /\ ValidMetric(m) /\ m.gate \in Int \X Int /\ {m.lo, m.hi} \subseteq Int
         /\ IsFiniteSet(m.relevant) /\ m.input \in Contents /\ m.selector \in Seq(SelectorTokens)
         /\ Observed(m) \subseteq Observations

VARIABLES
    measure,        \* the metric
    phase,         \* "running" | "down" | "complete"
    state,         \* status of each case
    tries,         \* stored attempts of each case, in order
    landed,        \* for each case that this engine executed, the scores that
                   \* landed, by the place of their attempt among its tries
    outages,       \* how often the run was resumed
    final          \* the stored aggregate, and the gate

scoredVars == <<measure, phase, state, tries, landed, outages, final>>

Case == 1..CaseCount
Lost == [status |-> "lost"]         \* errored, timed out or orphaned
Try(o, number) == [seen |-> o, number |-> number]
Nothing == [value |-> NoValue, gate |-> "none"]

ScoredInit ==
    /\ measure \in Metrics
    /\ phase = "running"
    /\ state = [c \in Case |-> "queued"]
    /\ tries = [c \in Case |-> <<>>]
    /\ landed = <<>>
    /\ outages = 0
    /\ final = Nothing

-----------------------------------------------------------------------------
Engaged == {c \in Case : state[c] = "running"}

FirstAttempt(c, o) ==
    /\ phase = "running" /\ Engaged = {}
    /\ state[c] = "queued" /\ \A d \in 1..(c - 1) : state[d] # "queued"
    /\ tries' = [tries EXCEPT ![c] = Append(@, Try(o, 0))]
    /\ LET s == IF o = Lost THEN Erred ELSE ScoreLive(measure, o) IN
       /\ phase' = IF s = Uncaught THEN "down" ELSE "running"
       /\ state' = [state EXCEPT ![c] = "running"]
    /\ UNCHANGED <<measure, landed, outages, final>>

\* Only a first attempt that failed is tried again, until a try passes.
RetryDue(c) ==
    LET last == tries[c][Len(tries[c])] IN
    /\ last.number < MaxRetries
    /\ \E i \in DOMAIN tries[c] :
         /\ i = Len(tries[c]) - last.number
         /\ tries[c][i].seen # Lost
         /\ ScoreLive(measure, tries[c][i].seen).status = "FAIL"
    /\ last.number > 0 /\ last.seen # Lost => ScoreLive(measure, last.seen).status # "PASS"

Retry(c, o) ==
    /\ phase = "running" /\ state[c] = "running" /\ RetryDue(c)
    /\ tries' = [tries EXCEPT ![c] = Append(@, Try(o, tries[c][Len(tries[c])].number + 1))]
    /\ phase' = IF o # Lost /\ ScoreLive(measure, o) = Uncaught THEN "down" ELSE "running"
    /\ UNCHANGED <<measure, state, landed, outages, final>>

\* The places of first attempts.
Firsts(attempts) == {i \in DOMAIN attempts : attempts[i].number = 0}

\* The first attempt of a case that this engine made: the last one.
FirstOf(attempts) == Max(Firsts(attempts))

\* Mutant of Contribution: a case contributes its last try.
LastContribution(attempts) == Len(attempts)

\* The attempt of an executed case that contributes its score.
Contribution(attempts) == FirstOf(attempts)

EndCase(c) ==
    /\ phase = "running" /\ state[c] = "running" /\ ~RetryDue(c)
    /\ state' = [state EXCEPT ![c] = IF tries[c][FirstOf(tries[c])].seen = Lost THEN "failed" ELSE "completed"]
    /\ LET i == Contribution(tries[c])
           o == tries[c][i].seen
       IN landed' = WithEntry(landed, c, IF o = Lost THEN <<>>
                                         ELSE [at \in {i} |-> ScoreLive(measure, o)])
    /\ UNCHANGED <<measure, phase, tries, outages, final>>

EngineDies ==
    /\ phase = "running" /\ outages < MaxOutages
    /\ phase' = "down"
    /\ UNCHANGED <<measure, state, tries, landed, outages, final>>

\* The case that was running and the cases that failed are executed again.
ResumeRun ==
    /\ phase = "down" /\ outages < MaxOutages
    /\ phase' = "running" /\ outages' = outages + 1
    /\ landed' = <<>>
    /\ state' = [c \in Case |-> IF state[c] = "completed" THEN "completed" ELSE "queued"]
    /\ UNCHANGED <<measure, tries, final>>

-----------------------------------------------------------------------------
FromTrace(try) == ScoreFromTrace(measure, IF try.seen = Lost THEN NoEvidence ELSE try.seen)

\* Mutant of FromTraces: every attempt is scored again.
FromAllTraces(attempts) == [i \in DOMAIN attempts |-> FromTrace(attempts[i])]

\* Every first attempt of a case, whatever became of it.
FromTraces(attempts) == [i \in Firsts(attempts) |-> FromTrace(attempts[i])]

\* The scores of all cases, by case and place.
Together(scores) ==
    [at \in UNION {{c} \X DOMAIN scores[c] : c \in Case} |-> scores[at[1]][at[2]]]

AllScores ==
    Together([c \in Case |-> IF c \in DOMAIN landed THEN landed[c] ELSE FromTraces(tries[c])])

Raises(scores) == \E at \in DOMAIN scores : scores[at] = Uncaught

Verdict(scores) ==
    LET value == AggregateMetric(measure, scores) IN [value |-> value, gate |-> GateStatus(measure, value)]

\* Scoring a stored trace again may raise as it did when the attempt completed.
Finalize ==
    /\ phase = "running" /\ \A c \in Case : state[c] \in {"completed", "failed"}
    /\ phase' = IF Raises(AllScores) THEN "down" ELSE "complete"
    /\ final' = IF Raises(AllScores) THEN final ELSE Verdict(AllScores)
    /\ UNCHANGED <<measure, state, tries, landed, outages>>

ScoredNext ==
    \/ \E c \in Case : \E o \in Observed(measure) \cup {Lost} : FirstAttempt(c, o) \/ Retry(c, o)
    \/ \E c \in Case : EndCase(c)
    \/ EngineDies \/ ResumeRun \/ Finalize

ScoredSpec == ScoredInit /\ [][ScoredNext]_scoredVars

-----------------------------------------------------------------------------
\* The scores the first attempts of a case had when they completed.
Live(attempts) ==
    [i \in {i \in Firsts(attempts) :
               /\ attempts[i].seen # Lost
               /\ ScoreLive(measure, attempts[i].seen) # Uncaught} |->
        ScoreLive(measure, attempts[i].seen)]

\* No case of the run lost its first attempt or was executed twice.
ExecutedOnce ==
    \A c \in Case : \E i \in Firsts(tries[c]) :
        Firsts(tries[c]) = {i} /\ tries[c][i].seen # Lost

\* Nor is the output of an attempt, or what a judge made of it, asked of a trace.
Undisturbed ==
    /\ measure.target = "output" => measure.kind = "custom"
    /\ measure.kind = "judge" => Case \subseteq DOMAIN landed
    /\ ExecutedOnce

\* A run that was interrupted between cases has the aggregate and the gate of
\* the scores its attempts had when they completed. Only an output target, a
\* judge, which has no context to judge a stored attempt by, a first attempt
\* that was lost and a case that was executed twice change it
\* (engine.py:1330-1417, 1189-1193).
ResumeKeepsVerdict ==
    phase = "complete" /\ Undisturbed =>
        final = Verdict(Together([c \in Case |-> Live(tries[c])]))

\* What a judge made of the cases that had finished counts in a resumed run, which
\* scores them again from their stored traces (the docstrings of _finalize and
\* _case_first_attempt_scores_from_trace). The code violates it (README.md, 4).
JudgmentsOutliveResume ==
    phase = "complete" /\ measure.kind = "judge" /\ measure.target # "output" /\ ExecutedOnce =>
        final = Verdict(Together([c \in Case |-> Live(tries[c])]))

Earns(s) == IF measure.method = "pass_rate" THEN s.status = "PASS" ELSE s.score > 0

\* "A passing retry can never re-enter the pass rate": a gate with a lower bound
\* passes only if the first attempt of some case earned something, which a lost
\* one does by on_missing alone (evaluators.py:411-526, engine.py:745-770).
GateNeedsEvidence ==
    phase = "complete" /\ final.gate = "PASS" /\ measure.gate[1] > 0 =>
        \E c \in Case : \E i \in Firsts(tries[c]) :
            \/ Earns(FromTrace(tries[c][i]))
            \/ tries[c][i].seen # Lost /\ Earns(ScoreLive(measure, tries[c][i].seen))
=============================================================================
