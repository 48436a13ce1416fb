----------------------------- MODULE Calibration ------------------------------
(***************************************************************************)
(* The calibration of one judge binding (calibration.py, judge.py). Every  *)
(* call of the service is a series of reads and writes of its own, and the *)
(* generation is read anew before each of them.                            *)
(***************************************************************************)
EXTENDS Integers, Sequences, FiniteSets, FiniteSetsExt, SequencesExt, TLC

CONSTANTS
    LabelIds,      \* the labels people give, by their label_id
    Verdicts,      \* what a human or the judge may say
    Resets,        \* calls of reset
    Readers,       \* calls of get by themselves
    MinLabels,     \* MIN_LABELS
    MaxLapses      \* processes that die between two steps

ASSUME CalibrationAssumption ==
    {MinLabels, MaxLapses} \subseteq Nat /\ IsFiniteSet(Resets)

VARIABLES
    record,        \* the stored record, or NoRecord
    labels,        \* stored labels of each generation, in their order
    asking,        \* where each call is
    lapses,
    resets,        \* history: how many resets were stored
    overtaken      \* history: a reset came between another call's reading and writing

calibrationVars == <<record, labels, asking, lapses, resets, overtaken>>

Generation == 0..Cardinality(Resets)
Asker == LabelIds \cup Resets \cup Readers
NoRecord == [state |-> "none", generation |-> 0, count |-> 0]
Uncalibrated(g) == [state |-> "UNCALIBRATED", generation |-> g, count |-> 0]
At(step) == [step |-> step, pair |-> <<>>, generation |-> 0, counted |-> <<>>]

CalibrationInit ==
    /\ record = NoRecord
    /\ labels = [g \in Generation |-> <<>>]
    /\ asking = [a \in Asker |-> At("ask")]
    /\ lapses = 0
    /\ resets = 0 /\ overtaken = FALSE

-----------------------------------------------------------------------------
(***************************************************************************)
(* Cohen's kappa of pairs <<human, judge>>, as <<numerator, denominator>>. *)
(***************************************************************************)
Times(pairs, side, v) == Cardinality({i \in DOMAIN pairs : pairs[i][side] = v})

CohenKappa(pairs) ==
    LET n == Len(pairs)
        agreed == Cardinality({i \in DOMAIN pairs : pairs[i][1] = pairs[i][2]})
        expected == MapThenSumSet(LAMBDA v : Times(pairs, 1, v) * Times(pairs, 2, v), Verdicts)
    IN IF expected = n * n THEN <<IF agreed = n THEN 1 ELSE 0, 1>>
       ELSE <<agreed * n - expected, n * n - expected>>

AtLeast(kappa, percent) == 100 * kappa[1] >= percent * kappa[2]
Sufficient(pairs) == Len(pairs) >= MinLabels /\ pairs # <<>> /\ AtLeast(CohenKappa(pairs), 60)

Derive(pairs) ==
    IF pairs = <<>> THEN "UNCALIBRATED"
    ELSE IF ~AtLeast(CohenKappa(pairs), 50) THEN "CALIBRATING"
    ELSE IF Sufficient(pairs) THEN "CALIBRATED"
    ELSE "CALIBRATING"

-----------------------------------------------------------------------------
Goes(a, step) == asking' = [asking EXCEPT ![a].step = step]
AfterGet(a) == IF a \in LabelIds THEN "number" ELSE IF a \in Resets THEN "read" ELSE "done"

\* A recording whose labels are counted but not stored yet.
Counting == \E a \in LabelIds : asking[a].step \in {"list", "again", "save"}

\* read is the generation that the call had read.
StoreRecord(r, read) ==
    /\ record' = r
    /\ overtaken' = (overtaken \/ read # record.generation
                       \/ (Counting /\ r.generation # record.generation))
    /\ UNCHANGED <<labels, lapses>>

\* get: a record that is not there is created, over one stored meanwhile.
Get(a, pair) ==
    /\ asking[a].step = "ask"
    /\ a \in LabelIds /\ asking[a].pair # <<>> => pair = asking[a].pair     \* a retry
    /\ asking' = [asking EXCEPT ![a].pair = pair,
                      ![a].step = IF record = NoRecord THEN "create" ELSE AfterGet(a)]
    /\ UNCHANGED <<record, labels, lapses, resets, overtaken>>

CreateRecord(a) ==
    /\ asking[a].step = "create"
    /\ StoreRecord(Uncalibrated(0), NoRecord.generation) /\ Goes(a, AfterGet(a))
    /\ UNCHANGED resets

ReadGeneration(a) ==
    /\ asking[a].step \in {"number", "choose", "again", "read"}
    /\ asking' = [asking EXCEPT ![a].generation = record.generation,
           ![a].step = CASE @ = "number" -> "append" [] @ = "choose" -> "list"
                         [] @ = "again" -> "save" [] OTHER -> "reset"]
    /\ UNCHANGED <<record, labels, lapses, resets, overtaken>>

\* The same label_id is kept once in a generation. since is history.
AppendLabel(a) ==
    /\ asking[a].step = "append"
    /\ LET g == asking[a].generation
           kept == {labels[g][i].id : i \in DOMAIN labels[g]}
       IN labels' = [labels EXCEPT ![g] =
              IF a \in kept THEN @ ELSE Append(@, [id |-> a, pair |-> asking[a].pair, since |-> resets])]
    /\ Goes(a, "choose")
    /\ UNCHANGED <<record, lapses, resets, overtaken>>

Pairs(g) == [i \in DOMAIN labels[g] |-> labels[g][i].pair]

\* Mutant of Listed: labels of every generation.
ListedOfAll(g) == FlattenSeq([h \in 1..Cardinality(Generation) |-> Pairs(h - 1)])

Listed(g) == Pairs(g)

ListLabels(a) ==
    /\ asking[a].step = "list"
    /\ asking' = [asking EXCEPT ![a].counted = Listed(asking[a].generation), ![a].step = "again"]
    /\ UNCHANGED <<record, labels, lapses, resets, overtaken>>

SaveReadiness(a) ==
    /\ asking[a].step = "save"
    /\ StoreRecord([state |-> Derive(asking[a].counted), generation |-> asking[a].generation,
                    count |-> Len(asking[a].counted)], asking[a].generation)
    /\ Goes(a, "done")
    /\ UNCHANGED resets

SaveReset(a) ==
    /\ asking[a].step = "reset" /\ asking[a].generation + 1 \in Generation
    /\ StoreRecord(Uncalibrated(asking[a].generation + 1), asking[a].generation) /\ Goes(a, "done")
    /\ resets' = resets + 1

\* A process dies; its client may call again with the same label.
Lapse(a) ==
    /\ lapses < MaxLapses /\ lapses' = lapses + 1
    /\ asking[a].step \notin {"ask", "done"}
    /\ asking' = [asking EXCEPT ![a] = [At("ask") EXCEPT !.pair = asking[a].pair]]
    /\ UNCHANGED <<record, labels, resets, overtaken>>

CalibrationNext ==
    \E a \in Asker :
       \/ \E pair \in (IF a \in LabelIds THEN Verdicts \X Verdicts ELSE {<<>>}) : Get(a, pair)
       \/ CreateRecord(a) \/ ReadGeneration(a)
       \/ AppendLabel(a) \/ ListLabels(a) \/ SaveReadiness(a)
       \/ SaveReset(a) \/ Lapse(a)

CalibrationSpec == CalibrationInit /\ [][CalibrationNext]_calibrationVars

-----------------------------------------------------------------------------
\* The first n labels of generation g are enough and agree often enough.
Earned(g, n) == Sufficient(SubSeq(Pairs(g), 1, n))
SinceReset(g, n) == \A i \in 1..n : labels[g][i].since = resets

\* A judge gates only when enough labels of one generation agree with it, whatever
\* calls overlap; and they are of the record's own generation, all given since the
\* last reset, unless a reset came between the reading and the writing of another
\* call: of a recording, of a get that creates the record once more in generation
\* 0, or of a second reset (calibration.py:69-77, 110-154, judge.py:243).
JudgeEarnsItsCalibration ==
    record.state = "CALIBRATED" =>
        /\ \E g \in Generation : \E n \in 0..Len(labels[g]) : Earned(g, n)
        /\ ~overtaken => \E n \in 0..Len(labels[record.generation]) :
              Earned(record.generation, n) /\ SinceReset(record.generation, n)

\* A reset leaves the judge uncalibrated and discards its labels (the docstrings of
\* JudgeReadiness.reset and reset_binding). The writes of calls that were under way
\* violate it (README.md, 4).
ResetDiscardsLabels ==
    record.state = "CALIBRATED" =>
        \E n \in 0..Len(labels[record.generation]) :
            Earned(record.generation, n) /\ SinceReset(record.generation, n)
=============================================================================
