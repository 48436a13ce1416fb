------------------------------ MODULE Rescoring -------------------------------
(***************************************************************************)
(* Score revisions of one metric of a completed run: re-scorings from the  *)
(* stored evidence (rescore.py), which check, score, and store each case   *)
(* and the aggregate in transactions of their own, and overrides by people *)
(* beside the machine's scores (api.create_revision).                      *)
(***************************************************************************)
EXTENDS Scoring

CONSTANTS
    Stored,        \* what is stored of each case: its first attempt, or Gone
    Original,      \* the metric of the run
    Replacements,  \* replacement metrics
    Rescorers,     \* requests to re-score
    MaxRevision,   \* revisions asked for are at most this
    MaxOverrides   \* overrides kept, in the model

StoredCase == DOMAIN Stored

ASSUME RescoringAssumption ==
    /\ MaxRevision \in Nat \ {0} /\ MaxOverrides \in Nat
    /\ StoredCase # {}      \* a run has cases (engine.py:392)
    /\ \A m \in Replacements \cup {Original} : ValidMetric(m)

VARIABLES
    rows,          \* the machine's scores of each revision: case -> score
    totals,        \* the aggregate of each revision, with its gate
    rescoring,     \* what each request has left to do
    review,        \* an override that is being made
    overrides,     \* the stored overrides
    flagged        \* <<revision, case>>: rows marked overridden

rescoringVars == <<rows, totals, rescoring, review, overrides, flagged>>

Revision == 1..MaxRevision
Gone == [status |-> "gone"]          \* no first attempt of the case completed
NoTotal == [value |-> <<-1, 0>>, gate |-> "none"]
Resting == [revision |-> 0]
NoReview == [case |-> 0]
TotalOf(m, scores) ==
    LET value == AggregateMetric(m, scores) IN [value |-> value, gate |-> GateStatus(m, value)]

RescoringInit ==
    /\ LET kept == {c \in StoredCase : Stored[c] # Gone}
           scores == [c \in kept |-> ScoreLive(Original, Stored[c])]
       IN /\ rows = [v \in Revision |-> IF v = 1 THEN scores ELSE <<>>]
          /\ totals = [v \in Revision |-> IF v = 1 THEN TotalOf(Original, scores) ELSE NoTotal]
    /\ rescoring = [w \in Rescorers |-> Resting]
    /\ review = NoReview
    /\ overrides = <<>>
    /\ flagged = {}

-----------------------------------------------------------------------------
\* Mutant of Taken: a revision is taken by later ones only.
TakenLater(v) == \E u \in Revision : u > v /\ DOMAIN rows[u] # {}

Taken(v) == \E u \in Revision : u >= v /\ DOMAIN rows[u] # {}

\* Evidence that re-scoring needs, and scoring that ends.
Rescorable(m, c) ==
    /\ Stored[c] # Gone
    /\ m.target = "output" /\ m.kind # "custom" => Stored[c].output # NoOutput
    /\ ScoreAgain(m, Stored[c]) # Uncaught

Ended(v) == totals[v] # NoTotal

BeginRescore(w, m, v, requested) ==
    /\ rescoring[w] = Resting
    /\ v > 1 /\ ~Taken(v)
    /\ LET selected == IF requested = {} THEN StoredCase ELSE requested IN
       /\ \A c \in selected : Rescorable(m, c)
       /\ rescoring' = [rescoring EXCEPT ![w] =
            [revision |-> v, metric |-> m, left |-> selected,
             scores |-> [c \in selected |-> ScoreAgain(m, Stored[c])],
             late |-> \E u \in Revision : u >= v /\ Ended(u)]]      \* history
    /\ UNCHANGED <<rows, totals, review, overrides, flagged>>

StoreScore(w) ==
    LET r == rescoring[w] IN
    /\ r # Resting /\ r.left # {}
    /\ LET c == Min(r.left) IN
       /\ rows' = [rows EXCEPT ![r.revision] = WithEntry(@, c, r.scores[c])]
       /\ rescoring' = [rescoring EXCEPT ![w].left = @ \ {c}]
    /\ UNCHANGED <<totals, review, overrides, flagged>>

StoreTotal(w) ==
    LET r == rescoring[w] IN
    /\ r # Resting /\ r.left = {}
    /\ totals' = [totals EXCEPT ![r.revision] = TotalOf(r.metric, r.scores)]
    /\ rescoring' = [rescoring EXCEPT ![w] = Resting]
    /\ UNCHANGED <<rows, review, overrides, flagged>>

RescorerDies(w) ==
    /\ rescoring[w] # Resting
    /\ rescoring' = [rescoring EXCEPT ![w] = Resting]
    /\ UNCHANGED <<rows, totals, review, overrides, flagged>>

-----------------------------------------------------------------------------
RevisionsOf(c) == {v \in Revision : c \in DOMAIN rows[v]}

BeginOverride(c, v) ==
    /\ review = NoReview /\ RevisionsOf(c) # {}
    /\ Cardinality(DOMAIN overrides) < MaxOverrides
    /\ review' = [case |-> c, revision |-> v, snapshot |-> rows[Max(RevisionsOf(c))][c]]
    /\ UNCHANGED <<rows, totals, rescoring, overrides, flagged>>

\* The first override of a revision stays; a value marks every row of the case.
AppendOverride(valued) ==
    /\ review # NoReview
    /\ overrides' = overrides @@ (<<review.case, review.revision>> :> review.snapshot)
    /\ flagged' = flagged \cup (IF valued THEN RevisionsOf(review.case) \X {review.case} ELSE {})
    /\ review' = NoReview
    /\ UNCHANGED <<rows, totals, rescoring>>

RescoringNext ==
    \/ \E w \in Rescorers :
         \/ \E m \in Replacements, v \in Revision, cs \in SUBSET StoredCase : BeginRescore(w, m, v, cs)
         \/ StoreScore(w) \/ StoreTotal(w) \/ RescorerDies(w)
    \/ \E c \in StoredCase, v \in Revision : BeginOverride(c, v)
    \/ \E valued \in BOOLEAN : AppendOverride(valued)

RescoringSpec == RescoringInit /\ [][RescoringNext]_rescoringVars

-----------------------------------------------------------------------------
\* Once a revision has its aggregate, it and the ones before it change only by
\* re-scorings whose check preceded that: the run's own scores and a published
\* revision are never written over, by overrides neither (rescore.py:59-66,
\* api.py:1041-1046).
OldRevisionsStay ==
    [][\A v \in Revision :
         (\E u \in Revision : u >= v /\ Ended(u)) /\ <<rows[v], totals[v]>>' # <<rows[v], totals[v]>> =>
            \E w \in Rescorers : rescoring[w].revision = v /\ ~rescoring[w].late]_rescoringVars
=============================================================================
