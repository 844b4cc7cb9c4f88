---------------------------- MODULE ResearchMemory ----------------------------
(***************************************************************************)
(* PDEAgent/agent/memory.py: the state of a research run, the record of an *)
(* experiment, and the choice of the best one.  The metrics of an          *)
(* experiment are what a metrics.json held: by names the training that     *)
(* wrote it, score is its val_score, NoKey when the dictionary has none    *)
(* (the reference train.py writes best_score), Unordered when it cannot be *)
(* compared with a number (null, text, or a list in place of the           *)
(* dictionary).  best_metrics are the metrics of the best experiment and   *)
(* an experiment's id is its place, so neither is kept twice.              *)
(***************************************************************************)
EXTENDS Integers, Sequences

CONSTANTS
  Scores,       \* bound: the val_scores a training can have
  NoKey, Unordered,
  NoMetrics     \* no metrics.json, or an empty dictionary

ASSUME ScoreAssumption ==
  /\ Scores \subseteq Nat
  /\ NoKey \notin Scores /\ Unordered \notin Scores /\ NoKey # Unordered

\* A training is named by the life of the process that ran it and its iteration.
Trainings == Nat \X Nat

Metrics == [by : Trainings, score : Scores \union {NoKey, Unordered}]

ASSUME MetricsAssumption == NoMetrics \notin Metrics

Experiments == [metrics : Metrics \union {NoMetrics}, status : {"success", "failed"}]

Phases == {"literature", "diagnosis", "design", "experiment"}

Memories == [phase : Phases, iteration : Nat, experiments : Seq(Experiments),
             best : Nat, stop : BOOLEAN]

FreshMemory == [phase |-> "literature", iteration |-> 0, experiments |-> << >>,
                best |-> 0, stop |-> FALSE]

-----------------------------------------------------------------------------

\* metrics.get("val_score", default)
ScoreOf(metrics, default) ==
  IF metrics # NoMetrics /\ metrics.score \in Scores THEN metrics.score ELSE default

CannotCompare(e) == e.metrics # NoMetrics /\ e.metrics.score = Unordered

BestMetrics(m) == IF m.best = 0 THEN NoMetrics ELSE m.experiments[m.best].metrics

BestScore(m) == ScoreOf(BestMetrics(m), -1)

\* Faulty: a failed experiment, which counts as zero, can be the best.
BetterThough(m, e) == ~CannotCompare(e) /\ ScoreOf(e.metrics, 0) > BestScore(m)

Better(m, e) ==
  /\ ~CannotCompare(e)
  /\ ScoreOf(e.metrics, 0) > BestScore(m)
  /\ e.status = "success"

\* add_experiment: the record is appended before the comparison that may raise.
AddExperiment(m, e) ==
  [m EXCEPT !.experiments = Append(@, e),
            !.best = IF Better(m, e) THEN Len(m.experiments) + 1 ELSE @]

=============================================================================
