-------------------------- MODULE ResearchProperties --------------------------
(* What the research agent has to keep, whatever fails or is killed. *)
EXTENDS ResearchOrchestrator

Dirs == [checkpoint : BOOLEAN, metrics : Metrics \union {NoMetrics}, pred : BOOLEAN]

\* Every variable keeps its type (orchestrator.py, memory.py, phases.py).
TypeOK ==
  /\ pc \in {"down", "loop", "think", "tools", "hung", "experiment", "train", "infer",
             "analyse", "save", "collect", "pack"}
  /\ task \in Tasks /\ mem \in Memories
  /\ attempt \in 1..PhaseTries /\ rounds \in Nat /\ tries \in Nat
  /\ life \in Lives
  /\ saved \in [Tasks -> Memories \union {NoFile, Torn}]
  /\ legacy \in LegacyFiles
  /\ dir \in [Tasks -> [Iterations -> Dirs]]
  /\ logged \subseteq Tasks
  /\ out \in [Tasks -> [pred : BOOLEAN, time : BOOLEAN, log : BOOLEAN]]
  /\ archive \in {NoFile, Torn} \union SUBSET Tasks

\* The memories there are: the running process's and the files'.
AllMemories ==
  {mem} \union {saved[t] : t \in {u \in Tasks : saved[u] \notin {NoFile, Torn}}}

\* No two records of a memory hold the metrics of the same training.
CountedOnce(m) ==
  \A j, k \in DOMAIN m.experiments :
    LET a == m.experiments[j].metrics
        b == m.experiments[k].metrics
    IN  a # NoMetrics /\ b # NoMetrics /\ a.by = b.by => j = k

\* The best experiment is a success; no experiment has a better score.
BestIsBest(m) ==
  /\ m.best \in 0..Len(m.experiments)
  /\ m.best # 0 => m.experiments[m.best].status = "success"
  /\ \A k \in DOMAIN m.experiments : ScoreOf(m.experiments[k].metrics, -1) <= BestScore(m)

\* No training is counted twice, through failed attempts (orchestrator.py:95),
\* kills and restarts that find the files of an earlier life (phases.py:445).
TrainingCountsOnce == \A m \in AllMemories : CountedOnce(m)

\* The best experiment stays the best, although records without a score replace
\* each other and STOP makes a success of a failure (memory.py:77, phases.py:527).
BestScoreKept == \A m \in AllMemories : BestIsBest(m)

\* A run trains at most MaxIterations times and the further attempts of its
\* last round: failed attempts count too, in every life (phases.py:416).
IterationBudget ==
  \A m \in AllMemories : m.iteration < MaxIterations + PhaseTries

Extends(t, s) == Len(s) <= Len(t) /\ \A k \in DOMAIN s : t[k] = s[k]

\* A kill loses one round: what the running agent has trained and recorded is at
\* most one round ahead of what a restart would load (orchestrator.py:146).
LossIsOneRound ==
  pc # "down" =>
    /\ Loaded(task) # Torn
    /\ mem.iteration <= Loaded(task).iteration + PhaseTries
    /\ Extends(mem.experiments, Loaded(task).experiments)
    /\ Len(mem.experiments) - Len(Loaded(task).experiments)
         <= mem.iteration - Loaded(task).iteration

\* A saved history is only ever extended, by whichever life saves next
\* (orchestrator.py:34,146).
HistoryOnlyGrows ==
  [][\A t \in Tasks :
       saved[t] \notin {NoFile, Torn} /\ saved'[t] \notin {NoFile, Torn}
         => Extends(saved'[t].experiments, saved[t].experiments)]_vars

\* A stop that reached the file is final: no later life trains for that task
\* until its file is deleted (orchestrator.py:69).
StopIsFinal ==
  [][\A t \in Tasks : dir'[t] # dir[t] =>
       Loaded(t) # Torn /\ ~Loaded(t).stop /\ Loaded(t).iteration < MaxIterations]_vars

\* What the archive holds can be assembled again: no run takes a file of a packed
\* task away, so the run of the other task does not drop it (orchestrator.py:449).
PackedStaysComplete == archive \notin {NoFile, Torn} => archive \subseteq Complete

\* A run ends, with no help of the clock, unless code that a tool executes does
\* not (orchestrator.py:122, phases.py:124).
RunEnds == pc # "down" ~> pc \in {"down", "hung"}


-----------------------------------------------------------------------------
(* What is left of a run. *)

Going == pc \notin {"down", "hung"}

\* Within an iteration: the experiment, the phases before the next one, its end.
Stage ==
  CASE pc = "train"      -> 8
    [] pc = "infer"      -> 7
    [] pc = "analyse"    -> 6
    [] pc = "experiment" -> 1
    [] pc = "collect"    -> 1
    [] pc = "pack"       -> 0
    [] OTHER -> [literature |-> 5, diagnosis |-> 4, design |-> 3, experiment |-> 2][mem.phase]

\* Within a phase: its rounds of tool calls.
RoundsLeft ==
  CASE pc = "save"  -> 2 * RoundLimit + 2
    [] pc = "loop"  -> 2 * RoundLimit + 1
    [] pc = "think" -> 2 * (RoundLimit - rounds)
    [] pc = "tools" -> 2 * (RoundLimit - rounds) - 1
    [] OTHER        -> 0

RunLeft == <<LastIteration - mem.iteration, Stage, RoundsLeft, RequestTries - tries>>

\* The first place in which the ranks differ decides.
Below(r, s) == \E k \in 1..4 : r[k] < s[k] /\ \A j \in 1..(k - 1) : r[j] = s[j]

\* Every step of a run leaves less of it: no answer of the model, error or failed
\* attempt keeps it going without using up an iteration, a phase, a round of
\* tool calls or a try (orchestrator.py:122, phases.py:124, 416).
RunIsFinite ==
  /\ [](Going => RunLeft \in Nat \X Nat \X Nat \X Nat)
  /\ [][Going /\ Going' => Below(RunLeft', RunLeft)]_vars

-----------------------------------------------------------------------------
(* What the records say of the files. *)

\* The records a task has from the file of an older version.
OldRecords(t) ==
  IF legacy # NoFile /\ legacy.task = t THEN Len(legacy.memory.experiments) ELSE 0

\* The directory of the training a record names still holds those metrics.
MatchesDirs(t, m) ==
  \A k \in DOMAIN m.experiments :
    LET x == m.experiments[k].metrics
    IN  k > OldRecords(t) /\ x # NoMetrics =>
          x.by[2] \in Iterations /\ dir[t][x.by[2]].metrics = x

\* No later training overwrites what a record was made of, in whatever life it
\* runs: not the repetition of a round that a kill lost, nor a run that starts
\* again over the directories of a deleted memory (phases.py:416, memory.py:77).
RecordsMatchDirs ==
  /\ pc # "down" => MatchesDirs(task, mem)
  /\ \A t \in Tasks : saved[t] \notin {NoFile, Torn} => MatchesDirs(t, saved[t])

\* What is collected for the best experiment is what it was recorded for exactly
\* if its number is that of its iteration (orchestrator.py:183).
CollectsItsOwnNumber ==
  pc = "collect" /\ PredFound /\ mem.best > OldRecords(task) /\ BestMetrics(mem) # NoMetrics =>
    (dir[task][mem.best].metrics = BestMetrics(mem) <=> BestMetrics(mem).by[2] = mem.best)

\* SubmitsTheBest below fails only after an iteration that left no record: as
\* long as every iteration left one, the directory of the best is collected.
SubmitsTheBestIfNoneLost ==
  /\ pc = "collect" /\ PredFound /\ mem.best # 0 /\ BestMetrics(mem) # NoMetrics
  /\ OldRecords(task) = 0 /\ Len(mem.experiments) = mem.iteration
  => dir[task][BestDir(mem)].metrics = BestMetrics(mem)

\* What the docstring of _collect_current_task_results says: the prediction that is
\* collected is that of the best experiment (orchestrator.py:183).
SubmitsTheBest ==
  pc = "collect" /\ mem.best # 0 /\ PredFound =>
    dir[task][BestDir(mem)].metrics = BestMetrics(mem)

=============================================================================
