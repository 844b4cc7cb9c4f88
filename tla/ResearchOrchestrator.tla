------------------------- MODULE ResearchOrchestrator -------------------------
(***************************************************************************)
(* PDEAgent: orchestrator.py runs the four phases of phases.py in rounds,  *)
(* saves its memory after each, and assembles the submission at the end;   *)
(* llm_client.py retries requests and tools.py runs the model's tools.     *)
(* The agent is started for one task at a time and may be killed anywhere. *)
(* The user may delete a task's memory file, as the manual advises; the    *)
(* directories of its iterations stay.                                     *)
(*                                                                         *)
(* What train.py and infer.py do is external: the model of the agent wrote *)
(* them.  So is what the language model answers, and whether it answers.   *)
(***************************************************************************)
EXTENDS ResearchMemory

CONSTANTS
  Tasks,
  MaxIterations, Patience,      \* research.max_iterations, early_stop_patience
  PhaseTries, RequestTries,     \* 3 attempts at a phase, 5 at a request
  ToolRounds, DesignRounds,     \* 10 rounds of tool calls, 20 for a design
  LegacyFiles,                  \* bound: what an older version left behind
  MaxLives,                     \* bound: how often the agent is started
  NoFile, Torn

Lives == 0..MaxLives

Legacies == [task : Tasks, memory : Memories]

ASSUME ResearchAssumption ==
  /\ MaxIterations \in Nat /\ Patience \in Nat \ {0}
  /\ PhaseTries \in Nat \ {0} /\ RequestTries \in Nat \ {0}
  /\ ToolRounds \in Nat \ {0} /\ DesignRounds \in Nat \ {0}
  /\ MaxLives \in Nat
  /\ NoFile # Torn /\ NoFile \notin Memories /\ Torn \notin Memories
  /\ LegacyFiles \subseteq Legacies \union {NoFile} /\ NoFile \notin Legacies

\* An iteration is counted when it starts, in each attempt of the last round.
LastIteration == MaxIterations + PhaseTries

Iterations == 1..LastIteration

\* The legacy file comes from a run of the same program: it counted its
\* iterations, records a training once and knows its best experiment.
LegacyIsSound(m) ==
  /\ m.iteration < LastIteration
  /\ m.best \in 0..Len(m.experiments)
  /\ m.best # 0 => m.experiments[m.best].status = "success"
  /\ \A k \in DOMAIN m.experiments :
       LET x == m.experiments[k].metrics
       IN  /\ ScoreOf(x, -1) <= BestScore(m)
           /\ x # NoMetrics => x.by[2] <= m.iteration
           /\ \A j \in DOMAIN m.experiments :
                LET y == m.experiments[j].metrics
                IN  x # NoMetrics /\ y # NoMetrics /\ x.by[2] = y.by[2] => j = k

ASSUME LegacyAssumption == \A f \in LegacyFiles : f # NoFile => LegacyIsSound(f.memory)

EmptyDir == [checkpoint |-> FALSE, metrics |-> NoMetrics, pred |-> FALSE]

NoOutput == [pred |-> FALSE, time |-> FALSE, log |-> FALSE]

VARIABLES
  pc,           \* where the process is; "down" when there is none
  task,         \* the task it was started for
  mem,          \* its memory
  attempt,      \* the attempt at the phase
  rounds,       \* rounds of tool calls in the phase
  tries,        \* tries of the request
  life,         \* how often the agent was started
  saved,        \* the memory file of each task
  legacy,       \* research_memory.json
  dir,          \* output/<task>/iter_<n>
  logged,       \* tasks that have a log file
  out,          \* the task's files in the output directory
  archive       \* submission.zip: the tasks packed in it

process == <<task, mem, attempt, rounds, tries>>
files == <<saved, legacy, dir, logged, out, archive>>
vars == <<pc, process, life, files>>

Idle == /\ task \in Tasks /\ mem = FreshMemory
        /\ attempt = 1 /\ rounds = 0 /\ tries = 0

Init ==
  /\ pc = "down" /\ Idle /\ task = CHOOSE t \in Tasks : TRUE
  /\ life = 0
  /\ saved = [t \in Tasks |-> NoFile] /\ legacy \in LegacyFiles
  /\ dir = [t \in Tasks |-> [i \in Iterations |-> EmptyDir]]
  /\ logged = {} /\ out = [t \in Tasks |-> NoOutput]
  /\ archive = NoFile

-----------------------------------------------------------------------------
(* The process starts and ends. *)

\* Faulty: the memory is loaded only on request, as --resume suggests.
LoadedOnRequest(t) == FreshMemory

\* What a start of task t loads: its own file, else the legacy file if it is
\* of this task, else nothing.
Loaded(t) ==
  IF saved[t] # NoFile THEN saved[t]
  ELSE IF legacy # NoFile /\ legacy.task = t THEN legacy.memory
  ELSE FreshMemory

\* A torn file does not parse: __init__ raises and nothing has changed.
Start(t) ==
  /\ pc = "down" /\ life < MaxLives
  /\ Loaded(t) # Torn
  /\ pc' = "loop" /\ task' = t /\ mem' = Loaded(t) /\ life' = life + 1
  /\ UNCHANGED <<attempt, rounds, tries, files>>

GoDown == /\ pc' = "down" /\ task' = task /\ mem' = FreshMemory
          /\ attempt' = 1 /\ rounds' = 0 /\ tries' = 0

Kill == pc # "down" /\ GoDown /\ UNCHANGED <<life, files>>

\* The manual's reset.
Reset(t) ==
  /\ pc = "down" /\ saved[t] # NoFile
  /\ saved' = [saved EXCEPT ![t] = NoFile]
  /\ UNCHANGED <<pc, process, life, legacy, dir, logged, out, archive>>

-----------------------------------------------------------------------------
(* should_stop, before every round. *)

Recent(m) ==
  {m.experiments[k] : k \in {j \in 1..Len(m.experiments) : j > Len(m.experiments) - Patience}}

\* Faulty: a stop that was saved is forgotten.
StopIgnoringReason(m, late) == late \/ m.iteration >= MaxIterations

\* Faulty: one iteration too many.
StopsOneLater(m, late) == late \/ m.iteration > MaxIterations \/ m.stop

\* late: more than max_time_hours since the start.
StopsFirst(m, late) == late \/ m.iteration >= MaxIterations \/ m.stop

HasPatienceRecords(m) == Len(m.experiments) >= Patience

\* Comparing None with a number raises, and nothing catches it here.
StopRaises(m, late) ==
  /\ ~StopsFirst(m, late) /\ HasPatienceRecords(m)
  /\ \E e \in Recent(m) : CannotCompare(e)

NoImprovement(m) == \A e \in Recent(m) : ScoreOf(e.metrics, -1) <= BestScore(m)

EarlyStop(m) == HasPatienceRecords(m) /\ NoImprovement(m) /\ BestScore(m) > 0

ShouldStop(m, late) == StopsFirst(m, late) \/ EarlyStop(m)

\* The reason is set in memory and never saved: the loop ends without a save.
StopRounds(late) ==
  /\ pc = "loop" /\ ~StopRaises(mem, late) /\ ShouldStop(mem, late)
  /\ pc' = "collect"
  /\ UNCHANGED <<process, life, files>>

DieInShouldStop ==
  /\ pc = "loop" /\ StopRaises(mem, FALSE)
  /\ GoDown /\ UNCHANGED <<life, files>>

BeginRound ==
  /\ pc = "loop" /\ ~StopRaises(mem, FALSE) /\ ~ShouldStop(mem, FALSE)
  /\ pc' = IF mem.phase = "experiment" THEN "experiment" ELSE "think"
  /\ attempt' = 1 /\ rounds' = 0 /\ tries' = 0
  /\ UNCHANGED <<task, mem, life, files>>

-----------------------------------------------------------------------------
(* One request: retried until it is answered, refused, or out of tries. *)

Asking == pc \in {"think", "analyse"}

RetryRequest ==
  /\ Asking /\ tries + 1 < RequestTries
  /\ tries' = tries + 1
  /\ UNCHANGED <<pc, task, mem, attempt, rounds, life, files>>

\* Every chat writes one line to the log, whether it is answered or raises.
Log == logged' = logged \union {task}

-----------------------------------------------------------------------------
(* Literature, diagnosis and design: rounds of tool calls, then a text.    *)
(* A request that fails counts as the text, so these phases do not fail.   *)

RoundLimit == IF mem.phase = "design" THEN DesignRounds ELSE ToolRounds

NextPhase(p) == CASE p = "literature" -> "diagnosis"
                  [] p = "diagnosis"  -> "design"
                  [] p = "design"     -> "experiment"

EndPhase ==
  /\ mem' = [mem EXCEPT !.phase = NextPhase(mem.phase)]
  /\ pc' = "save" /\ tries' = 0 /\ rounds' = 0

\* The model answers with text, or the request raises and is its text.
Conclude ==
  /\ pc = "think" /\ Log /\ EndPhase
  /\ UNCHANGED <<task, attempt, life, saved, legacy, dir, out, archive>>

AskForTools ==
  /\ pc = "think" /\ Log
  /\ pc' = "tools" /\ tries' = 0
  /\ UNCHANGED <<task, mem, attempt, rounds, life, saved, legacy, dir, out, archive>>

\* Faulty: the rounds are not counted.
ToolsReturnUncounted ==
  /\ pc = "tools"
  /\ pc' = "think"
  /\ UNCHANGED <<process, life, files>>

\* Every tool answers with text, its errors included; the last message of the
\* last round is the text of the phase.
ToolsReturn ==
  /\ pc = "tools"
  /\ IF rounds + 1 = RoundLimit
       THEN EndPhase
       ELSE pc' = "think" /\ rounds' = rounds + 1 /\ UNCHANGED <<mem, tries>>
  /\ UNCHANGED <<task, attempt, life, files>>

\* run_python and quick_test_model execute code inside the agent: sys.exit
\* passes every except, and nothing ends a loop.
ToolExits == pc = "tools" /\ GoDown /\ UNCHANGED <<life, files>>

ToolHangs ==
  /\ pc = "tools"
  /\ pc' = "hung"
  /\ UNCHANGED <<process, life, files>>

-----------------------------------------------------------------------------
(* Experiment. *)

Here == dir[task][mem.iteration]

SetHere(d) == dir' = [dir EXCEPT ![task][mem.iteration] = d]

\* Faulty: only the first attempt counts.
BeginExperimentOnce ==
  /\ pc = "experiment"
  /\ mem' = [mem EXCEPT !.iteration = IF attempt = 1 THEN @ + 1 ELSE @]
  /\ pc' = "train"
  /\ UNCHANGED <<task, attempt, rounds, tries, life, files>>

BeginExperiment ==
  /\ pc = "experiment"
  /\ mem' = [mem EXCEPT !.iteration = @ + 1]
  /\ pc' = "train"
  /\ UNCHANGED <<task, attempt, rounds, tries, life, files>>

\* What a training leaves in its directory: nothing new, a checkpoint (it
\* failed later or ran into its timeout), or metrics as well.  Metrics that do
\* not parse are no metrics, and an analysis that fails.
Trained(d) ==
  LET kept == [d EXCEPT !.checkpoint = TRUE]
  IN  {d, kept} \union
      {[kept EXCEPT !.metrics = [by |-> <<life, mem.iteration>>, score |-> s]] :
         s \in Scores \union {NoKey, Unordered}}

Train ==
  /\ pc = "train"
  /\ \E d \in Trained(Here) : SetHere(d)
  /\ pc' = "infer"
  /\ UNCHANGED <<process, life, saved, legacy, logged, out, archive>>

\* infer.py needs the checkpoint of the directory, whoever left it, and may fail.
Infer ==
  /\ pc = "infer"
  /\ \/ UNCHANGED dir
     \/ Here.checkpoint /\ SetHere([Here EXCEPT !.pred = TRUE])
  /\ pc' = "analyse" /\ tries' = 0
  /\ UNCHANGED <<task, mem, attempt, rounds, life, saved, legacy, logged, out, archive>>

\* Faulty: one attempt too many.
AttemptFailsLate(m) ==
  IF attempt <= PhaseTries
    THEN pc' = "experiment" /\ attempt' = attempt + 1 /\ mem' = m
    ELSE /\ pc' = "save" /\ attempt' = 1
         /\ mem' = [m EXCEPT !.phase = IF @ = "experiment" THEN "diagnosis" ELSE @]

\* run_phase tries the phase again, then gives the round up; the loop turns a
\* phase that is still the experiment into a diagnosis.
AttemptFails(m) ==
  IF attempt < PhaseTries
    THEN pc' = "experiment" /\ attempt' = attempt + 1 /\ mem' = m
    ELSE /\ pc' = "save" /\ attempt' = 1
         /\ mem' = [m EXCEPT !.phase = IF @ = "experiment" THEN "diagnosis" ELSE @]

\* The metrics do not parse (before the request), the request raises, or its
\* "DECISION:" is followed by nothing.
AnalysisFails ==
  /\ pc = "analyse"
  /\ AttemptFails(mem) /\ tries' = 0 /\ (Log \/ UNCHANGED logged)
  /\ UNCHANGED <<task, rounds, life, saved, legacy, dir, out, archive>>

Decided(m, decision) ==
  CASE decision = "STOP"  -> [m EXCEPT !.stop = TRUE]
    [] decision = "PIVOT" -> [m EXCEPT !.phase = "diagnosis"]
    [] OTHER              -> [m EXCEPT !.phase = "design"]

\* STOP makes a success of any record.
RecordOf(decision) ==
  [metrics |-> Here.metrics,
   status  |-> IF decision = "STOP" \/ Here.metrics # NoMetrics THEN "success" ELSE "failed"]

\* add_experiment raises after the record is in and the phase is set: the
\* attempt fails all the same.
Analyse(decision) ==
  /\ pc = "analyse"
  /\ LET e == RecordOf(decision)
         m == AddExperiment(Decided(mem, decision), e)
     IN  IF CannotCompare(e) THEN AttemptFails(m)
         ELSE pc' = "save" /\ mem' = m /\ attempt' = 1
  /\ tries' = 0 /\ Log
  /\ UNCHANGED <<task, rounds, life, saved, legacy, dir, out, archive>>

-----------------------------------------------------------------------------
(* The memory file, rewritten in place at the end of the round. *)

\* Faulty: the file is written when a cycle of phases is over.
SaveCycles ==
  /\ pc = "save"
  /\ saved' = IF mem.phase = "diagnosis" THEN [saved EXCEPT ![task] = mem] ELSE saved
  /\ pc' = "loop"
  /\ UNCHANGED <<process, life, legacy, dir, logged, out, archive>>

Save ==
  /\ pc = "save"
  /\ saved' = [saved EXCEPT ![task] = mem]
  /\ pc' = "loop"
  /\ UNCHANGED <<process, life, legacy, dir, logged, out, archive>>

TearSave ==
  /\ pc = "save"
  /\ saved' = [saved EXCEPT ![task] = Torn]
  /\ GoDown
  /\ UNCHANGED <<life, legacy, dir, logged, out, archive>>

-----------------------------------------------------------------------------
(* The submission. *)

\* The directory is looked up by the id of the best experiment.
BestDir(m) == IF m.best # 0 THEN m.best ELSE m.iteration

PredFound == BestDir(mem) \in Iterations /\ dir[task][BestDir(mem)].pred

\* Faulty: what an earlier run collected is removed first.
CollectAfresh ==
  /\ pc = "collect"
  /\ out' = [out EXCEPT ![task] = [pred |-> PredFound, time |-> TRUE, log |-> task \in logged]]
  /\ pc' = "pack"
  /\ UNCHANGED <<process, life, saved, legacy, dir, logged, archive>>

\* A prediction or a log that is not there leaves an earlier copy in place.
Collect ==
  /\ pc = "collect"
  /\ out' = [out EXCEPT ![task] = [pred |-> @.pred \/ PredFound, time |-> TRUE,
                                  log |-> @.log \/ task \in logged]]
  /\ pc' = "pack"
  /\ UNCHANGED <<process, life, saved, legacy, dir, logged, archive>>

Complete == {t \in Tasks : out[t].pred /\ out[t].time /\ out[t].log}

\* Without a complete task an archive of earlier stays as it is.
Pack ==
  /\ pc = "pack"
  /\ archive' = IF Complete = {} THEN archive ELSE Complete
  /\ GoDown
  /\ UNCHANGED <<life, saved, legacy, dir, logged, out>>

TearArchive ==
  /\ pc = "pack" /\ Complete # {}
  /\ archive' = Torn
  /\ GoDown
  /\ UNCHANGED <<life, saved, legacy, dir, logged, out>>

-----------------------------------------------------------------------------

Think == Conclude \/ AskForTools \/ ToolsReturn

Experiment ==
  \/ BeginExperiment \/ Train \/ Infer \/ AnalysisFails
  \/ \E d \in {"CONTINUE", "PIVOT", "STOP"} : Analyse(d)

Finish == Collect \/ Pack

\* What the process does by itself.
Progress ==
  \/ \E late \in BOOLEAN : StopRounds(late)
  \/ DieInShouldStop \/ BeginRound
  \/ RetryRequest \/ Think \/ Experiment \/ Save \/ Finish

Environment ==
  \/ \E t \in Tasks : Start(t) \/ Reset(t)
  \/ Kill \/ TearSave \/ TearArchive \/ ToolExits \/ ToolHangs

Next == Progress \/ Environment

Spec == Init /\ [][Next]_vars

\* The process keeps going; neither the clock, nor a restart, nor the code a
\* tool executes is counted on.
FairSpec == Spec /\ WF_vars(Progress)

=============================================================================
