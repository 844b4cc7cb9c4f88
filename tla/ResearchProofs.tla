---------------------------- MODULE ResearchProofs ----------------------------
(***************************************************************************)
(* Proofs of the safety properties of ResearchOrchestrator, for all tasks, *)
(* scores and limits and any number of restarts.                           *)
(***************************************************************************)
EXTENDS ResearchProperties, TLAPS

-----------------------------------------------------------------------------
(* Memories. *)

\* No two records of a memory have metrics of the same iteration.
Indexed(m) ==
  \A j, k \in DOMAIN m.experiments :
    LET a == m.experiments[j].metrics
        b == m.experiments[k].metrics
    IN  a # NoMetrics /\ b # NoMetrics /\ a.by[2] = b.by[2] => j = k

\* Its records have metrics of iterations up to n.
UpTo(m, n) ==
  \A k \in DOMAIN m.experiments :
    m.experiments[k].metrics # NoMetrics => m.experiments[k].metrics.by[2] <= n

Sound(m) == Indexed(m) /\ BestIsBest(m)

\* A score is a natural number or the default.
LEMMA ScoreType ==
  ASSUME NEW x, NEW d \in Int
  PROVE  /\ ScoreOf(x, d) \in Int
         /\ ScoreOf(x, d) >= 0 \/ ScoreOf(x, d) = d
         /\ ScoreOf(x, -1) <= ScoreOf(x, 0) /\ ScoreOf(x, 0) >= 0
         /\ ScoreOf(x, 0) > 0 => ScoreOf(x, -1) = ScoreOf(x, 0)
  <1>1. CASE x # NoMetrics /\ x.score \in Scores
    <2>1. x.score \in Nat
      BY <1>1, ScoreAssumption
    <2>2. ScoreOf(x, d) = x.score /\ ScoreOf(x, -1) = x.score /\ ScoreOf(x, 0) = x.score
      BY <1>1 DEF ScoreOf
    <2> QED
      BY <2>1, <2>2
  <1>2. CASE ~(x # NoMetrics /\ x.score \in Scores)
    <2>1. ScoreOf(x, d) = d /\ ScoreOf(x, -1) = -1 /\ ScoreOf(x, 0) = 0
      BY <1>2 DEF ScoreOf
    <2> QED
      BY <2>1
  <1> QED
    BY <1>1, <1>2

\* Metrics of distinct iterations are of distinct trainings.
LEMMA IndexedCountsOnce == ASSUME NEW m, Indexed(m) PROVE CountedOnce(m)
  BY DEF Indexed, CountedOnce

LEMMA FreshSound == FreshMemory \in Memories /\ Sound(FreshMemory) /\ UpTo(FreshMemory, 0)
  <1>1. FreshMemory.experiments = << >> /\ FreshMemory.best = 0
    BY DEF FreshMemory
  <1>2. FreshMemory \in Memories
    BY DEF FreshMemory, Memories, Phases
  <1> QED
    BY <1>1, <1>2 DEF Sound, Indexed, BestIsBest, UpTo

\* What a memory records does not depend on its phase, iteration and stop.
LEMMA SameRecords ==
  ASSUME NEW m, NEW l, m.experiments = l.experiments, m.best = l.best, Sound(l)
  PROVE  Sound(m) /\ \A n : UpTo(l, n) => UpTo(m, n)
  BY DEF Sound, Indexed, BestIsBest, BestScore, BestMetrics, UpTo

\* What is up to an iteration is up to a later one.
LEMMA UpToLater ==
  ASSUME NEW m \in Memories, NEW n \in Int, NEW l \in Int, UpTo(m, n), n <= l
  PROVE  UpTo(m, l)
  <1> SUFFICES ASSUME NEW i \in DOMAIN m.experiments, m.experiments[i].metrics # NoMetrics
               PROVE  m.experiments[i].metrics.by[2] <= l
    BY DEF UpTo
  <1>1. m.experiments[i] \in Experiments
    BY DEF Memories
  <1> DEFINE b == m.experiments[i].metrics.by[2]
  <1>2. b \in Nat
    BY <1>1 DEF Experiments, Metrics, Trainings
  <1>3. b <= n
    BY DEF UpTo
  <1> HIDE DEF b
  <1>4. b <= l
    BY <1>2, <1>3
  <1> QED
    BY <1>4 DEF b

\* An iteration not recorded yet may be recorded.
LEMMA AddSound ==
  ASSUME NEW m \in Memories, Sound(m), NEW n \in Nat, UpTo(m, n - 1),
         NEW e \in Experiments, e.metrics # NoMetrics => e.metrics.by[2] = n,
         e.status = "failed" => e.metrics = NoMetrics
  PROVE  LET a == AddExperiment(m, e)
         IN  /\ a \in Memories /\ Sound(a) /\ UpTo(a, n)
             /\ a.iteration = m.iteration /\ a.phase = m.phase /\ a.stop = m.stop
             /\ Len(a.experiments) = Len(m.experiments) + 1
             /\ Extends(a.experiments, m.experiments)
  <1> DEFINE a == AddExperiment(m, e)
             L == Len(m.experiments)
  <1>1. m.experiments \in Seq(Experiments) /\ m.best \in Nat /\ L \in Nat
    BY DEF Memories
  <1>2. a.experiments = Append(m.experiments, e)
    BY DEF AddExperiment, Memories
  <1>3. a.best = IF Better(m, e) THEN L + 1 ELSE m.best
    BY DEF AddExperiment, Memories
  <1>4. a.iteration = m.iteration /\ a.phase = m.phase /\ a.stop = m.stop
    BY DEF AddExperiment, Memories
  <1>5. a \in Memories
    <2>1. Append(m.experiments, e) \in Seq(Experiments) /\ L + 1 \in Nat
      BY <1>1
    <2>2. (IF Better(m, e) THEN L + 1 ELSE m.best) \in Nat
      BY <1>1
    <2> QED
      BY <2>1, <2>2 DEF AddExperiment, Memories
  <1>6. /\ a.experiments \in Seq(Experiments) /\ Len(a.experiments) = L + 1
        /\ DOMAIN a.experiments = 1..(L + 1) /\ DOMAIN m.experiments = 1..L
        /\ a.experiments[L + 1] = e
        /\ \A k \in 1..L : a.experiments[k] = m.experiments[k]
    BY <1>1, <1>2
  <1>7. Extends(a.experiments, m.experiments)
    BY <1>1, <1>6 DEF Extends
  <1>8. \A k \in 1..L : m.experiments[k].metrics # NoMetrics => m.experiments[k].metrics.by[2] \in Nat
    <2> TAKE k \in 1..L
    <2>1. m.experiments[k] \in Experiments
      BY <1>1
    <2> QED
      BY <2>1 DEF Experiments, Metrics, Trainings
  <1> DEFINE X(k) == a.experiments[k].metrics
  <1>9. /\ \A k \in 1..L : X(k) = m.experiments[k].metrics
        /\ \A k \in 1..L : X(k) # NoMetrics => X(k).by[2] \in Nat /\ X(k).by[2] < n
        /\ X(L + 1) # NoMetrics => X(L + 1).by[2] = n
    <2>1. \A k \in 1..L : X(k) = m.experiments[k].metrics
      BY <1>6
    <2>2. ASSUME NEW k \in 1..L, X(k) # NoMetrics
          PROVE  X(k).by[2] \in Nat /\ X(k).by[2] < n
      <3>1. m.experiments[k].metrics.by[2] \in Nat
        BY <1>8, <2>1, <2>2
      <3>2. m.experiments[k].metrics.by[2] <= n - 1
        BY <1>6, <2>1, <2>2 DEF UpTo
      <3> QED
        BY <2>1, <3>1, <3>2
    <2> QED
      BY <1>6, <2>1, <2>2
  <1>13. \A i \in 1..(L + 1) : i \in 1..L \/ i = L + 1
    <2> HIDE DEF L
    <2> QED
      BY <1>1
  <1>10. UpTo(a, n)
    <2> SUFFICES ASSUME NEW k \in 1..(L + 1), X(k) # NoMetrics PROVE X(k).by[2] <= n
      BY <1>6 DEF UpTo
    <2>1. CASE k = L + 1
      BY <1>9, <2>1
    <2>2. CASE k \in 1..L
      <3>1. X(k).by[2] \in Nat /\ X(k).by[2] < n
        BY <1>9, <2>2
      <3> QED
        BY <3>1
    <2> QED
      BY <1>13, <2>1, <2>2
  <1>12. Indexed(a)
    <2> SUFFICES ASSUME NEW j \in 1..(L + 1), NEW k \in 1..(L + 1),
                        X(j) # NoMetrics, X(k) # NoMetrics, X(j).by[2] = X(k).by[2]
                 PROVE  j = k
      BY <1>6 DEF Indexed
    <2>1. CASE j \in 1..L /\ k \in 1..L
      BY <1>6, <1>9, <2>1 DEF Sound, Indexed
    <2>2. CASE j = L + 1 \/ k = L + 1
      <3>1. j \in 1..L => X(j).by[2] < n
        BY <1>9
      <3>2. k \in 1..L => X(k).by[2] < n
        BY <1>9
      <3>3. X(L + 1) # NoMetrics => X(L + 1).by[2] = n
        BY <1>9
      <3>4. (j \in 1..L \/ j = L + 1) /\ (k \in 1..L \/ k = L + 1)
        BY <1>13
      <3> HIDE DEF X, L
      <3> QED
        BY <2>2, <3>1, <3>2, <3>3, <3>4
    <2> QED
      BY <1>13, <2>1, <2>2
  <1>11. BestIsBest(a)
    <2> DEFINE S(k) == ScoreOf(m.experiments[k].metrics, -1)
    <2>1. BestScore(m) \in Int /\ BestScore(m) >= -1
      BY ScoreType DEF BestScore
    <2>2. m.best \in 0..L /\ \A k \in 1..L : S(k) <= BestScore(m) /\ S(k) \in Int
      BY <1>6, ScoreType DEF Sound, BestIsBest
    <2>3. CASE Better(m, e)
      <3>1. e.status = "success" /\ ScoreOf(e.metrics, 0) > BestScore(m)
        BY <2>3 DEF Better
      <3>2. a.best = L + 1 /\ BestScore(a) = ScoreOf(e.metrics, -1)
        BY <1>1, <1>3, <1>6, <2>3 DEF BestScore, BestMetrics
      <3>3. BestScore(m) <= BestScore(a)
        BY <2>1, <3>1, <3>2, ScoreType
      <3>4. \A k \in 1..(L + 1) : ScoreOf(a.experiments[k].metrics, -1) <= BestScore(a)
        <4> TAKE k \in 1..(L + 1)
        <4>1. CASE k = L + 1
          BY <1>6, <3>2, <4>1, ScoreType
        <4>2. CASE k \in 1..L
          <5>1. ScoreOf(a.experiments[k].metrics, -1) = S(k) /\ S(k) <= BestScore(m)
            BY <1>6, <2>2, <4>2
          <5>2. BestScore(a) \in Int
            BY <3>2, ScoreType
          <5> HIDE DEF S
          <5> QED
            BY <2>1, <2>2, <3>3, <4>2, <5>1, <5>2
        <4> QED
          BY <1>13, <4>1, <4>2
      <3> QED
        BY <1>1, <1>6, <3>1, <3>2, <3>4 DEF BestIsBest
    <2>4. CASE ~Better(m, e)
      <3>5. m.best # 0 => m.best \in 1..L
        BY <2>2
      <3>6. a.best = m.best /\ (a.best # 0 => a.experiments[a.best] = m.experiments[m.best])
        BY <1>3, <1>6, <2>4, <3>5
      <3>1. a.best = m.best /\ BestScore(a) = BestScore(m)
        BY <3>6 DEF BestScore, BestMetrics
      <3>2. ScoreOf(e.metrics, -1) <= BestScore(m)
        <4>1. CASE CannotCompare(e)
          <5>1. ScoreOf(e.metrics, -1) = -1
            BY <4>1, ScoreAssumption DEF ScoreOf, CannotCompare
          <5> QED
            BY <2>1, <5>1
        <4>2. CASE e.status = "failed"
          <5>1. ScoreOf(e.metrics, -1) = -1
            BY <4>2 DEF ScoreOf
          <5> QED
            BY <2>1, <5>1
        <4>3. CASE ~(ScoreOf(e.metrics, 0) > BestScore(m))
          BY <2>1, <4>3, ScoreType
        <4> QED
          BY <2>4, <4>1, <4>2, <4>3 DEF Better, Experiments
      <3>3. \A k \in 1..(L + 1) : ScoreOf(a.experiments[k].metrics, -1) <= BestScore(a)
        <4> TAKE k \in 1..(L + 1)
        <4>1. CASE k = L + 1
          BY <1>6, <3>1, <3>2, <4>1
        <4>2. CASE k \in 1..L
          BY <1>6, <2>2, <3>1, <4>2
        <4> QED
          BY <1>13, <4>1, <4>2
      <3>4. a.best # 0 => a.experiments[a.best].status = "success"
        BY <3>6 DEF Sound, BestIsBest
      <3> QED
        BY <1>1, <1>6, <2>2, <3>1, <3>3, <3>4 DEF BestIsBest
    <2> QED
      BY <2>3, <2>4
  <1> QED
    BY <1>4, <1>5, <1>6, <1>7, <1>10, <1>11, <1>12 DEF Sound

-----------------------------------------------------------------------------
(* The inductive invariant. *)

Trying == pc \in {"train", "infer", "analyse"}

\* The metrics in a directory are of a training of its iteration.
DirIndexed ==
  \A t \in Tasks : \A i \in Iterations :
    dir[t][i].metrics # NoMetrics => dir[t][i].metrics.by[2] = i

Durable(m) == m \in Memories /\ Sound(m) /\ UpTo(m, m.iteration) /\ m.iteration < LastIteration

SoundFiles == \A t \in Tasks : saved[t] \notin {NoFile, Torn} => Durable(saved[t])

SoundMem == Sound(mem) /\ UpTo(mem, IF Trying THEN mem.iteration - 1 ELSE mem.iteration)

\* m is l and up to n records more.
Ahead(m, l, n) ==
  /\ Extends(m.experiments, l.experiments)
  /\ Len(m.experiments) - Len(l.experiments) <= n

\* How far the memory is from what a restart would load.
RoundShape ==
  LET l == Loaded(task)
  IN  pc # "down" =>
        /\ Durable(l)
        /\ pc \notin {"experiment", "save"} /\ ~Trying => mem = l
        /\ pc = "experiment" \/ Trying =>
             /\ ~l.stop /\ l.iteration < MaxIterations
             /\ mem.iteration = l.iteration + (IF Trying THEN attempt ELSE attempt - 1)
             /\ Ahead(mem, l, attempt - 1)
        /\ pc = "save" =>
             /\ l.iteration <= mem.iteration /\ mem.iteration <= l.iteration + PhaseTries
             /\ mem.iteration < LastIteration
             /\ Ahead(mem, l, mem.iteration - l.iteration)

\* Tools are called in the phases before the experiment.
ToolPhase == pc \in {"think", "tools"} => mem.phase # "experiment"

\* Without a process there is no memory but the files.
DownIsFresh == pc = "down" => mem = FreshMemory

Inv ==
  /\ TypeOK /\ ToolPhase /\ DownIsFresh
  /\ DirIndexed /\ SoundFiles /\ SoundMem /\ RoundShape
  /\ PackedStaysComplete

\* What the steps compute with.
LEMMA Facts ==
  ASSUME Inv
  PROVE  /\ mem \in Memories /\ mem.iteration \in Nat /\ Len(mem.experiments) \in Nat
         /\ attempt \in 1..PhaseTries /\ PhaseTries \in Nat /\ MaxIterations \in Nat
         /\ task \in Tasks /\ LastIteration \in Nat
  BY ResearchAssumption DEF Inv, TypeOK, Memories, LastIteration

\* A start loads nothing, or a memory that keeps the rules.
LEMMA LoadedDurable ==
  ASSUME TypeOK, SoundFiles, NEW t \in Tasks, Loaded(t) # Torn
  PROVE  Durable(Loaded(t))
  <1>1. CASE saved[t] # NoFile
    BY <1>1 DEF SoundFiles, Loaded
  <1>2. CASE saved[t] = NoFile /\ legacy # NoFile /\ legacy.task = t
    <2>1. legacy \in Legacies /\ LegacyIsSound(legacy.memory)
      BY <1>2, ResearchAssumption, LegacyAssumption DEF TypeOK
    <2>2. legacy.memory \in Memories
      BY <2>1 DEF Legacies
    <2>3. Durable(legacy.memory)
      BY <2>1, <2>2 DEF LegacyIsSound, Durable, Sound, Indexed, BestIsBest, UpTo
    <2> QED
      BY <1>2, <2>3 DEF Loaded
  <1>3. CASE saved[t] = NoFile /\ ~(legacy # NoFile /\ legacy.task = t)
    <2>1. Loaded(t) = FreshMemory
      BY <1>3 DEF Loaded
    <2>2. FreshMemory.iteration = 0 /\ 0 < LastIteration
      BY ResearchAssumption DEF FreshMemory, LastIteration
    <2> QED
      BY <2>1, <2>2, FreshSound DEF Durable
  <1> QED
    BY <1>1, <1>2, <1>3

LEMMA InitInv == Init => Inv
  <1> SUFFICES ASSUME Init PROVE Inv
    OBVIOUS
  <1> USE DEF Init, Idle
  <1>1. TypeOK
    <2>1. EmptyDir \in Dirs
      BY DEF EmptyDir, Dirs
    <2>2. dir \in [Tasks -> [Iterations -> Dirs]]
      BY <2>1
    <2> QED
      BY <2>2, FreshSound, ResearchAssumption DEF TypeOK, Lives, NoOutput
  <1>2. DirIndexed
    BY DEF DirIndexed, EmptyDir
  <1>3. SoundFiles
    BY DEF SoundFiles
  <1>4. SoundMem
    <2>1. mem = FreshMemory /\ mem.iteration = 0 /\ ~Trying
      BY DEF FreshMemory, Trying
    <2> QED
      BY <2>1, FreshSound DEF SoundMem
  <1>5. RoundShape /\ PackedStaysComplete /\ ToolPhase /\ DownIsFresh
    BY DEF RoundShape, PackedStaysComplete, ToolPhase, DownIsFresh
  <1> QED
    BY <1>1, <1>2, <1>3, <1>4, <1>5 DEF Inv

-----------------------------------------------------------------------------
(* Types. *)

\* A training leaves a directory whose metrics are of its iteration.
LEMMA TrainedDirs ==
  ASSUME NEW d \in Dirs, life \in Nat, mem.iteration \in Nat, NEW x \in Trained(d)
  PROVE  x \in Dirs /\ (x.metrics = d.metrics \/ x.metrics.by[2] = mem.iteration)
  <1> DEFINE kept == [d EXCEPT !.checkpoint = TRUE]
             M(c) == [by |-> <<life, mem.iteration>>, score |-> c]
  <1>1. kept \in Dirs /\ kept.metrics = d.metrics
    BY DEF Dirs
  <1>2. ASSUME NEW c \in Scores \union {NoKey, Unordered}, x = [kept EXCEPT !.metrics = M(c)]
        PROVE  x \in Dirs /\ x.metrics.by[2] = mem.iteration
    <2>1. M(c) \in Metrics
      BY DEF Metrics, Trainings
    <2>2. x \in Dirs /\ x.metrics = M(c)
      BY <1>1, <1>2, <2>1 DEF Dirs
    <2> QED
      BY <2>2
  <1> QED
    BY <1>1, <1>2 DEF Trained

\* While it is at an experiment, the process works on one of the directories.
LEMMA WorksHere ==
  ASSUME Inv, Trying
  PROVE  mem.iteration \in Iterations /\ Here \in Dirs
  <1>1. /\ Loaded(task).iteration < MaxIterations /\ Loaded(task).iteration \in Nat
        /\ mem.iteration = Loaded(task).iteration + attempt
    BY DEF Inv, RoundShape, Trying, Durable, Memories
  <1>2. mem.iteration \in Iterations
    BY <1>1, Facts DEF Iterations, LastIteration
  <1> QED
    BY <1>2 DEF Here, Inv, TypeOK

\* The record of an experiment.
LEMMA RecordType ==
  ASSUME Inv, Trying, NEW d
  PROVE  /\ RecordOf(d) \in Experiments
         /\ RecordOf(d).metrics # NoMetrics => RecordOf(d).metrics.by[2] = mem.iteration
         /\ RecordOf(d).status = "failed" => RecordOf(d).metrics = NoMetrics
  <1>1. Here \in Dirs /\ mem.iteration \in Iterations
    BY WorksHere
  <1>2. Here.metrics # NoMetrics => Here.metrics.by[2] = mem.iteration
    BY <1>1 DEF Inv, DirIndexed, Here, TypeOK
  <1> QED
    BY <1>1, <1>2 DEF RecordOf, Experiments, Dirs

\* A decision sets the phase or the stop.
LEMMA DecidedType ==
  ASSUME NEW m \in Memories, NEW d
  PROVE  /\ Decided(m, d) \in Memories
         /\ Decided(m, d).experiments = m.experiments /\ Decided(m, d).best = m.best
         /\ Decided(m, d).iteration = m.iteration
  BY DEF Decided, Memories, Phases

LEMMA AnalysedType ==
  ASSUME Inv, pc = "analyse", NEW d
  PROVE  LET m == Decided(mem, d)
             a == AddExperiment(m, RecordOf(d))
         IN  /\ a \in Memories /\ Sound(a) /\ UpTo(a, mem.iteration)
             /\ a.iteration = mem.iteration
             /\ Len(a.experiments) = Len(mem.experiments) + 1
             /\ Extends(a.experiments, mem.experiments)
  <1> DEFINE m == Decided(mem, d)
             a == AddExperiment(m, RecordOf(d))
  <1>1. mem \in Memories /\ Trying /\ mem.iteration \in Nat
    BY Facts DEF Trying
  <1>2. /\ m \in Memories /\ m.experiments = mem.experiments /\ m.best = mem.best
        /\ m.iteration = mem.iteration
    BY <1>1, DecidedType
  <1>3. Sound(mem) /\ UpTo(mem, mem.iteration - 1)
    BY <1>1 DEF Inv, SoundMem
  <1>4. Sound(m) /\ UpTo(m, mem.iteration - 1)
    BY <1>2, <1>3, SameRecords
  <1> HIDE DEF m
  <1>5. /\ a \in Memories /\ Sound(a) /\ UpTo(a, mem.iteration)
        /\ a.iteration = m.iteration /\ Len(a.experiments) = Len(m.experiments) + 1
        /\ Extends(a.experiments, m.experiments)
    BY <1>1, <1>2, <1>4, RecordType, AddSound
  <1> QED
    BY <1>2, <1>5 DEF m

LEMMA TypeStep == Inv /\ [Next]_vars => TypeOK'
  <1> SUFFICES ASSUME Inv, [Next]_vars PROVE TypeOK'
    OBVIOUS
  <1> USE Facts DEF TypeOK, process, files
  <1>0. TypeOK
    BY DEF Inv
  <1>a. FreshMemory \in Memories /\ 1 \in 1..PhaseTries
    BY FreshSound, ResearchAssumption
  <1>1. ASSUME NEW t \in Tasks, Start(t) PROVE TypeOK'
    <2>1. Loaded(t) \in Memories
      BY <1>0, <1>1, LoadedDurable DEF Inv, Start, Durable
    <2>2. life' \in Lives
      BY <1>0, <1>1, ResearchAssumption DEF Start, Lives
    <2> QED
      BY <1>0, <1>1, <2>1, <2>2 DEF Start
  <1>2. ASSUME NEW t \in Tasks, Reset(t) PROVE TypeOK'
    BY <1>0, <1>2 DEF Reset
  <1>3. CASE Kill \/ ToolExits \/ DieInShouldStop
    <2>1. GoDown /\ UNCHANGED <<life, files>>
      BY <1>3 DEF Kill, ToolExits, DieInShouldStop
    <2> QED
      BY <1>0, <1>a, <2>1 DEF GoDown
  <1>4. CASE ToolHangs \/ \E late \in BOOLEAN : StopRounds(late)
    BY <1>0, <1>4 DEF ToolHangs, StopRounds
  <1>5. CASE BeginRound
    BY <1>0, <1>a, <1>5 DEF BeginRound
  <1>6. CASE RetryRequest
    BY <1>0, <1>6 DEF RetryRequest, Asking
  <1>7. ASSUME pc \in {"think", "tools"}, EndPhase
        PROVE  mem' \in Memories /\ pc' = "save" /\ tries' = 0 /\ rounds' = 0
    <2>1. mem.phase \in {"literature", "diagnosis", "design"}
      BY <1>7 DEF Inv, ToolPhase, Memories, Phases
    <2>2. NextPhase(mem.phase) \in Phases
      BY <2>1 DEF NextPhase, Phases
    <2>3. [mem EXCEPT !.phase = NextPhase(mem.phase)] \in Memories
      BY <2>2 DEF Memories
    <2> QED
      BY <1>7, <2>3 DEF EndPhase
  <1>8. CASE Conclude
    BY <1>0, <1>7, <1>8 DEF Conclude, Log
  <1>9. CASE AskForTools
    BY <1>0, <1>9 DEF AskForTools, Log
  <1>10. CASE ToolsReturn
    <2>1. CASE EndPhase
      BY <1>0, <1>7, <1>10, <2>1 DEF ToolsReturn
    <2>2. CASE ~EndPhase
      BY <1>0, <1>10, <2>2 DEF ToolsReturn
    <2> QED
      BY <2>1, <2>2
  <1>11. CASE BeginExperiment
    <2>1. mem' \in Memories
      BY <1>0, <1>11 DEF BeginExperiment, Memories
    <2> QED
      BY <1>0, <1>11, <2>1 DEF BeginExperiment
  <1>12. CASE Train
    <2>1. mem.iteration \in Iterations /\ Here \in Dirs
      BY <1>12, WorksHere DEF Train, Trying
    <2>2. PICK d \in Trained(Here) : SetHere(d)
      BY <1>12 DEF Train
    <2>3. d \in Dirs
      BY <1>0, <2>1, TrainedDirs, ResearchAssumption DEF Lives
    <2>4. dir' \in [Tasks -> [Iterations -> Dirs]]
      BY <1>0, <2>1, <2>2, <2>3 DEF SetHere
    <2> QED
      BY <1>0, <1>12, <2>4 DEF Train
  <1>13. CASE Infer
    <2>1. mem.iteration \in Iterations /\ Here \in Dirs
      BY <1>13, WorksHere DEF Infer, Trying
    <2>2. [Here EXCEPT !.pred = TRUE] \in Dirs
      BY <2>1 DEF Dirs
    <2>3. dir' = dir \/ SetHere([Here EXCEPT !.pred = TRUE])
      BY <1>13 DEF Infer
    <2>4. dir' \in [Tasks -> [Iterations -> Dirs]]
      <3>1. ASSUME NEW d \in Dirs, SetHere(d) PROVE dir' \in [Tasks -> [Iterations -> Dirs]]
        BY <1>0, <2>1, <3>1 DEF SetHere
      <3> QED
        BY <1>0, <2>2, <2>3, <3>1
    <2> QED
      BY <1>0, <1>13, <2>4 DEF Infer
  <1>14. ASSUME NEW m \in Memories, AttemptFails(m)
         PROVE  mem' \in Memories /\ attempt' \in 1..PhaseTries /\ pc' \in {"experiment", "save"}
    <2>1. [m EXCEPT !.phase = IF @ = "experiment" THEN "diagnosis" ELSE @] \in Memories
      BY DEF Memories, Phases
    <2> QED
      BY <1>0, <1>14, <2>1 DEF AttemptFails
  <1>15. CASE AnalysisFails
    BY <1>0, <1>14, <1>15 DEF AnalysisFails, Log
  <1>16. ASSUME NEW d \in {"CONTINUE", "PIVOT", "STOP"}, Analyse(d) PROVE TypeOK'
    <2> DEFINE a == AddExperiment(Decided(mem, d), RecordOf(d))
    <2>1. a \in Memories
      BY <1>16, AnalysedType DEF Analyse
    <2>2. mem' \in Memories /\ attempt' \in 1..PhaseTries /\ pc' \in {"experiment", "save"}
      <3>1. CASE AttemptFails(a)
        BY <1>14, <2>1, <3>1
      <3>2. CASE pc' = "save" /\ mem' = a /\ attempt' = 1
        BY <1>a, <2>1, <3>2
      <3> QED
        BY <1>16, <3>1, <3>2 DEF Analyse
    <2> QED
      BY <1>0, <1>16, <2>2 DEF Analyse, Log
  <1>17. CASE Save
    BY <1>0, <1>17 DEF Save
  <1>18. CASE TearSave
    BY <1>0, <1>a, <1>18 DEF TearSave, GoDown
  <1>19. CASE Collect
    BY <1>0, <1>19 DEF Collect, PredFound, Iterations, Dirs
  <1>20. CASE Pack \/ TearArchive
    BY <1>0, <1>a, <1>20 DEF Pack, TearArchive, GoDown, Complete
  <1>21. CASE UNCHANGED vars
    BY <1>0, <1>21 DEF vars
  <1> QED
    BY <1>1, <1>2, <1>3, <1>4, <1>5, <1>6, <1>8, <1>9, <1>10, <1>11, <1>12, <1>13, <1>15,
       <1>16, <1>17, <1>18, <1>19, <1>20, <1>21
       DEF Next, Progress, Environment, Think, Experiment, Finish

-----------------------------------------------------------------------------
(* What is recorded. *)

LEMMA ToolPhaseStep == Inv /\ [Next]_vars => ToolPhase'
  <1> SUFFICES ASSUME Inv, [Next]_vars PROVE ToolPhase'
    OBVIOUS
  <1> USE DEF ToolPhase, process
  <1>0. ToolPhase
    BY DEF Inv
  <1>1. CASE BeginRound
    BY <1>1 DEF BeginRound
  <1>2. CASE AskForTools \/ RetryRequest \/ ToolsReturn \/ Conclude
    BY <1>0, <1>2 DEF AskForTools, RetryRequest, ToolsReturn, Conclude, EndPhase, Asking
  <1>3. CASE UNCHANGED <<pc, mem>>
    BY <1>0, <1>3
  <1>4. CASE pc' \notin {"think", "tools"}
    BY <1>4
  <1>5. CASE Experiment
    BY <1>4, <1>5 DEF Experiment, BeginExperiment, Train, Infer, AnalysisFails, Analyse, AttemptFails
  <1> QED
    BY <1>1, <1>2, <1>3, <1>4, <1>5
       DEF Next, Progress, Environment, Think, Finish, Start, Reset, Kill, TearSave, TearArchive,
           ToolExits, ToolHangs, GoDown, StopRounds, DieInShouldStop, Save, Collect, Pack, vars

LEMMA DownStep == Inv /\ [Next]_vars => DownIsFresh'
  <1> SUFFICES ASSUME Inv, [Next]_vars, pc' = "down" PROVE mem' = FreshMemory
    BY DEF DownIsFresh
  <1>1. CASE GoDown
    BY <1>1 DEF GoDown
  <1>2. CASE pc = "down" /\ mem' = mem
    BY <1>2 DEF Inv, DownIsFresh
  <1> QED
    BY <1>1, <1>2
       DEF Next, Progress, Environment, Think, Experiment, Finish, Start, Reset, Kill, TearSave,
           TearArchive, ToolExits, ToolHangs, StopRounds, DieInShouldStop, BeginRound,
           RetryRequest, Asking, Conclude, AskForTools, ToolsReturn, EndPhase, BeginExperiment,
           Train, Infer, AnalysisFails, Analyse, AttemptFails, Save, Collect, Pack, vars, process

\* The directories change only while the process trains or infers, in its own.
LEMMA DirStep == Inv /\ [Next]_vars => DirIndexed'
  <1> SUFFICES ASSUME Inv, [Next]_vars PROVE DirIndexed'
    OBVIOUS
  <1>0. DirIndexed /\ TypeOK
    BY DEF Inv
  <1>1. ASSUME NEW d, SetHere(d), Trying, d.metrics = Here.metrics \/ d.metrics.by[2] = mem.iteration
        PROVE  DirIndexed'
    <2>1. mem.iteration \in Iterations /\ task \in Tasks
      BY <1>1, WorksHere, Facts
    <2>2. \A t \in Tasks, i \in Iterations :
            dir'[t][i] = IF t = task /\ i = mem.iteration THEN d ELSE dir[t][i]
      BY <1>0, <1>1, <2>1 DEF SetHere, TypeOK
    <2> QED
      BY <1>0, <1>1, <2>1, <2>2 DEF DirIndexed, Here
  <1>2. CASE Train
    <2>1. Trying /\ Here \in Dirs /\ mem.iteration \in Nat /\ life \in Nat
      BY <1>0, <1>2, WorksHere, Facts, ResearchAssumption DEF Train, Trying, TypeOK, Lives
    <2>2. PICK d \in Trained(Here) : SetHere(d)
      BY <1>2 DEF Train
    <2> QED
      BY <1>1, <2>1, <2>2, TrainedDirs
  <1>3. CASE Infer
    <2>1. Trying /\ Here \in Dirs
      BY <1>3, WorksHere DEF Infer, Trying
    <2>2. [Here EXCEPT !.pred = TRUE].metrics = Here.metrics
      BY <2>1 DEF Dirs
    <2>3. dir' = dir \/ SetHere([Here EXCEPT !.pred = TRUE])
      BY <1>3 DEF Infer
    <2>4. CASE dir' = dir
      BY <1>0, <2>4 DEF DirIndexed
    <2> QED
      BY <1>1, <2>1, <2>2, <2>3, <2>4
  <1>4. CASE dir' = dir
    BY <1>0, <1>4 DEF DirIndexed
  <1> QED
    BY <1>2, <1>3, <1>4
       DEF Next, Progress, Environment, Think, Experiment, Finish, Start, Reset, Kill, TearSave,
           TearArchive, ToolExits, ToolHangs, StopRounds, DieInShouldStop, BeginRound,
           RetryRequest, Conclude, AskForTools, ToolsReturn, BeginExperiment, AnalysisFails,
           Analyse, Save, Collect, Pack, vars, files

\* A memory file changes only when a memory is saved, torn or deleted.
LEMMA FileStep == Inv /\ [Next]_vars => SoundFiles'
  <1> SUFFICES ASSUME Inv, [Next]_vars PROVE SoundFiles'
    OBVIOUS
  <1>0. SoundFiles /\ TypeOK
    BY DEF Inv
  <1>1. CASE Save
    <2>1. Durable(mem)
      BY <1>1, Facts DEF Save, Inv, RoundShape, SoundMem, Trying, Durable
    <2>2. saved' = [saved EXCEPT ![task] = mem]
      BY <1>1 DEF Save
    <2> QED
      BY <1>0, <2>1, <2>2 DEF SoundFiles, TypeOK
  <1>2. CASE TearSave
    BY <1>0, <1>2 DEF TearSave, SoundFiles, TypeOK
  <1>3. ASSUME NEW t \in Tasks, Reset(t) PROVE SoundFiles'
    BY <1>0, <1>3 DEF Reset, SoundFiles, TypeOK
  <1>4. CASE saved' = saved
    BY <1>0, <1>4 DEF SoundFiles
  <1> QED
    BY <1>1, <1>2, <1>3, <1>4
       DEF Next, Progress, Environment, Think, Experiment, Finish, Start, Kill,
           TearArchive, ToolExits, ToolHangs, StopRounds, DieInShouldStop, BeginRound,
           RetryRequest, Conclude, AskForTools, ToolsReturn, BeginExperiment, Train, Infer,
           AnalysisFails, Analyse, Collect, Pack, vars, files

\* A memory changes with a record, an iteration, a phase, or the process.
LEMMA MemStep == Inv /\ [Next]_vars => SoundMem'
  <1> SUFFICES ASSUME Inv, [Next]_vars PROVE SoundMem'
    OBVIOUS
  <1> USE Facts
  <1>0. SoundMem /\ mem.iteration - 1 \in Int
    BY DEF Inv
  <1>1. \A n \in Int, k \in Int : UpTo(mem, n) /\ n <= k => UpTo(mem, k)
    BY UpToLater
  <1>2. Sound(mem) /\ UpTo(mem, mem.iteration)
    BY <1>0, <1>1 DEF SoundMem
  <1>3. ASSUME ~Trying', mem'.experiments = mem.experiments, mem'.best = mem.best,
               mem'.iteration = mem.iteration
        PROVE  SoundMem'
    <2>1. Sound(mem') /\ UpTo(mem', mem.iteration)
      BY <1>2, <1>3, SameRecords
    <2> QED
      BY <1>3, <2>1 DEF SoundMem, Sound, Indexed, BestIsBest, BestScore, BestMetrics, UpTo
  <1>4. ASSUME mem' = FreshMemory, ~Trying' PROVE SoundMem'
    <2>1. FreshMemory.iteration = 0
      BY DEF FreshMemory
    <2> QED
      BY <1>4, <2>1, FreshSound DEF SoundMem, Sound, Indexed, BestIsBest, BestScore, BestMetrics, UpTo
  <1>5. ASSUME Sound(mem'), UpTo(mem', mem'.iteration), ~Trying' PROVE SoundMem'
    BY <1>5 DEF SoundMem, Sound, Indexed, BestIsBest, BestScore, BestMetrics, UpTo
  <1>6. ASSUME NEW t \in Tasks, Start(t) PROVE SoundMem'
    <2>1. Durable(Loaded(t)) /\ mem' = Loaded(t) /\ pc' = "loop"
      BY <1>6, LoadedDurable DEF Inv, Start
    <2> QED
      BY <1>5, <2>1 DEF Durable, Trying
  <1>7. CASE GoDown
    BY <1>4, <1>7 DEF GoDown, Trying
  <1>8. CASE BeginExperiment
    <2>1. /\ mem'.experiments = mem.experiments /\ mem'.best = mem.best
          /\ mem'.iteration = mem.iteration + 1 /\ Trying'
      BY <1>8 DEF BeginExperiment, Memories, Trying
    <2>2. Sound(mem') /\ UpTo(mem', mem.iteration)
      BY <1>2, <2>1, SameRecords
    <2>3. mem'.iteration - 1 = mem.iteration
      BY <2>1
    <2> QED
      BY <2>1, <2>2, <2>3
         DEF SoundMem, Sound, Indexed, BestIsBest, BestScore, BestMetrics, UpTo
  <1>9. CASE Train \/ Infer
    <2>1. Trying /\ Trying' /\ mem' = mem
      BY <1>9 DEF Train, Infer, Trying, process
    <2> QED
      BY <1>0, <2>1 DEF SoundMem, Sound, Indexed, BestIsBest, BestScore, BestMetrics, UpTo
  <1>10. ASSUME NEW m \in Memories, AttemptFails(m), Sound(m), UpTo(m, m.iteration)
         PROVE  SoundMem'
    <2>1. /\ mem'.experiments = m.experiments /\ mem'.best = m.best
          /\ mem'.iteration = m.iteration /\ ~Trying'
      BY <1>10 DEF AttemptFails, Memories, Trying
    <2> QED
      BY <1>5, <1>10, <2>1, SameRecords
  <1>11. CASE AnalysisFails
    BY <1>2, <1>10, <1>11 DEF AnalysisFails
  <1>12. ASSUME NEW d, Analyse(d) PROVE SoundMem'
    <2> DEFINE a == AddExperiment(Decided(mem, d), RecordOf(d))
    <2>1. a \in Memories /\ Sound(a) /\ UpTo(a, a.iteration)
      BY <1>12, AnalysedType DEF Analyse
    <2>2. CASE AttemptFails(a)
      BY <1>10, <2>1, <2>2
    <2>3. CASE pc' = "save" /\ mem' = a
      BY <1>5, <2>1, <2>3 DEF Trying
    <2> QED
      BY <1>12, <2>2, <2>3 DEF Analyse
  <1>13. CASE Conclude \/ ToolsReturn
    <2>1. /\ mem'.experiments = mem.experiments /\ mem'.best = mem.best
          /\ mem'.iteration = mem.iteration /\ ~Trying'
      BY <1>13 DEF Conclude, ToolsReturn, EndPhase, Memories, Trying
    <2> QED
      BY <1>3, <2>1
  <1>14. CASE RetryRequest \/ UNCHANGED vars
    <2>1. (Trying' <=> Trying) /\ mem' = mem
      BY <1>14 DEF RetryRequest, Asking, vars, process, Trying
    <2> QED
      BY <1>0, <2>1 DEF SoundMem, Sound, Indexed, BestIsBest, BestScore, BestMetrics, UpTo
  <1>15. CASE ~Trying' /\ mem' = mem
    BY <1>3, <1>15
  <1>16. CASE \E t \in Tasks : Reset(t)
    BY <1>15, <1>16 DEF Reset, process, Trying
  <1> QED
    BY <1>6, <1>7, <1>8, <1>9, <1>11, <1>12, <1>13, <1>14, <1>15, <1>16
       DEF Next, Progress, Environment, Think, Experiment, Finish, Kill, TearSave,
           TearArchive, ToolExits, ToolHangs, StopRounds, DieInShouldStop, BeginRound,
           AskForTools, Save, Collect, Pack, process, Trying

\* The files of the other tasks stay out of the way of what a restart would load.
LEMMA SameLoaded ==
  ASSUME saved' = saved, legacy' = legacy, task' = task
  PROVE  Loaded(task)' = Loaded(task)
  BY DEF Loaded

LEMMA PackedStep == Inv /\ [Next]_vars => PackedStaysComplete'
  <1> SUFFICES ASSUME Inv, [Next]_vars PROVE PackedStaysComplete'
    OBVIOUS
  <1>0. PackedStaysComplete /\ TypeOK
    BY DEF Inv
  <1>1. CASE Collect
    <2>1. \A t \in Tasks : /\ out[t].pred => out'[t].pred
                           /\ out[t].time => out'[t].time
                           /\ out[t].log => out'[t].log
      BY <1>0, <1>1 DEF Collect, TypeOK
    <2>2. Complete \subseteq Complete' /\ archive' = archive
      BY <1>1, <2>1 DEF Complete, Collect
    <2> QED
      BY <1>0, <2>2 DEF PackedStaysComplete
  <1>2. CASE Pack \/ TearArchive
    BY <1>0, <1>2 DEF Pack, TearArchive, PackedStaysComplete, Complete
  <1>3. CASE archive' = archive /\ out' = out
    BY <1>0, <1>3 DEF PackedStaysComplete, Complete
  <1> QED
    BY <1>1, <1>2, <1>3
       DEF Next, Progress, Environment, Think, Experiment, Finish, Start, Reset, Kill, TearSave,
           ToolExits, ToolHangs, StopRounds, DieInShouldStop, BeginRound, RetryRequest, Conclude,
           AskForTools, ToolsReturn, BeginExperiment, Train, Infer, AnalysisFails, Analyse, Save,
           vars, files

-----------------------------------------------------------------------------
(* How far the memory is from the file. *)

\* A memory that is n records ahead is n + 1 ahead after another.
LEMMA AheadByOne ==
  ASSUME NEW m \in Memories, NEW l \in Memories, NEW a \in Memories, NEW n \in Int,
         Ahead(m, l, n), Extends(a.experiments, m.experiments),
         Len(a.experiments) = Len(m.experiments) + 1
  PROVE  Ahead(a, l, n + 1)
  <1>1. /\ m.experiments \in Seq(Experiments) /\ l.experiments \in Seq(Experiments)
        /\ a.experiments \in Seq(Experiments)
    BY DEF Memories
  <1>2. /\ Len(m.experiments) \in Nat /\ Len(l.experiments) \in Nat
        /\ DOMAIN m.experiments = 1..Len(m.experiments)
        /\ DOMAIN l.experiments = 1..Len(l.experiments)
    BY <1>1
  <1>3. Extends(a.experiments, l.experiments)
    BY <1>1, <1>2 DEF Ahead, Extends
  <1> DEFINE lm == Len(m.experiments)
             ll == Len(l.experiments)
             la == Len(a.experiments)
  <1>4. lm \in Nat /\ ll \in Nat /\ la = lm + 1
    BY <1>2
  <1>5. lm - ll <= n
    BY DEF Ahead
  <1>6. la - ll <= n + 1
    <2> HIDE DEF lm, ll, la
    <2> QED
      BY <1>4, <1>5
  <1> QED
    BY <1>3, <1>6 DEF Ahead

LEMMA ShapeStep == Inv /\ [Next]_vars => RoundShape'
  <1> SUFFICES ASSUME Inv, [Next]_vars PROVE RoundShape'
    OBVIOUS
  <1> USE Facts
  <1> DEFINE l == Loaded(task)
             quiet(p) == p \notin {"experiment", "save", "train", "infer", "analyse"}
  <1>0. RoundShape /\ TypeOK
    BY DEF Inv
  <1>1. pc # "down" => l \in Memories /\ l.iteration \in Nat /\ Len(l.experiments) \in Nat
    BY <1>0 DEF RoundShape, Durable, Memories
  <1>2. CASE GoDown
    BY <1>2 DEF GoDown, RoundShape
  <1>3. ASSUME NEW t \in Tasks, Start(t) PROVE RoundShape'
    <2>1. Durable(Loaded(t)) /\ mem' = Loaded(t) /\ pc' = "loop" /\ task' = t
      BY <1>3, LoadedDurable DEF Inv, Start
    <2>2. Loaded(task)' = Loaded(t)
      BY <1>3, <2>1 DEF Start, files, Loaded
    <2> QED
      BY <2>1, <2>2 DEF RoundShape, Trying, Durable, Sound, Indexed, BestIsBest, BestScore,
                       BestMetrics, UpTo
  <1>4. ASSUME quiet(pc), quiet(pc'), pc # "down", mem' = mem, task' = task, saved' = saved,
               legacy' = legacy
        PROVE  RoundShape'
    <2>1. Loaded(task)' = l
      BY <1>4, SameLoaded
    <2> QED
      BY <1>0, <1>4, <2>1 DEF RoundShape, Trying, Durable, Sound, Indexed, BestIsBest, BestScore,
                             BestMetrics, UpTo
  <1>5. ASSUME Durable(l), Loaded(task)' = l, pc' = "save", l.iteration <= mem'.iteration,
               mem'.iteration <= l.iteration + PhaseTries, mem'.iteration < LastIteration,
               Ahead(mem', l, mem'.iteration - l.iteration)
        PROVE  RoundShape'
    BY <1>5 DEF RoundShape, Trying, Durable, Sound, Indexed, BestIsBest, BestScore,
                BestMetrics, UpTo, Ahead, Extends
  <1>6. ASSUME pc' \in {"experiment", "train", "infer", "analyse"}, Durable(l), Loaded(task)' = l,
               ~l.stop, l.iteration < MaxIterations,
               mem'.iteration = l.iteration + (IF Trying' THEN attempt' ELSE attempt' - 1),
               Ahead(mem', l, attempt' - 1)
        PROVE  RoundShape'
    BY <1>6 DEF RoundShape, Trying, Durable, Sound, Indexed, BestIsBest, BestScore,
                BestMetrics, UpTo, Ahead, Extends
  <1>7. CASE BeginRound
    <2>1. Loaded(task)' = l /\ mem = l /\ mem' = mem /\ attempt' = 1 /\ Durable(l)
      BY <1>0, <1>7, SameLoaded DEF BeginRound, files, RoundShape, Trying
    <2>2. CASE mem.phase # "experiment"
      <3>1. pc' = "think" /\ pc = "loop"
        BY <1>7, <2>2 DEF BeginRound
      <3> QED
        BY <1>4, <1>7, <3>1 DEF BeginRound, files
    <2>3. CASE mem.phase = "experiment"
      <3>1. pc' = "experiment" /\ ~Trying'
        BY <1>7, <2>3 DEF BeginRound, Trying
      <3>2. ~mem.stop /\ mem.iteration < MaxIterations
        BY <1>7 DEF BeginRound, ShouldStop, StopsFirst, Memories
      <3>3. Ahead(mem, mem, 0)
        BY DEF Ahead, Extends
      <3>4. mem'.iteration = l.iteration + (attempt' - 1) /\ Ahead(mem', l, attempt' - 1)
        BY <2>1, <3>3
      <3> QED
        BY <1>6, <2>1, <3>1, <3>2, <3>4
    <2> QED
      BY <2>2, <2>3
  <1>8. ASSUME pc \in {"think", "tools"}, EndPhase, UNCHANGED <<task, saved, legacy>>
        PROVE  RoundShape'
    <2>1. Loaded(task)' = l /\ mem = l /\ Durable(l)
      BY <1>0, <1>8, SameLoaded DEF RoundShape, Trying
    <2>2. mem'.iteration = mem.iteration /\ mem'.experiments = mem.experiments
      BY <1>8 DEF EndPhase, Memories
    <2>3. Ahead(mem', l, 0)
      BY <2>1, <2>2 DEF Ahead, Extends
    <2>4. mem'.iteration - l.iteration = 0 /\ mem'.iteration < LastIteration
      BY <2>1, <2>2 DEF Durable
    <2> QED
      BY <1>5, <1>8, <2>1, <2>2, <2>3, <2>4 DEF EndPhase
  <1>9. CASE Conclude
    BY <1>8, <1>9 DEF Conclude
  <1>10. CASE ToolsReturn
    <2>1. CASE EndPhase
      BY <1>8, <1>10, <2>1 DEF ToolsReturn, files
    <2>2. CASE ~EndPhase
      BY <1>4, <1>10, <2>2 DEF ToolsReturn, files
    <2> QED
      BY <2>1, <2>2
  <1>11. CASE Trying \/ pc = "experiment"
    <2>1. /\ Durable(l) /\ ~l.stop /\ l.iteration < MaxIterations
          /\ mem.iteration = l.iteration + (IF Trying THEN attempt ELSE attempt - 1)
          /\ Ahead(mem, l, attempt - 1)
      BY <1>0, <1>11 DEF RoundShape, Trying
    <2>2. CASE BeginExperiment
      <3>1. Loaded(task)' = l /\ attempt' = attempt /\ pc' = "train" /\ Trying' /\ ~Trying
        BY <2>2, SameLoaded DEF BeginExperiment, files, Trying
      <3>2. mem'.iteration = mem.iteration + 1 /\ mem'.experiments = mem.experiments
        BY <2>2 DEF BeginExperiment, Memories
      <3>3. Ahead(mem', l, attempt' - 1)
        BY <2>1, <3>1, <3>2 DEF Ahead
      <3>4. mem'.iteration = l.iteration + (IF Trying' THEN attempt' ELSE attempt' - 1)
        BY <1>1, <2>1, <3>1, <3>2, <1>11 DEF Trying
      <3> QED
        BY <1>6, <2>1, <3>1, <3>3, <3>4
    <2>3. CASE Train \/ Infer \/ (RetryRequest /\ pc = "analyse")
      <3>1. /\ Loaded(task)' = l /\ attempt' = attempt /\ mem' = mem
            /\ pc' \in {"train", "infer", "analyse"} /\ Trying' /\ Trying
        BY <2>3, SameLoaded DEF Train, Infer, RetryRequest, files, process, Trying
      <3> QED
        BY <1>6, <2>1, <3>1
    <2>4. ASSUME NEW m \in Memories, AttemptFails(m), Loaded(task)' = l,
                 m.iteration = l.iteration + attempt, Ahead(m, l, attempt)
          PROVE  RoundShape'
      <3>1. mem'.iteration = m.iteration /\ mem'.experiments = m.experiments
        BY <2>4 DEF AttemptFails, Memories
      <3>2. Ahead(mem', l, attempt)
        BY <2>4, <3>1 DEF Ahead
      <3>3. CASE attempt < PhaseTries
        <4>1. pc' = "experiment" /\ attempt' = attempt + 1 /\ ~Trying'
          BY <2>4, <3>3 DEF AttemptFails, Trying
        <4>2. attempt' - 1 = attempt
          BY <4>1
        <4> QED
          BY <1>6, <2>1, <2>4, <3>1, <3>2, <4>1, <4>2
      <3>4. CASE ~(attempt < PhaseTries)
        <4>1. pc' = "save"
          BY <2>4, <3>4 DEF AttemptFails
        <4>2. mem'.iteration - l.iteration = attempt /\ mem'.iteration < LastIteration
          BY <1>1, <2>1, <2>4, <3>1, <1>11 DEF LastIteration, Trying
        <4> QED
          BY <1>1, <1>5, <1>11, <2>1, <2>4, <3>1, <3>2, <4>1, <4>2 DEF Trying
      <3> QED
        BY <3>3, <3>4
    <2>5. pc = "analyse" => mem.iteration = l.iteration + attempt
      BY <2>1 DEF Trying
    <2>6. CASE AnalysisFails
      <3>1. Ahead(mem, l, attempt)
        <4> DEFINE lm == Len(mem.experiments)
                   ll == Len(l.experiments)
        <4>1. lm - ll <= attempt - 1
          BY <1>11, <2>1 DEF Ahead, Trying
        <4>2. lm \in Nat /\ ll \in Nat /\ attempt \in Nat
          BY <1>0, <1>1, <1>11, <2>1 DEF TypeOK, Memories, Trying
        <4>3. lm - ll <= attempt
          <5> HIDE DEF lm, ll
          <5> QED
            BY <4>1, <4>2
        <4> QED
          BY <2>1, <4>3 DEF Ahead
      <3> QED
        BY <2>4, <2>5, <2>6, <3>1, SameLoaded DEF AnalysisFails
    <2>7. ASSUME NEW d, Analyse(d) PROVE RoundShape'
      <3> DEFINE a == AddExperiment(Decided(mem, d), RecordOf(d))
      <3>1. /\ a \in Memories /\ a.iteration = mem.iteration
            /\ Len(a.experiments) = Len(mem.experiments) + 1
            /\ Extends(a.experiments, mem.experiments)
        BY <2>7, AnalysedType DEF Analyse
      <3> HIDE DEF a
      <3>2. Ahead(a, l, attempt)
        <4>1. Ahead(a, l, (attempt - 1) + 1)
          BY <1>1, <1>11, <2>1, <3>1, AheadByOne DEF Trying
        <4> QED
          BY <4>1
      <3>3. Loaded(task)' = l /\ a.iteration = l.iteration + attempt
        BY <2>5, <2>7, <3>1, SameLoaded DEF Analyse
      <3>4. CASE AttemptFails(a)
        BY <2>4, <3>1, <3>2, <3>3, <3>4
      <3>5. CASE pc' = "save" /\ mem' = a
        <4>1. mem'.iteration - l.iteration = attempt /\ mem'.iteration < LastIteration
          BY <1>1, <1>11, <2>1, <3>3, <3>5 DEF LastIteration, Trying
        <4> QED
          BY <1>1, <1>5, <1>11, <2>1, <3>2, <3>3, <3>5, <4>1 DEF Trying
      <3> QED
        BY <2>7, <3>4, <3>5 DEF Analyse, a
    <2>8. CASE \E d \in {"CONTINUE", "PIVOT", "STOP"} : Analyse(d)
      BY <2>7, <2>8
    <2>9. CASE UNCHANGED vars
      <3>1. /\ Loaded(task)' = l /\ attempt' = attempt /\ mem' = mem /\ pc' = pc
            /\ (Trying' <=> Trying)
        BY <2>9, SameLoaded DEF vars, files, process, Trying
      <3> QED
        BY <1>6, <1>11, <2>1, <3>1 DEF Trying
    <2> QED
      BY <1>2, <1>11, <2>2, <2>3, <2>6, <2>8, <2>9
         DEF Next, Progress, Environment, Think, Experiment, Finish, Start, Reset, Kill, TearSave,
             TearArchive, ToolExits, ToolHangs, StopRounds, DieInShouldStop, BeginRound,
             RetryRequest, Asking, Conclude, AskForTools, ToolsReturn, BeginExperiment, Train,
             Infer, AnalysisFails, Analyse, Save, Collect, Pack, Trying
  <1>12. CASE Save
    <2>1. mem # NoFile /\ saved' = [saved EXCEPT ![task] = mem] /\ task' = task /\ mem' = mem
      BY <1>12, ResearchAssumption DEF Save, process
    <2>2. Loaded(task)' = mem
      BY <1>0, <2>1 DEF Loaded, TypeOK
    <2>3. Durable(mem)
      BY <1>12 DEF Save, Inv, RoundShape, SoundMem, Trying, Durable
    <2> QED
      BY <1>12, <2>1, <2>2, <2>3
         DEF Save, RoundShape, Trying, Durable, Sound, Indexed, BestIsBest, BestScore,
             BestMetrics, UpTo
  <1>13. CASE pc = "save" /\ UNCHANGED vars
    <2>1. Loaded(task)' = l /\ mem' = mem /\ pc' = pc
      BY <1>13, SameLoaded DEF vars, files, process
    <2> QED
      BY <1>0, <1>5, <1>13, <2>1 DEF RoundShape
  <1>14. CASE pc' = "down"
    BY <1>14 DEF RoundShape
  <1>15. CASE ToolHangs \/ AskForTools \/ Collect \/ \E late \in BOOLEAN : StopRounds(late)
    BY <1>4, <1>15 DEF ToolHangs, AskForTools, Collect, StopRounds, process, files
  <1>16. CASE RetryRequest /\ pc = "think"
    BY <1>4, <1>16 DEF RetryRequest, files
  <1>17. CASE UNCHANGED vars
    BY <1>4, <1>11, <1>13, <1>14, <1>17 DEF vars, files, process, Trying
  <1> QED
    BY <1>2, <1>3, <1>7, <1>9, <1>10, <1>11, <1>12, <1>14, <1>15, <1>16, <1>17
       DEF Next, Progress, Environment, Think, Experiment, Finish, Reset, Kill, TearSave,
           TearArchive, ToolExits, DieInShouldStop, Pack, GoDown, BeginExperiment, Train, Infer,
           AnalysisFails, Analyse, RetryRequest, Asking, Trying

-----------------------------------------------------------------------------
(* The theorems. *)

LEMMA InvStep == Inv /\ [Next]_vars => Inv'
  BY TypeStep, ToolPhaseStep, DownStep, DirStep, FileStep, MemStep, ShapeStep, PackedStep DEF Inv

LEMMA Invariance == Spec => []Inv
  <1>1. Init => Inv
    BY InitInv
  <1>2. Inv /\ [Next]_vars => Inv'
    BY InvStep
  <1> QED
    BY <1>1, <1>2, PTL DEF Spec

\* Every variable keeps its type, for all tasks, scores and limits.
THEOREM ResearchTypeCorrect == Spec => []TypeOK
  <1>1. Inv => TypeOK
    BY DEF Inv
  <1> QED
    BY <1>1, Invariance, PTL

\* No training is counted twice in any memory, running or saved.
THEOREM CountsOnce == Spec => []TrainingCountsOnce
  <1>1. Inv => TrainingCountsOnce
    <2> SUFFICES ASSUME Inv, NEW m \in AllMemories PROVE CountedOnce(m)
      BY DEF TrainingCountsOnce
    <2>1. Indexed(m)
      BY DEF AllMemories, Inv, SoundMem, SoundFiles, Durable, Sound
    <2> QED
      BY <2>1, IndexedCountsOnce
  <1> QED
    BY <1>1, Invariance, PTL

\* The best experiment is the best, in any memory.
THEOREM KeepsTheBest == Spec => []BestScoreKept
  <1>1. Inv => BestScoreKept
    BY DEF Inv, BestScoreKept, AllMemories, SoundMem, SoundFiles, Durable, Sound
  <1> QED
    BY <1>1, Invariance, PTL

\* The running process is within its iterations.
LEMMA IterationsInRange == Inv => mem.iteration < LastIteration
  <1> SUFFICES ASSUME Inv PROVE mem.iteration < LastIteration
    OBVIOUS
  <1>1. CASE pc = "down"
    BY <1>1, ResearchAssumption DEF Inv, DownIsFresh, FreshMemory, LastIteration
  <1>2. CASE pc # "down" /\ pc # "experiment" /\ ~Trying
    BY <1>2 DEF Inv, RoundShape, Durable
  <1>3. CASE pc = "experiment" \/ Trying
    <2>1. /\ Loaded(task).iteration \in Nat /\ Loaded(task).iteration < MaxIterations
          /\ mem.iteration = Loaded(task).iteration + (IF Trying THEN attempt ELSE attempt - 1)
      BY <1>3 DEF Inv, RoundShape, Trying, Durable, Memories
    <2> QED
      BY <2>1, Facts DEF LastIteration
  <1> QED
    BY <1>1, <1>2, <1>3

\* The iterations are bounded in every life.
THEOREM KeepsBudget == Spec => []IterationBudget
  <1>1. Inv => IterationBudget
    <2> SUFFICES ASSUME Inv PROVE IterationBudget
      OBVIOUS
    <2>1. mem.iteration < LastIteration
      BY IterationsInRange
    <2> QED
      BY <2>1 DEF IterationBudget, AllMemories, Inv, SoundFiles, Durable, LastIteration
  <1> QED
    BY <1>1, Invariance, PTL

\* A kill loses one round at most.
THEOREM LosesOneRound == Spec => []LossIsOneRound
  <1>1. Inv => LossIsOneRound
    <2> SUFFICES ASSUME Inv, pc # "down"
                 PROVE  LET l == Loaded(task)
                        IN  /\ l # Torn /\ mem.iteration <= l.iteration + PhaseTries
                            /\ Ahead(mem, l, mem.iteration - l.iteration)
      BY DEF LossIsOneRound, Ahead
    <2> DEFINE l == Loaded(task)
    <2> USE Facts
    <2>1. Durable(l) /\ l # Torn /\ l.iteration \in Nat /\ Len(l.experiments) \in Nat
      BY ResearchAssumption DEF Inv, RoundShape, Durable, Memories
    <2>2. CASE pc = "experiment" \/ Trying
      <3>1. /\ mem.iteration = l.iteration + (IF Trying THEN attempt ELSE attempt - 1)
            /\ Extends(mem.experiments, l.experiments)
            /\ Len(mem.experiments) - Len(l.experiments) <= attempt - 1
        BY <2>2 DEF Inv, RoundShape, Trying, Ahead
      <3> DEFINE mi == mem.iteration
                 li == l.iteration
                 lm == Len(mem.experiments)
                 ll == Len(l.experiments)
      <3>2. /\ li \in Nat /\ lm \in Nat /\ ll \in Nat /\ attempt \in 1..PhaseTries
            /\ PhaseTries \in Nat /\ lm - ll <= attempt - 1
            /\ mi = li + (IF Trying THEN attempt ELSE attempt - 1)
        BY <2>1, <3>1 DEF Inv, TypeOK, Memories
      <3> HIDE DEF l, mi, li, lm, ll
      <3>3. mi <= li + PhaseTries /\ lm - ll <= mi - li
        BY <3>2
      <3> QED
        BY <2>1, <3>1, <3>3 DEF Ahead, l, mi, li, lm, ll
    <2>3. CASE pc = "save"
      BY <2>1, <2>3 DEF Inv, RoundShape
    <2>4. CASE pc # "experiment" /\ pc # "save" /\ ~Trying
      <3>1. mem = l
        BY <2>4 DEF Inv, RoundShape
      <3>2. mem.iteration - l.iteration = 0 /\ mem.iteration <= l.iteration + PhaseTries
        <4> DEFINE i == l.iteration
        <4>1. i \in Nat /\ PhaseTries \in Nat /\ mem.iteration = i
          BY <2>1, <3>1
        <4> HIDE DEF i
        <4>2. i - i = 0 /\ i <= i + PhaseTries
          BY <4>1
        <4> QED
          BY <4>1, <4>2 DEF i
      <3>3. Ahead(mem, l, 0)
        <4>1. \A i \in Nat : i - i = 0
          OBVIOUS
        <4>2. Len(mem.experiments) - Len(l.experiments) = 0
          <5> HIDE DEF l
          <5> QED
            BY <2>1, <3>1, <4>1
        <4> QED
          BY <3>1, <4>2 DEF Ahead, Extends
      <3> QED
        BY <2>1, <3>2, <3>3
    <2> QED
      BY <2>2, <2>3, <2>4
  <1> QED
    BY <1>1, Invariance, PTL

\* The archive can be assembled again.
THEOREM StaysComplete == Spec => []PackedStaysComplete
  <1>1. Inv => PackedStaysComplete
    BY DEF Inv
  <1> QED
    BY <1>1, Invariance, PTL

\* A saved history is only ever extended.
THEOREM OnlyGrows == Spec => HistoryOnlyGrows
  <1> DEFINE A == \A t \in Tasks :
                    saved[t] \notin {NoFile, Torn} /\ saved'[t] \notin {NoFile, Torn}
                      => Extends(saved'[t].experiments, saved[t].experiments)
  <1>1. Inv /\ [Next]_vars => [A]_vars
    <2> SUFFICES ASSUME Inv, [Next]_vars, NEW t \in Tasks,
                        saved[t] \notin {NoFile, Torn}, saved'[t] \notin {NoFile, Torn}
                 PROVE  Extends(saved'[t].experiments, saved[t].experiments)
      OBVIOUS
    <2>0. saved \in [Tasks -> Memories \union {NoFile, Torn}] /\ task \in Tasks
      BY DEF Inv, TypeOK
    <2>1. CASE saved'[t] = saved[t]
      BY <2>1 DEF Extends
    <2>2. CASE Save /\ t = task
      <3>1. saved'[t] = mem /\ Loaded(task) = saved[t]
        BY <2>0, <2>2 DEF Save, Loaded
      <3>2. Ahead(mem, Loaded(task), mem.iteration - Loaded(task).iteration)
        BY <2>2 DEF Save, Inv, RoundShape
      <3> QED
        BY <3>1, <3>2 DEF Ahead
    <2>3. CASE Save /\ t # task
      BY <2>0, <2>1, <2>3 DEF Save
    <2>4. CASE TearSave \/ \E u \in Tasks : Reset(u)
      BY <2>0, <2>1, <2>4 DEF TearSave, Reset
    <2> QED
      BY <2>1, <2>2, <2>3, <2>4
         DEF Next, Progress, Environment, Think, Experiment, Finish, Start, Kill,
             TearArchive, ToolExits, ToolHangs, StopRounds, DieInShouldStop, BeginRound,
             RetryRequest, Conclude, AskForTools, ToolsReturn, BeginExperiment, Train, Infer,
             AnalysisFails, Analyse, Collect, Pack, vars, files
  <1> QED
    BY <1>1, Invariance, PTL DEF HistoryOnlyGrows, Spec

\* A saved stop is final.
THEOREM StopsForGood == Spec => StopIsFinal
  <1> DEFINE A == \A t \in Tasks : dir'[t] # dir[t] =>
                    Loaded(t) # Torn /\ ~Loaded(t).stop /\ Loaded(t).iteration < MaxIterations
  <1>1. Inv /\ [Next]_vars => [A]_vars
    <2> SUFFICES ASSUME Inv, [Next]_vars, NEW t \in Tasks, dir'[t] # dir[t]
                 PROVE  Loaded(t) # Torn /\ ~Loaded(t).stop /\ Loaded(t).iteration < MaxIterations
      OBVIOUS
    <2>0. dir \in [Tasks -> [Iterations -> Dirs]]
      BY DEF Inv, TypeOK
    <2>1. CASE Trying /\ (dir' = dir \/ \E d : SetHere(d))
      <3>1. t = task
        BY <2>0, <2>1 DEF SetHere
      <3> QED
        BY <2>1, <3>1, ResearchAssumption DEF Inv, RoundShape, Trying, Durable
    <2>2. Train \/ Infer
      BY DEF Next, Progress, Environment, Think, Experiment, Finish, Start, Reset, Kill, TearSave,
             TearArchive, ToolExits, ToolHangs, StopRounds, DieInShouldStop, BeginRound,
             RetryRequest, Conclude, AskForTools, ToolsReturn, BeginExperiment, AnalysisFails,
             Analyse, Save, Collect, Pack, vars, files
    <2> QED
      BY <2>1, <2>2 DEF Train, Infer, Trying
  <1> QED
    BY <1>1, Invariance, PTL DEF StopIsFinal, Spec

-----------------------------------------------------------------------------
(* A run comes to an end.                                                  *)

\* The rounds and the tries stay below their limits.
Counted ==
  /\ tries < RequestTries
  /\ pc \in {"think", "tools"} => rounds < RoundLimit

LEMMA LimitType ==
  /\ RequestTries \in Nat \ {0} /\ ToolRounds \in Nat \ {0} /\ DesignRounds \in Nat \ {0}
  /\ RoundLimit \in Nat \ {0}
  BY ResearchAssumption DEF RoundLimit

LEMMA CountedStep == Inv /\ Counted /\ [Next]_vars => Counted'
  <1> SUFFICES ASSUME Inv, Counted, [Next]_vars PROVE Counted'
    OBVIOUS
  <1> USE LimitType DEF Counted, process
  <1>0. tries \in Nat /\ rounds \in Nat
    BY DEF Inv, TypeOK
  <1>1. CASE GoDown
    BY <1>1 DEF GoDown
  <1>2. CASE BeginRound
    <2>1. tries' = 0 /\ rounds' = 0 /\ mem' = mem
      BY <1>2 DEF BeginRound
    <2> QED
      BY <2>1 DEF RoundLimit
  <1>3. CASE RetryRequest
    BY <1>3 DEF RetryRequest, RoundLimit
  <1>4. CASE AskForTools
    BY <1>4 DEF AskForTools, RoundLimit
  <1>5. CASE ToolsReturn \/ Conclude
    <2>1. CASE EndPhase
      BY <2>1 DEF EndPhase
    <2>2. CASE ToolsReturn /\ ~EndPhase
      <3>1. /\ rounds + 1 # RoundLimit /\ rounds < RoundLimit /\ rounds' = rounds + 1
            /\ mem' = mem /\ tries' = tries
        BY <2>2 DEF ToolsReturn
      <3>2. RoundLimit' = RoundLimit
        BY <3>1 DEF RoundLimit
      <3> HIDE DEF Counted
      <3>3. rounds' < RoundLimit'
        BY <1>0, <3>1, <3>2
      <3> QED
        BY <3>1, <3>3 DEF Counted
    <2> QED
      BY <1>5, <2>1, <2>2 DEF Conclude
  <1>6. CASE \/ Experiment \/ Save \/ Collect \/ ToolHangs
             \/ \E t \in Tasks : Start(t) \/ Reset(t)
             \/ \E late \in BOOLEAN : StopRounds(late)
    <2>1. pc' \notin {"think", "tools"} /\ tries' \in {tries, 0}
      BY <1>6 DEF Experiment, BeginExperiment, Train, Infer, AnalysisFails, Analyse, AttemptFails,
                  Save, Collect, ToolHangs, Start, Reset, StopRounds
    <2> QED
      BY <2>1
  <1>7. CASE UNCHANGED vars
    BY <1>7 DEF vars, RoundLimit
  <1> QED
    BY <1>1, <1>2, <1>3, <1>4, <1>5, <1>6, <1>7
       DEF Next, Progress, Environment, Think, Finish, Kill, TearSave, TearArchive, ToolExits,
           DieInShouldStop, Pack

LEMMA CountedAlways == Spec => [](Inv /\ Counted)
  <1>1. Init => Counted
    BY LimitType DEF Init, Idle, Counted
  <1>2. Inv /\ Counted /\ [Next]_vars => Counted'
    BY CountedStep
  <1>3. Init => Inv
    BY InitInv
  <1>4. Inv /\ [Next]_vars => Inv'
    BY InvStep
  <1> QED
    BY <1>1, <1>2, <1>3, <1>4, PTL DEF Spec

\* Where the ranks of a step differ first.
LEMMA FirstPlace ==
  ASSUME NEW r, NEW s,
         \/ r[1] < s[1]
         \/ r[1] = s[1] /\ r[2] < s[2]
         \/ r[1] = s[1] /\ r[2] = s[2] /\ r[3] < s[3]
         \/ r[1] = s[1] /\ r[2] = s[2] /\ r[3] = s[3] /\ r[4] < s[4]
  PROVE  Below(r, s)
  <1>1. CASE r[1] < s[1]
    <2> SUFFICES \A j \in 1..(1 - 1) : r[j] = s[j]
      BY <1>1 DEF Below
    <2> QED
      BY <1>1
  <1>2. CASE r[1] = s[1] /\ r[2] < s[2]
    <2> SUFFICES \A j \in 1..(2 - 1) : r[j] = s[j]
      BY <1>2 DEF Below
    <2> QED
      BY <1>2
  <1>3. CASE r[1] = s[1] /\ r[2] = s[2] /\ r[3] < s[3]
    <2> SUFFICES \A j \in 1..(3 - 1) : r[j] = s[j]
      BY <1>3 DEF Below
    <2>1. \A j \in 1..(3 - 1) : j = 1 \/ j = 2
      OBVIOUS
    <2> QED
      BY <1>3, <2>1
  <1>4. CASE r[1] = s[1] /\ r[2] = s[2] /\ r[3] = s[3] /\ r[4] < s[4]
    <2> SUFFICES \A j \in 1..(4 - 1) : r[j] = s[j]
      BY <1>4 DEF Below
    <2>1. \A j \in 1..(4 - 1) : j = 1 \/ j = 2 \/ j = 3
      OBVIOUS
    <2> QED
      BY <1>4, <2>1
  <1> QED
    BY <1>1, <1>2, <1>3, <1>4

\* The stages of an iteration by the phase.
LEMMA StageType ==
  ASSUME Inv
  PROVE  /\ mem.phase \in Phases
         /\ Stage \in 0..8
         /\ pc \in {"save", "loop", "think", "tools"} =>
              Stage = [literature |-> 5, diagnosis |-> 4, design |-> 3, experiment |-> 2][mem.phase]
         /\ pc \in {"save", "loop", "think", "tools"} => Stage \in 2..5
  BY DEF Stage, Inv, TypeOK, Memories, Phases

LEMMA LeftType == Inv /\ Counted => (Going => RunLeft \in Nat \X Nat \X Nat \X Nat)
  <1> SUFFICES ASSUME Inv, Counted, Going PROVE RunLeft \in Nat \X Nat \X Nat \X Nat
    OBVIOUS
  <1>1. LastIteration - mem.iteration \in Nat
    BY IterationsInRange, Facts
  <1>2. Stage \in Nat
    BY StageType
  <1>3. RequestTries - tries \in Nat
    BY LimitType DEF Counted, Inv, TypeOK
  <1>4. RoundsLeft \in Nat
    <2>1. rounds \in Nat /\ RoundLimit \in Nat
      BY LimitType DEF Inv, TypeOK
    <2>2. CASE pc \in {"think", "tools"}
      <3>1. rounds < RoundLimit
        BY <2>2 DEF Counted
      <3>2. 2 * (RoundLimit - rounds) \in Nat /\ 2 * (RoundLimit - rounds) - 1 \in Nat
        BY <2>1, <3>1
      <3> QED
        BY <2>2, <3>2 DEF RoundsLeft
    <2>3. CASE pc \notin {"think", "tools"}
      BY <2>1, <2>3 DEF RoundsLeft
    <2> QED
      BY <2>2, <2>3
  <1> QED
    BY <1>1, <1>2, <1>3, <1>4 DEF RunLeft

\* A phase that ends makes place for the next.
LEMMA PhaseGoesDown ==
  ASSUME Inv, Inv', pc \in {"think", "tools"}, EndPhase
  PROVE  mem'.iteration = mem.iteration /\ Stage' < Stage
  <1>1. mem.phase \in {"literature", "diagnosis", "design"}
    BY DEF Inv, ToolPhase, TypeOK, Memories, Phases
  <1>2. mem'.iteration = mem.iteration /\ mem'.phase = NextPhase(mem.phase) /\ pc' = "save"
    BY DEF EndPhase, Inv, TypeOK, Memories
  <1>3. Stage' = [literature |-> 5, diagnosis |-> 4, design |-> 3, experiment |-> 2][mem'.phase]
    BY <1>2 DEF Stage
  <1> QED
    BY <1>1, <1>2, <1>3 DEF Stage, NextPhase

LEMMA LeftGoesDown ==
  ASSUME Inv, Inv', Counted, [Next]_vars, vars' # vars, Going, Going'
  PROVE  Below(RunLeft', RunLeft)
  <1> DEFINE i == mem.iteration
             Less(k) == CASE k = 1 -> LastIteration - mem'.iteration < LastIteration - i
                          [] k = 2 -> mem'.iteration = i /\ Stage' < Stage
                          [] k = 3 -> mem'.iteration = i /\ Stage' = Stage /\ RoundsLeft' < RoundsLeft
                          [] k = 4 -> /\ mem'.iteration = i /\ Stage' = Stage /\ RoundsLeft' = RoundsLeft
                                      /\ RequestTries - tries' < RequestTries - tries
  <1>0. ASSUME NEW k \in 1..4, Less(k) PROVE Below(RunLeft', RunLeft)
    <2>1. /\ RunLeft[1] = LastIteration - i /\ RunLeft[2] = Stage
          /\ RunLeft[3] = RoundsLeft /\ RunLeft[4] = RequestTries - tries
      BY DEF RunLeft
    <2>2. /\ RunLeft'[1] = LastIteration - mem'.iteration /\ RunLeft'[2] = Stage'
          /\ RunLeft'[3] = RoundsLeft' /\ RunLeft'[4] = RequestTries - tries'
      BY DEF RunLeft
    <2>3. k = 1 \/ k = 2 \/ k = 3 \/ k = 4
      OBVIOUS
    <2> QED
      BY <1>0, <2>1, <2>2, <2>3, FirstPlace
  <1>a. /\ i \in Nat /\ tries \in Nat /\ rounds \in Nat /\ LastIteration \in Nat
        /\ RequestTries \in Nat /\ RoundLimit \in Nat /\ Stage \in 0..8 /\ mem.phase \in Phases
    BY Facts, LimitType, StageType DEF Inv, TypeOK
  <1>1. ASSUME mem' = mem PROVE mem'.iteration = i /\ RoundLimit' = RoundLimit
    BY <1>1 DEF RoundLimit
  <1>2. CASE RetryRequest
    <2>1. mem' = mem /\ pc' = pc /\ rounds' = rounds /\ tries' = tries + 1
      BY <1>2 DEF RetryRequest
    <2>2. Stage' = Stage /\ RoundsLeft' = RoundsLeft
      BY <1>1, <2>1 DEF Stage, RoundsLeft
    <2>3. RequestTries - tries' < RequestTries - tries
      BY <1>a, <2>1
    <2>4. Less(4)
      BY <2>1, <2>2, <2>3
    <2> QED
      BY <1>0, <2>4
  <1>3. CASE Conclude \/ (ToolsReturn /\ EndPhase)
    <2>1. Less(2)
      BY <1>3, PhaseGoesDown DEF Conclude, ToolsReturn
    <2> QED
      BY <1>0, <2>1
  <1>4. CASE AskForTools \/ (ToolsReturn /\ ~EndPhase)
    <2>1. mem' = mem /\ pc \in {"think", "tools"} /\ pc' \in {"think", "tools"}
      BY <1>4 DEF AskForTools, ToolsReturn
    <2>2. Stage' = Stage
      BY <2>1 DEF Stage
    <2>3. RoundsLeft' < RoundsLeft
      <3>1. CASE pc = "think" /\ pc' = "tools" /\ rounds' = rounds
        <4>1. RoundsLeft = 2 * (RoundLimit - rounds) /\ RoundsLeft' = 2 * (RoundLimit - rounds) - 1
          BY <1>1, <2>1, <3>1 DEF RoundsLeft
        <4> QED
          BY <1>a, <4>1
      <3>2. CASE pc = "tools" /\ pc' = "think" /\ rounds' = rounds + 1
        <4>1. /\ RoundsLeft = 2 * (RoundLimit - rounds) - 1
              /\ RoundsLeft' = 2 * (RoundLimit - (rounds + 1))
          BY <1>1, <2>1, <3>2 DEF RoundsLeft
        <4> QED
          BY <1>a, <4>1
      <3> QED
        BY <1>4, <3>1, <3>2 DEF AskForTools, ToolsReturn
    <2>4. Less(3)
      BY <2>1, <2>2, <2>3
    <2> QED
      BY <1>0, <2>4
  <1>5. CASE Save \/ (BeginRound /\ pc' = "think")
    <2>1. /\ mem' = mem
          /\ \/ pc = "save" /\ pc' = "loop"
             \/ pc = "loop" /\ pc' = "think" /\ rounds' = 0
      BY <1>5 DEF Save, BeginRound, process
    <2>2. Stage' = Stage
      BY <2>1 DEF Stage
    <2>3. \/ RoundsLeft = 2 * RoundLimit + 2 /\ RoundsLeft' = 2 * RoundLimit + 1
          \/ RoundsLeft = 2 * RoundLimit + 1 /\ RoundsLeft' = 2 * (RoundLimit - 0)
      BY <1>1, <2>1 DEF RoundsLeft
    <2>4. RoundsLeft' < RoundsLeft
      BY <1>a, <2>3
    <2>5. Less(3)
      BY <2>1, <2>2, <2>4
    <2> QED
      BY <1>0, <2>5
  <1>6. CASE BeginExperiment
    <2>1. mem'.iteration = i + 1
      BY <1>6 DEF BeginExperiment, Inv, TypeOK, Memories
    <2>2. LastIteration - mem'.iteration < LastIteration - i
      BY <1>a, <2>1
    <2>3. Less(1)
      BY <2>2
    <2> QED
      BY <1>0, <2>3
  <1>7. ASSUME mem'.iteration = i,
               \/ pc = "train" /\ pc' = "infer"
               \/ pc = "infer" /\ pc' = "analyse"
               \/ pc = "analyse" /\ pc' \in {"save", "experiment"}
               \/ pc = "loop" /\ pc' \in {"collect", "experiment"}
               \/ pc = "collect" /\ pc' = "pack"
        PROVE  Below(RunLeft', RunLeft)
    <2>1. /\ pc = "loop" => Stage \in 2..5
          /\ pc' = "save" => Stage' \in 2..5
      <3>1. mem.phase \in Phases /\ mem'.phase \in Phases
        BY DEF Inv, TypeOK, Memories
      <3> QED
        BY <3>1 DEF Stage, Phases
    <2>2. Stage' < Stage
      BY <1>7, <2>1 DEF Stage
    <2>3. Less(2)
      BY <1>7, <2>2
    <2> QED
      BY <1>0, <2>3
  <1>8. CASE Train \/ Infer \/ Collect \/ \E late \in BOOLEAN : StopRounds(late)
    BY <1>7, <1>8 DEF Train, Infer, Collect, StopRounds, process
  <1>9. CASE BeginRound /\ pc' = "experiment"
    BY <1>7, <1>9 DEF BeginRound
  <1>10. CASE AnalysisFails
    <2>1. mem'.iteration = i /\ pc' \in {"save", "experiment"} /\ pc = "analyse"
      BY <1>10 DEF AnalysisFails, AttemptFails, Inv, TypeOK, Memories
    <2> QED
      BY <1>7, <2>1
  <1>11. ASSUME NEW d, Analyse(d) PROVE Below(RunLeft', RunLeft)
    <2> DEFINE a == AddExperiment(Decided(mem, d), RecordOf(d))
    <2>1. a \in Memories /\ a.iteration = i /\ pc = "analyse"
      BY <1>11, AnalysedType DEF Analyse
    <2>2. AttemptFails(a) \/ (pc' = "save" /\ mem' = a)
      BY <1>11 DEF Analyse
    <2> HIDE DEF a
    <2>3. mem'.iteration = i /\ pc' \in {"save", "experiment"}
      BY <2>1, <2>2 DEF AttemptFails, Memories
    <2> QED
      BY <1>7, <2>1, <2>3
  <1>12. CASE \/ GoDown \/ ToolHangs \/ \E t \in Tasks : Start(t) \/ Reset(t)
    BY <1>12 DEF GoDown, ToolHangs, Start, Reset, Going
  <1> QED
    BY <1>2, <1>3, <1>4, <1>5, <1>6, <1>8, <1>9, <1>10, <1>11, <1>12
       DEF Next, Progress, Environment, Think, Experiment, Finish, Kill, TearSave, TearArchive,
           ToolExits, DieInShouldStop, BeginRound, Pack

\* Every step of a run takes it nearer to its end, whatever the model answers and
\* the tools return.  What RunEnds adds, that a step is taken, TLC checks.
THEOREM FiniteRun == Spec => RunIsFinite
  <1>1. Inv /\ Counted => (Going => RunLeft \in Nat \X Nat \X Nat \X Nat)
    BY LeftType
  <1>2. Inv /\ Counted /\ Inv' /\ [Next]_vars =>
          [Going /\ Going' => Below(RunLeft', RunLeft)]_vars
    BY LeftGoesDown
  <1> QED
    BY <1>1, <1>2, CountedAlways, PTL DEF RunIsFinite, Spec

-----------------------------------------------------------------------------
(* Records and directories.                                                *)

\* MatchesDirs of given directories d, for the records after the first n.
Matches(m, d, n) ==
  \A k \in DOMAIN m.experiments :
    LET x == m.experiments[k].metrics
    IN  k > n /\ x # NoMetrics => x.by[2] \in Iterations /\ d[x.by[2]].metrics = x

\* Of n iterations, those that a memory has records of are in its order; the
\* ones without a record leave gaps.
Numbered(m, n) ==
  /\ Len(m.experiments) <= n
  /\ \A k \in DOMAIN m.experiments :
       LET x == m.experiments[k].metrics
       IN  x # NoMetrics => k <= x.by[2] /\ x.by[2] <= n - (Len(m.experiments) - k)

\* The iterations whose records are in.
Ended == IF Trying THEN mem.iteration - 1 ELSE mem.iteration

Kept(m, t, n) == Matches(m, dir[t], OldRecords(t)) /\ (OldRecords(t) = 0 => Numbered(m, n))

RecordsInv ==
  /\ pc # "down" => Kept(mem, task, Ended)
  /\ \A t \in Tasks : saved[t] \notin {NoFile, Torn} => Kept(saved[t], t, saved[t].iteration)

\* Records do not depend on the rest of the memory.
LEMMA KeptRecords ==
  ASSUME NEW m, NEW l, m.experiments = l.experiments
  PROVE  /\ \A d, n : Matches(l, d, n) => Matches(m, d, n)
         /\ \A n : Numbered(l, n) => Numbered(m, n)
  BY DEF Matches, Numbered

\* A training that writes another iteration's directory leaves the records alone.
LEMMA OtherDirKept ==
  ASSUME NEW m, NEW d, NEW c, NEW n, Matches(m, d, n), NEW i, NEW j \in Nat, UpTo(m, j), j < i,
         \A k \in Iterations : k # i => c[k].metrics = d[k].metrics
  PROVE  Matches(m, c, n)
  <1> SUFFICES ASSUME NEW k \in DOMAIN m.experiments, k > n, m.experiments[k].metrics # NoMetrics
               PROVE  LET x == m.experiments[k].metrics
                      IN  x.by[2] \in Iterations /\ c[x.by[2]].metrics = x
    BY DEF Matches
  <1> DEFINE b == m.experiments[k].metrics.by[2]
  <1>1. b \in Iterations /\ d[b].metrics = m.experiments[k].metrics /\ b <= j
    BY DEF Matches, UpTo
  <1>2. b # i
    <2> HIDE DEF b
    <2> QED
      BY <1>1, ResearchAssumption DEF Iterations, LastIteration
  <1> QED
    BY <1>1, <1>2

\* A record of the iteration that ends.
LEMMA RecordKept ==
  ASSUME NEW m \in Memories, NEW e \in Experiments, NEW a, a.experiments = Append(m.experiments, e),
         NEW i \in Nat, NEW d, NEW n, Matches(m, d, n),
         e.metrics # NoMetrics => e.metrics.by[2] = i /\ i \in Iterations /\ d[i].metrics = e.metrics
  PROVE  Matches(a, d, n) /\ (Numbered(m, i - 1) => Numbered(a, i))
  <1> DEFINE L == Len(m.experiments)
  <1>1. /\ m.experiments \in Seq(Experiments) /\ L \in Nat /\ Len(a.experiments) = L + 1
        /\ DOMAIN m.experiments = 1..L /\ DOMAIN a.experiments = 1..(L + 1)
        /\ a.experiments[L + 1] = e
        /\ \A k \in 1..L : a.experiments[k] = m.experiments[k]
    BY DEF Memories
  <1>2. \A k \in 1..(L + 1) : k \in 1..L \/ k = L + 1
    BY <1>1
  <1>3. Matches(a, d, n)
    BY <1>1, <1>2 DEF Matches
  <1>4. ASSUME Numbered(m, i - 1), NEW k \in 1..(L + 1), a.experiments[k].metrics # NoMetrics
        PROVE  LET b == a.experiments[k].metrics.by[2]
               IN  k <= b /\ b <= i - ((L + 1) - k)
    <2>1. CASE k = L + 1
      <3>1. a.experiments[k].metrics.by[2] = i
        BY <1>1, <1>4, <2>1
      <3>2. L <= i - 1
        BY <1>4 DEF Numbered
      <3> HIDE DEF L
      <3>3. k <= i /\ i <= i - ((L + 1) - k)
        BY <1>1, <2>1, <3>2
      <3> QED
        BY <3>1, <3>3
    <2>2. CASE k \in 1..L
      <3> DEFINE b == m.experiments[k].metrics.by[2]
      <3>1. k <= b /\ b <= (i - 1) - (L - k) /\ a.experiments[k].metrics.by[2] = b
        BY <1>1, <1>4, <2>2 DEF Numbered
      <3>2. b \in Nat
        <4>1. m.experiments[k] \in Experiments /\ m.experiments[k].metrics # NoMetrics
          BY <1>1, <1>4, <2>2
        <4> QED
          BY <4>1 DEF Experiments, Metrics, Trainings
      <3>3. k \in Nat /\ L \in Nat
        BY <1>1
      <3>4. b <= i - ((L + 1) - k)
        <4> HIDE DEF b, L
        <4> QED
          BY <3>1, <3>2, <3>3
      <3> QED
        BY <3>1, <3>4
    <2> QED
      BY <1>2, <2>1, <2>2
  <1>5. Numbered(m, i - 1) => L + 1 <= i
    <2>1. Numbered(m, i - 1) => L <= i - 1
      BY DEF Numbered
    <2> HIDE DEF L
    <2> QED
      BY <1>1, <2>1
  <1> QED
    BY <1>1, <1>3, <1>4, <1>5 DEF Numbered

\* An iteration that ends without a record.
LEMMA GapKept ==
  ASSUME NEW m \in Memories, NEW i \in Int, Numbered(m, i)
  PROVE  Numbered(m, i + 1)
  <1> DEFINE L == Len(m.experiments)
  <1>1. L \in Nat /\ L <= i /\ DOMAIN m.experiments = 1..L
    BY DEF Memories, Numbered
  <1>2. ASSUME NEW k \in 1..L, m.experiments[k].metrics # NoMetrics
        PROVE  LET b == m.experiments[k].metrics.by[2] IN k <= b /\ b <= (i + 1) - (L - k)
    <2> DEFINE b == m.experiments[k].metrics.by[2]
    <2>1. k <= b /\ b <= i - (L - k)
      BY <1>1, <1>2 DEF Numbered
    <2>2. b \in Nat
      <3>1. m.experiments[k] \in Experiments
        BY <1>1 DEF Memories
      <3> QED
        BY <1>2, <3>1 DEF Experiments, Metrics, Trainings
    <2>3. b <= (i + 1) - (L - k)
      <3> HIDE DEF b, L
      <3> QED
        BY <1>1, <2>1, <2>2
    <2> QED
      BY <2>1, <2>3
  <1>3. L <= i + 1
    BY <1>1
  <1> QED
    BY <1>1, <1>2, <1>3 DEF Numbered

\* The old file's own records are nobody's; nothing is lost of nothing.
LEMMA LoadedKept ==
  ASSUME Inv, RecordsInv, NEW t \in Tasks, Loaded(t) # Torn
  PROVE  Kept(Loaded(t), t, Loaded(t).iteration)
  <1>1. CASE saved[t] # NoFile
    BY <1>1 DEF Loaded, RecordsInv
  <1>2. CASE saved[t] = NoFile /\ legacy # NoFile /\ legacy.task = t
    <2>1. Loaded(t) = legacy.memory /\ Loaded(t) \in Memories
      BY <1>2, LoadedDurable DEF Loaded, Inv, Durable
    <2>2. OldRecords(t) = Len(Loaded(t).experiments)
      BY <1>2, <2>1 DEF OldRecords
    <2>3. /\ DOMAIN Loaded(t).experiments = 1..OldRecords(t) /\ OldRecords(t) \in Nat
          /\ Loaded(t).iteration \in Nat
      BY <2>1, <2>2 DEF Memories
    <2>4. Matches(Loaded(t), dir[t], OldRecords(t))
      BY <2>3 DEF Matches
    <2>5. OldRecords(t) = 0 => Numbered(Loaded(t), Loaded(t).iteration)
      BY <2>2, <2>3 DEF Numbered
    <2> QED
      BY <2>4, <2>5 DEF Kept
  <1>3. CASE saved[t] = NoFile /\ ~(legacy # NoFile /\ legacy.task = t)
    <2>1. Loaded(t) = FreshMemory
      BY <1>3 DEF Loaded
    <2>2. FreshMemory.experiments = << >> /\ FreshMemory.iteration = 0
      BY DEF FreshMemory
    <2> QED
      BY <2>1, <2>2 DEF Kept, Matches, Numbered
  <1> QED
    BY <1>1, <1>2, <1>3

\* An experiment is made in the directory of an iteration after those recorded.
LEMMA DirsKept ==
  ASSUME Inv, RecordsInv, Train \/ Infer
  PROVE  RecordsInv'
  <1>0. /\ Trying /\ Trying' /\ pc # "down" /\ pc' # "down"
        /\ UNCHANGED <<mem, task, saved, legacy>>
    BY DEF Train, Infer, Trying, process
  <1>1. /\ mem.iteration \in Iterations /\ task \in Tasks /\ mem.iteration \in Nat
        /\ dir \in [Tasks -> [Iterations -> Dirs]]
    BY <1>0, WorksHere, Facts DEF Inv, TypeOK
  <1>2. /\ \A t \in Tasks : t # task => dir'[t] = dir[t]
        /\ \A k \in Iterations : k # mem.iteration => dir'[task][k].metrics = dir[task][k].metrics
    <2>1. ASSUME NEW d, SetHere(d) PROVE <1>2!1 /\ <1>2!2
      BY <1>1, <2>1 DEF SetHere
    <2>2. dir' = dir \/ \E d : SetHere(d)
      BY DEF Train, Infer
    <2> QED
      BY <1>0, <2>1, <2>2
  <1>3. OldRecords(task)' = OldRecords(task) /\ \A t \in Tasks : OldRecords(t)' = OldRecords(t)
    BY <1>0 DEF OldRecords
  <1>4. Matches(mem, dir'[task], OldRecords(task))
    <2>1. UpTo(mem, mem.iteration - 1) /\ Matches(mem, dir[task], OldRecords(task))
      BY <1>0 DEF Inv, SoundMem, RecordsInv, Kept
    <2>2. mem.iteration - 1 \in Nat /\ mem.iteration - 1 < mem.iteration
      BY <1>1 DEF Iterations
    <2> QED
      BY <1>2, <2>1, <2>2, OtherDirKept
  <1>5. ASSUME NEW t \in Tasks, saved[t] \notin {NoFile, Torn}
        PROVE  Matches(saved[t], dir'[t], OldRecords(t))
    <2>1. CASE t # task
      BY <1>2, <1>5, <2>1 DEF RecordsInv, Kept
    <2>2. CASE t = task
      <3>1. /\ Durable(saved[t]) /\ saved[t].iteration \in Nat
            /\ mem.iteration = saved[t].iteration + attempt /\ attempt \in 1..PhaseTries
        BY <1>0, <1>5, <2>2, Facts DEF Inv, RoundShape, Loaded, Trying, Durable, Memories
      <3>2. UpTo(saved[t], saved[t].iteration) /\ saved[t].iteration < mem.iteration
        BY <3>1, Facts DEF Durable
      <3>3. Matches(saved[t], dir[task], OldRecords(t))
        BY <1>5, <2>2 DEF RecordsInv, Kept
      <3> QED
        BY <1>2, <2>2, <3>1, <3>2, <3>3, OtherDirKept
    <2> QED
      BY <2>1, <2>2
  <1>6. /\ Ended' = Ended
        /\ OldRecords(task) = 0 => Numbered(mem, Ended)
        /\ \A t \in Tasks : saved[t] \notin {NoFile, Torn} /\ OldRecords(t) = 0 =>
             Numbered(saved[t], saved[t].iteration)
    BY <1>0 DEF Ended, RecordsInv, Kept
  <1>7. Kept(mem, task, Ended)'
    BY <1>0, <1>3, <1>4, <1>6 DEF Kept, Matches, Numbered
  <1>8. ASSUME NEW t \in Tasks, saved'[t] \notin {NoFile, Torn}
        PROVE  Kept(saved[t], t, saved[t].iteration)'
    BY <1>0, <1>3, <1>5, <1>6, <1>8 DEF Kept, Matches, Numbered
  <1> QED
    BY <1>7, <1>8 DEF RecordsInv

\* What stays where it is.
LEMMA FilesKept ==
  ASSUME Inv, RecordsInv, UNCHANGED <<dir, legacy>>,
         \A t \in Tasks : saved'[t] \in {saved[t], NoFile, Torn},
         pc' # "down" => Kept(mem', task', Ended')
  PROVE  RecordsInv'
  <1>1. \A t : OldRecords(t)' = OldRecords(t)
    BY DEF OldRecords
  <1>2. ASSUME NEW t \in Tasks, saved'[t] \notin {NoFile, Torn}
        PROVE  /\ Matches(saved'[t], dir'[t], OldRecords(t))
               /\ OldRecords(t) = 0 => Numbered(saved'[t], saved'[t].iteration)
    BY <1>2 DEF RecordsInv, Kept
  <1>3. pc' # "down" => /\ Matches(mem', dir'[task'], OldRecords(task'))
                        /\ OldRecords(task') = 0 => Numbered(mem', Ended')
    BY DEF Kept
  <1> QED
    BY <1>1, <1>2, <1>3 DEF RecordsInv, Kept, Matches, Numbered

LEMMA RecordsStep == Inv /\ RecordsInv /\ [Next]_vars => RecordsInv'
  <1> SUFFICES ASSUME Inv, RecordsInv, [Next]_vars PROVE RecordsInv'
    OBVIOUS
  <1> USE Facts DEF process, files
  <1>0. saved \in [Tasks -> Memories \union {NoFile, Torn}] /\ TypeOK
    BY DEF Inv, TypeOK
  <1>1. CASE Train \/ Infer
    BY <1>1, DirsKept
  <1>2. CASE \/ Kill \/ TearSave \/ ToolExits \/ DieInShouldStop \/ Pack \/ TearArchive
             \/ \E t \in Tasks : Reset(t)
    <2>1. /\ UNCHANGED <<dir, legacy>> /\ pc' = "down"
          /\ \A t \in Tasks : saved'[t] \in {saved[t], NoFile, Torn}
      BY <1>0, <1>2 DEF Kill, TearSave, ToolExits, DieInShouldStop, Pack, TearArchive, Reset, GoDown
    <2> QED
      BY <2>1, FilesKept
  <1>3. ASSUME NEW t \in Tasks, Start(t) PROVE RecordsInv'
    <2>1. /\ Loaded(t) # Torn /\ mem' = Loaded(t) /\ task' = t /\ Ended' = mem'.iteration
          /\ UNCHANGED <<dir, legacy, saved>>
      BY <1>3 DEF Start, Ended, Trying
    <2>2. Kept(mem', task', Ended')
      BY <2>1, LoadedKept
    <2> QED
      BY <2>1, <2>2, FilesKept
  <1>4. ASSUME pc # "down", mem'.experiments = mem.experiments, Ended' = Ended,
               UNCHANGED <<task, dir, legacy, saved>>
        PROVE  RecordsInv'
    <2>1. Matches(mem, dir[task], OldRecords(task)) /\ (OldRecords(task) = 0 => Numbered(mem, Ended))
      BY <1>4 DEF RecordsInv, Kept
    <2>2. Kept(mem', task', Ended')
      BY <1>4, <2>1, KeptRecords DEF Kept
    <2> QED
      BY <1>4, <2>2, FilesKept
  <1>5. CASE \/ BeginRound \/ RetryRequest \/ AskForTools \/ ToolHangs \/ Collect
             \/ \E late \in BOOLEAN : StopRounds(late)
    <2>1. pc # "down" /\ (Trying' <=> Trying) /\ UNCHANGED <<mem, task, dir, legacy, saved>>
      BY <1>5 DEF BeginRound, RetryRequest, Asking, AskForTools, ToolHangs, Collect, StopRounds, Trying
    <2> QED
      BY <1>4, <2>1 DEF Ended
  <1>6. CASE Conclude \/ ToolsReturn
    <2>1. /\ pc # "down" /\ ~Trying' /\ ~Trying /\ UNCHANGED <<task, dir, legacy, saved>>
          /\ mem'.experiments = mem.experiments /\ mem'.iteration = mem.iteration
      BY <1>6 DEF Conclude, ToolsReturn, EndPhase, Memories, Trying
    <2> QED
      BY <1>4, <2>1 DEF Ended
  <1>7. CASE BeginExperiment
    <2>1. /\ pc # "down" /\ Trying' /\ ~Trying /\ UNCHANGED <<task, dir, legacy, saved>>
          /\ mem'.experiments = mem.experiments /\ mem'.iteration = mem.iteration + 1
      BY <1>7 DEF BeginExperiment, Memories, Trying
    <2>2. Ended' = Ended
      BY <2>1 DEF Ended
    <2> QED
      BY <1>4, <2>1, <2>2
  <1>8. CASE AnalysisFails
    <2>1. /\ pc # "down" /\ pc' # "down" /\ ~Trying' /\ Trying
          /\ UNCHANGED <<task, dir, legacy, saved>>
          /\ mem'.experiments = mem.experiments /\ mem'.iteration = mem.iteration
      BY <1>8 DEF AnalysisFails, AttemptFails, Memories, Trying
    <2>2. Ended' = mem.iteration /\ Ended = mem.iteration - 1 /\ mem.iteration = (mem.iteration - 1) + 1
      BY <2>1 DEF Ended
    <2>3. /\ Matches(mem, dir[task], OldRecords(task))
          /\ OldRecords(task) = 0 => Numbered(mem, mem.iteration)
      BY <2>1, <2>2, GapKept DEF RecordsInv, Kept
    <2>4. Kept(mem', task', Ended')
      BY <2>1, <2>2, <2>3, KeptRecords DEF Kept
    <2> QED
      BY <2>1, <2>4, FilesKept
  <1>9. ASSUME NEW d \in {"CONTINUE", "PIVOT", "STOP"}, Analyse(d) PROVE RecordsInv'
    <2> DEFINE e == RecordOf(d)
               a == AddExperiment(Decided(mem, d), e)
    <2>1. /\ Trying /\ ~Trying' /\ pc # "down" /\ pc' # "down"
          /\ UNCHANGED <<task, dir, legacy, saved>>
      BY <1>9 DEF Analyse, AttemptFails, Trying
    <2>2. /\ e \in Experiments /\ e.metrics = Here.metrics
          /\ e.metrics # NoMetrics => e.metrics.by[2] = mem.iteration
      BY <2>1, RecordType DEF RecordOf
    <2>3. a \in Memories /\ a.iteration = mem.iteration
      BY <1>9, AnalysedType DEF Analyse
    <2>4. a.experiments = Append(mem.experiments, e)
      <3>1. /\ Decided(mem, d) \in Memories /\ Decided(mem, d).experiments = mem.experiments
        BY DEF Decided, Memories, Phases
      <3> QED
        BY <3>1 DEF AddExperiment, Memories
    <2>5. mem'.experiments = a.experiments /\ mem'.iteration = mem.iteration
      <3> HIDE DEF a
      <3> QED
        BY <1>9, <2>3 DEF Analyse, AttemptFails, Memories, a
    <2>6. mem.iteration \in Iterations /\ dir[task][mem.iteration].metrics = e.metrics
      BY <2>1, <2>2, WorksHere DEF Here
    <2>7. /\ Matches(mem, dir[task], OldRecords(task))
          /\ OldRecords(task) = 0 => Numbered(mem, mem.iteration - 1)
      BY <2>1 DEF RecordsInv, Kept, Ended
    <2> HIDE DEF e, a
    <2>8. /\ Matches(a, dir[task], OldRecords(task))
          /\ Numbered(mem, mem.iteration - 1) => Numbered(a, mem.iteration)
      BY <2>2, <2>4, <2>6, <2>7, RecordKept
    <2>9. Ended' = mem.iteration
      BY <2>1, <2>5 DEF Ended
    <2>10. Kept(mem', task', Ended')
      BY <2>1, <2>5, <2>7, <2>8, <2>9, KeptRecords DEF Kept
    <2> QED
      BY <2>1, <2>10, FilesKept
  <1>10. CASE Save
    <2>1. /\ pc # "down" /\ Ended = mem.iteration /\ Ended' = mem.iteration
          /\ UNCHANGED <<mem, task, dir, legacy>> /\ saved' = [saved EXCEPT ![task] = mem]
      BY <1>10 DEF Save, Ended, Trying
    <2>2. \A t : OldRecords(t)' = OldRecords(t)
      BY <2>1 DEF OldRecords
    <2>3. /\ Matches(mem, dir[task], OldRecords(task))
          /\ OldRecords(task) = 0 => Numbered(mem, mem.iteration)
      BY <2>1 DEF RecordsInv, Kept
    <2>4. ASSUME NEW t \in Tasks, saved'[t] \notin {NoFile, Torn}
          PROVE  /\ Matches(saved'[t], dir'[t], OldRecords(t))
                 /\ OldRecords(t) = 0 => Numbered(saved'[t], saved'[t].iteration)
      <3>1. CASE t = task
        BY <1>0, <2>1, <2>3, <3>1
      <3>2. CASE t # task
        BY <1>0, <2>1, <2>4, <3>2 DEF RecordsInv, Kept
      <3> QED
        BY <3>1, <3>2
    <2> QED
      BY <2>1, <2>2, <2>3, <2>4 DEF RecordsInv, Kept, Matches, Numbered
  <1>11. CASE UNCHANGED vars
    <2>1. Ended' = Ended /\ UNCHANGED <<mem, pc, task, dir, legacy, saved>>
      BY <1>11 DEF vars, Ended, Trying
    <2>2. pc # "down" => Kept(mem', task', Ended')
      BY <2>1 DEF RecordsInv
    <2> QED
      BY <2>1, <2>2, FilesKept
  <1> QED
    BY <1>1, <1>2, <1>3, <1>5, <1>6, <1>7, <1>8, <1>9, <1>10, <1>11
       DEF Next, Progress, Environment, Think, Experiment, Finish

LEMMA RecordsAlways == Spec => [](Inv /\ RecordsInv)
  <1>1. Init => RecordsInv
    BY DEF Init, RecordsInv
  <1>2. Inv /\ RecordsInv /\ [Next]_vars => RecordsInv'
    BY RecordsStep
  <1>3. Init => Inv
    BY InitInv
  <1>4. Inv /\ [Next]_vars => Inv'
    BY InvStep
  <1> QED
    BY <1>1, <1>2, <1>3, <1>4, PTL DEF Spec

\* The directories keep what the records were made of, through kills, lost
\* rounds and deleted memories.
THEOREM MatchesItsDirs == Spec => []RecordsMatchDirs
  <1>1. RecordsInv => RecordsMatchDirs
    BY DEF RecordsInv, Kept, Matches, RecordsMatchDirs, MatchesDirs
  <1> QED
    BY <1>1, RecordsAlways, PTL

\* Where the best experiment's own prediction is collected.
LEMMA OwnNumber == Inv /\ RecordsInv => CollectsItsOwnNumber
  <1> SUFFICES ASSUME Inv, RecordsInv, pc = "collect", PredFound, mem.best > OldRecords(task),
                      BestMetrics(mem) # NoMetrics
               PROVE  dir[task][mem.best].metrics = BestMetrics(mem)
                        <=> BestMetrics(mem).by[2] = mem.best
    BY DEF CollectsItsOwnNumber
  <1>1. mem.best # 0 /\ BestMetrics(mem) = mem.experiments[mem.best].metrics
    BY DEF BestMetrics
  <1>2. mem.best \in DOMAIN mem.experiments
    BY <1>1, Facts DEF Inv, SoundMem, Sound, BestIsBest, Memories
  <1>3. mem.best \in Iterations
    BY <1>1 DEF PredFound, BestDir
  <1>4. dir[task][BestMetrics(mem).by[2]].metrics = BestMetrics(mem)
    BY <1>1, <1>2 DEF RecordsInv, Kept, Matches
  <1>5. dir[task][mem.best].metrics = BestMetrics(mem) => BestMetrics(mem).by[2] = mem.best
    BY <1>3, Facts DEF Inv, DirIndexed
  <1> QED
    BY <1>4, <1>5

\* What is collected for the best experiment is its own exactly if its place
\* among the records is the number of its iteration.
THEOREM OwnNumberCollected == Spec => []CollectsItsOwnNumber
  BY OwnNumber, RecordsAlways, PTL

\* The docstring's promise, which fails in general, holds of every run in which
\* each iteration left a record.
THEOREM BestIfNoneLost == Spec => []SubmitsTheBestIfNoneLost
  <1>1. Inv /\ RecordsInv => SubmitsTheBestIfNoneLost
    <2> SUFFICES ASSUME Inv, RecordsInv, pc = "collect", PredFound, mem.best # 0,
                        BestMetrics(mem) # NoMetrics, OldRecords(task) = 0,
                        Len(mem.experiments) = mem.iteration
                 PROVE  dir[task][BestDir(mem)].metrics = BestMetrics(mem)
      BY DEF SubmitsTheBestIfNoneLost
    <2>1. /\ BestMetrics(mem) = mem.experiments[mem.best].metrics /\ BestDir(mem) = mem.best
          /\ mem.best \in DOMAIN mem.experiments /\ mem.best \in Nat /\ mem.iteration \in Nat
      BY Facts DEF BestMetrics, BestDir, Inv, SoundMem, Sound, BestIsBest, Memories
    <2> DEFINE b == BestMetrics(mem).by[2]
    <2>2. mem.best <= b /\ b <= mem.iteration - (mem.iteration - mem.best)
      BY <2>1 DEF RecordsInv, Kept, Numbered, Ended, Trying
    <2>3. b \in Nat
      <3>1. mem.experiments[mem.best] \in Experiments
        BY <2>1, Facts DEF Memories
      <3> QED
        BY <2>1, <3>1 DEF Experiments, Metrics, Trainings
    <2>4. b = mem.best
      <3> HIDE DEF b
      <3> QED
        BY <2>1, <2>2, <2>3
    <2>5. mem.best > OldRecords(task)
      BY <2>1
    <2> QED
      BY <2>1, <2>4, <2>5, OwnNumber DEF CollectsItsOwnNumber
  <1> QED
    BY <1>1, RecordsAlways, PTL

=============================================================================
