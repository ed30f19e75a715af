---------------------------- MODULE Outcome_proofs ---------------------------
(* What a build comes to, for every task graph, every order of events and any number *)
(* of threads: the count of active tasks, the inputs of what is built, the end of the *)
(* build and its outcome, and the sanity check on covered tasks.                      *)
EXTENDS RunQueue_proofs

-----------------------------------------------------------------------------
(* The count of active tasks and the thread limit, without BB_SETSCENE_ENFORCE: a *)
(* refused task is taken off a count it was never added to.                       *)

NeverEnforced == \A o \in Options : "enforce" \notin o

\* After finish_now nothing runs, and no call that could start something is under way.
StoppedForGood ==
  shutdown = "force" =>
    task_procs = {} /\ sq_procs = {} /\ pc \in {"loop", "teardown", "end"}

\* The count is that of the exit codes outstanding.
Counted ==
  shutdown # "force" =>
    /\ active = Cardinality(BusyTasks)
    /\ active + Cardinality(sq_live) <= NumberTasks

CountInv == StoppedForGood /\ Counted

LEMMA FiniteCounts ==
  ASSUME OrderInv
  PROVE  /\ IsFiniteSet(BusyTasks) /\ Cardinality(BusyTasks) \in Nat
         /\ IsFiniteSet(sq_live) /\ Cardinality(sq_live) \in Nat
         /\ ActiveFloor \in Int /\ ActiveFloor <= 0 /\ active \in Int /\ NumberTasks \in Nat
<1>1. BusyTasks \subseteq Tasks /\ sq_live \subseteq Tasks
  BY GraphAssumption DEF OrderInv, TypeOK, Started
<1>2. IsFiniteSet(BusyTasks) /\ IsFiniteSet(sq_live)
  BY <1>1, GraphAssumption, FS_Subset
<1>3. Cardinality(Tasks) \in Nat  BY GraphAssumption, FS_CardinalityType
<1>4. ActiveFloor \in Int /\ ActiveFloor <= 0  BY <1>3 DEF ActiveFloor
<1>5. active \in Int /\ NumberTasks \in Nat  BY QueueAssumption DEF OrderInv, TypeOK
<1>6. QED  BY <1>2, <1>4, <1>5, FS_CardinalityType

\* An exit code read is the only one that goes.
LEMMA TailKeepsTheOthers ==
  ASSUME NEW p \in Seq(Exits), p # <<>>
  PROVE  TaskExitsOf(p) \subseteq
           TaskExitsOf(Tail(p)) \cup (IF Head(p).setscene THEN {} ELSE {Head(p).tid})
<1> SUFFICES ASSUME NEW i \in DOMAIN p, ~p[i].setscene
             PROVE  p[i].tid \in TaskExitsOf(Tail(p))
                               \cup (IF Head(p).setscene THEN {} ELSE {Head(p).tid})
  BY DEF TaskExitsOf
<1>1. Head(p) = p[1]  BY HeadTailProperties
<1>2. CASE i = 1  BY <1>1, <1>2
<1>3. CASE i # 1
  <2>1. i - 1 \in DOMAIN Tail(p) /\ Tail(p)[i - 1] = p[i]
    BY <1>3
  <2>2. QED  BY <2>1 DEF TaskExitsOf
<1>4. QED  BY <1>2, <1>3

\* A task that ends is busy until its exit code is read.
LEMMA ExitingStaysBusy ==
  ASSUME TypeOK, WorkerStep
  PROVE  BusyTasks' = BusyTasks
<1>1. ASSUME NEW t \in Tasks, TaskExits(t) PROVE BusyTasks' = BusyTasks
  <2>1. PICK ok \in BOOLEAN :
          pipe' = Append(pipe, [tid |-> t, setscene |-> FALSE, ok |-> ok])
    BY <1>1 DEF TaskExits
  <2>2. [tid |-> t, setscene |-> FALSE, ok |-> ok] \in Exits  BY Zenon DEF Exits
  <2>3. TaskExitsOf(pipe') = TaskExitsOf(pipe) \cup {t}
    BY <2>1, <2>2, AppendExits DEF TypeOK
  <2>4. task_procs' = task_procs \ {t} /\ t \in task_procs  BY <1>1 DEF TaskExits
  <2>5. QED  BY <2>3, <2>4, Busy, BusyAfter
<1>2. ASSUME NEW t \in SetsceneTids, SetsceneExits(t) PROVE BusyTasks' = BusyTasks
  <2>1. PICK ok \in BOOLEAN :
          pipe' = Append(pipe, [tid |-> t, setscene |-> TRUE, ok |-> ok])
    BY <1>2 DEF SetsceneExits
  <2>2. [tid |-> t, setscene |-> TRUE, ok |-> ok] \in Exits
    BY GraphAssumption, Zenon DEF Exits
  <2>3. TaskExitsOf(pipe') = TaskExitsOf(pipe)
    BY <2>1, <2>2, AppendExits DEF TypeOK
  <2>4. task_procs' = task_procs  BY <1>2 DEF SetsceneExits
  <2>5. QED  BY <2>3, <2>4, Busy, BusyAfter
<1>3. QED  BY <1>1, <1>2 DEF WorkerStep

LEMMA WorkerCounted ==
  ASSUME OrderInv, CountInv, WorkerStep
  PROVE  CountInv'
<1>1. UNCHANGED <<control, active, sq_live>> /\ BusyTasks' = BusyTasks
  BY ExitingStaysBusy DEF OrderInv, WorkerStep, TaskExits, SetsceneExits, taskVars
<1>2. task_procs' \subseteq task_procs /\ sq_procs' \subseteq sq_procs
  BY DEF WorkerStep, TaskExits, SetsceneExits
<1>3. QED  BY <1>1, <1>2 DEF CountInv, StoppedForGood, Counted, control

\* Reading an exit code: a setscene task ends, or a busy task is busy no more.
LEMMA ReadFrees ==
  ASSUME OrderInv, OnceInv, ReadExit
  PROVE  LET t == Head(pipe).tid
         IN  \/ /\ SetsceneExitRead(t, Head(pipe).ok)
                /\ t \in sq_live /\ BusyTasks' = BusyTasks
             \/ /\ TaskExitRead(t, Head(pipe).ok)
                /\ t \in BusyTasks /\ BusyTasks' = BusyTasks \ {t}
<1> DEFINE x == Head(pipe)
           t == x.tid
<1>1. pipe \in Seq(Exits) /\ pipe # <<>> /\ pipe' = Tail(pipe) /\ UNCHANGED task_procs
  BY DEF OrderInv, TypeOK, ReadExit
<1>2. /\ TaskExitsOf(pipe') \subseteq TaskExitsOf(pipe)
      /\ TaskExitsOf(pipe) \subseteq TaskExitsOf(pipe') \cup (IF x.setscene THEN {} ELSE {t})
      /\ x.setscene => t \in SetsceneExitsOf(pipe)
      /\ ~x.setscene => t \in TaskExitsOf(pipe) /\ t \notin TaskExitsOf(pipe')
  BY <1>1, TailExits, TailTaskExit, TailKeepsTheOthers DEF OnceInv, BusyOnce
<1>3. CASE SetsceneExitRead(t, x.ok)
  <2>1. t \in sq_live  BY <1>3 DEF SetsceneExitRead
  <2>2. x.setscene
    <3>1. sq_live \cap BusyTasks = {}  BY DEF OrderInv, TypeOK, FateOpen, Apart
    <3>2. QED  BY <1>2, <2>1, <3>1, Busy
  <2>3. BusyTasks' = BusyTasks  BY <1>1, <1>2, <2>2, Busy, BusyAfter
  <2>4. QED  BY <1>3, <2>1, <2>3
<1>4. CASE TaskExitRead(t, x.ok)
  <2>1. t \notin sq_live  BY <1>4 DEF TaskExitRead
  <2>2. ~x.setscene  BY <1>2, <2>1 DEF OrderInv, Delivered
  <2>3. t \in BusyTasks /\ BusyTasks' = BusyTasks \ {t}
    BY <1>1, <1>2, <2>2, Busy, BusyAfter DEF OnceInv, BusyOnce
  <2>4. QED  BY <1>4, <2>3
<1>5. QED  BY <1>3, <1>4 DEF ReadExit

LEMMA ReadCounted ==
  ASSUME OrderInv, OnceInv, CountInv, ReadExit
  PROVE  CountInv'
<1> DEFINE x == Head(pipe)
           t == x.tid
<1>1. UNCHANGED <<pc, shutdown, task_procs, sq_procs>>  BY DEF ReadExit
<1>2. StoppedForGood'  BY <1>1 DEF CountInv, StoppedForGood
<1>3. SUFFICES ASSUME shutdown # "force" PROVE Counted'
  BY <1>1, <1>2 DEF CountInv, Counted
<1>4. active = Cardinality(BusyTasks) /\ active + Cardinality(sq_live) <= NumberTasks
  BY <1>3 DEF CountInv, Counted
<1>5. CASE SetsceneExitRead(t, x.ok) /\ t \in sq_live /\ BusyTasks' = BusyTasks
  <2>1. sq_live' = sq_live \ {t} /\ active' = active
    BY <1>5 DEF SetsceneExitRead, taskVars
  <2>2. Cardinality(sq_live') = Cardinality(sq_live) - 1
    BY <1>5, <2>1, FiniteCounts, FS_RemoveElement
  <2>3. QED  BY <1>4, <1>5, <2>1, <2>2, FiniteCounts DEF Counted
<1>6. CASE TaskExitRead(t, x.ok) /\ t \in BusyTasks /\ BusyTasks' = BusyTasks \ {t}
  <2>1. sq_live' = sq_live /\ active' = OneLess(active)  BY <1>6 DEF TaskExitRead
  <2>2. Cardinality(BusyTasks') = Cardinality(BusyTasks) - 1 /\ Cardinality(BusyTasks') \in Nat
    <3>1. IsFiniteSet(BusyTasks')  BY <1>6, FiniteCounts, FS_RemoveElement
    <3>2. QED  BY <1>6, <3>1, FiniteCounts, FS_RemoveElement, FS_CardinalityType
  <2>3. active' = active - 1
    <3>1. active > 0  BY <1>4, <2>2, FiniteCounts
    <3>2. QED  BY <2>1, <3>1, FiniteCounts DEF OneLess
  <2>4. QED  BY <1>4, <2>1, <2>2, <2>3, FiniteCounts DEF Counted
<1>7. QED  BY <1>5, <1>6, ReadFrees

\* A step inside a call in which the count and what it counts do not grow.
LEMMA CallCounted ==
  ASSUME CountInv, pc \notin {"loop", "teardown", "end"}, shutdown' = shutdown,
         shutdown # "force" /\ Counted => Counted'
  PROVE  CountInv'
BY DEF CountInv, StoppedForGood

LEMMA SetsceneCounted ==
  ASSUME OrderInv, CountInv, NextSetscene
  PROVE  CountInv'
<1>1. /\ pc = "setscene" /\ CanStartTask /\ UNCHANGED <<shutdown, active, task_procs, pipe>>
  BY DEF NextSetscene, taskVars
<1>2. BusyTasks' = BusyTasks  BY <1>1, Busy, BusyAfter
<1>3. ASSUME shutdown # "force", Counted PROVE Counted'
  <2>1. PICK t \in SetsceneCandidates :
          sq_live' = sq_live \/ sq_live' = sq_live \cup {t}
    BY DEF NextSetscene, SkipSetsceneTask, AwaitHardDeps, FailOutright, StartSetscene,
           SendSetsceneFails
  <2>2. Cardinality(sq_live') <= Cardinality(sq_live) + 1 /\ Cardinality(sq_live') \in Nat
    <3>1. CASE sq_live' = sq_live  BY <3>1, FiniteCounts
    <3>2. CASE sq_live' = sq_live \cup {t}
      <4>1. /\ IsFiniteSet(sq_live \cup {t})
            /\ Cardinality(sq_live \cup {t}) =
                 IF t \in sq_live THEN Cardinality(sq_live) ELSE Cardinality(sq_live) + 1
        BY FiniteCounts, FS_AddElement
      <4>2. QED  BY <3>2, <4>1, FiniteCounts
    <3>3. QED  BY <2>1, <3>1, <3>2
  <2>3. QED
    BY <1>1, <1>2, <1>3, <2>2, FiniteCounts DEF Counted, CanStartTask
<1>4. QED  BY <1>1, <1>3, CallCounted

LEMMA HoldoffCounted ==
  ASSUME CountInv, Holdoff
  PROVE  CountInv'
<1>1. pc = "holdoff" /\ UNCHANGED <<shutdown, active, sq_live, task_procs, pipe>>
  BY DEF Holdoff, procVars
<1>2. BusyTasks' = BusyTasks  BY <1>1, Busy, BusyAfter
<1>3. QED  BY <1>1, <1>2, CallCounted DEF Counted

LEMMA TaskCounted ==
  ASSUME NeverEnforced, OrderInv, CountInv, NextTask
  PROVE  CountInv'
<1>1. PICK t \in ReadyTasks :
        RefuseTask(t) \/ SkipTask(t) \/ RunNoexecTask(t) \/ StartTask(t) \/ SendTaskFails(t)
  BY DEF NextTask
<1>2. pc = "task" /\ CanStartTask /\ UNCHANGED <<shutdown, sq_live, pipe>>
  BY DEF NextTask
<1>3. ~Refused(t)
  BY DEF NeverEnforced, OrderInv, TypeOK, Refused, SetsceneEnforce
<1>4. CASE StartTask(t)
  <2>1. active' = active + 1 /\ task_procs' = task_procs \cup {t}  BY <1>4 DEF StartTask
  <2>2. BusyTasks' = BusyTasks \cup {t}  BY <1>2, <2>1, Busy, BusyAfter
  <2>3. t \notin BusyTasks  BY DEF ReadyTasks, OrderInv, Started
  <2>4. Cardinality(BusyTasks') = Cardinality(BusyTasks) + 1
    BY <2>2, <2>3, FiniteCounts, FS_AddElement
  <2>5. shutdown # "force" /\ Counted => Counted'
    BY <1>2, <2>1, <2>4, FiniteCounts DEF Counted, CanStartTask
  <2>6. QED  BY <1>2, <2>5, CallCounted
<1>5. CASE SkipTask(t) \/ RunNoexecTask(t) \/ SendTaskFails(t)
  <2>1. UNCHANGED <<active, task_procs>>
    BY <1>5 DEF SkipTask, RunNoexecTask, SendTaskFails, taskVars
  <2>2. BusyTasks' = BusyTasks  BY <1>2, <2>1, Busy, BusyAfter
  <2>3. QED  BY <1>2, <2>1, <2>2, CallCounted DEF Counted
<1>6. QED  BY <1>1, <1>3, <1>4, <1>5 DEF RefuseTask

LEMMA ControlCounted ==
  ASSUME CountInv,
         \/ EndRead \/ NoSetscene \/ NoTask \/ WaitForWorkers \/ Conclude \/ BeginCall
         \/ CleanUp \/ StopAgain \/ Teardown \/ StopGracefully \/ StopNow \/ ForceDeferred
         \/ WorkerDies \/ UNCHANGED vars
  PROVE  CountInv'
<1>1. CASE StopNow  BY <1>1 DEF StopNow, CountInv, StoppedForGood, Counted
<1>2. CASE \/ EndRead \/ NoSetscene \/ NoTask \/ WaitForWorkers \/ Conclude \/ BeginCall
           \/ CleanUp \/ StopAgain \/ Teardown \/ StopGracefully \/ ForceDeferred
           \/ WorkerDies \/ UNCHANGED vars
  <2>1. UNCHANGED <<active, sq_live, task_procs, sq_procs, pipe>>
    BY <1>2 DEF EndRead, NoSetscene, NoTask, WaitForWorkers, Conclude, BeginCall, CleanUp,
                StopAgain, Teardown, StopGracefully, ForceDeferred, WorkerDies, vars,
                taskVars, procVars
  <2>2. BusyTasks' = BusyTasks  BY <2>1, Busy, BusyAfter
  <2>3. shutdown' = shutdown \/ (shutdown = "no" /\ shutdown' = "graceful")
    BY <1>2 DEF EndRead, NoSetscene, NoTask, WaitForWorkers, Conclude, BeginCall, CleanUp,
                StopAgain, Teardown, StopGracefully, ForceDeferred, WorkerDies, vars, control
  <2>4. Counted'  BY <2>1, <2>2, <2>3 DEF CountInv, Counted
  <2>5. ASSUME shutdown = "force", pc \in {"loop", "teardown", "end"}
        PROVE  pc' \in {"loop", "teardown", "end"}
    <3>1. CASE EndRead  BY <2>5, <3>1, Zenon DEF EndRead
    <3>2. CASE BeginCall \/ CleanUp \/ StopGracefully
      BY <2>5, <3>2 DEF BeginCall, CleanUp, StopGracefully
    <3>3. CASE NoSetscene \/ NoTask \/ WaitForWorkers \/ Conclude \/ ForceDeferred
      BY <2>5, <3>3 DEF NoSetscene, NoTask, WaitForWorkers, Conclude, ForceDeferred, Quiet
    <3>4. CASE StopAgain \/ Teardown \/ WorkerDies \/ UNCHANGED vars
      BY <2>5, <3>4 DEF StopAgain, Teardown, WorkerDies, vars, control
    <3>5. QED  BY <1>2, <3>1, <3>2, <3>3, <3>4
  <2>6. StoppedForGood'  BY <2>1, <2>3, <2>5 DEF CountInv, StoppedForGood
  <2>7. QED  BY <2>4, <2>6 DEF CountInv
<1>3. QED  BY <1>1, <1>2

LEMMA InitCounted == ASSUME Init PROVE CountInv
<1>1. /\ shutdown = "no" /\ active = 0 /\ sq_live = {} /\ task_procs = {} /\ pipe = <<>>
  BY Zenon DEF Init
<1>2. BusyTasks = {}  BY <1>1 DEF BusyTasks
<1>3. QED  BY <1>1, <1>2, QueueAssumption, FS_EmptySet DEF CountInv, StoppedForGood, Counted

LEMMA CountMeansLimit ==
  ASSUME OrderInv, CountInv
  PROVE  ThreadLimit
<1>1. CASE shutdown = "force"
  BY <1>1, FiniteCounts, FS_EmptySet DEF CountInv, StoppedForGood, ThreadLimit
<1>2. CASE shutdown # "force"
  <2>1. task_procs \subseteq BusyTasks /\ sq_procs \subseteq sq_live
    BY Busy DEF OrderInv, Delivered
  <2>2. /\ Cardinality(task_procs) \in Nat /\ Cardinality(sq_procs) \in Nat
        /\ Cardinality(task_procs) <= Cardinality(BusyTasks)
        /\ Cardinality(sq_procs) <= Cardinality(sq_live)
    BY <2>1, FiniteCounts, FS_Subset, FS_CardinalityType
  <2>3. QED  BY <1>2, <2>2, FiniteCounts DEF CountInv, Counted, ThreadLimit
<1>3. QED  BY <1>1, <1>2

LEMMA CountStep ==
  ASSUME NeverEnforced, OrderInv, OnceInv, CountInv, [Next]_vars
  PROVE  CountInv'
<1>1. CASE WorkerStep  BY <1>1, WorkerCounted
<1>2. CASE ReadExit  BY <1>2, ReadCounted
<1>3. CASE NextSetscene  BY <1>3, SetsceneCounted
<1>4. CASE Holdoff  BY <1>4, HoldoffCounted
<1>5. CASE NextTask  BY <1>5, TaskCounted
<1>6. CASE \/ EndRead \/ NoSetscene \/ NoTask \/ WaitForWorkers \/ Conclude \/ BeginCall
           \/ CleanUp \/ StopAgain \/ Teardown \/ StopGracefully \/ StopNow \/ ForceDeferred
           \/ WorkerDies \/ UNCHANGED vars
  BY <1>6, ControlCounted
<1>7. QED
  BY <1>1, <1>2, <1>3, <1>4, <1>5, <1>6 DEF Next, ServerStep, Terminated

\* Without BB_SETSCENE_ENFORCE stats.active counts the exit codes outstanding, and no
\* more than BB_NUMBER_THREADS tasks run.
THEOREM ThreadsLimited ==
  ASSUME NeverEnforced
  PROVE  Spec => []ThreadLimit
<1>1. OrderInv /\ OnceInv /\ CountInv /\ [Next]_vars => CountInv'  BY CountStep
<1>2. OrderInv /\ OnceInv /\ [Next]_vars => OnceInv'  BY OnceStep
<1>3. Init => OnceInv /\ CountInv  BY InitOnce, InitCounted
<1>4. OrderInv /\ CountInv => ThreadLimit  BY CountMeansLimit
<1>5. QED  BY <1>1, <1>2, <1>3, <1>4, OrderInvariant, PTL DEF Spec

-----------------------------------------------------------------------------
(* InputsPresent, without BB_SETSCENE_ENFORCE: dry runs leave no output. *)

\* The output of a task is there: built, fetched, or none is made.
Outputs == stamped \cup sq_stamped \cup Noexec

\* Exit codes are true.
ExitsHonest ==
  \A i \in DOMAIN pipe :
    /\ pipe[i].setscene => (pipe[i].ok <=> pipe[i].tid \in sq_stamped)
    /\ ~pipe[i].setscene /\ pipe[i].ok => pipe[i].tid \in stamped

\* What was fetched is covered for good, or its exit code is on the way; what is being
\* fetched is not there yet.
FetchedIsCovered ==
  /\ sq_stamped \subseteq CoveredOnly \cup sq_live
  /\ sq_procs \cap sq_stamped = {}

\* A setscene task that was neither covered from the start nor fetched has a stamp only
\* if it was built, and is taken for both covered and not covered only then.
BuiltIsTakenUp ==
  /\ stamped \cap SetsceneTids \subseteq CoveredOnly \cup runq_running
  /\ scenequeue_covered \cap scenequeue_notcovered \subseteq runq_running

\* Nobody needs what was passed over: t was not needed by anything that is not covered.
Spared(t) == t \notin Unskippable /\ SqRevdeps[t] \subseteq scenequeue_covered

PassedOverIsSpared == \A t \in scenequeue_covered \ Outputs : Spared(t)

\* All that a real task is needed for is covered for good.
SparedForGood(x) ==
  /\ x \notin Unskippable
  /\ \E s \in SetsceneTids : x \in CoveredTasks[s]
  /\ \A s \in SetsceneTids : x \in CoveredTasks[s] => s \in CoveredOnly

\* What may be skipped is covered, or lies behind tasks that are, or are still open.
SplitSpares ==
  /\ tasks_covered \cap SetsceneTids \subseteq scenequeue_covered
  /\ \A x \in tasks_covered \ SetsceneTids :
       /\ x \notin Unskippable
       /\ \E s \in SetsceneTids : x \in CoveredTasks[s]
       /\ x \notin holdoff_tasks \cup runq_complete => SparedForGood(x)
  /\ SetsceneTids # {} =>
       tasks_notcovered \subseteq
         scenequeue_notcovered \cup (Unskippable \ SetsceneTids)
           \cup UNION {CoveredTasks[s] : s \in scenequeue_notcovered}

\* What completed without an output was skipped, and nobody will want it.
SkippedIsSpared ==
  \A d \in runq_complete \ Outputs :
    IF d \in SetsceneTids THEN d \in scenequeue_covered ELSE SparedForGood(d)

InputsInv ==
  /\ ExitsHonest /\ FetchedIsCovered /\ BuiltIsTakenUp /\ NoexecCovered
  /\ PassedOverIsSpared /\ SplitSpares /\ SkippedIsSpared
  /\ InputsPresent

LEMMA ReachIs ==
  ASSUME NEW S \in SUBSET Tasks
  PROVE  /\ S \subseteq ReachStoppingAtSetscene(S) /\ ReachStoppingAtSetscene(S) \subseteq Tasks
         /\ \A r \in ReachStoppingAtSetscene(S) \ SetsceneTids :
              Depends[r] \subseteq ReachStoppingAtSetscene(S)
         /\ \A R \in SUBSET Tasks :
              S \subseteq R /\ (\A r \in R \ SetsceneTids : Depends[r] \subseteq R)
                => ReachStoppingAtSetscene(S) \subseteq R
<1>1. /\ S \subseteq ReachStoppingAtSetscene(S) /\ ReachStoppingAtSetscene(S) \subseteq Tasks
  BY DEF ReachStoppingAtSetscene
<1>2. ASSUME NEW r \in ReachStoppingAtSetscene(S) \ SetsceneTids, NEW d \in Depends[r]
      PROVE  d \in ReachStoppingAtSetscene(S)
  <2>1. r \in Tasks /\ d \in Tasks  BY <1>1, GraphAssumption
  <2>2. ASSUME NEW R \in SUBSET Tasks, S \subseteq R,
               \A q \in R \ SetsceneTids : Depends[q] \subseteq R
        PROVE  d \in R
    <3>1. r \in R  BY <2>2 DEF ReachStoppingAtSetscene
    <3>2. QED  BY <2>2, <3>1
  <2>3. QED  BY <2>1, <2>2 DEF ReachStoppingAtSetscene
<1>3. ASSUME NEW R \in SUBSET Tasks, S \subseteq R,
             \A r \in R \ SetsceneTids : Depends[r] \subseteq R
      PROVE  ReachStoppingAtSetscene(S) \subseteq R
  BY <1>3 DEF ReachStoppingAtSetscene
<1>4. QED  BY <1>1, <1>2, <1>3

\* What a task depends on is a setscene task it stands for, or is covered with it.
LEMMA CoveredBehind ==
  ASSUME NEW s \in SetsceneTids, NEW t \in {s} \cup CoveredTasks[s], NEW d \in Depends[t]
  PROVE  /\ d \in SetsceneTids => s \in SqRevdeps[d]
         /\ d \notin SetsceneTids => d \in CoveredTasks[s]
<1>1. Depends[s] \in SUBSET Tasks  BY GraphAssumption
<1>2. d \in ReachStoppingAtSetscene(Depends[s])
  BY <1>1, ReachIs DEF CoveredTasks
<1>3. QED  BY <1>2 DEF CoveredTasks, SqRevdeps

LEMMA UnskippableIs ==
  /\ Unskippable \subseteq Tasks
  /\ CantSkip \subseteq Unskippable \ SetsceneTids
  /\ \A t \in Unskippable \ SetsceneTids : Depends[t] \subseteq Unskippable
<1> DEFINE S == {t \in Tasks : Revdeps[t] = {}} \cup CantSkip
<1>1. S \in SUBSET Tasks  BY GraphAssumption DEF CantSkip
<1>2. QED  BY <1>1, ReachIs DEF Unskippable, CantSkip

\* When a setscene task has been taken up as a real one, all that it stands for is
\* complete.
LEMMA TakenUpIsBehind ==
  ASSUME OrderInv, NEW s \in SetsceneTids, s \in runq_running
  PROVE  CoveredTasks[s] \subseteq runq_complete
<1>1. Depends[s] \in SUBSET Tasks  BY GraphAssumption
<1>2. runq_complete \in SUBSET Tasks /\ Depends[s] \subseteq runq_complete
  BY DEF OrderInv, TypeOK, Ordered
<1>3. \A r \in runq_complete : Depends[r] \subseteq runq_complete
  BY DEF OrderInv, Ordered, Started
<1>4. QED  BY <1>1, <1>2, <1>3, ReachIs DEF CoveredTasks

\* The point of it: what is started depends on nothing that was passed over.
LEMMA StartedHasInputs ==
  ASSUME OrderInv, OnceInv, InputsInv, NEW t \in ReadyTasks, t \notin tasks_covered
  PROVE  Depends[t] \subseteq Outputs
<1>1. t \in Tasks /\ t \notin runq_running /\ Depends[t] \subseteq runq_complete
  BY ReadyTaskIsReady
<1> SUFFICES ASSUME NEW d \in Depends[t], d \notin Outputs PROVE FALSE
  OBVIOUS
<1>2. IF d \in SetsceneTids THEN d \in scenequeue_covered /\ Spared(d) ELSE SparedForGood(d)
  BY <1>1 DEF InputsInv, SkippedIsSpared, PassedOverIsSpared
<1>3. SetsceneTids # {}  BY <1>2 DEF SparedForGood
<1>4. t \in scenequeue_notcovered \cup (Unskippable \ SetsceneTids)
              \cup UNION {CoveredTasks[s] : s \in scenequeue_notcovered}
  BY <1>3 DEF InputsInv, SplitSpares, ReadyTasks
<1>5. CASE t \in Unskippable \ SetsceneTids
  BY <1>2, <1>5, UnskippableIs DEF Spared, SparedForGood
<1>6. ASSUME NEW s \in scenequeue_notcovered, t \in {s} \cup CoveredTasks[s]
      PROVE  FALSE
  <2>1. s \in SetsceneTids  BY DEF OrderInv, TypeOK
  <2>2. s \notin runq_running
    BY <1>1, <1>6, <2>1, TakenUpIsBehind DEF OrderInv, Started
  <2>3. s \notin scenequeue_covered  BY <2>2 DEF InputsInv, BuiltIsTakenUp
  <2>4. CASE d \in SetsceneTids
    BY <1>2, <1>6, <2>1, <2>3, <2>4, CoveredBehind DEF Spared
  <2>5. CASE d \notin SetsceneTids
    BY <1>2, <1>6, <2>1, <2>3, <2>5, CoveredBehind DEF SparedForGood, CoveredOnly
  <2>6. QED  BY <2>4, <2>5
<1>7. QED  BY <1>4, <1>5, <1>6

\* What the decisions about setscene tasks rest on, apart from exit codes and processes.
InputsParts == BuiltIsTakenUp /\ NoexecCovered /\ PassedOverIsSpared /\ SplitSpares /\ SkippedIsSpared

\* A step keeps these if what it completes has an output or may be skipped, and what it
\* covers has an output or is not needed.
LEMMA DecisionsKept ==
  ASSUME OrderInv, InputsInv, SmallStep,
         runq_complete' \subseteq
           runq_complete \cup Outputs' \cup (tasks_covered \ (holdoff_tasks \cup runq_complete)),
         \A t \in scenequeue_covered' \ scenequeue_covered : t \in Outputs' \/ Spared(t),
         stamped' \subseteq stamped \cup runq_running',
         scenequeue_covered' \cap scenequeue_notcovered' \subseteq
           (scenequeue_covered \cap scenequeue_notcovered) \cup runq_running'
  PROVE  InputsParts'
<1>1. /\ runq_complete \subseteq runq_complete' /\ runq_running \subseteq runq_running'
      /\ scenequeue_covered \subseteq scenequeue_covered'
      /\ scenequeue_notcovered \subseteq scenequeue_notcovered'
      /\ CoveredOnly \subseteq CoveredOnly'
  BY DEF SmallStep, Settles, Runs
<1>2. Outputs \subseteq Outputs'  BY DEF SmallStep, Settles, Outputs
<1>3. BuiltIsTakenUp' /\ NoexecCovered'
  BY <1>1 DEF InputsInv, BuiltIsTakenUp, NoexecCovered
<1>4. \A t : Spared(t) => Spared(t)'  BY <1>1 DEF Spared
<1>5. \A x : SparedForGood(x) => SparedForGood(x)'  BY <1>1 DEF SparedForGood
<1>6. PassedOverIsSpared'
  <2> SUFFICES ASSUME NEW t \in scenequeue_covered', t \notin Outputs' PROVE Spared(t)'
    BY DEF PassedOverIsSpared
  <2>1. Spared(t)  BY <1>2 DEF InputsInv, PassedOverIsSpared
  <2>2. QED  BY <1>4, <2>1
<1>7. SkippedIsSpared'
  <2> SUFFICES ASSUME NEW d \in runq_complete', d \notin Outputs'
               PROVE  IF d \in SetsceneTids THEN d \in scenequeue_covered ELSE SparedForGood(d)
    BY <1>1, <1>5 DEF SkippedIsSpared
  <2>1. CASE d \in runq_complete  BY <1>2, <2>1 DEF InputsInv, SkippedIsSpared
  <2>2. CASE d \in tasks_covered \ (holdoff_tasks \cup runq_complete)
    BY <2>2 DEF InputsInv, SplitSpares
  <2>3. QED  BY <2>1, <2>2
<1>8. SplitSpares'
  <2>1. CASE UNCHANGED splitVars
    <3>1. UNCHANGED <<tasks_covered, tasks_notcovered, holdoff_tasks>>
      BY <2>1 DEF splitVars
    <3>2. tasks_covered' \cap SetsceneTids \subseteq scenequeue_covered'
      BY <1>1, <3>1 DEF InputsInv, SplitSpares
    <3>3. ASSUME NEW x \in tasks_covered' \ SetsceneTids
          PROVE  /\ x \notin Unskippable
                 /\ \E s \in SetsceneTids : x \in CoveredTasks[s]
                 /\ x \notin holdoff_tasks' \cup runq_complete' => SparedForGood(x)'
      <4>1. /\ x \notin Unskippable
            /\ \E s \in SetsceneTids : x \in CoveredTasks[s]
            /\ x \notin holdoff_tasks \cup runq_complete => SparedForGood(x)
        BY <3>1 DEF InputsInv, SplitSpares
      <4>2. x \notin holdoff_tasks' \cup runq_complete' => x \notin holdoff_tasks \cup runq_complete
        BY <1>1, <3>1
      <4>3. QED  BY <1>5, <4>1, <4>2
    <3>4. SetsceneTids # {} =>
            tasks_notcovered' \subseteq
              scenequeue_notcovered' \cup (Unskippable \ SetsceneTids)
                \cup UNION {CoveredTasks[s] : s \in scenequeue_notcovered'}
      BY <1>1, <3>1 DEF InputsInv, SplitSpares
    <3>5. QED  BY <3>2, <3>3, <3>4 DEF SplitSpares
  <2>2. CASE /\ tasks_covered' = CoveredNow /\ tasks_notcovered' = NotCoveredTasks
             /\ holdoff_tasks' = HeldOff
             /\ UNCHANGED <<scenequeue_covered, scenequeue_notcovered, runq_complete>>
    <3>1. scenequeue_covered \subseteq SetsceneTids /\ scenequeue_notcovered \subseteq SetsceneTids
      BY DEF OrderInv, TypeOK
    <3>2. \A s \in SetsceneTids : CoveredTasks[s] \cap SetsceneTids = {}  BY DEF CoveredTasks
    <3>3. tasks_covered' \cap SetsceneTids \subseteq scenequeue_covered'
      BY <2>2, <3>1, <3>2 DEF CoveredNow
    <3>4. ASSUME NEW x \in tasks_covered' \ SetsceneTids
          PROVE  /\ x \notin Unskippable
                 /\ \E s \in SetsceneTids : x \in CoveredTasks[s]
                 /\ x \notin holdoff_tasks' \cup runq_complete' => SparedForGood(x)'
      <4>1. x \in CoveredNow  BY <2>2
      <4>2. \E s \in SetsceneTids : x \in CoveredTasks[s]  BY <3>1, <4>1 DEF CoveredNow
      <4>3. x \notin Unskippable  BY <4>1 DEF CoveredNow, NotCoveredTasks
      <4>4. ASSUME x \notin holdoff_tasks' \cup runq_complete',
                   NEW s \in SetsceneTids, x \in CoveredTasks[s]
            PROVE  s \in CoveredOnly
        <5>1. s \in Resolved  BY <2>2, <4>4 DEF HeldOff
        <5>2. s \notin scenequeue_notcovered
          BY <4>1, <4>4 DEF CoveredNow, NotCoveredTasks
        <5>3. QED  BY <5>1, <5>2 DEF Resolved, CoveredOnly
      <4>5. QED  BY <1>1, <4>2, <4>3, <4>4 DEF SparedForGood
    <3>5. tasks_notcovered' \subseteq
            scenequeue_notcovered' \cup (Unskippable \ SetsceneTids)
              \cup UNION {CoveredTasks[s] : s \in scenequeue_notcovered'}
      BY <2>2, UnskippableIs DEF NotCoveredTasks
    <3>6. QED  BY <3>3, <3>4, <3>5 DEF SplitSpares
  <2>3. QED  BY <2>1, <2>2 DEF SmallStep, Splits
<1>9. QED  BY <1>3, <1>6, <1>7, <1>8 DEF InputsParts

\* The rest is kept where nothing ends and nothing starts.
LEMMA FetchingKept ==
  ASSUME InputsInv, UNCHANGED <<sq_stamped, sq_live, pipe>>,
         sq_procs' \subseteq sq_procs, task_procs' \subseteq task_procs,
         stamped \subseteq stamped', CoveredOnly \subseteq CoveredOnly'
  PROVE  ExitsHonest' /\ FetchedIsCovered' /\ InputsPresent'
<1>1. ExitsHonest'  BY DEF InputsInv, ExitsHonest
<1>2. FetchedIsCovered'  BY DEF InputsInv, FetchedIsCovered
<1>3. InputsPresent'  BY DEF InputsInv, InputsPresent
<1>4. QED  BY <1>1, <1>2, <1>3

\* A setscene task that was waiting behind another is covered only if its output is there.
LEMMA ReleaseSpares ==
  ASSUME OrderInv, InputsInv, NEW t, ReleaseDeferred(t), runq_running \subseteq runq_running'
  PROVE  /\ scenequeue_covered' \subseteq scenequeue_covered \cup Outputs
         /\ scenequeue_covered' \cap scenequeue_notcovered' \subseteq
              (scenequeue_covered \cap scenequeue_notcovered) \cup runq_running'
<1>1. CASE UNCHANGED markVars  BY <1>1 DEF markVars
<1>2. ASSUME NEW found \in DOMAIN sq_deferred, SetsceneStampPresent(found), Cover(found)
      PROVE  /\ scenequeue_covered' \subseteq scenequeue_covered \cup Outputs
             /\ scenequeue_covered' \cap scenequeue_notcovered' \subseteq
                  (scenequeue_covered \cap scenequeue_notcovered) \cup runq_running'
  <2>1. /\ scenequeue_covered' = scenequeue_covered \cup {found}
        /\ scenequeue_notcovered' = scenequeue_notcovered
    BY <1>2 DEF Cover, MarkSetscene
  <2>2. found \in Outputs  BY <1>2 DEF SetsceneStampPresent, Outputs
  <2>3. found \in SetsceneTids /\ found \notin sq_live  BY DEF OrderInv, TypeOK, FateOpen
  <2>4. found \in scenequeue_notcovered => found \in runq_running
    BY <2>2, <2>3
    DEF Outputs, InputsInv, FetchedIsCovered, BuiltIsTakenUp, NoexecCovered, CoveredOnly
  <2>5. QED  BY <2>1, <2>2, <2>4
<1>3. QED  BY <1>1, <1>2 DEF ReleaseDeferred

LEMMA InputsAgain ==
  ASSUME InputsParts', ExitsHonest' /\ FetchedIsCovered' /\ InputsPresent'
  PROVE  InputsInv'
BY DEF InputsInv, InputsParts

LEMMA InitInputs == ASSUME Init PROVE InputsInv
<1>1. /\ task_procs = {} /\ sq_procs = {} /\ pipe = <<>> /\ runq_complete = {}
      /\ sq_live = {} /\ scenequeue_notcovered = {} /\ tasks_covered = {}
      /\ tasks_notcovered = IF SetsceneTids = {} THEN Tasks ELSE {}
      /\ sq_stamped \in SUBSET SetsceneTids
  BY QueueAssumption, Zenon DEF Init
<1>2. scenequeue_covered = {t \in SetsceneTids : SetsceneStampPresent(t)}  BY DEF Init
<1>3. ExitsHonest /\ InputsPresent /\ SkippedIsSpared
  BY <1>1 DEF ExitsHonest, InputsPresent, SkippedIsSpared
<1>4. FetchedIsCovered /\ BuiltIsTakenUp /\ NoexecCovered
  BY <1>1, <1>2 DEF FetchedIsCovered, BuiltIsTakenUp, NoexecCovered, CoveredOnly,
                    SetsceneStampPresent
<1>5. PassedOverIsSpared
  BY <1>2 DEF PassedOverIsSpared, Outputs, SetsceneStampPresent
<1>6. SplitSpares  BY <1>1 DEF SplitSpares
<1>7. QED  BY <1>3, <1>4, <1>5, <1>6 DEF InputsInv

LEMMA WorkerInputs ==
  ASSUME NeverEnforced, OrderInv, InputsInv, WorkerStep
  PROVE  InputsInv'
<1>1. SmallStep  BY WorkerIsSmall
<1>2. /\ UNCHANGED <<runq_running, runq_complete, scenequeue_covered, scenequeue_notcovered, sq_live>>
      /\ task_procs' \subseteq task_procs /\ sq_procs' \subseteq sq_procs
      /\ stamped \subseteq stamped' /\ sq_stamped \subseteq sq_stamped'
      /\ stamped' \subseteq stamped \cup task_procs
  BY DEF WorkerStep, TaskExits, SetsceneExits, taskVars, markVars
<1>3. task_procs \subseteq runq_running  BY Busy DEF OrderInv, Started
<1>4. InputsParts'  BY <1>1, <1>2, <1>3, DecisionsKept
<1>5. InputsPresent'  BY <1>2 DEF InputsInv, InputsPresent
<1>6. ASSUME NEW t \in Tasks, TaskExits(t) PROVE ExitsHonest' /\ FetchedIsCovered'
  <2>1. PICK ok \in BOOLEAN :
          /\ pipe' = Append(pipe, [tid |-> t, setscene |-> FALSE, ok |-> ok])
          /\ stamped' = IF ok /\ ~SetsceneEnforce THEN stamped \cup {t} ELSE stamped
    BY <1>6 DEF TaskExits
  <2> DEFINE e == [tid |-> t, setscene |-> FALSE, ok |-> ok]
  <2>2. e \in Exits /\ e.tid = t /\ e.setscene = FALSE /\ e.ok = ok  BY Zenon DEF Exits
  <2>3. UNCHANGED <<sq_stamped, sq_procs>>  BY <1>6 DEF TaskExits
  <2>4. ok => t \in stamped'
    BY <2>1 DEF NeverEnforced, OrderInv, TypeOK, SetsceneEnforce
  <2>5. pipe \in Seq(Exits)  BY DEF OrderInv, TypeOK
  <2>6. ASSUME NEW i \in DOMAIN pipe'
        PROVE  (i \in DOMAIN pipe /\ pipe'[i] = pipe[i]) \/ pipe'[i] = e
    BY <2>1, <2>2, <2>5
  <2>7. ExitsHonest'
    BY <1>2, <2>2, <2>3, <2>4, <2>6 DEF InputsInv, ExitsHonest
  <2>8. FetchedIsCovered'
    BY <1>2, <2>3 DEF InputsInv, FetchedIsCovered, CoveredOnly
  <2>9. QED  BY <2>7, <2>8
<1>7. ASSUME NEW t \in SetsceneTids, SetsceneExits(t) PROVE ExitsHonest' /\ FetchedIsCovered'
  <2>1. PICK ok \in BOOLEAN :
          /\ pipe' = Append(pipe, [tid |-> t, setscene |-> TRUE, ok |-> ok])
          /\ sq_stamped' = IF ok THEN sq_stamped \cup {t} ELSE sq_stamped
    BY <1>7 DEF SetsceneExits
  <2> DEFINE e == [tid |-> t, setscene |-> TRUE, ok |-> ok]
  <2>2. e \in Exits /\ e.tid = t /\ e.setscene = TRUE /\ e.ok = ok
    BY GraphAssumption, Zenon DEF Exits
  <2>3. t \in sq_procs /\ sq_procs' = sq_procs \ {t} /\ UNCHANGED stamped
    BY <1>7 DEF SetsceneExits
  <2>4. t \in sq_live /\ t \notin SetsceneExitsOf(pipe)  BY <2>3 DEF OrderInv, Delivered
  <2>5. ok <=> t \in sq_stamped'
    BY <2>1, <2>3 DEF InputsInv, FetchedIsCovered
  <2>6. pipe \in Seq(Exits)  BY DEF OrderInv, TypeOK
  <2>7. ASSUME NEW i \in DOMAIN pipe'
        PROVE  (i \in DOMAIN pipe /\ pipe'[i] = pipe[i]) \/ pipe'[i] = e
    BY <2>1, <2>2, <2>6
  <2>8. ASSUME NEW i \in DOMAIN pipe, pipe[i].setscene
        PROVE  pipe[i].tid # t
    BY <2>4, <2>8 DEF SetsceneExitsOf
  <2>9. \A u : u # t => (u \in sq_stamped' <=> u \in sq_stamped)  BY <2>1
  <2>10. ExitsHonest'
    <3> SUFFICES ASSUME NEW i \in DOMAIN pipe'
                 PROVE  /\ pipe'[i].setscene => (pipe'[i].ok <=> pipe'[i].tid \in sq_stamped')
                        /\ ~pipe'[i].setscene /\ pipe'[i].ok => pipe'[i].tid \in stamped'
      BY DEF ExitsHonest
    <3>1. CASE pipe'[i] = e  BY <2>2, <2>5, <3>1
    <3>2. CASE i \in DOMAIN pipe /\ pipe'[i] = pipe[i]
      BY <2>3, <2>8, <2>9, <3>2 DEF InputsInv, ExitsHonest
    <3>3. QED  BY <2>7, <3>1, <3>2
  <2>11. FetchedIsCovered'
    BY <1>2, <2>1, <2>3, <2>4 DEF InputsInv, FetchedIsCovered, CoveredOnly
  <2>12. QED  BY <2>10, <2>11
<1>8. ExitsHonest' /\ FetchedIsCovered'  BY <1>6, <1>7 DEF WorkerStep
<1>9. QED  BY <1>4, <1>5, <1>8, InputsAgain

LEMMA ReadInputs ==
  ASSUME OrderInv, OnceInv, InputsInv, ReadExit
  PROVE  InputsInv'
<1> DEFINE x == Head(pipe)
           t == x.tid
<1>1. SmallStep  BY ReadIsSmall
<1>2. /\ pipe \in Seq(Exits) /\ pipe # <<>> /\ pipe' = Tail(pipe)
      /\ UNCHANGED <<task_procs, sq_procs, stamped, sq_stamped>>
  BY DEF OrderInv, TypeOK, ReadExit
<1>3. 1 \in DOMAIN pipe /\ x = pipe[1]  BY <1>2, HeadTailProperties
<1>4. /\ x.setscene => (x.ok <=> t \in sq_stamped)
      /\ ~x.setscene /\ x.ok => t \in stamped
  BY <1>3 DEF InputsInv, ExitsHonest
<1>5. ExitsHonest'
  <2>1. ASSUME NEW i \in DOMAIN Tail(pipe)
        PROVE  i + 1 \in DOMAIN pipe /\ Tail(pipe)[i] = pipe[i + 1]
    BY <1>2
  <2>2. QED  BY <1>2, <2>1 DEF InputsInv, ExitsHonest
<1>6. InputsPresent'  BY <1>2 DEF InputsInv, InputsPresent
<1>7. /\ runq_running \subseteq runq_running' /\ CoveredOnly \subseteq CoveredOnly'
      /\ Outputs' = Outputs
  BY <1>1, <1>2 DEF SmallStep, Settles, Runs, Outputs
<1>8. CASE SetsceneExitRead(t, x.ok)
  <2>1. /\ t \in sq_live /\ sq_live' = sq_live \ {t}
        /\ UNCHANGED <<runq_running, runq_complete>>
        /\ (x.ok /\ Cover(t)) \/ (~x.ok /\ Uncover(t))
    BY <1>8 DEF SetsceneExitRead, taskVars
  <2>2. x.setscene
    <3>1. sq_live \cap BusyTasks = {}  BY DEF OrderInv, TypeOK, FateOpen, Apart
    <3>2. ~x.setscene => t \in TaskExitsOf(pipe)  BY <1>3 DEF TaskExitsOf
    <3>3. QED  BY <2>1, <3>1, <3>2, Busy
  <2>3. t \in SetsceneTids \ Resolved  BY <2>1 DEF OrderInv, TypeOK, FateOpen
  <2>4. CASE x.ok /\ Cover(t)
    <3>1. /\ scenequeue_covered' = scenequeue_covered \cup {t}
          /\ scenequeue_notcovered' = scenequeue_notcovered
      BY <2>4 DEF Cover, MarkSetscene
    <3>2. t \in Outputs /\ t \notin scenequeue_notcovered
      BY <1>4, <2>2, <2>3, <2>4 DEF Outputs, Resolved
    <3>3. InputsParts'  BY <1>1, <1>2, <1>7, <2>1, <3>1, <3>2, DecisionsKept
    <3>4. t \in CoveredOnly'  BY <3>1, <3>2 DEF CoveredOnly
    <3>5. FetchedIsCovered'
      BY <1>2, <1>7, <2>1, <3>4 DEF InputsInv, FetchedIsCovered
    <3>6. QED  BY <1>5, <1>6, <3>3, <3>5, InputsAgain
  <2>5. CASE ~x.ok /\ Uncover(t)
    <3>1. /\ scenequeue_covered' = scenequeue_covered
          /\ scenequeue_notcovered' = scenequeue_notcovered \cup FailsWith(t)
      BY <2>5 DEF Uncover, MarkSetscene
    <3>2. FailsWith(t) \cap scenequeue_covered = {}
      BY <2>3, FailsWithClosed DEF Undecided, Resolved
    <3>3. InputsParts'  BY <1>1, <1>2, <2>1, <3>1, <3>2, DecisionsKept
    <3>4. t \notin sq_stamped  BY <1>4, <2>2, <2>5
    <3>5. FetchedIsCovered'
      BY <1>2, <1>7, <2>1, <3>4 DEF InputsInv, FetchedIsCovered
    <3>6. QED  BY <1>5, <1>6, <3>3, <3>5, InputsAgain
  <2>6. QED  BY <2>1, <2>4, <2>5
<1>9. CASE TaskExitRead(t, x.ok)
  <2>1. t \notin sq_live /\ sq_live' = sq_live  BY <1>9 DEF TaskExitRead
  <2>2. ~x.setscene
    <3>1. x.setscene => t \in SetsceneExitsOf(pipe)  BY <1>3 DEF SetsceneExitsOf
    <3>2. QED  BY <2>1, <3>1 DEF OrderInv, Delivered
  <2>3. FetchedIsCovered'
    BY <1>2, <1>7, <2>1 DEF InputsInv, FetchedIsCovered
  <2>4. CASE x.ok /\ CompleteOutright(t)
    <3>1. t \in Outputs /\ runq_complete' = runq_complete \cup {t}
      BY <1>4, <2>2, <2>4 DEF Outputs, CompleteOutright
    <3>2. /\ scenequeue_covered' \subseteq scenequeue_covered \cup Outputs
          /\ scenequeue_covered' \cap scenequeue_notcovered' \subseteq
               (scenequeue_covered \cap scenequeue_notcovered) \cup runq_running'
      BY <1>7, <2>4, ReleaseSpares DEF CompleteOutright
    <3>3. InputsParts'  BY <1>1, <1>2, <1>7, <3>1, <3>2, DecisionsKept
    <3>4. QED  BY <1>5, <1>6, <2>3, <3>3, InputsAgain
  <2>5. CASE UNCHANGED <<runq_complete, markVars>>
    <3>1. UNCHANGED <<scenequeue_covered, scenequeue_notcovered>>  BY <2>5 DEF markVars
    <3>2. InputsParts'  BY <1>1, <1>2, <2>5, <3>1, DecisionsKept
    <3>3. QED  BY <1>5, <1>6, <2>3, <3>2, InputsAgain
  <2>6. QED  BY <1>9, <2>4, <2>5 DEF TaskExitRead
<1>10. QED  BY <1>8, <1>9 DEF ReadExit

LEMMA SetsceneInputs ==
  ASSUME OrderInv, InputsInv, NextSetscene
  PROVE  InputsInv'
<1>1. SmallStep  BY SetsceneIsSmall
<1>2. PICK t \in SetsceneCandidates :
        \/ SkipSetsceneTask(t) \/ AwaitHardDeps(t) \/ FailOutright(t)
        \/ StartSetscene(t) \/ SendSetsceneFails(t)
  BY DEF NextSetscene
<1>3. UNCHANGED <<runq_running, runq_complete, task_procs, pipe, stamped, sq_stamped>>
  BY DEF NextSetscene, taskVars
<1>4. t \in SetsceneTids \ Resolved
  BY DEF OrderInv, TypeOK, FateOpen, SetsceneCandidates
<1>5. Outputs' = Outputs /\ CoveredOnly \subseteq CoveredOnly'
  BY <1>1, <1>3 DEF Outputs, SmallStep, Settles
<1>6. CASE SkipSetsceneTask(t)
  <2>1. /\ scenequeue_covered' = scenequeue_covered \cup {t}
        /\ scenequeue_notcovered' = scenequeue_notcovered
        /\ UNCHANGED <<sq_live, sq_procs>>
    BY <1>6 DEF SkipSetsceneTask, Cover, MarkSetscene
  <2>2. t \in Outputs \/ Spared(t)
    BY <1>6 DEF SkipSetsceneTask, MayBeUnneeded, Spared, Outputs
  <2>3. t \notin scenequeue_notcovered  BY <1>4 DEF Resolved
  <2>4. InputsParts'  BY <1>1, <1>3, <1>5, <2>1, <2>2, <2>3, DecisionsKept
  <2>5. QED  BY <1>3, <1>5, <2>1, <2>4, FetchingKept, InputsAgain
<1>7. CASE FailOutright(t)
  <2>1. /\ scenequeue_covered' = scenequeue_covered
        /\ scenequeue_notcovered' = scenequeue_notcovered \cup FailsWith(t)
        /\ UNCHANGED <<sq_live, sq_procs>>
    BY <1>7 DEF FailOutright, Uncover, MarkSetscene
  <2>2. FailsWith(t) \cap scenequeue_covered = {}
    BY <1>4, FailsWithClosed DEF Undecided, Resolved
  <2>3. InputsParts'  BY <1>1, <1>3, <2>1, <2>2, DecisionsKept
  <2>4. QED  BY <1>3, <1>5, <2>1, <2>3, FetchingKept, InputsAgain
<1>8. CASE StartSetscene(t)
  <2>1. /\ UNCHANGED <<scenequeue_covered, scenequeue_notcovered>>
        /\ sq_live' = sq_live \cup {t} /\ sq_procs' = sq_procs \cup {t} /\ t \notin sq_stamped
    BY <1>8 DEF StartSetscene
  <2>2. InputsParts'  BY <1>1, <1>3, <2>1, DecisionsKept
  <2>3. ExitsHonest' /\ InputsPresent'
    BY <1>3 DEF InputsInv, ExitsHonest, InputsPresent
  <2>4. FetchedIsCovered'
    BY <1>3, <1>5, <2>1 DEF InputsInv, FetchedIsCovered
  <2>5. QED  BY <2>2, <2>3, <2>4, InputsAgain
<1>9. CASE AwaitHardDeps(t) \/ SendSetsceneFails(t)
  <2>1. UNCHANGED <<scenequeue_covered, scenequeue_notcovered, sq_live, sq_procs>>
    BY <1>9 DEF AwaitHardDeps, SendSetsceneFails, markVars
  <2>2. InputsParts'  BY <1>1, <1>3, <2>1, DecisionsKept
  <2>3. QED  BY <1>3, <1>5, <2>1, <2>2, FetchingKept, InputsAgain
<1>10. QED  BY <1>2, <1>6, <1>7, <1>8, <1>9

LEMMA TaskInputs ==
  ASSUME NeverEnforced, OrderInv, OnceInv, InputsInv, NextTask
  PROVE  InputsInv'
<1>1. SmallStep  BY TaskIsSmall
<1>2. PICK t \in ReadyTasks :
        RefuseTask(t) \/ SkipTask(t) \/ RunNoexecTask(t) \/ StartTask(t) \/ SendTaskFails(t)
  BY DEF NextTask
<1>3. UNCHANGED <<sq_live, sq_procs, pipe, sq_stamped>>  BY DEF NextTask
<1>4. ~Refused(t) /\ ~SetsceneEnforce
  BY DEF NeverEnforced, OrderInv, TypeOK, Refused, SetsceneEnforce
<1>5. /\ stamped \subseteq stamped' /\ CoveredOnly \subseteq CoveredOnly'
      /\ runq_running \subseteq runq_running' /\ Outputs \subseteq Outputs'
  BY <1>1 DEF SmallStep, Settles, Runs, Outputs
<1>6. CASE SkipTask(t) \/ RunNoexecTask(t)
  <2>1. /\ CompleteOutright(t) /\ runq_running' = runq_running \cup {t}
        /\ stamped' \subseteq stamped \cup {t} /\ UNCHANGED task_procs
    BY <1>6 DEF SkipTask, RunNoexecTask
  <2>2. runq_complete' = runq_complete \cup {t}  BY <2>1 DEF CompleteOutright
  <2>3. t \in Outputs \/ t \in tasks_covered \ (holdoff_tasks \cup runq_complete)
    BY <1>6 DEF SkipTask, RunNoexecTask, Outputs, ReadyTasks, OrderInv, Started
  <2>4. /\ scenequeue_covered' \subseteq scenequeue_covered \cup Outputs
        /\ scenequeue_covered' \cap scenequeue_notcovered' \subseteq
             (scenequeue_covered \cap scenequeue_notcovered) \cup runq_running'
    BY <1>5, <2>1, ReleaseSpares DEF CompleteOutright
  <2>5. InputsParts'  BY <1>1, <1>5, <2>1, <2>2, <2>3, <2>4, DecisionsKept
  <2>6. QED  BY <1>3, <1>5, <2>1, <2>5, FetchingKept, InputsAgain
<1>7. CASE StartTask(t) \/ SendTaskFails(t)
  <2>1. UNCHANGED <<runq_complete, stamped, scenequeue_covered, scenequeue_notcovered>>
    BY <1>7 DEF StartTask, SendTaskFails, taskVars, markVars
  <2>2. InputsParts'  BY <1>1, <2>1, DecisionsKept
  <2>3. ExitsHonest' /\ FetchedIsCovered'
    BY <1>3, <1>5, <2>1 DEF InputsInv, ExitsHonest, FetchedIsCovered
  <2>4. InputsPresent'
    <3>1. CASE StartTask(t)
      <4>1. Depends[t] \subseteq Outputs  BY <3>1, StartedHasInputs DEF StartTask
      <4>2. task_procs' = task_procs \cup {t}  BY <3>1 DEF StartTask
      <4>3. QED  BY <1>5, <4>1, <4>2 DEF InputsInv, InputsPresent, Outputs
    <3>2. CASE SendTaskFails(t)
      BY <1>5, <3>2 DEF SendTaskFails, InputsInv, InputsPresent, Outputs
    <3>3. QED  BY <1>7, <3>1, <3>2
  <2>5. QED  BY <2>2, <2>3, <2>4, InputsAgain
<1>8. QED  BY <1>2, <1>4, <1>6, <1>7 DEF RefuseTask

LEMMA ControlInputs ==
  ASSUME OrderInv, InputsInv,
         \/ EndRead \/ NoSetscene \/ NoTask \/ WaitForWorkers \/ Conclude \/ BeginCall
         \/ CleanUp \/ StopAgain \/ Teardown \/ StopGracefully \/ StopNow \/ ForceDeferred
         \/ WorkerDies \/ Holdoff \/ UNCHANGED vars
  PROVE  InputsInv'
<1>1. SmallStep  BY StepIsSmall DEF Next, ServerStep
<1>2. /\ UNCHANGED <<runq_running, runq_complete, scenequeue_covered, scenequeue_notcovered,
                     sq_live, pipe, stamped, sq_stamped>>
      /\ sq_procs' \subseteq sq_procs /\ task_procs' \subseteq task_procs
  BY DEF EndRead, NoSetscene, NoTask, WaitForWorkers, Conclude, BeginCall, CleanUp, StopAgain,
         Teardown, StopGracefully, StopNow, ForceDeferred, WorkerDies, Holdoff, vars, taskVars,
         markVars, procVars
<1>3. InputsParts'  BY <1>1, <1>2, DecisionsKept
<1>4. CoveredOnly' = CoveredOnly  BY <1>2 DEF CoveredOnly
<1>5. QED  BY <1>2, <1>3, <1>4, FetchingKept, InputsAgain

LEMMA InputsStep ==
  ASSUME NeverEnforced, OrderInv, OnceInv, InputsInv, [Next]_vars
  PROVE  InputsInv'
<1>1. CASE WorkerStep  BY <1>1, WorkerInputs
<1>2. CASE ReadExit  BY <1>2, ReadInputs
<1>3. CASE NextSetscene  BY <1>3, SetsceneInputs
<1>4. CASE NextTask  BY <1>4, TaskInputs
<1>5. CASE \/ EndRead \/ NoSetscene \/ NoTask \/ WaitForWorkers \/ Conclude \/ BeginCall
           \/ CleanUp \/ StopAgain \/ Teardown \/ StopGracefully \/ StopNow \/ ForceDeferred
           \/ WorkerDies \/ Holdoff \/ UNCHANGED vars
  BY <1>5, ControlInputs
<1>6. QED
  BY <1>1, <1>2, <1>3, <1>4, <1>5 DEF Next, ServerStep, Terminated

\* Without BB_SETSCENE_ENFORCE whatever is built finds the output of all it depends on,
\* built or fetched.
THEOREM InputsAreThere ==
  ASSUME NeverEnforced
  PROVE  Spec => []InputsPresent
<1>1. Init => OnceInv /\ InputsInv  BY InitOnce, InitInputs
<1>2. OrderInv /\ OnceInv /\ [Next]_vars => OnceInv'  BY OnceStep
<1>3. OrderInv /\ OnceInv /\ InputsInv /\ [Next]_vars => InputsInv'  BY InputsStep
<1>4. InputsInv => InputsPresent  BY DEF InputsInv
<1>5. QED  BY <1>1, <1>2, <1>3, <1>4, OrderInvariant, PTL DEF Spec

-----------------------------------------------------------------------------
(* A finite graph without cycles can be walked from either end. *)

Acyclic(g, S) == \A R \in (SUBSET S) \ {{}} : \E m \in R : \A r \in R : m \notin g[r]

LEMMA OtherEnd ==
  ASSUME NEW S, IsFiniteSet(S), NEW g \in [S -> SUBSET S], Acyclic(g, S),
         NEW R \in (SUBSET S) \ {{}}
  PROVE  \E m \in R : g[m] \cap R = {}
<1> SUFFICES ASSUME \A m \in R : g[m] \cap R # {} PROVE FALSE
  OBVIOUS
<1> DEFINE f == [m \in R |-> CHOOSE x \in g[m] \cap R : TRUE]
           C == {Y \in SUBSET R : Y # {} /\ \A y \in Y : f[y] \in Y}
<1>1. \A m \in R : f[m] \in g[m] \cap R  OBVIOUS
<1>2. R \in C  BY <1>1
<1>3. C \subseteq FiniteSubsetsOf(S)
  <2>1. \A Y \in SUBSET S : IsFiniteSet(Y)  BY FS_Subset
  <2>2. QED  BY <2>1 DEF FiniteSubsetsOf
<1>4. IsWellFoundedOn(StrictSubsetOrdering(S), FiniteSubsetsOf(S))
  BY FS_StrictSubsetOrderingWellFounded
<1>5. PICK Y \in C : \A Z \in C : <<Z, Y>> \notin StrictSubsetOrdering(S)
  <2> HIDE DEF C
  <2>1. C # {}  BY <1>2
  <2>2. QED  BY <1>3, <1>4, <2>1, WFMin
<1> DEFINE Z == {f[y] : y \in Y}
<1> HIDE DEF f
<1>6. Z \in C /\ Z \subseteq Y
  <2>1. Y \in SUBSET R /\ Y # {} /\ \A y \in Y : f[y] \in Y  OBVIOUS
  <2>2. Z \subseteq Y /\ Z # {}  BY <2>1
  <2>3. \A z \in Z : f[z] \in Z  BY <2>2
  <2>4. QED  BY <2>1, <2>2, <2>3
<1>7. Z = Y  BY <1>5, <1>6 DEF StrictSubsetOrdering
<1>8. \A m \in Y : \E r \in Y : m \in g[r]
  <2>1. ASSUME NEW m \in Y PROVE \E r \in Y : m \in g[r]
    <3>1. PICK r \in Y : m = f[r]  BY <1>7
    <3>2. QED  BY <1>1, <3>1
  <2>2. QED  BY <2>1
<1>9. QED  BY <1>8 DEF Acyclic

\* In every set of tasks there is one that depends on none of the others.
LEMMA FirstOf ==
  ASSUME NEW R \in (SUBSET Tasks) \ {{}}
  PROVE  \E m \in R : Depends[m] \cap R = {}
<1>1. IsFiniteSet(Tasks) /\ Depends \in [Tasks -> SUBSET Tasks]  BY GraphAssumption
<1>2. Acyclic(Depends, Tasks)  BY AcyclicAssumption DEF Acyclic
<1>3. QED  BY <1>1, <1>2, OtherEnd

\* What is reached from S is in S or is depended on by a real task that is reached.
LEMMA ReachedFrom ==
  ASSUME NEW S \in SUBSET Tasks, NEW t \in ReachStoppingAtSetscene(S), t \notin S
  PROVE  \E r \in ReachStoppingAtSetscene(S) \ SetsceneTids : t \in Depends[r]
<1> DEFINE R == ReachStoppingAtSetscene(S)
           Q == R \ {t}
<1>1. /\ S \subseteq R /\ R \subseteq Tasks
      /\ \A r \in R \ SetsceneTids : Depends[r] \subseteq R
  BY ReachIs
<1> SUFFICES ASSUME \A r \in R \ SetsceneTids : t \notin Depends[r] PROVE FALSE
  OBVIOUS
<1> HIDE DEF R
<1>2. Q \in SUBSET Tasks /\ S \subseteq Q  BY <1>1
<1>3. \A r \in Q \ SetsceneTids : Depends[r] \subseteq Q  BY <1>1
<1> HIDE DEF Q
<1>4. ReachStoppingAtSetscene(S) \subseteq Q  BY <1>2, <1>3, ReachIs
<1>5. QED  BY <1>4 DEF Q

\* In every set of setscene tasks there is one that none of the others stands behind.
LEMMA FirstToFetch ==
  ASSUME NEW U \in (SUBSET SetsceneTids) \ {{}}
  PROVE  \E t \in U : SqRevdeps[t] \cap U = {}
<1> DEFINE S == U \cup UNION {ReachStoppingAtSetscene(Depends[s]) : s \in U}
<1>1. U \in SUBSET Tasks /\ \A s \in U : Depends[s] \in SUBSET Tasks  BY GraphAssumption
<1>2. \A s \in U : ReachStoppingAtSetscene(Depends[s]) \subseteq Tasks  BY <1>1, ReachIs
<1>3. S \in (SUBSET Tasks) \ {{}}  BY <1>1, <1>2
<1>4. PICK m \in S : \A r \in S : m \notin Depends[r]  BY <1>3, AcyclicAssumption
<1>5. ASSUME NEW s \in U, m \in ReachStoppingAtSetscene(Depends[s]) PROVE FALSE
  <2>1. m \notin Depends[s]  BY <1>4
  <2>2. \E r \in ReachStoppingAtSetscene(Depends[s]) \ SetsceneTids : m \in Depends[r]
    BY <1>1, <1>5, <2>1, ReachedFrom
  <2>3. QED  BY <1>4, <2>2
<1>6. m \in U  BY <1>5
<1>7. SqRevdeps[m] \cap U = {}  BY <1>5, <1>6 DEF SqRevdeps
<1>8. QED  BY <1>6, <1>7

-----------------------------------------------------------------------------
(* The end of a build: NoOrphans, HonestOutcome and KeepsGoing. *)

\* The setscene queue: what is settled or needed, and what nothing undecided needs, is
\* buildable; what was taken up is settled or being fetched; what waits for hard
\* dependencies waits for one that will be taken up.
QueueInv ==
  /\ Resolved \cup sq_needed_harddeps \subseteq sq_buildable
  /\ \A t \in SetsceneTids : SqRevdeps[t] \subseteq Resolved => t \in sq_buildable
  /\ sq_running \subseteq Resolved \cup sq_live
  /\ \A t \in sq_harddep_deferred :
       HardDepsRev[t] \subseteq sq_buildable /\ ~(HardDepsRev[t] \subseteq Resolved)

\* The walk of scenequeue_updatecounters is complete.
WalkInv ==
  /\ Resolved \cup (Unskippable \ SetsceneTids) \subseteq tasks_scenequeue_done
  /\ \A d \in Tasks \ SetsceneTids :
       Revdeps[d] # {} /\ Revdeps[d] \subseteq tasks_scenequeue_done
         => d \in tasks_scenequeue_done

\* Unless an update is due, the split is what it should be.
FreshSplit ==
  /\ tasks_covered \cup tasks_notcovered = CoveredNow \cup NotCoveredTasks
  /\ Undecided \subseteq holdoff_tasks /\ (Undecided = {} => holdoff_tasks = {})
  /\ Leaves(tasks_covered \cup tasks_notcovered) \subseteq runq_buildable

SplitInv ==
  /\ holdoff_need_update \/ FreshSplit
  /\ pc \in {"task", "idle"} => ~holdoff_need_update
  /\ sqdone => Undecided = {}
  /\ SetsceneOnly => runq_running = {} /\ (sqdone => SetsceneTids = {})

\* The queue of real tasks: what may be taken up is buildable, what was taken up is
\* accounted for.
TaskInv ==
  /\ \A t \in Tasks : Depends[t] # {} /\ Depends[t] \subseteq runq_complete
       => t \in runq_buildable
  /\ runq_running \subseteq runq_buildable
  /\ failed_tids \subseteq runq_running
  /\ shutdown # "force" => runq_running \subseteq runq_complete \cup failed_tids \cup BusyTasks

\* What the call has found out at each place.
CallInv ==
  /\ pc \in {"holdoff", "task", "idle"} => sqdone \/ ~CanStartTask \/ SetsceneCandidates = {}
  /\ pc \in {"task", "idle"} =>
       sqdone \/ sq_live # {} \/ DOMAIN sq_deferred # {} \/ holdoff_tasks # {}
  /\ pc = "idle" => SetsceneOnly \/ ~CanStartTask \/ ReadyTasks = {} \/ active # 0

Verdict ==
  /\ state = "failed" <=> failed_tids # {}
  /\ SetsceneOnly => Undecided = {} /\ failed_tids = {}
  /\ ~SetsceneOnly =>
       \/ Halt /\ failed_tids # {}
       \/ Tasks \ Blocked(failed_tids) \subseteq runq_complete

Over == state \in {"failed", "complete"}

EndInv ==
  /\ pc = "raised" => ~worker_up
  /\ worker_up /\ shutdown # "force" =>
       /\ pc \in {"teardown", "end"} => Over
       /\ Over => pc \in {"loop", "teardown", "end"} /\ BusyTasks = {} /\ sq_live = {}

OutcomeInv ==
  worker_up /\ shutdown = "no" =>
    /\ state = "cleanup" => Halt /\ failed_tids # {}
    /\ Over /\ (SetsceneOnly => SetsceneTids # {}) => Verdict

LEMMA DoneFromIs ==
  ASSUME NEW done \in SUBSET Tasks, NEW new \in SUBSET Tasks
  PROVE  LET D == DoneFrom(done, new)
         IN  /\ done \cup new \subseteq D /\ D \subseteq Tasks
             /\ \A d \in Tasks \ SetsceneTids :
                  Revdeps[d] \cap (new \cup (D \ done)) # {} /\ Revdeps[d] \subseteq D => d \in D
<1> DEFINE D == DoneFrom(done, new)
<1>1. done \cup new \subseteq D /\ D \subseteq Tasks  BY DEF DoneFrom
<1>2. ASSUME NEW d \in Tasks \ SetsceneTids, Revdeps[d] \cap (new \cup (D \ done)) # {},
             Revdeps[d] \subseteq D
      PROVE  d \in D
  <2>1. ASSUME NEW E \in SUBSET Tasks, done \cup new \subseteq E,
               \A e \in Tasks \ SetsceneTids :
                 Revdeps[e] \cap (new \cup (E \ done)) # {} /\ Revdeps[e] \subseteq E => e \in E
        PROVE  d \in E
    <3>1. D \subseteq E  BY <2>1 DEF DoneFrom
    <3>2. Revdeps[d] \cap (new \cup (E \ done)) # {} /\ Revdeps[d] \subseteq E
      BY <1>2, <3>1
    <3>3. QED  BY <2>1, <3>2
  <2>2. QED  BY <2>1 DEF DoneFrom
<1>3. QED  BY <1>1, <1>2

\* Settling setscene tasks keeps the queue and the walk.
LEMMA MarkQueue ==
  ASSUME TypeOK, QueueInv, WalkInv,
         NEW cov \in SUBSET SetsceneTids, NEW fail \in SUBSET SetsceneTids,
         MarkSetscene(cov, fail), UNCHANGED sq_needed_harddeps,
         sq_live \subseteq sq_live' \cup cov \cup fail
  PROVE  QueueInv' /\ WalkInv'
<1> DEFINE new == cov \cup fail
<1>1. Resolved' = Resolved \cup new  BY DEF MarkSetscene, Resolved
<1>2. /\ sq_running' = sq_running \cup new
      /\ sq_buildable' = sq_buildable \cup new \cup SqBuildable(new, Resolved')
      /\ tasks_scenequeue_done' = DoneFrom(tasks_scenequeue_done, new)
      /\ sq_harddep_deferred' =
           IF \E t \in new : HardDeps(t) # {}
           THEN {d \in sq_harddep_deferred : ~(HardDepsRev[d] \subseteq Resolved')}
           ELSE sq_harddep_deferred
  BY <1>1 DEF MarkSetscene
<1>3. Resolved' \cup sq_needed_harddeps' \subseteq sq_buildable'
  BY <1>1, <1>2 DEF QueueInv
<1>4. ASSUME NEW t \in SetsceneTids, SqRevdeps[t] \subseteq Resolved'
      PROVE  t \in sq_buildable'
  <2>1. CASE SqRevdeps[t] \cap new # {}  BY <1>2, <1>4, <2>1 DEF SqBuildable
  <2>2. CASE SqRevdeps[t] \cap new = {}
    <3>1. SqRevdeps[t] \subseteq Resolved  BY <1>1, <1>4, <2>2
    <3>2. QED  BY <1>2, <3>1 DEF QueueInv
  <2>3. QED  BY <2>1, <2>2
<1>5. sq_running' \subseteq Resolved' \cup sq_live'  BY <1>1, <1>2 DEF QueueInv
<1>6. ASSUME NEW t \in sq_harddep_deferred'
      PROVE  HardDepsRev[t] \subseteq sq_buildable' /\ ~(HardDepsRev[t] \subseteq Resolved')
  <2>1. t \in sq_harddep_deferred /\ t \in SetsceneTids  BY <1>2, Zenon DEF TypeOK
  <2>2. HardDepsRev[t] \subseteq sq_buildable'  BY <1>2, <2>1 DEF QueueInv
  <2>3. CASE \E u \in new : HardDeps(u) # {}
    <3>1. ~(HardDepsRev[t] \subseteq Resolved')  BY <1>2, <2>3, Zenon
    <3>2. QED  BY <2>2, <3>1
  <2>4. CASE ~\E u \in new : HardDeps(u) # {}
    <3>1. HardDepsRev[t] \cap new = {}  BY <2>1, <2>4 DEF HardDeps
    <3>2. ~(HardDepsRev[t] \subseteq Resolved)  BY <2>1 DEF QueueInv
    <3>3. QED  BY <1>1, <2>2, <3>1, <3>2
  <2>5. QED  BY <2>3, <2>4
<1>7. QueueInv'  BY <1>3, <1>4, <1>5, <1>6 DEF QueueInv
<1> DEFINE D == DoneFrom(tasks_scenequeue_done, new)
<1>8. /\ tasks_scenequeue_done \cup new \subseteq D /\ D \subseteq Tasks
      /\ \A d \in Tasks \ SetsceneTids :
           Revdeps[d] \cap (new \cup (D \ tasks_scenequeue_done)) # {} /\ Revdeps[d] \subseteq D
             => d \in D
  <2>1. tasks_scenequeue_done \in SUBSET Tasks /\ new \in SUBSET Tasks
    BY GraphAssumption DEF TypeOK
  <2>2. QED  BY <2>1, DoneFromIs
<1> HIDE DEF D
<1>9. tasks_scenequeue_done' = D  BY <1>2 DEF D
<1>10. Resolved' \cup (Unskippable \ SetsceneTids) \subseteq tasks_scenequeue_done'
  BY <1>1, <1>8, <1>9 DEF WalkInv
<1>11. ASSUME NEW d \in Tasks \ SetsceneTids, Revdeps[d] # {}, Revdeps[d] \subseteq D
       PROVE  d \in D
  <2>1. CASE Revdeps[d] \subseteq tasks_scenequeue_done
    BY <1>8, <1>11, <2>1 DEF WalkInv
  <2>2. CASE ~(Revdeps[d] \subseteq tasks_scenequeue_done)
    BY <1>8, <1>11, <2>2
  <2>3. QED  BY <2>1, <2>2
<1>12. WalkInv'  BY <1>9, <1>10, <1>11 DEF WalkInv
<1>13. QED  BY <1>7, <1>12

LEMMA IdleQueue ==
  ASSUME QueueInv, WalkInv,
         UNCHANGED <<scenequeue_covered, scenequeue_notcovered, sq_running, sq_buildable,
                     tasks_scenequeue_done, sq_harddep_deferred, sq_needed_harddeps, sq_live>>
  PROVE  QueueInv' /\ WalkInv'
BY DEF QueueInv, WalkInv, Resolved

LEMMA CoverQueue ==
  ASSUME TypeOK, QueueInv, WalkInv, NEW t \in SetsceneTids, Cover(t),
         UNCHANGED sq_needed_harddeps, sq_live \subseteq sq_live' \cup {t}
  PROVE  QueueInv' /\ WalkInv'
BY MarkQueue DEF Cover

LEMMA UncoverQueue ==
  ASSUME TypeOK, QueueInv, WalkInv, NEW t \in SetsceneTids, Uncover(t),
         UNCHANGED sq_needed_harddeps, sq_live \subseteq sq_live' \cup {t}
  PROVE  QueueInv' /\ WalkInv'
<1>1. FailsWith(t) \in SUBSET SetsceneTids /\ t \in FailsWith(t)  BY FailsWithClosed
<1>2. QED  BY <1>1, MarkQueue DEF Uncover

LEMMA CompletionQueue ==
  ASSUME TypeOK, QueueInv, WalkInv, NEW t, CompleteOutright(t),
         UNCHANGED <<sq_needed_harddeps, sq_live>>
  PROVE  QueueInv' /\ WalkInv'
<1>1. UNCHANGED markVars \/ \E found \in DOMAIN sq_deferred : Cover(found)
  BY DEF CompleteOutright, ReleaseDeferred
<1>2. CASE UNCHANGED markVars  BY <1>2, IdleQueue DEF markVars
<1>3. ASSUME NEW found \in DOMAIN sq_deferred, Cover(found) PROVE QueueInv' /\ WalkInv'
  <2>1. found \in SetsceneTids  BY DEF TypeOK
  <2>2. QED  BY <1>3, <2>1, CoverQueue
<1>4. QED  BY <1>1, <1>2, <1>3

LEMMA InitQueue == ASSUME Init PROVE QueueInv /\ WalkInv
<1> DEFINE skip == {t \in SetsceneTids : SetsceneStampPresent(t)}
           done == Unskippable \ SetsceneTids
           D    == DoneFrom(done, skip)
<1>1. /\ scenequeue_covered = skip /\ sq_running = skip
      /\ sq_buildable = {t \in SetsceneTids : SqRevdeps[t] \subseteq skip} \cup skip
      /\ tasks_scenequeue_done = D
      /\ scenequeue_notcovered = {} /\ sq_needed_harddeps = {} /\ sq_harddep_deferred = {}
  BY Zenon DEF Init
<1>2. Resolved = skip  BY <1>1 DEF Resolved
<1>3. QueueInv  BY <1>1, <1>2 DEF QueueInv
<1>4. done \in SUBSET Tasks /\ skip \in SUBSET Tasks  BY GraphAssumption, UnskippableIs
<1>5. /\ done \cup skip \subseteq D
      /\ \A d \in Tasks \ SetsceneTids :
           Revdeps[d] \cap (skip \cup (D \ done)) # {} /\ Revdeps[d] \subseteq D => d \in D
  BY <1>4, DoneFromIs
<1> HIDE DEF D
<1>6. ASSUME NEW d \in Tasks \ SetsceneTids, Revdeps[d] # {}, Revdeps[d] \subseteq D
      PROVE  d \in D
  <2>1. CASE Revdeps[d] \subseteq done
    <3>1. PICK r \in Revdeps[d] : r \in Unskippable \ SetsceneTids  BY <1>6, <2>1
    <3>2. d \in Depends[r]  BY <3>1 DEF Revdeps
    <3>3. QED  BY <1>5, <1>6, <3>1, <3>2, UnskippableIs
  <2>2. CASE ~(Revdeps[d] \subseteq done)  BY <1>5, <1>6, <2>2
  <2>3. QED  BY <2>1, <2>2
<1>7. WalkInv  BY <1>1, <1>2, <1>5, <1>6 DEF WalkInv
<1>8. QED  BY <1>3, <1>7

LEMMA QueueStep ==
  ASSUME OrderInv, QueueInv, WalkInv, [Next]_vars
  PROVE  QueueInv' /\ WalkInv'
<1>0. TypeOK  BY DEF OrderInv
<1>1. CASE ReadExit
  <2> DEFINE x == Head(pipe)
  <2>1. CASE SetsceneExitRead(x.tid, x.ok)
    <3>1. /\ x.tid \in SetsceneTids /\ sq_live \subseteq sq_live' \cup {x.tid}
          /\ UNCHANGED sq_needed_harddeps
      BY <1>0, <2>1 DEF TypeOK, SetsceneExitRead, waitVars
    <3>2. Cover(x.tid) \/ Uncover(x.tid)  BY <2>1 DEF SetsceneExitRead
    <3>3. QED  BY <1>0, <3>1, <3>2, CoverQueue, UncoverQueue
  <2>2. CASE TaskExitRead(x.tid, x.ok)
    <3>1. UNCHANGED <<sq_live, sq_needed_harddeps>>  BY <2>2 DEF TaskExitRead
    <3>2. CompleteOutright(x.tid) \/ UNCHANGED markVars  BY <2>2 DEF TaskExitRead
    <3>3. QED  BY <1>0, <3>1, <3>2, CompletionQueue, IdleQueue DEF markVars
  <2>3. QED  BY <1>1, <2>1, <2>2 DEF ReadExit
<1>2. CASE NextSetscene
  <2>1. PICK t \in SetsceneCandidates :
          \/ SkipSetsceneTask(t) \/ AwaitHardDeps(t) \/ FailOutright(t)
          \/ StartSetscene(t) \/ SendSetsceneFails(t)
    BY <1>2 DEF NextSetscene
  <2>2. t \in SetsceneTids  BY <1>0 DEF TypeOK, SetsceneCandidates
  <2>3. CASE SkipSetsceneTask(t)
    BY <1>0, <2>2, <2>3, CoverQueue DEF SkipSetsceneTask
  <2>4. CASE FailOutright(t)
    BY <1>0, <2>2, <2>4, UncoverQueue DEF FailOutright
  <2>5. CASE AwaitHardDeps(t)
    <3>1. /\ UNCHANGED <<scenequeue_covered, scenequeue_notcovered, sq_running,
                         tasks_scenequeue_done, sq_live>>
          /\ sq_buildable' = sq_buildable \cup (HardDepsRev[t] \ sq_needed_harddeps)
          /\ sq_needed_harddeps' = sq_needed_harddeps \cup HardDepsRev[t]
          /\ sq_harddep_deferred' = sq_harddep_deferred \cup {t}
          /\ ~(HardDepsRev[t] \subseteq Resolved)
      BY <2>5 DEF AwaitHardDeps, HardDepsResolved
    <3>2. Resolved' = Resolved  BY <3>1 DEF Resolved
    <3>3. QueueInv'  BY <3>1, <3>2 DEF QueueInv
    <3>4. WalkInv'  BY <3>1, <3>2 DEF WalkInv
    <3>5. QED  BY <3>3, <3>4
  <2>6. CASE StartSetscene(t)
    <3>1. /\ UNCHANGED <<scenequeue_covered, scenequeue_notcovered, sq_buildable,
                         tasks_scenequeue_done, sq_harddep_deferred, sq_needed_harddeps>>
          /\ sq_running' = sq_running \cup {t} /\ sq_live' = sq_live \cup {t}
      BY <2>6 DEF StartSetscene
    <3>2. Resolved' = Resolved  BY <3>1 DEF Resolved
    <3>3. QueueInv'  BY <3>1, <3>2 DEF QueueInv
    <3>4. WalkInv'  BY <3>1, <3>2 DEF WalkInv
    <3>5. QED  BY <3>3, <3>4
  <2>7. CASE SendSetsceneFails(t)
    BY <2>7, IdleQueue DEF SendSetsceneFails, markVars
  <2>8. QED  BY <2>1, <2>3, <2>4, <2>5, <2>6, <2>7
<1>3. CASE NextTask
  <2>1. PICK t \in ReadyTasks :
          RefuseTask(t) \/ SkipTask(t) \/ RunNoexecTask(t) \/ StartTask(t) \/ SendTaskFails(t)
    BY <1>3 DEF NextTask
  <2>2. UNCHANGED <<sq_live, sq_needed_harddeps>>  BY <1>3 DEF NextTask
  <2>3. CompleteOutright(t) \/ UNCHANGED markVars
    BY <2>1 DEF RefuseTask, SkipTask, RunNoexecTask, StartTask, SendTaskFails
  <2>4. QED  BY <1>0, <2>2, <2>3, CompletionQueue, IdleQueue DEF markVars
<1>4. CASE \/ EndRead \/ NoSetscene \/ NoTask \/ WaitForWorkers \/ Conclude \/ BeginCall
           \/ CleanUp \/ StopAgain \/ Teardown \/ StopGracefully \/ StopNow \/ ForceDeferred
           \/ WorkerDies \/ WorkerStep \/ Holdoff \/ UNCHANGED vars
  <2>1. UNCHANGED <<scenequeue_covered, scenequeue_notcovered, sq_running, sq_buildable,
                    tasks_scenequeue_done, sq_harddep_deferred, sq_needed_harddeps, sq_live>>
    BY <1>4 DEF EndRead, NoSetscene, NoTask, WaitForWorkers, Conclude, BeginCall, CleanUp,
                StopAgain, Teardown, StopGracefully, StopNow, ForceDeferred, WorkerDies,
                WorkerStep, TaskExits, SetsceneExits, Holdoff, vars, markVars, waitVars
  <2>2. QED  BY <2>1, IdleQueue
<1>5. QED
  BY <1>1, <1>2, <1>3, <1>4 DEF Next, ServerStep, Terminated

-----------------------------------------------------------------------------
(* The split, the queue of real tasks and what a call knows. *)

LEMMA NothingEnforced == ASSUME NeverEnforced, TypeOK PROVE ~SetsceneEnforce
BY DEF NeverEnforced, TypeOK, SetsceneEnforce

\* A step that settles nothing and does not compute the split anew.
LEMMA SplitKept ==
  ASSUME SplitInv,
         UNCHANGED <<options, splitVars, scenequeue_covered, scenequeue_notcovered,
                     tasks_scenequeue_done, holdoff_need_update, sqdone>>,
         runq_buildable \subseteq runq_buildable',
         SetsceneOnly => UNCHANGED runq_running,
         pc' \in {"task", "idle"} => pc \in {"task", "idle"}
  PROVE  SplitInv'
<1>1. UNCHANGED <<tasks_covered, tasks_notcovered, holdoff_tasks>>  BY DEF splitVars
<1>2. FreshSplit => FreshSplit'
  BY <1>1 DEF FreshSplit, CoveredNow, NotCoveredTasks, Undecided, Resolved
<1>3. QED  BY <1>2 DEF SplitInv, SetsceneOnly, Undecided, Resolved

\* A step that settles something, or after which the split is due all the same.
LEMMA SplitStale ==
  ASSUME SplitInv, UNCHANGED <<options, sqdone>>, holdoff_need_update',
         Undecided' \subseteq Undecided,
         SetsceneOnly => UNCHANGED runq_running, pc' \notin {"task", "idle"}
  PROVE  SplitInv'
BY DEF SplitInv, SetsceneOnly

LEMMA SettlingUndecides == ASSUME Settles PROVE Undecided' \subseteq Undecided
BY DEF Settles, Undecided, Resolved

\* Both: settling asks for the split.
LEMMA SplitMarked ==
  ASSUME SplitInv, Settles, UNCHANGED <<options, splitVars, sqdone>>,
         \/ UNCHANGED markVars
         \/ \E cov, fail : MarkSetscene(cov, fail),
         runq_buildable \subseteq runq_buildable',
         SetsceneOnly => UNCHANGED runq_running, pc' \notin {"task", "idle"}
  PROVE  SplitInv'
<1>1. CASE UNCHANGED markVars
  <2>1. UNCHANGED <<scenequeue_covered, scenequeue_notcovered, tasks_scenequeue_done,
                    holdoff_need_update>>
    BY <1>1 DEF markVars
  <2>2. QED  BY <2>1, SplitKept
<1>2. CASE \E cov, fail : MarkSetscene(cov, fail)
  <2>1. holdoff_need_update'  BY <1>2, Zenon DEF MarkSetscene
  <2>2. QED  BY <2>1, SettlingUndecides, SplitStale
<1>3. QED  BY <1>1, <1>2

LEMMA CompletionMarks ==
  ASSUME NEW t, CompleteOutright(t)
  PROVE  UNCHANGED markVars \/ \E cov, fail : MarkSetscene(cov, fail)
BY DEF CompleteOutright, ReleaseDeferred, Cover

\* update_holdofftasks makes the split what it should be.
LEMMA UpdateRefreshes ==
  ASSUME TypeOK, SplitInv, UpdateHoldoff,
         UNCHANGED <<scenequeue_covered, scenequeue_notcovered, tasks_scenequeue_done>>
  PROVE  FreshSplit' /\ ~holdoff_need_update'
<1>1. /\ CoveredNow' = CoveredNow /\ NotCoveredTasks' = NotCoveredTasks
      /\ Undecided' = Undecided
  BY DEF CoveredNow, NotCoveredTasks, Undecided, Resolved
<1>2. CASE ~holdoff_need_update
  <2>1. /\ FreshSplit
        /\ UNCHANGED <<runq_buildable, tasks_covered, tasks_notcovered, holdoff_tasks,
                       holdoff_need_update>>
    BY <1>2 DEF SplitInv, UpdateHoldoff, splitVars
  <2>2. QED  BY <1>1, <1>2, <2>1 DEF FreshSplit
<1>3. CASE holdoff_need_update
  <2>1. /\ holdoff_need_update' = FALSE
        /\ tasks_covered' = CoveredNow /\ tasks_notcovered' = NotCoveredTasks
        /\ holdoff_tasks' = HeldOff
        /\ runq_buildable' = runq_buildable \cup
             {t \in CoveredNow \cup NotCoveredTasks : Depends[t] \subseteq runq_complete}
    BY <1>3 DEF UpdateHoldoff
  <2>2. Undecided \subseteq HeldOff /\ (Undecided = {} => HeldOff = {})
    BY DEF HeldOff, Undecided
  <2>3. Leaves(CoveredNow \cup NotCoveredTasks) \subseteq runq_buildable'
    BY <2>1 DEF Leaves
  <2>4. QED  BY <1>1, <2>1, <2>2, <2>3 DEF FreshSplit
<1>4. QED  BY <1>2, <1>3

LEMMA HoldoffSplit ==
  ASSUME TypeOK, SplitInv, Holdoff
  PROVE  SplitInv'
<1>1. UNCHANGED <<options, runq_running, scenequeue_covered, scenequeue_notcovered,
                  tasks_scenequeue_done>>
  BY DEF Holdoff
<1>2. FreshSplit' /\ ~holdoff_need_update'  BY <1>1, UpdateRefreshes DEF Holdoff
<1>3. sqdone' => sqdone \/ (holdoff_tasks' = {} /\ ~SetsceneOnly)
  BY DEF Holdoff, SettleSetscene, SetsceneFinished
<1>4. holdoff_tasks' = {} => Undecided' = {}  BY <1>2 DEF FreshSplit
<1>5. Undecided' = Undecided  BY <1>1 DEF Undecided, Resolved
<1>6. QED  BY <1>1, <1>2, <1>3, <1>4, <1>5 DEF SplitInv, SetsceneOnly

LEMMA SplitStep ==
  ASSUME OrderInv, SplitInv, [Next]_vars
  PROVE  SplitInv'
<1>0. TypeOK /\ Settles  BY StepIsSmall DEF OrderInv, SmallStep
<1>1. CASE ReadExit
  <2> DEFINE x == Head(pipe)
  <2>1. /\ UNCHANGED <<pc, options, splitVars, sqdone>>
        /\ pc \in {"read", "drain", "teardown", "raised"}
    BY <1>1 DEF ReadExit
  <2>2. CASE SetsceneExitRead(x.tid, x.ok)
    <3>1. UNCHANGED <<runq_buildable, runq_running>>
      BY <2>2 DEF SetsceneExitRead, taskVars
    <3>2. \E cov, fail : MarkSetscene(cov, fail)
      BY <2>2 DEF SetsceneExitRead, Cover, Uncover
    <3>3. QED  BY <1>0, <2>1, <3>1, <3>2, SplitMarked
  <2>3. CASE TaskExitRead(x.tid, x.ok)
    <3>1. UNCHANGED runq_running /\ runq_buildable \subseteq runq_buildable'
      BY <2>3 DEF TaskExitRead
    <3>2. UNCHANGED markVars \/ \E cov, fail : MarkSetscene(cov, fail)
      BY <2>3, CompletionMarks DEF TaskExitRead
    <3>3. QED  BY <1>0, <2>1, <3>1, <3>2, SplitMarked
  <2>4. QED  BY <1>1, <2>2, <2>3 DEF ReadExit
<1>2. CASE NextSetscene
  <2>1. PICK t \in SetsceneCandidates :
          \/ SkipSetsceneTask(t) \/ AwaitHardDeps(t) \/ FailOutright(t)
          \/ StartSetscene(t) \/ SendSetsceneFails(t)
    BY <1>2 DEF NextSetscene
  <2>2. UNCHANGED <<options, splitVars, sqdone, runq_buildable, runq_running>>
    BY <1>2 DEF NextSetscene, taskVars
  <2>3. pc' \notin {"task", "idle"}  BY <2>1, <1>0, SetsceneGrows
  <2>4. CASE SkipSetsceneTask(t) \/ FailOutright(t)
    <3>1. \E cov, fail : MarkSetscene(cov, fail)
      BY <2>4 DEF SkipSetsceneTask, FailOutright, Cover, Uncover
    <3>2. QED  BY <1>0, <2>2, <2>3, <3>1, SplitMarked
  <2>5. CASE AwaitHardDeps(t) \/ StartSetscene(t) \/ SendSetsceneFails(t)
    <3>1. UNCHANGED <<scenequeue_covered, scenequeue_notcovered, tasks_scenequeue_done,
                      holdoff_need_update>>
      BY <2>5 DEF AwaitHardDeps, StartSetscene, SendSetsceneFails, markVars
    <3>2. QED  BY <2>2, <2>3, <3>1, SplitKept
  <2>6. QED  BY <2>1, <2>4, <2>5
<1>3. CASE Holdoff  BY <1>0, <1>3, HoldoffSplit
<1>4. CASE NextTask
  <2>1. PICK t \in ReadyTasks :
          RefuseTask(t) \/ SkipTask(t) \/ RunNoexecTask(t) \/ StartTask(t) \/ SendTaskFails(t)
    BY <1>4 DEF NextTask
  <2>2. UNCHANGED <<options, splitVars, sqdone>> /\ ~SetsceneOnly /\ pc = "task"
    BY <1>4 DEF NextTask
  <2>3. CASE SkipTask(t) \/ RunNoexecTask(t)
    <3>1. CompleteOutright(t) /\ runq_buildable \subseteq runq_buildable' /\ pc' = "loop"
      BY <2>3 DEF SkipTask, RunNoexecTask
    <3>2. UNCHANGED markVars \/ \E cov, fail : MarkSetscene(cov, fail)
      BY <3>1, CompletionMarks
    <3>3. QED  BY <1>0, <2>2, <3>1, <3>2, SplitMarked
  <2>4. CASE RefuseTask(t) \/ StartTask(t) \/ SendTaskFails(t)
    <3>1. UNCHANGED <<scenequeue_covered, scenequeue_notcovered, tasks_scenequeue_done,
                      holdoff_need_update, runq_buildable>>
      BY <2>4 DEF RefuseTask, StartTask, SendTaskFails, markVars, taskVars
    <3>2. QED  BY <2>2, <3>1, SplitKept
  <2>5. QED  BY <2>1, <2>3, <2>4
<1>5. CASE \/ EndRead \/ NoSetscene \/ NoTask \/ WaitForWorkers \/ Conclude \/ BeginCall
           \/ CleanUp \/ StopAgain \/ Teardown \/ StopGracefully \/ StopNow \/ ForceDeferred
           \/ WorkerDies \/ WorkerStep \/ UNCHANGED vars
  <2>1. UNCHANGED <<options, splitVars, scenequeue_covered, scenequeue_notcovered,
                    tasks_scenequeue_done, holdoff_need_update, sqdone, runq_buildable,
                    runq_running>>
    BY <1>5 DEF EndRead, NoSetscene, NoTask, WaitForWorkers, Conclude, BeginCall, CleanUp,
                StopAgain, Teardown, StopGracefully, StopNow, ForceDeferred, WorkerDies,
                WorkerStep, TaskExits, SetsceneExits, vars, markVars, taskVars, control
  <2>2. pc' \in {"task", "idle"} => pc \in {"task", "idle"}
    <3>1. CASE EndRead \/ CleanUp  BY <3>1, Zenon DEF EndRead, CleanUp, Finish
    <3>2. CASE \/ NoSetscene \/ NoTask \/ WaitForWorkers \/ Conclude \/ BeginCall \/ StopAgain
               \/ Teardown \/ StopGracefully \/ StopNow \/ ForceDeferred \/ WorkerDies
               \/ WorkerStep \/ UNCHANGED vars
      BY <3>2 DEF NoSetscene, NoTask, WaitForWorkers, Conclude, BeginCall, StopAgain, Teardown,
                  StopGracefully, StopNow, ForceDeferred, WorkerDies, WorkerStep, TaskExits,
                  SetsceneExits, vars, control
    <3>3. QED  BY <1>5, <3>1, <3>2
  <2>3. QED  BY <2>1, <2>2, SplitKept
<1>6. QED
  BY <1>1, <1>2, <1>3, <1>4, <1>5 DEF Next, ServerStep, Terminated

LEMMA InitSplit == ASSUME Init PROVE SplitInv
<1>1. /\ holdoff_need_update = TRUE /\ pc = "loop" /\ sqdone = (SetsceneTids = {})
      /\ runq_running = {}
  BY Zenon DEF Init
<1>2. sqdone => SetsceneTids = {}  BY <1>1, Zenon
<1>3. QED  BY <1>1, <1>2 DEF SplitInv, Undecided

LEMMA InitTasks == ASSUME Init PROVE TaskInv
<1>1. runq_running = {} /\ runq_complete = {} /\ failed_tids = {}
  BY Zenon DEF Init
<1>2. QED  BY <1>1 DEF TaskInv

\* Completing t makes buildable what waited for t alone.
LEMMA CompletionTasks ==
  ASSUME TypeOK, TaskInv, NEW t, runq_complete' = runq_complete \cup {t},
         runq_buildable' = runq_buildable \cup NewlyBuildable(t)
  PROVE  \A r \in Tasks : Depends[r] # {} /\ Depends[r] \subseteq runq_complete'
           => r \in runq_buildable'
<1> SUFFICES ASSUME NEW r \in Tasks, Depends[r] # {}, Depends[r] \subseteq runq_complete \cup {t}
             PROVE  r \in runq_buildable \cup NewlyBuildable(t)
  OBVIOUS
<1>1. CASE t \notin Depends[r]
  <2>1. Depends[r] \subseteq runq_complete  BY <1>1
  <2>2. QED  BY <2>1 DEF TaskInv
<1>2. CASE t \in Depends[r]
  <2>1. t \in Tasks  BY <1>2, GraphAssumption
  <2>2. r \in Revdeps[t]  BY <1>2, <2>1 DEF Revdeps
  <2>3. QED  BY <2>2 DEF NewlyBuildable, TaskInv
<1>3. QED  BY <1>1, <1>2

\* A step in which no real task starts or ends.
LEMMA TasksKept ==
  ASSUME TaskInv, UNCHANGED <<runq_running, runq_complete, failed_tids>>,
         runq_buildable \subseteq runq_buildable',
         shutdown' # "force" => shutdown # "force" /\ BusyTasks' = BusyTasks
  PROVE  TaskInv'
BY DEF TaskInv

LEMMA TasksStep ==
  ASSUME NeverEnforced, OrderInv, OnceInv, TaskInv, [Next]_vars
  PROVE  TaskInv'
<1>0. TypeOK /\ ~SetsceneEnforce  BY NothingEnforced DEF OrderInv
<1>1. CASE ReadExit
  <2> DEFINE x == Head(pipe)
             t == x.tid
  <2>1. UNCHANGED shutdown  BY <1>1 DEF ReadExit
  <2>2. CASE SetsceneExitRead(t, x.ok) /\ t \in sq_live /\ BusyTasks' = BusyTasks
    BY <2>1, <2>2, TasksKept DEF SetsceneExitRead, taskVars
  <2>3. CASE TaskExitRead(t, x.ok) /\ t \in BusyTasks /\ BusyTasks' = BusyTasks \ {t}
    <3>1. t \in runq_running /\ UNCHANGED runq_running
      BY <2>3 DEF OrderInv, Started, TaskExitRead
    <3>2. \/ /\ runq_complete' = runq_complete \cup {t} /\ UNCHANGED failed_tids
             /\ runq_buildable' = runq_buildable \cup NewlyBuildable(t)
          \/ /\ failed_tids' = failed_tids \cup {t}
             /\ UNCHANGED <<runq_complete, runq_buildable>>
      BY <2>3 DEF TaskExitRead, CompleteOutright
    <3>3. \A r \in Tasks : Depends[r] # {} /\ Depends[r] \subseteq runq_complete'
            => r \in runq_buildable'
      BY <1>0, <3>2, CompletionTasks DEF TaskInv
    <3>4. QED  BY <2>1, <2>3, <3>1, <3>2, <3>3 DEF TaskInv
  <2>4. QED  BY <1>1, <2>2, <2>3, ReadFrees
<1>2. CASE NextTask
  <2>1. PICK t \in ReadyTasks :
          RefuseTask(t) \/ SkipTask(t) \/ RunNoexecTask(t) \/ StartTask(t) \/ SendTaskFails(t)
    BY <1>2 DEF NextTask
  <2>2. UNCHANGED <<shutdown, pipe>> /\ t \in runq_buildable
    BY <1>2 DEF NextTask, ReadyTasks
  <2>3. ~Refused(t)  BY <1>0 DEF Refused
  <2>4. CASE SkipTask(t) \/ RunNoexecTask(t)
    <3>1. /\ runq_running' = runq_running \cup {t} /\ runq_complete' = runq_complete \cup {t}
          /\ runq_buildable' = runq_buildable \cup NewlyBuildable(t)
          /\ UNCHANGED <<failed_tids, task_procs>>
      BY <2>4 DEF SkipTask, RunNoexecTask, CompleteOutright
    <3>2. BusyTasks' = BusyTasks  BY <2>2, <3>1, Busy, BusyAfter
    <3>3. \A r \in Tasks : Depends[r] # {} /\ Depends[r] \subseteq runq_complete'
            => r \in runq_buildable'
      BY <1>0, <3>1, CompletionTasks
    <3>4. QED  BY <2>2, <3>1, <3>2, <3>3 DEF TaskInv
  <2>5. CASE StartTask(t)
    <3>1. /\ runq_running' = runq_running \cup {t} /\ task_procs' = task_procs \cup {t}
          /\ UNCHANGED <<runq_buildable, runq_complete, failed_tids>>
      BY <2>5 DEF StartTask
    <3>2. BusyTasks' = BusyTasks \cup {t}  BY <2>2, <3>1, Busy, BusyAfter
    <3>3. QED  BY <2>2, <3>1, <3>2 DEF TaskInv
  <2>6. CASE SendTaskFails(t)
    <3>1. UNCHANGED <<runq_buildable, runq_running, runq_complete, failed_tids, task_procs>>
      BY <2>6 DEF SendTaskFails, taskVars
    <3>2. BusyTasks' = BusyTasks  BY <2>2, <3>1, Busy, BusyAfter
    <3>3. QED  BY <2>2, <3>1, <3>2, TasksKept
  <2>7. QED  BY <2>1, <2>3, <2>4, <2>5, <2>6 DEF RefuseTask
<1>3. CASE WorkerStep
  <2>1. BusyTasks' = BusyTasks  BY <1>0, <1>3, ExitingStaysBusy
  <2>2. UNCHANGED <<shutdown, runq_buildable, runq_running, runq_complete, failed_tids>>
    BY <1>3 DEF WorkerStep, TaskExits, SetsceneExits, control, taskVars
  <2>3. QED  BY <2>1, <2>2, TasksKept
<1>4. CASE NextSetscene \/ Holdoff
  <2>1. /\ UNCHANGED <<shutdown, runq_running, runq_complete, failed_tids, task_procs, pipe>>
        /\ runq_buildable \subseteq runq_buildable'
    BY <1>4 DEF NextSetscene, Holdoff, UpdateHoldoff, taskVars, procVars
  <2>2. BusyTasks' = BusyTasks  BY <2>1, Busy, BusyAfter
  <2>3. QED  BY <2>1, <2>2, TasksKept
<1>5. CASE \/ EndRead \/ NoSetscene \/ NoTask \/ WaitForWorkers \/ Conclude \/ BeginCall
           \/ CleanUp \/ StopAgain \/ Teardown \/ StopGracefully \/ StopNow \/ ForceDeferred
           \/ WorkerDies \/ UNCHANGED vars
  <2>1. /\ UNCHANGED <<runq_buildable, runq_running, runq_complete, failed_tids>>
        /\ shutdown' # "force" => shutdown # "force" /\ UNCHANGED <<task_procs, pipe>>
    BY <1>5 DEF EndRead, NoSetscene, NoTask, WaitForWorkers, Conclude, BeginCall, CleanUp,
                StopAgain, Teardown, StopGracefully, StopNow, ForceDeferred, WorkerDies,
                vars, taskVars, procVars, control
  <2>2. shutdown' # "force" => BusyTasks' = BusyTasks  BY <2>1, Busy, BusyAfter
  <2>3. QED  BY <2>1, <2>2, TasksKept
<1>6. QED
  BY <1>1, <1>2, <1>3, <1>4, <1>5 DEF Next, ServerStep, Terminated

-----------------------------------------------------------------------------
(* Setscene: once all is decided nothing is missing. *)

\* Every real task is needed directly or stands behind a setscene task.
LEMMA EveryTaskIsSomewhere ==
  ASSUME NEW t \in Tasks \ SetsceneTids
  PROVE  t \in Unskippable \/ \E s \in SetsceneTids : t \in CoveredTasks[s]
<1> DEFINE B == {x \in Tasks \ SetsceneTids :
                   x \notin Unskippable /\ \A s \in SetsceneTids : x \notin CoveredTasks[s]}
<1> SUFFICES ASSUME t \in B PROVE FALSE
  OBVIOUS
<1>1. PICK m \in B : \A r \in B : m \notin Depends[r]
  <2>1. B \in (SUBSET Tasks) \ {{}}  OBVIOUS
  <2>2. QED  BY <2>1, AcyclicAssumption
<1>2. Revdeps[m] # {}
  <2> DEFINE S == {x \in Tasks : Revdeps[x] = {}} \cup CantSkip
  <2>1. S \in SUBSET Tasks  BY GraphAssumption DEF CantSkip
  <2>2. S \subseteq Unskippable  BY <2>1, ReachIs DEF Unskippable
  <2>3. QED  BY <2>2
<1>3. PICK r \in Tasks : m \in Depends[r]  BY <1>2 DEF Revdeps
<1>4. r \notin B  BY <1>1, <1>3
<1>5. CASE \E s \in SetsceneTids : r \in {s} \cup CoveredTasks[s]
  BY <1>3, <1>5, CoveredBehind
<1>6. CASE r \in Unskippable \ SetsceneTids  BY <1>3, <1>6, UnskippableIs
<1>7. QED  BY <1>4, <1>5, <1>6

LEMMA WalkedToTheEnd ==
  ASSUME WalkInv, Undecided = {}
  PROVE  Tasks \subseteq tasks_scenequeue_done
<1> DEFINE B == Tasks \ tasks_scenequeue_done
<1> SUFFICES ASSUME B # {} PROVE FALSE
  OBVIOUS
<1>1. PICK m \in B : \A r \in B : m \notin Depends[r]
  <2>1. B \in (SUBSET Tasks) \ {{}}  OBVIOUS
  <2>2. QED  BY <2>1, AcyclicAssumption
<1>2. Revdeps[m] \subseteq tasks_scenequeue_done  BY <1>1 DEF Revdeps
<1>3. m \notin SetsceneTids  BY DEF WalkInv, Undecided
<1>4. Revdeps[m] # {}
  <2> DEFINE S == {x \in Tasks : Revdeps[x] = {}} \cup CantSkip
  <2>1. S \in SUBSET Tasks  BY GraphAssumption DEF CantSkip
  <2>2. S \subseteq Unskippable  BY <2>1, ReachIs DEF Unskippable
  <2>3. QED  BY <1>3, <2>2 DEF WalkInv
<1>5. QED  BY <1>2, <1>3, <1>4 DEF WalkInv

LEMMA SplitIsTotal ==
  ASSUME WalkInv, Undecided = {}
  PROVE  Tasks \subseteq CoveredNow \cup NotCoveredTasks
<1>1. Tasks \subseteq tasks_scenequeue_done  BY WalkedToTheEnd
<1> SUFFICES ASSUME NEW t \in Tasks PROVE t \in CoveredNow \cup NotCoveredTasks
  OBVIOUS
<1>2. CASE t \in SetsceneTids
  BY <1>1, <1>2 DEF Undecided, Resolved, CoveredNow, NotCoveredTasks
<1>3. CASE t \notin SetsceneTids /\ t \in Unskippable
  BY <1>1, <1>3 DEF NotCoveredTasks
<1>4. CASE \E s \in SetsceneTids : t \in CoveredTasks[s]
  BY <1>1, <1>4 DEF Undecided, Resolved, CoveredNow, NotCoveredTasks
<1>5. QED  BY <1>2, <1>3, <1>4, EveryTaskIsSomewhere

\* summarise_scenequeue_errors finds nothing.
LEMMA NoQueueError ==
  ASSUME OrderInv, QueueInv, WalkInv, Undecided = {},
         NEW split, CoveredNow \cup NotCoveredTasks \subseteq split,
         NEW buildable, Leaves(split) \subseteq buildable
  PROVE  ~SceneQueueError({}, {}, split, buildable)
<1>1. Tasks \subseteq split \cap tasks_scenequeue_done  BY WalkedToTheEnd, SplitIsTotal
<1>2. SetsceneTids \subseteq Resolved \cap sq_buildable \cap sq_running
  BY DEF Undecided, QueueInv, OrderInv, FateOpen
<1>3. Leaves(Tasks) \subseteq buildable  BY <1>1 DEF Leaves
<1>4. QED  BY <1>1, <1>2, <1>3 DEF SceneQueueError

-----------------------------------------------------------------------------
(* What the call has found out. *)

LEMMA CallElsewhere ==
  ASSUME pc' \notin {"holdoff", "task", "idle"}
  PROVE  CallInv'
BY DEF CallInv

\* Nothing that the findings are about has changed.
LEMMA CallKept ==
  ASSUME CallInv,
         UNCHANGED <<options, pc, sqdone, active, sq_live, sq_deferred, sq_buildable, sq_running,
                     sq_harddep_deferred, runq_complete, runq_buildable, runq_running, splitVars>>,
         BusyTasks' = BusyTasks
  PROVE  CallInv'
<1>1. UNCHANGED <<tasks_covered, tasks_notcovered, holdoff_tasks>>  BY DEF splitVars
<1>2. SetsceneCandidates' = SetsceneCandidates  BY DEF SetsceneCandidates, StampInUse
<1>3. ReadyTasks' = ReadyTasks  BY <1>1 DEF ReadyTasks, StampInUse
<1>4. CanStartTask' = CanStartTask /\ SetsceneOnly' = SetsceneOnly
  BY DEF CanStartTask, SetsceneOnly
<1>5. QED  BY <1>1, <1>2, <1>3, <1>4 DEF CallInv

LEMMA HoldoffCall ==
  ASSUME CallInv, Holdoff
  PROVE  CallInv'
<1>1. CASE pc' = "loop"  BY <1>1, CallElsewhere
<1>2. CASE pc' = "task"
  <2>1. /\ pc = "holdoff"
        /\ UNCHANGED <<active, sq_live, sq_deferred, sq_buildable, sq_running,
                       sq_harddep_deferred, runq_complete, task_procs, pipe>>
    BY DEF Holdoff, waitVars, procVars
  <2>2. SetsceneCandidates' = SetsceneCandidates /\ CanStartTask' = CanStartTask
    <3>1. BusyTasks' = BusyTasks  BY <2>1, Busy, BusyAfter
    <3>2. QED  BY <2>1, <3>1 DEF SetsceneCandidates, StampInUse, CanStartTask
  <2>3. sqdone => sqdone'  BY DEF Holdoff, SettleSetscene
  <2>4. SetsceneFinished => sqdone'
    <3> DEFINE err == SceneQueueError(DOMAIN sq_deferred, holdoff_tasks',
                                      tasks_covered' \cup tasks_notcovered', runq_buildable')
    <3>1. /\ sqdone' = (sqdone \/ (SetsceneFinished /\ ~err /\ ~SetsceneOnly))
          /\ pc' = IF SetsceneFinished /\ (err \/ SetsceneOnly \/ Tasks = {})
                   THEN "loop" ELSE "task"
      BY Zenon DEF Holdoff, SettleSetscene
    <3> HIDE DEF err
    <3>2. ~(SetsceneFinished /\ (err \/ SetsceneOnly \/ Tasks = {}))  BY <1>2, <3>1
    <3>3. QED  BY <3>1, <3>2, Zenon
  <2>5. sqdone' \/ sq_live' # {} \/ DOMAIN sq_deferred' # {} \/ holdoff_tasks' # {}
    BY <2>1, <2>3, <2>4 DEF SetsceneFinished
  <2>6. QED  BY <1>2, <2>1, <2>2, <2>3, <2>5 DEF CallInv
<1>3. QED  BY <1>1, <1>2 DEF Holdoff, SettleSetscene

LEMMA CallStep ==
  ASSUME OrderInv, CallInv, [Next]_vars
  PROVE  CallInv'
<1>0. TypeOK  BY DEF OrderInv
<1>1. CASE WorkerStep
  <2>1. BusyTasks' = BusyTasks  BY <1>0, <1>1, ExitingStaysBusy
  <2>2. UNCHANGED <<options, pc, sqdone, active, sq_live, sq_deferred, sq_buildable, sq_running,
                    sq_harddep_deferred, runq_complete, runq_buildable, runq_running, splitVars>>
    BY <1>1 DEF WorkerStep, TaskExits, SetsceneExits, control, taskVars, markVars, waitVars
  <2>3. QED  BY <2>1, <2>2, CallKept
<1>2. CASE NextSetscene
  <2>1. PICK t \in SetsceneCandidates :
          \/ SkipSetsceneTask(t) \/ AwaitHardDeps(t) \/ FailOutright(t)
          \/ StartSetscene(t) \/ SendSetsceneFails(t)
    BY <1>2 DEF NextSetscene
  <2>2. CASE SkipSetsceneTask(t) \/ AwaitHardDeps(t) \/ FailOutright(t) \/ SendSetsceneFails(t)
    <3>1. pc' \in {"loop", "setscene", "raised"}
      BY <2>2, Zenon DEF SkipSetsceneTask, AwaitHardDeps, FailOutright, SendSetsceneFails
    <3>2. QED  BY <3>1, CallElsewhere
  <2>3. CASE StartSetscene(t)
    <3>1. pc' = (IF active + Cardinality(sq_live') < NumberTasks THEN "loop" ELSE "holdoff")
      BY <2>3, Zenon DEF StartSetscene
    <3>2. active' = active  BY <1>2 DEF NextSetscene, taskVars
    <3>3. pc' = "loop" \/ (pc' = "holdoff" /\ ~CanStartTask')
      BY <3>1, <3>2 DEF CanStartTask
    <3>4. QED  BY <3>3 DEF CallInv
  <2>4. QED  BY <2>1, <2>2, <2>3
<1>3. CASE Holdoff  BY <1>3, HoldoffCall
<1>4. CASE NextTask
  <2>1. PICK t \in ReadyTasks :
          RefuseTask(t) \/ SkipTask(t) \/ RunNoexecTask(t) \/ StartTask(t) \/ SendTaskFails(t)
    BY <1>4 DEF NextTask
  <2>2. CASE RefuseTask(t) \/ SkipTask(t) \/ RunNoexecTask(t) \/ SendTaskFails(t)
    <3>1. pc' \in {"loop", "raised"}
      BY <2>2, Zenon DEF RefuseTask, SkipTask, RunNoexecTask, SendTaskFails
    <3>2. QED  BY <3>1, CallElsewhere
  <2>3. CASE StartTask(t)
    <3>1. pc' = (IF active' + Cardinality(sq_live) < NumberTasks THEN "loop" ELSE "idle")
      BY <2>3, Zenon DEF StartTask
    <3>2. pc = "task" /\ UNCHANGED <<sq_live, sqdone, splitVars>>  BY <1>4 DEF NextTask
    <3>3. sq_deferred' = sq_deferred  BY <2>3 DEF StartTask
    <3>4. pc' = "loop" \/ (pc' = "idle" /\ ~CanStartTask')
      BY <3>1, <3>2 DEF CanStartTask
    <3>5. holdoff_tasks' = holdoff_tasks  BY <3>2 DEF splitVars
    <3>6. QED  BY <3>2, <3>3, <3>4, <3>5 DEF CallInv
  <2>4. QED  BY <2>1, <2>2, <2>3
<1>5. CASE NoSetscene
  <2>1. /\ pc' = "holdoff" /\ (sqdone \/ ~CanStartTask \/ SetsceneCandidates = {})
        /\ UNCHANGED <<sqdone, active, sq_live, sq_deferred, sq_buildable, sq_running,
                       sq_harddep_deferred, runq_complete, task_procs, pipe>>
    BY <1>5 DEF NoSetscene, taskVars, markVars, waitVars, procVars
  <2>2. BusyTasks' = BusyTasks  BY <2>1, Busy, BusyAfter
  <2>3. SetsceneCandidates' = SetsceneCandidates /\ CanStartTask' = CanStartTask
    BY <2>1, <2>2 DEF SetsceneCandidates, StampInUse, CanStartTask
  <2>4. QED  BY <2>1, <2>3 DEF CallInv
<1>6. CASE NoTask
  <2>1. /\ pc = "task" /\ pc' = "idle"
        /\ SetsceneOnly \/ ~CanStartTask \/ ReadyTasks = {} \/ active # 0
        /\ UNCHANGED <<options, sqdone, active, sq_live, sq_deferred, sq_buildable, sq_running,
                       sq_harddep_deferred, runq_complete, runq_buildable, runq_running,
                       tasks_covered, tasks_notcovered, holdoff_tasks, task_procs, pipe>>
    BY <1>6 DEF NoTask, taskVars, markVars, waitVars, procVars, splitVars
  <2>2. BusyTasks' = BusyTasks  BY <2>1, Busy, BusyAfter
  <2>3. /\ SetsceneCandidates' = SetsceneCandidates /\ CanStartTask' = CanStartTask
        /\ ReadyTasks' = ReadyTasks /\ SetsceneOnly' = SetsceneOnly
    BY <2>1, <2>2 DEF SetsceneCandidates, StampInUse, CanStartTask, ReadyTasks, SetsceneOnly
  <2>4. QED  BY <2>1, <2>3 DEF CallInv
<1>7. CASE EndRead \/ CleanUp
  <2>1. pc' \notin {"holdoff", "task", "idle"}
    BY <1>7, Zenon DEF EndRead, CleanUp, Finish
  <2>2. QED  BY <2>1, CallElsewhere
<1>8. CASE \/ ReadExit \/ WaitForWorkers \/ Conclude \/ BeginCall \/ StopAgain \/ Teardown
           \/ StopGracefully \/ StopNow \/ ForceDeferred
  <2>1. pc' \notin {"holdoff", "task", "idle"}
    BY <1>8 DEF ReadExit, WaitForWorkers, Conclude, BeginCall, StopAgain, Teardown,
                StopGracefully, StopNow, ForceDeferred
  <2>2. QED  BY <2>1, CallElsewhere
<1>9. CASE WorkerDies \/ UNCHANGED vars
  <2>1. UNCHANGED <<options, pc, sqdone, active, sq_live, sq_deferred, sq_buildable, sq_running,
                    sq_harddep_deferred, runq_complete, runq_buildable, runq_running, splitVars,
                    task_procs, pipe>>
    BY <1>9 DEF WorkerDies, vars, control, taskVars, markVars, waitVars, procVars
  <2>2. BusyTasks' = BusyTasks  BY <2>1, Busy, BusyAfter
  <2>3. QED  BY <2>1, <2>2, CallKept
<1>10. QED
  BY <1>1, <1>2, <1>3, <1>4, <1>5, <1>6, <1>7, <1>8, <1>9 DEF Next, ServerStep, Terminated

LEMMA InitCall == ASSUME Init PROVE CallInv
<1>1. pc = "loop"  BY Zenon DEF Init
<1>2. QED  BY <1>1 DEF CallInv

-----------------------------------------------------------------------------
(* NoOrphans: the build is over only when nothing is awaited. *)

LEMMA NothingAwaited ==
  ASSUME OrderInv, CountInv, shutdown # "force", ~(active > 0)
  PROVE  BusyTasks = {} /\ active = 0
<1>1. Cardinality(BusyTasks) = 0  BY FiniteCounts DEF CountInv, Counted
<1>2. QED  BY <1>1, FiniteCounts, FS_EmptySet DEF CountInv, Counted

\* When the setscene half is over its errors are none: a build ends here only because
\* it was asked for no more, or there is nothing to do.
LEMMA HoldoffEnds ==
  ASSUME OrderInv, QueueInv, WalkInv, SplitInv, Holdoff
  PROVE  \/ state' = state /\ pc' = "task"
         \/ /\ state' = "complete" /\ pc' = "loop"
            /\ sq_live = {} /\ Undecided = {} /\ (SetsceneOnly \/ Tasks = {})
<1> DEFINE err == SceneQueueError(DOMAIN sq_deferred, holdoff_tasks',
                                  tasks_covered' \cup tasks_notcovered', runq_buildable')
           ends == SetsceneFinished /\ (err \/ SetsceneOnly \/ Tasks = {})
<1>1. /\ state' = CASE ~ends -> state
                    [] ends /\ err -> "failed"
                    [] ends /\ ~err -> "complete"
      /\ pc' = IF ends THEN "loop" ELSE "task"
  BY Zenon DEF Holdoff, SettleSetscene
<1>2. ASSUME SetsceneFinished PROVE ~err /\ sq_live = {} /\ Undecided = {}
  <2>1. UNCHANGED <<scenequeue_covered, scenequeue_notcovered, tasks_scenequeue_done>>
    BY DEF Holdoff
  <2>2. FreshSplit'  BY <2>1, UpdateRefreshes DEF Holdoff, OrderInv
  <2>3. /\ CoveredNow' = CoveredNow /\ NotCoveredTasks' = NotCoveredTasks
        /\ Undecided' = Undecided
    BY <2>1 DEF CoveredNow, NotCoveredTasks, Undecided, Resolved
  <2>4. sq_live = {} /\ DOMAIN sq_deferred = {} /\ holdoff_tasks' = {}
    BY <1>2 DEF SetsceneFinished
  <2>5. /\ Undecided = {} /\ CoveredNow \cup NotCoveredTasks \subseteq tasks_covered' \cup tasks_notcovered'
        /\ Leaves(tasks_covered' \cup tasks_notcovered') \subseteq runq_buildable'
    BY <2>2, <2>3, <2>4 DEF FreshSplit, Leaves
  <2>6. ~SceneQueueError({}, {}, tasks_covered' \cup tasks_notcovered', runq_buildable')
    BY <2>5, NoQueueError
  <2>7. QED  BY <2>4, <2>5, <2>6
<1> HIDE DEF err
<1>3. CASE ends
  <2>1. state' = "complete" /\ pc' = "loop"  BY <1>1, <1>2, <1>3, Zenon
  <2>2. QED  BY <1>2, <1>3, <2>1
<1>4. CASE ~ends  BY <1>1, <1>4, Zenon
<1>5. QED  BY <1>3, <1>4

LEMMA InitEnd == ASSUME Init PROVE EndInv
<1>1. pc = "loop" /\ state = "running"  BY Zenon DEF Init
<1>2. QED  BY <1>1 DEF EndInv, Over

\* A step that leaves the build unfinished.
LEMMA NotOverYet ==
  ASSUME pc' = "raised" => ~worker_up',
         worker_up' /\ shutdown' # "force" => ~Over' /\ pc' \notin {"teardown", "end"}
  PROVE  EndInv'
BY DEF EndInv

LEMMA ReadEnd ==
  ASSUME OrderInv, OnceInv, EndInv, ReadExit
  PROVE  EndInv'
<1> DEFINE x == Head(pipe)
           t == x.tid
<1>1. UNCHANGED <<pc, shutdown, worker_up>> /\ pc \in {"read", "drain", "teardown", "raised"}
  BY DEF ReadExit
<1>2. SUFFICES ASSUME worker_up, shutdown # "force"
               PROVE  ~Over' /\ pc \notin {"teardown", "end"}
  BY <1>1, NotOverYet DEF EndInv
<1>3. t \in sq_live \/ t \in BusyTasks  BY ReadFrees
<1>4. ~Over /\ pc \in {"read", "drain"}  BY <1>1, <1>2, <1>3 DEF EndInv
<1>5. state' = state \/ state' = "cleanup"
  BY DEF ReadExit, SetsceneExitRead, TaskExitRead
<1>6. QED  BY <1>4, <1>5 DEF Over

LEMMA EndStep ==
  ASSUME OrderInv, OnceInv, CountInv, QueueInv, WalkInv, SplitInv, EndInv, [Next]_vars
  PROVE  EndInv'
<1>0. TypeOK  BY DEF OrderInv
<1>1. CASE WorkerStep
  <2>1. BusyTasks' = BusyTasks  BY <1>0, <1>1, ExitingStaysBusy
  <2>2. UNCHANGED <<pc, state, shutdown, worker_up, sq_live>>
    BY <1>1 DEF WorkerStep, TaskExits, SetsceneExits, control
  <2>3. QED  BY <2>1, <2>2 DEF EndInv, Over
<1>2. CASE ReadExit  BY <1>2, ReadEnd
<1>3. CASE NextSetscene
  <2>1. PICK t \in SetsceneCandidates :
          \/ SkipSetsceneTask(t) \/ AwaitHardDeps(t) \/ FailOutright(t)
          \/ StartSetscene(t) \/ SendSetsceneFails(t)
    BY <1>3 DEF NextSetscene
  <2>2. pc = "setscene" /\ UNCHANGED <<state, shutdown, worker_up>>  BY <1>3 DEF NextSetscene
  <2>3. pc' \in {"loop", "setscene", "holdoff"} \/ (pc' = "raised" /\ ~worker_up)
    BY <2>1, Zenon DEF SkipSetsceneTask, AwaitHardDeps, FailOutright, StartSetscene,
                       SendSetsceneFails
  <2>4. QED  BY <2>2, <2>3, NotOverYet DEF EndInv, Over
<1>4. CASE Holdoff
  <2>1. pc = "holdoff" /\ UNCHANGED <<shutdown, runq_running, sq_live, worker_up, task_procs, pipe>>
    BY <1>4 DEF Holdoff, procVars
  <2>2. CASE state' = state /\ pc' = "task"
    BY <2>1, <2>2, NotOverYet DEF EndInv, Over
  <2>3. CASE /\ state' = "complete" /\ pc' = "loop"
             /\ sq_live = {} /\ Undecided = {} /\ (SetsceneOnly \/ Tasks = {})
    <3>1. runq_running = {}  BY <1>0, <2>3 DEF SplitInv, TypeOK
    <3>2. BusyTasks' = {}  BY <2>1, <3>1, Busy, BusyAfter DEF OrderInv, Started
    <3>3. QED  BY <2>1, <2>3, <3>2 DEF EndInv, Over
  <2>4. QED  BY <1>4, <2>2, <2>3, HoldoffEnds
<1>5. CASE NextTask
  <2>1. PICK t \in ReadyTasks :
          RefuseTask(t) \/ SkipTask(t) \/ RunNoexecTask(t) \/ StartTask(t) \/ SendTaskFails(t)
    BY <1>5 DEF NextTask
  <2>2. pc = "task" /\ UNCHANGED <<shutdown, worker_up>>  BY <1>5 DEF NextTask
  <2>3. /\ state' = state \/ state' = "cleanup"
        /\ pc' \in {"loop", "idle"} \/ (pc' = "raised" /\ ~worker_up)
    BY <2>1, Zenon DEF RefuseTask, SkipTask, RunNoexecTask, StartTask, SendTaskFails
  <2>4. QED  BY <2>2, <2>3, NotOverYet DEF EndInv, Over
<1>6. CASE Conclude \/ CleanUp
  <2>1. UNCHANGED <<shutdown, sq_live, worker_up, task_procs, pipe>>
    BY <1>6 DEF Conclude, CleanUp, procVars
  <2>2. BusyTasks' = BusyTasks  BY <2>1, Busy, BusyAfter
  <2>3. CASE pc' = "drain" /\ state' = Polled("cleanup")
    BY <2>1, <2>3, NotOverYet DEF Polled, Over
  <2>4. CASE pc' = "loop" /\ ~(active > 0) /\ sq_live = {}
    BY <2>1, <2>2, <2>4, NothingAwaited DEF EndInv
  <2>5. \/ pc' = "drain" /\ state' = Polled("cleanup")
        \/ pc' = "loop" /\ ~(active > 0) /\ sq_live = {}
        \/ pc' = "loop" /\ shutdown # "force" /\ ~(active + Cardinality(sq_live) > 0)
    BY <1>6 DEF Conclude, CleanUp, Finish, Quiet
  <2>6. CASE pc' = "loop" /\ ~(active + Cardinality(sq_live) > 0)
    <3>1. CASE shutdown = "force"  BY <2>1, <2>6, <3>1, NotOverYet
    <3>2. CASE shutdown # "force"
      <4>1. active = 0 /\ Cardinality(sq_live) = 0
        BY <2>6, <3>2, FiniteCounts DEF CountInv, Counted
      <4>2. sq_live = {}  BY <4>1, FiniteCounts, FS_EmptySet
      <4>3. QED  BY <2>4, <2>6, <4>1, <4>2
    <3>3. QED  BY <3>1, <3>2
  <2>7. QED  BY <2>3, <2>4, <2>5, <2>6
<1>7. CASE EndRead
  <2>1. UNCHANGED <<shutdown, sq_live, worker_up, task_procs, pipe>>
    BY <1>7 DEF EndRead, procVars
  <2>2. BusyTasks' = BusyTasks  BY <2>1, Busy, BusyAfter
  <2>3. \/ pc \in {"read", "drain"} /\ pc' \in {"setscene", "loop"} /\ state' = state
        \/ /\ pc = "teardown" /\ pc' = (IF state = "cleanup" THEN "loop" ELSE "end")
           /\ state' = state
        \/ pc = "raised" /\ pc' = "end"
    BY <1>7, Zenon DEF EndRead
  <2>4. QED  BY <2>1, <2>2, <2>3 DEF EndInv, Over
<1>8. CASE WaitForWorkers \/ BeginCall
  <2>1. /\ UNCHANGED <<shutdown, worker_up>> /\ state' = Polled(state)
        /\ \/ pc = "idle" /\ pc' = "drain"
           \/ pc = "loop" /\ state = "running" /\ pc' = "read"
    BY <1>8 DEF WaitForWorkers, BeginCall, procVars
  <2>2. QED  BY <2>1, NotOverYet DEF EndInv, Over, Polled
<1>9. CASE NoSetscene \/ NoTask \/ ForceDeferred
  <2>1. /\ UNCHANGED <<state, shutdown, worker_up>>
        /\ pc \in {"setscene", "task", "idle"} /\ pc' \in {"holdoff", "idle", "loop"}
    BY <1>9 DEF NoSetscene, NoTask, ForceDeferred, Quiet, procVars
  <2>2. QED  BY <2>1, NotOverYet DEF EndInv, Over
<1>10. CASE Teardown \/ UNCHANGED vars
  <2>1. /\ UNCHANGED <<state, shutdown, worker_up, sq_live, task_procs, pipe>>
        /\ pc' = pc \/ (pc = "loop" /\ pc' = "teardown" /\ Over)
    BY <1>10 DEF Teardown, vars, control, procVars, Over
  <2>2. BusyTasks' = BusyTasks  BY <2>1, Busy, BusyAfter
  <2>3. QED  BY <2>1, <2>2 DEF EndInv, Over
<1>11. CASE StopGracefully \/ StopNow \/ StopAgain \/ WorkerDies
  <2>1. CASE StopGracefully
    BY <2>1, NotOverYet DEF StopGracefully, EndInv, Over
  <2>2. CASE StopNow \/ StopAgain
    BY <2>2, NotOverYet DEF StopNow, StopAgain
  <2>3. CASE WorkerDies  BY <2>3, NotOverYet DEF WorkerDies, control
  <2>4. QED  BY <1>11, <2>1, <2>2, <2>3
<1>12. QED
  BY <1>1, <1>2, <1>3, <1>4, <1>5, <1>6, <1>7, <1>8, <1>9, <1>10, <1>11
  DEF Next, ServerStep, Terminated

\* All that has been found so far.
BuildInv == OrderInv /\ OnceInv /\ CountInv /\ QueueInv /\ WalkInv /\ SplitInv

LEMMA BuildInvariant ==
  ASSUME NeverEnforced
  PROVE  Spec => []BuildInv
<1>1. Init => BuildInv
  BY InitOrdered, InitOnce, InitCounted, InitQueue, InitSplit DEF BuildInv
<1>2. BuildInv /\ [Next]_vars => BuildInv'
  BY StepOrdered, OnceStep, CountStep, QueueStep, SplitStep DEF BuildInv
<1>3. QED  BY <1>1, <1>2, PTL DEF Spec

\* Without BB_SETSCENE_ENFORCE, and unless it was told to stop at once or lost its
\* worker, a build that has ended has left no task running and no exit code unread.
THEOREM NothingLeftBehind ==
  ASSUME NeverEnforced
  PROVE  Spec => []NoOrphans
<1>1. Init => EndInv  BY InitEnd
<1>2. BuildInv /\ EndInv /\ [Next]_vars => EndInv'  BY EndStep DEF BuildInv
<1>3. EndInv => NoOrphans  BY DEF EndInv, NoOrphans
<1>4. QED  BY <1>1, <1>2, <1>3, BuildInvariant, PTL DEF Spec

-----------------------------------------------------------------------------
(* HonestOutcome and KeepsGoing: nothing is left in a queue. *)

\* Setscene tasks have no circle of hard dependencies.  The run queue does not look
\* for one.
HardDepsAcyclic ==
  \A R \in (SUBSET SetsceneTids) \ {{}} : \E m \in R : HardDepsRev[m] \cap R = {}

\* --setscene-only is given only where there is something to fetch.
SomethingToFetch == \A o \in Options : "setsceneonly" \in o => SetsceneTids # {}

LEMMA BlockedIs ==
  ASSUME NEW failed \in SUBSET Tasks
  PROVE  /\ failed \subseteq Blocked(failed)
         /\ \A r \in Tasks : Depends[r] \cap Blocked(failed) # {} => r \in Blocked(failed)
         /\ failed = {} => Blocked(failed) = {}
<1>1. failed \subseteq Blocked(failed)  BY DEF Blocked
<1>2. ASSUME NEW r \in Tasks, NEW d \in Depends[r], d \in Blocked(failed)
      PROVE  r \in Blocked(failed)
  <2> SUFFICES ASSUME NEW B \in SUBSET Tasks, failed \subseteq B,
                      \A q \in Tasks : Depends[q] \cap B # {} => q \in B
               PROVE  r \in B
    BY DEF Blocked
  <2>1. d \in B  BY <1>2 DEF Blocked
  <2>2. QED  BY <2>1
<1>3. ASSUME failed = {} PROVE Blocked(failed) = {}
  <2>1. {} \in SUBSET Tasks /\ \A r \in Tasks : Depends[r] \cap {} # {} => r \in {}
    OBVIOUS
  <2>2. QED  BY <1>3, <2>1 DEF Blocked
<1>4. QED  BY <1>1, <1>2, <1>3

\* What is the case when the call has found nothing to do and nothing is awaited.
LEMMA SetsceneIsOver ==
  ASSUME HardDepsAcyclic, BuildInv, CallInv,
         pc = "idle", sq_live = {}, BusyTasks = {}, active = 0, DOMAIN sq_deferred = {}
  PROVE  sqdone
<1> SUFFICES ASSUME ~sqdone PROVE FALSE
  OBVIOUS
<1> DEFINE B == Undecided \cap sq_buildable
<1>1. FreshSplit /\ QueueInv  BY DEF BuildInv, SplitInv
<1>2. Undecided # {}  BY <1>1 DEF CallInv, FreshSplit
<1>3. CanStartTask
  BY FS_EmptySet, QueueAssumption DEF CanStartTask
<1>4. SetsceneCandidates = {}  BY <1>3 DEF CallInv
<1>5. B # {}
  <2>1. Undecided \in (SUBSET SetsceneTids) \ {{}}  BY <1>2 DEF Undecided
  <2>2. PICK t \in Undecided : SqRevdeps[t] \cap Undecided = {}  BY <2>1, FirstToFetch
  <2>3. SqRevdeps[t] \subseteq Resolved  BY <2>2 DEF SqRevdeps, Undecided
  <2>4. QED  BY <1>1, <2>3 DEF QueueInv, Undecided
<1>6. ASSUME NEW t \in B PROVE HardDepsRev[t] \cap B # {}
  <2>1. t \notin sq_running  BY <1>1, <1>6 DEF QueueInv, Undecided
  <2>2. ~StampInUse(t)  BY DEF StampInUse
  <2>3. t \in sq_harddep_deferred  BY <1>4, <1>6, <2>1, <2>2 DEF SetsceneCandidates
  <2>4. HardDepsRev[t] \subseteq sq_buildable /\ ~(HardDepsRev[t] \subseteq Resolved)
    BY <1>1, <2>3 DEF QueueInv
  <2>5. HardDepsRev[t] \subseteq SetsceneTids  BY <1>6, QueueAssumption DEF Undecided
  <2>6. QED  BY <2>4, <2>5 DEF Undecided
<1>7. B \in (SUBSET SetsceneTids) \ {{}}  BY <1>5 DEF Undecided
<1>8. QED  BY <1>6, <1>7 DEF HardDepsAcyclic

LEMMA NothingIsLeft ==
  ASSUME HardDepsAcyclic, BuildInv, TaskInv, CallInv,
         Quiet, DOMAIN sq_deferred = {}, shutdown # "force", SetsceneOnly => SetsceneTids # {}
  PROVE  /\ ~SetsceneOnly
         /\ Tasks \ Blocked(failed_tids) \subseteq runq_complete
         /\ BuildError => failed_tids # {}
<1>0. pc = "idle" /\ ~(active > 0) /\ sq_live = {}  BY DEF Quiet
<1>1. BusyTasks = {} /\ active = 0  BY <1>0, NothingAwaited DEF BuildInv
<1>2. sqdone  BY <1>0, <1>1, SetsceneIsOver
<1>3. Undecided = {} /\ FreshSplit /\ ~SetsceneOnly
  BY <1>0, <1>2 DEF BuildInv, SplitInv
<1>4. holdoff_tasks = {} /\ Tasks \subseteq tasks_covered \cup tasks_notcovered
  BY <1>3, SplitIsTotal DEF FreshSplit, BuildInv
<1>5. ReadyTasks = {}
  <2>1. CanStartTask  BY <1>0, <1>1, FS_EmptySet, QueueAssumption DEF CanStartTask
  <2>2. QED  BY <1>0, <1>1, <1>3, <2>1 DEF CallInv
<1>6. runq_buildable \subseteq Tasks /\ failed_tids \in SUBSET Tasks /\ runq_complete \subseteq runq_running
  BY DEF BuildInv, OrderInv, TypeOK, Started
<1>7. runq_buildable \subseteq runq_complete \cup failed_tids
  <2>1. runq_buildable \subseteq runq_running
    BY <1>1, <1>4, <1>5, <1>6 DEF ReadyTasks, StampInUse
  <2>2. QED  BY <1>1, <2>1 DEF TaskInv
<1>8. Tasks \ Blocked(failed_tids) \subseteq runq_complete
  <2> DEFINE R == Tasks \ (runq_complete \cup Blocked(failed_tids))
  <2> SUFFICES ASSUME R # {} PROVE FALSE
    OBVIOUS
  <2>1. PICK m \in R : Depends[m] \cap R = {}
    <3>1. R \in (SUBSET Tasks) \ {{}}  OBVIOUS
    <3>2. QED  BY <3>1, FirstOf
  <2>2. Depends[m] \cap Blocked(failed_tids) = {}  BY <1>6, BlockedIs
  <2>3. Depends[m] \subseteq runq_complete  BY <2>1, <2>2, GraphAssumption
  <2>4. m \in runq_buildable
    <3>1. CASE Depends[m] = {}  BY <1>3, <1>4, <3>1 DEF FreshSplit, Leaves
    <3>2. CASE Depends[m] # {}  BY <2>3, <3>2 DEF TaskInv
    <3>3. QED  BY <3>1, <3>2
  <2>5. QED  BY <1>6, <1>7, <2>4, BlockedIs
<1>9. ASSUME failed_tids = {} PROVE ~BuildError
  <2>1. Tasks \subseteq runq_complete  BY <1>6, <1>8, <1>9, BlockedIs
  <2>2. Tasks \subseteq runq_buildable \cap runq_running \cap runq_complete
    BY <1>6, <2>1 DEF TaskInv
  <2>3. ~SceneQueueError({}, {}, tasks_covered \cup tasks_notcovered, runq_buildable)
    BY <1>3, NoQueueError DEF BuildInv, FreshSplit
  <2>4. QED  BY <1>4, <2>2, <2>3 DEF BuildError
<1>10. QED  BY <1>3, <1>8, <1>9

LEMMA InitOutcome == ASSUME Init PROVE OutcomeInv
<1>1. state = "running"  BY Zenon DEF Init
<1>2. QED  BY <1>1 DEF OutcomeInv, Over

\* A step that does not end the build, and gives it up only after a failure under -h.
LEMMA OutcomeOpen ==
  ASSUME worker_up' /\ shutdown' = "no" =>
           ~Over' /\ (state' = "cleanup" => Halt' /\ failed_tids' # {})
  PROVE  OutcomeInv'
BY DEF OutcomeInv

\* A step after which the outcome is what it was.
LEMMA OutcomeKept ==
  ASSUME OutcomeInv, UNCHANGED <<options, state, shutdown, failed_tids, runq_complete,
                                 scenequeue_covered, scenequeue_notcovered>>,
         worker_up' => worker_up
  PROVE  OutcomeInv'
<1>1. Verdict' = Verdict /\ Over' = Over /\ Halt' = Halt /\ SetsceneOnly' = SetsceneOnly
  BY DEF Verdict, Over, Halt, SetsceneOnly, Undecided, Resolved, Blocked
<1>2. QED  BY <1>1 DEF OutcomeInv

\* While the build goes on, steps that only add failures.
LEMMA OutcomeGoesOn ==
  ASSUME OutcomeInv, EndInv, UNCHANGED <<options, shutdown, worker_up>>,
         worker_up /\ shutdown = "no" => pc \notin {"loop", "teardown", "end"},
         failed_tids \subseteq failed_tids',
         state' = state \/ (state' = "cleanup" /\ Halt /\ failed_tids' # {})
  PROVE  OutcomeInv'
<1>1. worker_up /\ shutdown = "no" => ~Over /\ (state = "cleanup" => Halt /\ failed_tids # {})
  BY DEF OutcomeInv, EndInv
<1>2. Halt' = Halt  BY DEF Halt
<1>3. QED  BY <1>1, <1>2, OutcomeOpen DEF Over

LEMMA OutcomeStep ==
  ASSUME NeverEnforced, HardDepsAcyclic,
         BuildInv, TaskInv, CallInv, EndInv, OutcomeInv, [Next]_vars
  PROVE  OutcomeInv'
<1>0. OrderInv /\ OnceInv /\ TypeOK /\ ~SetsceneEnforce
  BY NothingEnforced DEF BuildInv, OrderInv
<1>1. CASE WorkerStep \/ WorkerDies \/ Teardown \/ UNCHANGED vars
  <2>1. /\ UNCHANGED <<options, state, shutdown, failed_tids, runq_complete,
                       scenequeue_covered, scenequeue_notcovered>>
        /\ worker_up' => worker_up
    BY <1>1 DEF WorkerStep, TaskExits, SetsceneExits, WorkerDies, Teardown, vars, control,
                taskVars, markVars, procVars
  <2>2. QED  BY <2>1, OutcomeKept
<1>2. CASE ReadExit
  <2> DEFINE x == Head(pipe)
             t == x.tid
  <2>1. /\ UNCHANGED <<pc, shutdown, options, worker_up>>
        /\ pc \in {"read", "drain", "teardown", "raised"}
    BY <1>2 DEF ReadExit
  <2>2. worker_up /\ shutdown = "no" => pc \notin {"loop", "teardown", "end"}
    <3>1. t \in sq_live \/ t \in BusyTasks  BY <1>0, <1>2, ReadFrees
    <3>2. QED  BY <2>1, <3>1 DEF EndInv
  <2>3. CASE SetsceneExitRead(t, x.ok)
    <3>1. UNCHANGED <<failed_tids, state>>
      BY <1>0, <2>3 DEF SetsceneExitRead, taskVars
    <3>2. QED  BY <2>1, <2>2, <3>1, OutcomeGoesOn
  <2>4. CASE TaskExitRead(t, x.ok)
    <3>1. \/ UNCHANGED <<failed_tids, state>>
          \/ failed_tids' = failed_tids \cup {t} /\ state' = (IF Halt THEN "cleanup" ELSE state)
      BY <2>4 DEF TaskExitRead
    <3>2. QED  BY <2>1, <2>2, <3>1, OutcomeGoesOn
  <2>5. QED  BY <1>2, <2>3, <2>4 DEF ReadExit
<1>3. CASE NextTask
  <2>1. PICK t \in ReadyTasks :
          RefuseTask(t) \/ SkipTask(t) \/ RunNoexecTask(t) \/ StartTask(t) \/ SendTaskFails(t)
    BY <1>3 DEF NextTask
  <2>2. pc = "task" /\ UNCHANGED <<shutdown, options, worker_up>>  BY <1>3 DEF NextTask
  <2>3. ~Refused(t)  BY <1>0 DEF Refused
  <2>4. UNCHANGED <<failed_tids, state>>
    BY <2>1, <2>3 DEF RefuseTask, SkipTask, RunNoexecTask, StartTask, SendTaskFails, taskVars
  <2>5. QED  BY <2>2, <2>4, OutcomeGoesOn
<1>4. CASE NextSetscene \/ NoSetscene \/ NoTask \/ ForceDeferred \/ WaitForWorkers
  <2>1. /\ pc \in {"setscene", "task", "idle"}
        /\ UNCHANGED <<shutdown, options, worker_up, failed_tids>>
        /\ state' = state \/ state' = Polled(state)
    BY <1>4 DEF NextSetscene, NoSetscene, NoTask, ForceDeferred, WaitForWorkers, Quiet, taskVars,
                procVars
  <2>2. CASE worker_up
    <3>1. state' = state  BY <2>1, <2>2 DEF Polled
    <3>2. QED  BY <2>1, <3>1, OutcomeGoesOn
  <2>3. CASE ~worker_up  BY <2>1, <2>3, OutcomeOpen
  <2>4. QED  BY <2>2, <2>3
<1>5. CASE Holdoff
  <2>1. /\ pc = "holdoff" /\ UNCHANGED <<shutdown, options, worker_up, failed_tids, runq_running>>
        /\ UNCHANGED <<scenequeue_covered, scenequeue_notcovered>>
    BY <1>5 DEF Holdoff, procVars
  <2>2. CASE state' = state  BY <2>1, <2>2, OutcomeGoesOn
  <2>3. CASE state' = "complete" /\ Undecided = {} /\ (SetsceneOnly \/ Tasks = {})
    <3>1. failed_tids = {}
      BY <1>0, <2>3 DEF BuildInv, SplitInv, TaskInv, TypeOK
    <3>2. Undecided' = Undecided /\ SetsceneOnly' = SetsceneOnly
      BY <2>1 DEF Undecided, Resolved, SetsceneOnly
    <3>3. Verdict'  BY <2>1, <2>3, <3>1, <3>2 DEF Verdict
    <3>4. QED  BY <2>3, <3>3 DEF OutcomeInv
  <2>4. QED  BY <1>5, <2>2, <2>3, HoldoffEnds DEF BuildInv
<1>6. CASE Conclude
  <2>1. /\ UNCHANGED <<shutdown, options, worker_up, failed_tids, runq_complete>>
        /\ state' = IF BuildError THEN "failed" ELSE Outcome
    BY <1>6 DEF Conclude, taskVars, procVars
  <2>2. ASSUME shutdown = "no", SetsceneOnly => SetsceneTids # {} PROVE Verdict'
    <3>1. /\ ~SetsceneOnly /\ Tasks \ Blocked(failed_tids) \subseteq runq_complete
          /\ BuildError => failed_tids # {}
      BY <1>6, <2>2, NothingIsLeft DEF Conclude
    <3>2. state' = "failed" <=> failed_tids # {}  BY <2>1, <3>1 DEF Outcome
    <3>3. SetsceneOnly' = SetsceneOnly /\ Blocked(failed_tids)' = Blocked(failed_tids)
      BY <2>1 DEF SetsceneOnly, Blocked
    <3>4. QED  BY <2>1, <3>1, <3>2, <3>3 DEF Verdict
  <2>3. state' # "cleanup" /\ SetsceneOnly' = SetsceneOnly
    BY <2>1 DEF Outcome, SetsceneOnly
  <2>4. QED  BY <2>1, <2>2, <2>3 DEF OutcomeInv
<1>7. CASE CleanUp
  <2>1. /\ UNCHANGED <<shutdown, options, worker_up, failed_tids, runq_complete,
                       scenequeue_covered, scenequeue_notcovered>>
        /\ shutdown = "no" => state = "cleanup"
        /\ state' = Polled("cleanup") \/ state' = Outcome
    BY <1>7 DEF CleanUp, Finish, taskVars, markVars, procVars
  <2>2. SUFFICES ASSUME worker_up, shutdown = "no"
                 PROVE  /\ state' = "cleanup" => Halt' /\ failed_tids' # {}
                        /\ Over' => Verdict'
    BY <2>1 DEF OutcomeInv
  <2>3. Halt /\ failed_tids # {}  BY <2>1, <2>2 DEF OutcomeInv
  <2>4. ~SetsceneOnly
    BY <1>0, <2>3 DEF BuildInv, SplitInv, TaskInv
  <2>5. state' \in {"cleanup", "failed"}  BY <2>1, <2>2, <2>3 DEF Polled, Outcome
  <2>6. Halt' = Halt /\ SetsceneOnly' = SetsceneOnly  BY <2>1 DEF Halt, SetsceneOnly
  <2>7. QED  BY <2>1, <2>3, <2>4, <2>5, <2>6 DEF Over, Verdict
<1>8. CASE EndRead
  <2>1. CASE pc = "raised"
    <3>1. ~worker_up'  BY <1>8, <2>1 DEF EndRead, EndInv, procVars
    <3>2. QED  BY <3>1, OutcomeOpen
  <2>2. CASE state' = state
    <3>1. UNCHANGED <<options, shutdown, failed_tids, runq_complete, scenequeue_covered,
                      scenequeue_notcovered, worker_up>>
      BY <1>8 DEF EndRead, taskVars, markVars, procVars
    <3>2. QED  BY <2>2, <3>1, OutcomeKept
  <2>3. QED  BY <1>8, <2>1, <2>2, Zenon DEF EndRead
<1>9. CASE BeginCall
  <2>1. state = "running" /\ state' = Polled(state) /\ UNCHANGED worker_up
    BY <1>9 DEF BeginCall, procVars
  <2>2. QED  BY <2>1, OutcomeOpen DEF Polled, Over
<1>10. CASE StopGracefully \/ StopNow \/ StopAgain
  <2>1. shutdown' # "no"  BY <1>10 DEF StopGracefully, StopNow, StopAgain
  <2>2. QED  BY <2>1, OutcomeOpen
<1>11. QED
  BY <1>1, <1>2, <1>3, <1>4, <1>5, <1>6, <1>7, <1>8, <1>9, <1>10
  DEF Next, ServerStep, Terminated

LEMMA OutcomeInvariant ==
  ASSUME NeverEnforced, HardDepsAcyclic
  PROVE  Spec => [](TypeOK /\ EndInv /\ OutcomeInv)
<1>1. Init => TaskInv /\ CallInv /\ EndInv /\ OutcomeInv
  BY InitTasks, InitCall, InitEnd, InitOutcome
<1>2. BuildInv /\ TaskInv /\ CallInv /\ EndInv /\ OutcomeInv /\ [Next]_vars
        => TaskInv' /\ CallInv' /\ EndInv' /\ OutcomeInv'
  BY TasksStep, CallStep, EndStep, OutcomeStep DEF BuildInv
<1>3. BuildInv => TypeOK  BY DEF BuildInv, OrderInv
<1>4. QED  BY <1>1, <1>2, <1>3, BuildInvariant, PTL DEF Spec

\* Without BB_SETSCENE_ENFORCE a build that nobody stopped and whose worker lived is
\* complete only when every task is, and fails only because a task failed.
THEOREM OutcomeIsHonest ==
  ASSUME NeverEnforced, HardDepsAcyclic, SomethingToFetch
  PROVE  Spec => []HonestOutcome
<1>1. ASSUME TypeOK, OutcomeInv PROVE HonestOutcome
  <2> SUFFICES ASSUME shutdown = "no", worker_up, Over
               PROVE  /\ state = "complete" =>
                           /\ failed_tids = {}
                           /\ SetsceneOnly => SetsceneTids \subseteq Resolved
                           /\ ~SetsceneOnly => runq_complete = Tasks
                      /\ state = "failed" => failed_tids # {}
    BY DEF HonestOutcome, Over
  <2>1. SetsceneOnly => SetsceneTids # {}
    BY <1>1 DEF SomethingToFetch, SetsceneOnly, TypeOK
  <2>2. Verdict  BY <1>1, <2>1 DEF OutcomeInv
  <2>3. failed_tids = {} => Blocked(failed_tids) = {}
    BY <1>1, BlockedIs DEF TypeOK
  <2>4. QED  BY <1>1, <2>2, <2>3 DEF Verdict, TypeOK, Undecided
<1>2. QED  BY <1>1, OutcomeInvariant, PTL

\* With -k and without BB_SETSCENE_ENFORCE the build goes on until only the failed
\* tasks and those behind them are left.
THEOREM GoesOnToTheEnd ==
  ASSUME NeverEnforced, HardDepsAcyclic
  PROVE  Spec => []KeepsGoing
<1>1. EndInv /\ OutcomeInv => KeepsGoing
  BY DEF EndInv, OutcomeInv, KeepsGoing, Verdict
<1>2. QED  BY <1>1, OutcomeInvariant, PTL

-----------------------------------------------------------------------------
(* "No task should end up in both covered and uncovered, that is a bug": only a hard     *)
(* dependency of a deferred task can bring that about.                                   *)

NoDeferredNeedsAnother == \A t \in DOMAIN Deferral : HardDepsRev[t] = {}

\* What waits behind a task with the same hash is not given up, so that releasing it
\* does no harm.
DeferredStaysOpen ==
  /\ DOMAIN sq_deferred \subseteq DOMAIN Deferral
  /\ scenequeue_notcovered \cap (scenequeue_covered \cup DOMAIN sq_deferred) = {}

\* With t fails only what has a hard dependency.
LEMMA FailsForAReason ==
  ASSUME NEW t \in SetsceneTids, NEW d \in FailsWith(t), d # t
  PROVE  HardDepsRev[d] # {}
<1> DEFINE F == {e \in SetsceneTids : e = t \/ HardDepsRev[e] # {}}
<1>1. F \in SUBSET SetsceneTids /\ t \in F
      /\ \A e \in SetsceneTids : HardDepsRev[e] \cap F # {} => e \in F
  OBVIOUS
<1>2. FailsWith(t) \subseteq F  BY <1>1 DEF FailsWith
<1>3. QED  BY <1>2

LEMMA CoverStaysOpen ==
  ASSUME DeferredStaysOpen, NEW t, t \in Undecided \cup DOMAIN sq_deferred, Cover(t),
         DOMAIN sq_deferred' \subseteq DOMAIN sq_deferred
  PROVE  DeferredStaysOpen'
<1>1. /\ scenequeue_covered' = scenequeue_covered \cup {t}
      /\ scenequeue_notcovered' = scenequeue_notcovered
  BY DEF Cover, MarkSetscene
<1>2. t \notin scenequeue_notcovered  BY DEF DeferredStaysOpen, Undecided, Resolved
<1>3. QED  BY <1>1, <1>2 DEF DeferredStaysOpen

LEMMA UncoverStaysOpen ==
  ASSUME NoDeferredNeedsAnother, DeferredStaysOpen, NEW t \in Undecided, Uncover(t),
         DOMAIN sq_deferred' \subseteq DOMAIN sq_deferred \ {t}
  PROVE  DeferredStaysOpen'
<1>1. /\ scenequeue_covered' = scenequeue_covered
      /\ scenequeue_notcovered' = scenequeue_notcovered \cup FailsWith(t)
  BY DEF Uncover, MarkSetscene
<1>2. t \in SetsceneTids  BY DEF Undecided
<1>3. FailsWith(t) \cap scenequeue_covered = {}
  BY <1>2, FailsWithClosed DEF Undecided, Resolved
<1>4. FailsWith(t) \cap DOMAIN sq_deferred' = {}
  BY <1>2, FailsForAReason DEF NoDeferredNeedsAnother, DeferredStaysOpen
<1>5. QED  BY <1>1, <1>3, <1>4 DEF DeferredStaysOpen

LEMMA UnmarkedStaysOpen ==
  ASSUME DeferredStaysOpen, UNCHANGED <<scenequeue_covered, scenequeue_notcovered>>,
         DOMAIN sq_deferred' \subseteq DOMAIN sq_deferred
  PROVE  DeferredStaysOpen'
BY DEF DeferredStaysOpen

LEMMA CompletionStaysOpen ==
  ASSUME DeferredStaysOpen, NEW t, CompleteOutright(t)
  PROVE  DeferredStaysOpen'
<1>1. CASE UNCHANGED <<sq_deferred, markVars>>
  BY <1>1, UnmarkedStaysOpen DEF markVars
<1>2. ASSUME NEW found \in DOMAIN sq_deferred,
             DOMAIN sq_deferred' = DOMAIN sq_deferred \ {found},
             Cover(found) \/ UNCHANGED markVars
      PROVE  DeferredStaysOpen'
  BY <1>2, CoverStaysOpen, UnmarkedStaysOpen DEF markVars
<1>3. QED  BY <1>1, <1>2 DEF CompleteOutright, ReleaseDeferred

LEMMA InitStaysOpen == ASSUME Init PROVE DeferredStaysOpen
<1>1. sq_deferred = Deferral /\ scenequeue_notcovered = {}  BY Zenon DEF Init
<1>2. QED  BY <1>1 DEF DeferredStaysOpen

LEMMA OpenStep ==
  ASSUME NoDeferredNeedsAnother, OrderInv, DeferredStaysOpen, [Next]_vars
  PROVE  DeferredStaysOpen'
<1>1. CASE ReadExit
  <2> DEFINE x == Head(pipe)
  <2>1. CASE SetsceneExitRead(x.tid, x.ok)
    <3>1. x.tid \in sq_live /\ UNCHANGED sq_deferred /\ (Cover(x.tid) \/ Uncover(x.tid))
      BY <2>1 DEF SetsceneExitRead, waitVars
    <3>2. x.tid \in Undecided /\ x.tid \notin DOMAIN sq_deferred
      BY <3>1 DEF OrderInv, TypeOK, FateOpen, Undecided
    <3>3. QED  BY <3>1, <3>2, CoverStaysOpen, UncoverStaysOpen
  <2>2. CASE TaskExitRead(x.tid, x.ok)
    <3>1. CompleteOutright(x.tid) \/ UNCHANGED <<sq_deferred, markVars>>
      BY <2>2 DEF TaskExitRead
    <3>2. QED  BY <3>1, CompletionStaysOpen, UnmarkedStaysOpen DEF markVars
  <2>3. QED  BY <1>1, <2>1, <2>2 DEF ReadExit
<1>2. CASE NextSetscene
  <2>1. PICK t \in SetsceneCandidates :
          \/ SkipSetsceneTask(t) \/ AwaitHardDeps(t) \/ FailOutright(t)
          \/ StartSetscene(t) \/ SendSetsceneFails(t)
    BY <1>2 DEF NextSetscene
  <2>2. t \in Undecided  BY DEF OrderInv, TypeOK, FateOpen, SetsceneCandidates, Undecided
  <2>3. DOMAIN DropDeferred(t) = DOMAIN sq_deferred \ {t}  BY DEF DropDeferred
  <2>4. CASE SkipSetsceneTask(t)
    BY <2>2, <2>3, <2>4, CoverStaysOpen DEF SkipSetsceneTask
  <2>5. CASE FailOutright(t)
    BY <2>2, <2>3, <2>5, UncoverStaysOpen DEF FailOutright
  <2>6. CASE AwaitHardDeps(t) \/ StartSetscene(t) \/ SendSetsceneFails(t)
    <3>1. /\ UNCHANGED <<scenequeue_covered, scenequeue_notcovered>>
          /\ sq_deferred' = sq_deferred \/ sq_deferred' = DropDeferred(t)
      BY <2>6 DEF AwaitHardDeps, StartSetscene, SendSetsceneFails, markVars
    <3>2. QED  BY <2>3, <3>1, UnmarkedStaysOpen
  <2>7. QED  BY <2>1, <2>4, <2>5, <2>6
<1>3. CASE NextTask
  <2>1. PICK t \in ReadyTasks :
          RefuseTask(t) \/ SkipTask(t) \/ RunNoexecTask(t) \/ StartTask(t) \/ SendTaskFails(t)
    BY <1>3 DEF NextTask
  <2>2. CompleteOutright(t) \/ UNCHANGED <<sq_deferred, markVars>>
    BY <2>1 DEF RefuseTask, SkipTask, RunNoexecTask, StartTask, SendTaskFails
  <2>3. QED  BY <2>2, CompletionStaysOpen, UnmarkedStaysOpen DEF markVars
<1>4. CASE ForceDeferred
  <2>1. PICK t \in DOMAIN sq_deferred : sq_deferred' = DropDeferred(t)
    BY <1>4 DEF ForceDeferred
  <2>2. UNCHANGED <<scenequeue_covered, scenequeue_notcovered>>
    BY <1>4 DEF ForceDeferred, markVars
  <2>3. QED  BY <2>1, <2>2, UnmarkedStaysOpen DEF DropDeferred
<1>5. CASE \/ EndRead \/ NoSetscene \/ NoTask \/ WaitForWorkers \/ Conclude \/ BeginCall
           \/ CleanUp \/ StopAgain \/ Teardown \/ StopGracefully \/ StopNow
           \/ WorkerDies \/ WorkerStep \/ Holdoff \/ UNCHANGED vars
  <2>1. UNCHANGED <<scenequeue_covered, scenequeue_notcovered, sq_deferred>>
    BY <1>5 DEF EndRead, NoSetscene, NoTask, WaitForWorkers, Conclude, BeginCall, CleanUp,
                StopAgain, Teardown, StopGracefully, StopNow, WorkerDies, WorkerStep, TaskExits,
                SetsceneExits, Holdoff, vars, markVars, waitVars
  <2>2. QED  BY <2>1, UnmarkedStaysOpen
<1>6. QED
  BY <1>1, <1>2, <1>3, <1>4, <1>5 DEF Next, ServerStep, Terminated

\* Where no deferred setscene task has a hard dependency, none is both covered and not
\* covered.
THEOREM NeverBoth ==
  ASSUME NoDeferredNeedsAnother
  PROVE  Spec => []CoveredOrNot
<1>1. Init => DeferredStaysOpen  BY InitStaysOpen
<1>2. OrderInv /\ DeferredStaysOpen /\ [Next]_vars => DeferredStaysOpen'  BY OpenStep
<1>3. DeferredStaysOpen => CoveredOrNot  BY DEF DeferredStaysOpen, CoveredOrNot
<1>4. QED  BY <1>1, <1>2, <1>3, OrderInvariant, PTL DEF Spec
=============================================================================
