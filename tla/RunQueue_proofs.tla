--------------------------- MODULE RunQueue_proofs ---------------------------
(* Proofs about the run queue for every task graph, every command line and any *)
(* number of threads: types; the order of tasks, DependencyOrder and           *)
(* NoConcurrentRebuild, from one inductive invariant; that RunQueue implements *)
(* TaskGraph; what a single step changes at most.                              *)
EXTENDS RunQueue, FiniteSetTheorems, SequenceTheorems, TLAPS

-----------------------------------------------------------------------------
(* TypeOK in the groups that RunQueue's tuples of variables make. *)

ControlTypes ==
  /\ options \in Options
  /\ pc \in {"loop", "read", "setscene", "holdoff", "task", "idle", "drain", "teardown",
            "raised", "end"}
  /\ state \in {"running", "cleanup", "failed", "complete"}
  /\ shutdown \in {"no", "graceful", "force"}

TaskTypes ==
  /\ runq_buildable \subseteq Tasks /\ runq_running \subseteq Tasks
  /\ runq_complete \subseteq Tasks /\ failed_tids \subseteq Tasks
  /\ active \in Int

\* The variables that settling setscene tasks changes.
MarkTypes ==
  /\ scenequeue_covered \subseteq SetsceneTids /\ scenequeue_notcovered \subseteq SetsceneTids
  /\ sq_running \subseteq SetsceneTids /\ sq_buildable \subseteq SetsceneTids
  /\ tasks_scenequeue_done \subseteq Tasks /\ sq_harddep_deferred \subseteq SetsceneTids
  /\ holdoff_need_update \in BOOLEAN

WaitTypes ==
  /\ DOMAIN sq_deferred \subseteq SetsceneTids
  /\ sq_needed_harddeps \subseteq SetsceneTids /\ outrightfail \subseteq SetsceneTids

SplitTypes ==
  /\ tasks_covered \subseteq Tasks /\ tasks_notcovered \subseteq Tasks
  /\ holdoff_tasks \subseteq Tasks

SetsceneTypes == sq_live \subseteq SetsceneTids /\ sqdone \in BOOLEAN

ProcTypes ==
  /\ worker_up \in BOOLEAN
  /\ task_procs \subseteq Tasks /\ sq_procs \subseteq SetsceneTids
  /\ pipe \in Seq(Exits)
  /\ stamped \subseteq Tasks /\ sq_stamped \subseteq SetsceneTids

LEMMA TypeGroups ==
  TypeOK <=> /\ ControlTypes /\ TaskTypes /\ MarkTypes /\ WaitTypes
             /\ SplitTypes /\ SetsceneTypes /\ ProcTypes
BY DEF TypeOK, ControlTypes, TaskTypes, MarkTypes, WaitTypes, SplitTypes, SetsceneTypes,
       ProcTypes

LEMMA TypeGroupsAfter ==
  ASSUME ControlTypes', TaskTypes', MarkTypes', WaitTypes', SplitTypes', SetsceneTypes',
         ProcTypes'
  PROVE  TypeOK'
BY DEF TypeOK, ControlTypes, TaskTypes, MarkTypes, WaitTypes, SplitTypes, SetsceneTypes,
       ProcTypes

\* What a step leaves alone keeps its type.
LEMMA UnchangedTypes ==
  ASSUME TypeOK
  PROVE  /\ UNCHANGED taskVars => TaskTypes'
         /\ UNCHANGED markVars => MarkTypes'
         /\ UNCHANGED waitVars => WaitTypes'
         /\ UNCHANGED splitVars => SplitTypes'
         /\ UNCHANGED <<sq_live, sqdone>> => SetsceneTypes'
         /\ UNCHANGED procVars => ProcTypes'
<1>1. UNCHANGED taskVars => TaskTypes'  BY DEF TypeOK, taskVars, TaskTypes
<1>2. UNCHANGED markVars => MarkTypes'  BY DEF TypeOK, markVars, MarkTypes
<1>3. UNCHANGED waitVars => WaitTypes'  BY DEF TypeOK, waitVars, WaitTypes
<1>4. UNCHANGED splitVars => SplitTypes'  BY DEF TypeOK, splitVars, SplitTypes
<1>5. UNCHANGED <<sq_live, sqdone>> => SetsceneTypes'  BY DEF TypeOK, SetsceneTypes
<1>6. UNCHANGED procVars => ProcTypes'  BY DEF TypeOK, procVars, ProcTypes
<1>7. QED  BY <1>1, <1>2, <1>3, <1>4, <1>5, <1>6

-----------------------------------------------------------------------------
(* The helpers of the actions. *)

LEMMA OneLessTyped == ASSUME NEW n \in Int PROVE OneLess(n) \in Int
<1>1. Cardinality(Tasks) \in Nat  BY GraphAssumption, FS_CardinalityType
<1>2. QED  BY <1>1 DEF OneLess, ActiveFloor

LEMMA MarkTyped ==
  ASSUME TypeOK, NEW cov \in SUBSET SetsceneTids, NEW fail \in SUBSET SetsceneTids,
         MarkSetscene(cov, fail)
  PROVE  MarkTypes'
<1>1. /\ scenequeue_covered' \subseteq SetsceneTids /\ scenequeue_notcovered' \subseteq SetsceneTids
      /\ sq_running' \subseteq SetsceneTids
  BY DEF TypeOK, MarkSetscene
<1>2. sq_buildable' \subseteq SetsceneTids
  BY DEF TypeOK, MarkSetscene, SqBuildable
<1>3. tasks_scenequeue_done' \subseteq Tasks
  BY DEF MarkSetscene, DoneFrom
<1>4. sq_harddep_deferred' \subseteq SetsceneTids
  BY DEF TypeOK, MarkSetscene
<1>5. holdoff_need_update' \in BOOLEAN
  BY Zenon DEF MarkSetscene
<1>6. QED  BY <1>1, <1>2, <1>3, <1>4, <1>5 DEF MarkTypes

LEMMA CoverTyped ==
  ASSUME TypeOK, NEW t \in SetsceneTids, Cover(t)
  PROVE  MarkTypes'
BY MarkTyped DEF Cover

LEMMA UncoverTyped ==
  ASSUME TypeOK, NEW t \in SetsceneTids, Uncover(t)
  PROVE  MarkTypes'
<1>1. FailsWith(t) \in SUBSET SetsceneTids  BY DEF FailsWith
<1>2. MarkSetscene({}, FailsWith(t))  BY DEF Uncover
<1>3. QED  BY <1>1, <1>2, MarkTyped

LEMMA ReleaseTyped ==
  ASSUME TypeOK, NEW t \in Tasks, ReleaseDeferred(t)
  PROVE  MarkTypes' /\ DOMAIN sq_deferred' \subseteq SetsceneTids
         /\ outrightfail' \subseteq SetsceneTids
<1> DEFINE behind == {d \in DOMAIN sq_deferred : sq_deferred[d] = t}
<1>0. behind \subseteq SetsceneTids  BY DEF TypeOK
<1>1. CASE behind = {} /\ UNCHANGED <<sq_deferred, outrightfail, markVars>>
  <2>1. MarkTypes'  BY <1>1, UnchangedTypes
  <2>2. DOMAIN sq_deferred' \subseteq SetsceneTids /\ outrightfail' \subseteq SetsceneTids
    BY <1>1 DEF TypeOK
  <2>3. QED  BY <2>1, <2>2
<1>2. ASSUME NEW found \in behind,
             sq_deferred' = [d \in DOMAIN sq_deferred \ {found} |->
                               IF d \in behind THEN found ELSE sq_deferred[d]],
             \/ /\ SetsceneStampPresent(found)
                /\ outrightfail' = outrightfail \ {found}
                /\ Cover(found)
             \/ /\ ~SetsceneStampPresent(found)
                /\ outrightfail' \in {outrightfail \ {found}}
                     \cup (IF found \in Resolved THEN {} ELSE {outrightfail \cup {found}})
                /\ UNCHANGED markVars
      PROVE MarkTypes' /\ DOMAIN sq_deferred' \subseteq SetsceneTids
            /\ outrightfail' \subseteq SetsceneTids
  <2>1. found \in SetsceneTids  BY <1>0
  <2>2. MarkTypes'
    BY <1>2, <2>1, CoverTyped, UnchangedTypes
  <2>3. DOMAIN sq_deferred' \subseteq SetsceneTids
    BY <1>2, <2>1 DEF TypeOK
  <2>4. outrightfail' \subseteq SetsceneTids
    BY <1>2, <2>1 DEF TypeOK
  <2>5. QED  BY <2>2, <2>3, <2>4
<1>3. QED  BY <1>1, <1>2 DEF ReleaseDeferred

\* A task that completes leaves everything it touches well typed.
LEMMA CompletionTyped ==
  ASSUME TypeOK, NEW t \in Tasks, CompleteOutright(t)
  PROVE  /\ runq_complete' \subseteq Tasks
         /\ MarkTypes' /\ DOMAIN sq_deferred' \subseteq SetsceneTids
         /\ outrightfail' \subseteq SetsceneTids
         /\ runq_buildable \cup NewlyBuildable(t) \subseteq Tasks
<1>1. runq_complete' \subseteq Tasks  BY DEF CompleteOutright, TypeOK
<1>2. runq_buildable \cup NewlyBuildable(t) \subseteq Tasks
  BY DEF TypeOK, NewlyBuildable, Revdeps
<1>3. QED  BY <1>1, <1>2, ReleaseTyped DEF CompleteOutright

-----------------------------------------------------------------------------
(* Every variable keeps its type. *)

LEMMA InitTyped == Init => TypeOK
<1> SUFFICES ASSUME Init PROVE TypeOK  OBVIOUS
<1> USE GraphAssumption, QueueAssumption
<1>1. ControlTypes  BY DEF Init, ControlTypes
<1>2. TaskTypes
  <2>1. runq_buildable \subseteq Tasks
    <3>1. CASE SetsceneTids = {}  BY <3>1 DEF Init, Leaves
    <3>2. CASE SetsceneTids # {}
      <4>1. Unskippable \subseteq Tasks  BY DEF Unskippable, ReachStoppingAtSetscene
      <4>2. QED  BY <3>2, <4>1 DEF Init, Leaves
    <3>3. QED  BY <3>1, <3>2
  <2>2. /\ runq_running = {} /\ runq_complete = {} /\ failed_tids = {} /\ active = 0
    BY Zenon DEF Init
  <2>3. QED  BY <2>1, <2>2 DEF TaskTypes
<1>3. MarkTypes
  <2>1. tasks_scenequeue_done \subseteq Tasks  BY DEF Init, DoneFrom
  <2>2. holdoff_need_update \in BOOLEAN  BY Zenon DEF Init
  <2>3. QED  BY <2>1, <2>2 DEF Init, MarkTypes
<1>4. WaitTypes
  <2>1. DOMAIN Deferral \subseteq SetsceneTids  BY DEF Deferral
  <2>2. QED  BY <2>1 DEF Init, WaitTypes
<1>5. SplitTypes  BY DEF Init, SplitTypes
<1>6. SetsceneTypes
  <2>1. sqdone \in BOOLEAN  BY Zenon DEF Init
  <2>2. QED  BY <2>1 DEF Init, SetsceneTypes
<1>7. ProcTypes
  <2>1. <<>> \in Seq(Exits)  OBVIOUS
  <2>2. worker_up \in BOOLEAN  BY Zenon DEF Init
  <2>3. QED  BY <2>1, <2>2 DEF Init, ProcTypes
<1>8. QED  BY <1>1, <1>2, <1>3, <1>4, <1>5, <1>6, <1>7, TypeGroups

\* The workers.
LEMMA WorkerTyped ==
  ASSUME TypeOK, WorkerStep
  PROVE  TypeOK'
<1>1. ASSUME NEW t \in Tasks, TaskExits(t) PROVE TypeOK'
  <2>1. PICK ok \in BOOLEAN :
          /\ pipe' = Append(pipe, [tid |-> t, setscene |-> FALSE, ok |-> ok])
          /\ stamped' = IF ok /\ ~SetsceneEnforce THEN stamped \cup {t} ELSE stamped
    BY <1>1 DEF TaskExits
  <2>2. [tid |-> t, setscene |-> FALSE, ok |-> ok] \in Exits  BY Zenon DEF Exits
  <2>3. pipe' \in Seq(Exits)  BY <2>1, <2>2 DEF TypeOK
  <2>4. task_procs' \subseteq Tasks /\ stamped' \subseteq Tasks
    BY <1>1, <2>1 DEF TypeOK, TaskExits
  <2>5. ProcTypes'  BY <1>1, <2>3, <2>4 DEF TypeOK, TaskExits, ProcTypes
  <2>6. ControlTypes'  BY <1>1 DEF TypeOK, TaskExits, ControlTypes, control
  <2>7. QED  BY <1>1, <2>5, <2>6, UnchangedTypes, TypeGroupsAfter DEF TaskExits
<1>2. ASSUME NEW t \in SetsceneTids, SetsceneExits(t) PROVE TypeOK'
  <2>1. PICK ok \in BOOLEAN :
          /\ pipe' = Append(pipe, [tid |-> t, setscene |-> TRUE, ok |-> ok])
          /\ sq_stamped' = IF ok THEN sq_stamped \cup {t} ELSE sq_stamped
    BY <1>2 DEF SetsceneExits
  <2>2. [tid |-> t, setscene |-> TRUE, ok |-> ok] \in Exits
    BY GraphAssumption, Zenon DEF Exits
  <2>3. pipe' \in Seq(Exits)  BY <2>1, <2>2 DEF TypeOK
  <2>4. sq_procs' \subseteq SetsceneTids /\ sq_stamped' \subseteq SetsceneTids
    BY <1>2, <2>1 DEF TypeOK, SetsceneExits
  <2>5. ProcTypes'  BY <1>2, <2>3, <2>4 DEF TypeOK, SetsceneExits, ProcTypes
  <2>6. ControlTypes'  BY <1>2 DEF TypeOK, SetsceneExits, ControlTypes, control
  <2>7. QED  BY <1>2, <2>5, <2>6, UnchangedTypes, TypeGroupsAfter DEF SetsceneExits
<1>3. QED  BY <1>1, <1>2 DEF WorkerStep

LEMMA DeathTyped ==
  ASSUME TypeOK, WorkerDies
  PROVE  TypeOK'
<1>1. ProcTypes'  BY DEF TypeOK, ProcTypes, WorkerDies
<1>2. ControlTypes'  BY DEF TypeOK, ControlTypes, control, WorkerDies
<1>3. QED  BY <1>1, <1>2, UnchangedTypes, TypeGroupsAfter DEF WorkerDies

\* The pipe.
LEMMA ReadTyped ==
  ASSUME TypeOK, ReadExit
  PROVE  TypeOK'
<1> DEFINE x == Head(pipe)
<1>1. x \in Exits /\ pipe' \in Seq(Exits)
  BY HeadTailProperties DEF TypeOK, ReadExit
<1>2. x.tid \in Tasks /\ x.ok \in BOOLEAN  BY <1>1 DEF Exits
<1>3. ProcTypes' /\ SplitTypes' /\ sqdone' \in BOOLEAN
      /\ options' \in Options /\ pc' = pc /\ shutdown' = shutdown
  <2>1. ProcTypes'  BY <1>1 DEF TypeOK, ReadExit, ProcTypes
  <2>2. SplitTypes'  BY UnchangedTypes DEF ReadExit
  <2>3. sqdone' \in BOOLEAN  BY DEF TypeOK, ReadExit
  <2>4. options' \in Options /\ pc' = pc /\ shutdown' = shutdown  BY DEF TypeOK, ReadExit
  <2>5. QED  BY <2>1, <2>2, <2>3, <2>4
<1>4. CASE SetsceneExitRead(x.tid, x.ok)
  <2>1. x.tid \in SetsceneTids  BY <1>4 DEF TypeOK, SetsceneExitRead
  <2>2. MarkTypes'  BY <1>4, <2>1, CoverTyped, UncoverTyped DEF SetsceneExitRead
  <2>3. sq_live' \subseteq SetsceneTids  BY <1>4 DEF TypeOK, SetsceneExitRead
  <2>4. state' \in {state, "cleanup"}  BY <1>4, Zenon DEF SetsceneExitRead
  <2>5. ControlTypes' /\ SetsceneTypes'
    BY <1>3, <2>3, <2>4 DEF TypeOK, ControlTypes, SetsceneTypes
  <2>6. TaskTypes' /\ WaitTypes'  BY <1>4, UnchangedTypes DEF SetsceneExitRead
  <2>7. QED  BY <1>3, <2>2, <2>5, <2>6, TypeGroupsAfter
<1>5. CASE TaskExitRead(x.tid, x.ok)
  <2>1. active' \in Int /\ runq_running' \subseteq Tasks /\ sq_live' \subseteq SetsceneTids
        /\ sq_needed_harddeps' \subseteq SetsceneTids
    BY <1>5, OneLessTyped DEF TypeOK, TaskExitRead
  <2>2. CASE /\ x.ok
             /\ CompleteOutright(x.tid)
             /\ runq_buildable' = runq_buildable \cup NewlyBuildable(x.tid)
             /\ UNCHANGED <<state, failed_tids>>
    <3>1. MarkTypes' /\ TaskTypes' /\ WaitTypes'
      BY <1>2, <2>1, <2>2, CompletionTyped DEF TypeOK, TaskTypes, WaitTypes
    <3>2. ControlTypes' /\ SetsceneTypes'
      BY <1>3, <2>1, <2>2 DEF TypeOK, ControlTypes, SetsceneTypes
    <3>3. QED  BY <1>3, <3>1, <3>2, TypeGroupsAfter
  <2>3. CASE /\ ~x.ok
             /\ failed_tids' = failed_tids \cup {x.tid}
             /\ state' = IF Halt THEN "cleanup" ELSE state
             /\ UNCHANGED <<runq_buildable, runq_complete, sq_deferred, outrightfail,
                            markVars>>
    <3>1. MarkTypes'  BY <2>3, UnchangedTypes
    <3>2. TaskTypes' /\ WaitTypes'
      BY <1>2, <2>1, <2>3 DEF TypeOK, TaskTypes, WaitTypes
    <3>3. state' \in {state, "cleanup"}  BY <2>3, Zenon
    <3>4. ControlTypes' /\ SetsceneTypes'
      BY <1>3, <2>1, <3>3 DEF TypeOK, ControlTypes, SetsceneTypes
    <3>5. QED  BY <1>3, <3>1, <3>2, <3>4, TypeGroupsAfter
  <2>4. QED  BY <1>5, <2>2, <2>3 DEF TaskExitRead
<1>6. QED  BY <1>4, <1>5 DEF ReadExit

\* execute(), the setscene half.
LEMMA SetsceneTyped ==
  ASSUME TypeOK, NextSetscene
  PROVE  TypeOK'
<1> USE QueueAssumption
<1>1. PICK t \in SetsceneCandidates :
        \/ SkipSetsceneTask(t) \/ AwaitHardDeps(t) \/ FailOutright(t)
        \/ StartSetscene(t) \/ SendSetsceneFails(t)
  BY DEF NextSetscene
<1>2. t \in SetsceneTids  BY DEF TypeOK, SetsceneCandidates
<1>3. TaskTypes' /\ SplitTypes'  BY UnchangedTypes DEF NextSetscene
<1>4. pc' \in {"loop", "setscene", "holdoff", "raised"}
  <2>1. CASE SkipSetsceneTask(t)  BY <2>1, Zenon DEF SkipSetsceneTask
  <2>2. CASE AwaitHardDeps(t)  BY <2>2, Zenon DEF AwaitHardDeps
  <2>3. CASE FailOutright(t)  BY <2>3, Zenon DEF FailOutright
  <2>4. CASE StartSetscene(t)  BY <2>4, Zenon DEF StartSetscene
  <2>5. CASE SendSetsceneFails(t)  BY <2>5, Zenon DEF SendSetsceneFails
  <2>6. QED  BY <1>1, <2>1, <2>2, <2>3, <2>4, <2>5
<1>5. ControlTypes'  BY <1>4 DEF TypeOK, ControlTypes, NextSetscene
<1>6. MarkTypes'
  <2>1. CASE SkipSetsceneTask(t)  BY <1>2, <2>1, CoverTyped DEF SkipSetsceneTask
  <2>2. CASE AwaitHardDeps(t)
    BY <1>2, <2>2 DEF TypeOK, AwaitHardDeps, MarkTypes
  <2>3. CASE FailOutright(t)  BY <1>2, <2>3, UncoverTyped DEF FailOutright
  <2>4. CASE StartSetscene(t)
    BY <1>2, <2>4 DEF TypeOK, StartSetscene, MarkTypes
  <2>5. CASE SendSetsceneFails(t)  BY <2>5, UnchangedTypes DEF SendSetsceneFails
  <2>6. QED  BY <1>1, <2>1, <2>2, <2>3, <2>4, <2>5
<1>7. WaitTypes'
  <2>0. DOMAIN DropDeferred(t) \subseteq SetsceneTids  BY DEF TypeOK, DropDeferred
  <2>1. CASE SkipSetsceneTask(t)  BY <2>0, <2>1 DEF TypeOK, SkipSetsceneTask, WaitTypes
  <2>2. CASE AwaitHardDeps(t)
    BY <1>2, <2>2 DEF TypeOK, AwaitHardDeps, WaitTypes
  <2>3. CASE FailOutright(t)  BY <2>0, <2>3 DEF TypeOK, FailOutright, WaitTypes
  <2>4. CASE StartSetscene(t)  BY <2>0, <2>4 DEF TypeOK, StartSetscene, WaitTypes
  <2>5. CASE SendSetsceneFails(t)  BY <2>0, <2>5 DEF TypeOK, SendSetsceneFails, WaitTypes
  <2>6. QED  BY <1>1, <2>1, <2>2, <2>3, <2>4, <2>5
<1>8. sq_live' \subseteq SetsceneTids /\ sq_procs' \subseteq SetsceneTids
  <2>1. CASE UNCHANGED <<sq_live, sq_procs>>  BY <2>1 DEF TypeOK
  <2>2. CASE StartSetscene(t)  BY <1>2, <2>2 DEF TypeOK, StartSetscene
  <2>3. QED
    BY <1>1, <2>1, <2>2 DEF SkipSetsceneTask, AwaitHardDeps, FailOutright, SendSetsceneFails
<1>9. SetsceneTypes' /\ ProcTypes'
  BY <1>8 DEF TypeOK, SetsceneTypes, ProcTypes, NextSetscene
<1>10. QED  BY <1>3, <1>5, <1>6, <1>7, <1>9, TypeGroupsAfter

\* update_holdofftasks.
LEMMA UpdateTyped ==
  ASSUME TypeOK, UpdateHoldoff
  PROVE  runq_buildable' \subseteq Tasks /\ SplitTypes' /\ holdoff_need_update' \in BOOLEAN
<1>1. CoveredNow \subseteq Tasks /\ NotCoveredTasks \subseteq Tasks
  BY DEF TypeOK, CoveredNow, NotCoveredTasks
<1>2. HeldOff \subseteq Tasks
  <2>1. \A t \in SetsceneTids : CoveredTasks[t] \subseteq Tasks
    BY DEF CoveredTasks, ReachStoppingAtSetscene
  <2>2. QED  BY <2>1, GraphAssumption DEF HeldOff
<1>3. runq_buildable' \subseteq Tasks /\ SplitTypes'
  <2>1. CASE holdoff_need_update
    <3>1. /\ tasks_covered' = CoveredNow /\ tasks_notcovered' = NotCoveredTasks
          /\ holdoff_tasks' = HeldOff
          /\ runq_buildable' = runq_buildable \cup
               {t \in CoveredNow \cup NotCoveredTasks : Depends[t] \subseteq runq_complete}
      BY <2>1 DEF UpdateHoldoff
    <3>2. QED  BY <1>1, <1>2, <3>1 DEF TypeOK, SplitTypes
  <2>2. CASE ~holdoff_need_update
    <3>1. UNCHANGED <<runq_buildable, splitVars>>  BY <2>2 DEF UpdateHoldoff
    <3>2. QED  BY <3>1, UnchangedTypes DEF TypeOK
  <2>3. QED  BY <2>1, <2>2
<1>4. holdoff_need_update' = holdoff_need_update \/ holdoff_need_update' = FALSE
  BY Zenon DEF UpdateHoldoff
<1>5. holdoff_need_update' \in BOOLEAN  BY <1>4, Zenon DEF TypeOK
<1>6. QED  BY <1>3, <1>5

LEMMA HoldoffTyped ==
  ASSUME TypeOK, Holdoff
  PROVE  TypeOK'
<1>1. state' \in {state, "failed", "complete"}
  BY DEF Holdoff, SettleSetscene
<1>2. pc' \in {"loop", "task"}  BY Zenon DEF Holdoff, SettleSetscene
<1>3. ControlTypes'  BY <1>1, <1>2 DEF TypeOK, ControlTypes, Holdoff
<1>4. runq_buildable' \subseteq Tasks /\ SplitTypes' /\ holdoff_need_update' \in BOOLEAN
  BY UpdateTyped DEF Holdoff
<1>5. TaskTypes' /\ MarkTypes'  BY <1>4 DEF TypeOK, TaskTypes, MarkTypes, Holdoff
<1>6. WaitTypes' /\ ProcTypes'  BY UnchangedTypes DEF Holdoff
<1>7. sqdone' \in BOOLEAN  BY Zenon DEF Holdoff, SettleSetscene
<1>8. SetsceneTypes'  BY <1>7 DEF TypeOK, SetsceneTypes, Holdoff
<1>9. QED  BY <1>3, <1>4, <1>5, <1>6, <1>8, TypeGroupsAfter

\* execute(), the real half.
LEMMA TaskTyped ==
  ASSUME TypeOK, NextTask
  PROVE  TypeOK'
<1>1. PICK t \in ReadyTasks :
        RefuseTask(t) \/ SkipTask(t) \/ RunNoexecTask(t) \/ StartTask(t) \/ SendTaskFails(t)
  BY DEF NextTask
<1>2. t \in Tasks  BY DEF TypeOK, ReadyTasks
<1>3. /\ SplitTypes' /\ SetsceneTypes' /\ sq_needed_harddeps' \subseteq SetsceneTids
      /\ options' = options /\ shutdown' = shutdown
      /\ UNCHANGED <<worker_up, sq_procs, pipe, sq_stamped>>
  BY UnchangedTypes DEF TypeOK, NextTask
<1>4. CASE RefuseTask(t)
  <2>1. MarkTypes'  BY <1>4, UnchangedTypes DEF RefuseTask
  <2>2. active' \in Int  BY <1>4, OneLessTyped DEF TypeOK, RefuseTask
  <2>3. TaskTypes' /\ WaitTypes' /\ ProcTypes'
    BY <1>2, <1>3, <1>4, <2>2 DEF TypeOK, RefuseTask, TaskTypes, WaitTypes, ProcTypes
  <2>4. state' \in {state, "cleanup"} /\ pc' = "loop"  BY <1>4, Zenon DEF RefuseTask
  <2>5. ControlTypes'  BY <1>3, <2>4 DEF TypeOK, ControlTypes
  <2>6. QED  BY <1>3, <2>1, <2>3, <2>5, TypeGroupsAfter
<1>5. CASE SkipTask(t)
  <2>1. MarkTypes' /\ TaskTypes' /\ WaitTypes'
    BY <1>2, <1>3, <1>5, CompletionTyped DEF TypeOK, SkipTask, TaskTypes, WaitTypes
  <2>2. ProcTypes' /\ ControlTypes'
    BY <1>3, <1>5 DEF TypeOK, SkipTask, ProcTypes, ControlTypes
  <2>3. QED  BY <1>3, <2>1, <2>2, TypeGroupsAfter
<1>6. CASE RunNoexecTask(t)
  <2>1. MarkTypes' /\ TaskTypes' /\ WaitTypes'
    BY <1>2, <1>3, <1>6, CompletionTyped DEF TypeOK, RunNoexecTask, TaskTypes, WaitTypes
  <2>2. ProcTypes' /\ ControlTypes'
    BY <1>2, <1>3, <1>6 DEF TypeOK, RunNoexecTask, ProcTypes, ControlTypes
  <2>3. QED  BY <1>3, <2>1, <2>2, TypeGroupsAfter
<1>7. CASE StartTask(t)
  <2>1. MarkTypes'  BY <1>7, UnchangedTypes DEF StartTask
  <2>2. TaskTypes' /\ WaitTypes' /\ ProcTypes'
    BY <1>2, <1>3, <1>7 DEF TypeOK, StartTask, TaskTypes, WaitTypes, ProcTypes
  <2>3. pc' \in {"loop", "idle"}  BY <1>7, Zenon DEF StartTask
  <2>4. ControlTypes'  BY <1>3, <1>7, <2>3 DEF TypeOK, ControlTypes, StartTask
  <2>5. QED  BY <1>3, <2>1, <2>2, <2>4, TypeGroupsAfter
<1>8. CASE SendTaskFails(t)
  <2>1. MarkTypes' /\ TaskTypes'  BY <1>8, UnchangedTypes DEF SendTaskFails
  <2>2. WaitTypes' /\ ProcTypes' /\ ControlTypes'
    BY <1>3, <1>8 DEF TypeOK, SendTaskFails, WaitTypes, ProcTypes, ControlTypes
  <2>3. QED  BY <1>3, <2>1, <2>2, TypeGroupsAfter
<1>9. QED  BY <1>1, <1>4, <1>5, <1>6, <1>7, <1>8

\* The steps that change nothing but where the executor is, and StopNow.
LEMMA ControlTyped ==
  ASSUME TypeOK, \/ EndRead \/ NoSetscene \/ NoTask \/ WaitForWorkers \/ Conclude \/ BeginCall
                 \/ CleanUp \/ StopAgain \/ Teardown \/ StopGracefully
  PROVE  TypeOK'
<1>1. UNCHANGED <<options, taskVars, markVars, waitVars, splitVars, sq_live, sqdone, procVars>>
  BY DEF EndRead, NoSetscene, NoTask, WaitForWorkers, Conclude, BeginCall, CleanUp, StopAgain,
         Teardown, StopGracefully
<1>2. /\ pc' \in {pc, "loop", "read", "setscene", "holdoff", "idle", "drain", "teardown", "end"}
      /\ state' \in {state, "cleanup", "failed", "complete"}
      /\ shutdown' \in {shutdown, "graceful"}
  <2>1. CASE EndRead  BY <2>1, Zenon DEF EndRead
  <2>2. CASE CleanUp  BY <2>2, Zenon DEF CleanUp, Finish, Polled, Outcome
  <2>3. CASE Conclude  BY <2>3, Zenon DEF Conclude, Outcome
  <2>4. CASE StopAgain  BY <2>4, Zenon DEF StopAgain, Outcome
  <2>5. CASE NoSetscene \/ NoTask \/ WaitForWorkers
    BY <2>5, Zenon DEF NoSetscene, NoTask, WaitForWorkers, Polled, Outcome
  <2>6. CASE BeginCall \/ Teardown \/ StopGracefully
    BY <2>6, Zenon DEF BeginCall, Teardown, StopGracefully, Polled, Outcome
  <2>7. QED  BY <2>1, <2>2, <2>3, <2>4, <2>5, <2>6
<1>3. ControlTypes'  BY <1>1, <1>2 DEF TypeOK, ControlTypes
<1>4. QED  BY <1>1, <1>3, UnchangedTypes, TypeGroupsAfter

LEMMA ForceTyped ==
  ASSUME TypeOK, ForceDeferred
  PROVE  TypeOK'
<1>1. WaitTypes'
  BY DEF TypeOK, WaitTypes, ForceDeferred, DropDeferred
<1>2. ControlTypes'  BY DEF TypeOK, ControlTypes, ForceDeferred
<1>3. QED  BY <1>1, <1>2, UnchangedTypes, TypeGroupsAfter DEF ForceDeferred

LEMMA StopTyped ==
  ASSUME TypeOK, StopNow
  PROVE  TypeOK'
<1>1. state' \in {"failed", "complete"}  BY Zenon DEF StopNow, Outcome
<1>2. ControlTypes'  BY <1>1 DEF TypeOK, ControlTypes, StopNow
<1>3. ProcTypes'  BY DEF TypeOK, ProcTypes, StopNow
<1>4. QED  BY <1>2, <1>3, UnchangedTypes, TypeGroupsAfter DEF StopNow

LEMMA StutterTyped ==
  ASSUME TypeOK, UNCHANGED vars
  PROVE  TypeOK'
<1>1. ControlTypes'  BY DEF TypeOK, ControlTypes, vars, control
<1>2. QED  BY <1>1, UnchangedTypes, TypeGroupsAfter DEF vars

LEMMA StepTyped ==
  ASSUME TypeOK, [Next]_vars
  PROVE  TypeOK'
<1>1. CASE WorkerStep  BY <1>1, WorkerTyped
<1>2. CASE ReadExit  BY <1>2, ReadTyped
<1>3. CASE NextSetscene  BY <1>3, SetsceneTyped
<1>4. CASE Holdoff  BY <1>4, HoldoffTyped
<1>5. CASE NextTask  BY <1>5, TaskTyped
<1>6. CASE ForceDeferred  BY <1>6, ForceTyped
<1>7. CASE StopNow  BY <1>7, StopTyped
<1>8. CASE \/ EndRead \/ NoSetscene \/ NoTask \/ WaitForWorkers \/ Conclude \/ BeginCall
           \/ CleanUp \/ StopAgain \/ Teardown \/ StopGracefully
  BY <1>8, ControlTyped
<1>9. CASE WorkerDies  BY <1>9, DeathTyped
<1>10. CASE Terminated \/ UNCHANGED vars  BY <1>10, StutterTyped DEF Terminated
<1>11. QED
  BY <1>1, <1>2, <1>3, <1>4, <1>5, <1>6, <1>7, <1>8, <1>9, <1>10 DEF Next, ServerStep

\* Every variable keeps its type.
THEOREM TypeCorrect == Spec => []TypeOK
<1>1. TypeOK /\ [Next]_vars => TypeOK'  BY StepTyped
<1>2. QED  BY <1>1, InitTyped, PTL DEF Spec

-----------------------------------------------------------------------------
(* Exit codes in a pipe. *)

SetsceneExitsOf(p) == {p[i].tid : i \in {j \in DOMAIN p : p[j].setscene}}
TaskExitsOf(p)     == {p[i].tid : i \in {j \in DOMAIN p : ~p[j].setscene}}

\* No setscene task has two exit codes in the pipe.
OneExitEach(p) ==
  \A i, j \in DOMAIN p : p[i].setscene /\ p[j].setscene /\ p[i].tid = p[j].tid => i = j

-----------------------------------------------------------------------------
(* The inductive invariant. *)

\* What is buildable may run: its dependencies are complete.
Ordered == \A t \in runq_buildable \cup runq_running : Depends[t] \subseteq runq_complete

\* What runs or has completed was started.
Started == BusyTasks \cup runq_complete \subseteq runq_running

\* A setscene task ends once, and is in sq_live until its exit code is read:
\* runqueue_process_waitpid tells by sq_live whether an exit code is that of a
\* setscene task or of the real task of the same name.
Delivered ==
  /\ sq_procs \cup SetsceneExitsOf(pipe) \subseteq sq_live
  /\ sq_procs \cap SetsceneExitsOf(pipe) = {}
  /\ OneExitEach(pipe)

\* The fate of a setscene task that is fetching is open.  It is not failed with a
\* hard dependency, as it was started after those were resolved, and not covered
\* with the task it was deferred behind, as it is not deferred any more.
FateOpen ==
  /\ sq_live \subseteq sq_running \ Resolved
  /\ Resolved \subseteq sq_running
  /\ sq_live \cap DOMAIN sq_deferred = {}
  /\ \A s \in sq_live : HardDepsRev[s] \subseteq Resolved

\* When the next real task is chosen, what an open setscene task stands for is held
\* off or has completed, however stale the split is: it is computed anew before that
\* when a setscene task was reopened.
HeldBack ==
  \/ holdoff_need_update /\ pc # "task"
  \/ tasks_covered \cup tasks_notcovered = {}
  \/ \A s \in SetsceneTids \ Resolved :
       {s} \cup CoveredTasks[s] \subseteq holdoff_tasks \cup runq_complete

\* Nothing an open setscene task stands for is being built.
Apart == \A s \in SetsceneTids \ Resolved : ({s} \cup CoveredTasks[s]) \cap BusyTasks = {}

StampsApart == \A a, b \in BusyTasks : Stamp[a] = Stamp[b] => a = b

OrderInv ==
  /\ TypeOK
  /\ Ordered /\ Started
  /\ Delivered /\ FateOpen
  /\ HeldBack /\ Apart /\ StampsApart

-----------------------------------------------------------------------------
(* The pipe's lemmas. *)

LEMMA AppendExits ==
  ASSUME NEW p \in Seq(Exits), NEW e \in Exits
  PROVE  /\ SetsceneExitsOf(Append(p, e)) =
              SetsceneExitsOf(p) \cup (IF e.setscene THEN {e.tid} ELSE {})
         /\ TaskExitsOf(Append(p, e)) =
              TaskExitsOf(p) \cup (IF e.setscene THEN {} ELSE {e.tid})
         /\ OneExitEach(p) /\ (e.setscene => e.tid \notin SetsceneExitsOf(p))
              => OneExitEach(Append(p, e))
<1> DEFINE q == Append(p, e)
<1>1. DOMAIN q = (DOMAIN p) \cup {Len(p) + 1} /\ Len(p) \in Nat /\ DOMAIN p = 1..Len(p)
  OBVIOUS
<1>2. q[Len(p) + 1] = e /\ \A i \in DOMAIN p : q[i] = p[i]
  OBVIOUS
<1> HIDE DEF q
<1>3. SetsceneExitsOf(q) = SetsceneExitsOf(p) \cup (IF e.setscene THEN {e.tid} ELSE {})
  BY <1>1, <1>2 DEF SetsceneExitsOf
<1>4. TaskExitsOf(q) = TaskExitsOf(p) \cup (IF e.setscene THEN {} ELSE {e.tid})
  BY <1>1, <1>2 DEF TaskExitsOf
<1>5. ASSUME OneExitEach(p), e.setscene => e.tid \notin SetsceneExitsOf(p)
      PROVE  OneExitEach(q)
  BY <1>1, <1>2, <1>5 DEF OneExitEach, SetsceneExitsOf
<1>6. QED  BY <1>3, <1>4, <1>5 DEF q

LEMMA TailExits ==
  ASSUME NEW p \in Seq(Exits), p # <<>>
  PROVE  /\ Tail(p) \in Seq(Exits) /\ Head(p) \in Exits
         /\ SetsceneExitsOf(Tail(p)) \subseteq SetsceneExitsOf(p)
         /\ TaskExitsOf(Tail(p)) \subseteq TaskExitsOf(p)
         /\ Head(p).setscene => Head(p).tid \in SetsceneExitsOf(p)
         /\ ~Head(p).setscene => Head(p).tid \in TaskExitsOf(p)
         /\ OneExitEach(p) =>
              /\ OneExitEach(Tail(p))
              /\ Head(p).setscene => Head(p).tid \notin SetsceneExitsOf(Tail(p))
<1> DEFINE q == Tail(p)
<1>1. /\ q \in Seq(Exits) /\ Head(p) = p[1] /\ p[1] \in Exits
      /\ 1 \in DOMAIN p /\ DOMAIN q \subseteq Nat
      /\ \A i \in DOMAIN q : i + 1 \in DOMAIN p /\ q[i] = p[i + 1] /\ i + 1 # 1
  BY HeadTailProperties
<1> HIDE DEF q
<1>2. SetsceneExitsOf(q) \subseteq SetsceneExitsOf(p)  BY <1>1 DEF SetsceneExitsOf
<1>3. TaskExitsOf(q) \subseteq TaskExitsOf(p)  BY <1>1 DEF TaskExitsOf
<1>4. /\ Head(p).setscene => Head(p).tid \in SetsceneExitsOf(p)
      /\ ~Head(p).setscene => Head(p).tid \in TaskExitsOf(p)
  BY <1>1 DEF SetsceneExitsOf, TaskExitsOf
<1>5. ASSUME OneExitEach(p)
      PROVE  OneExitEach(q) /\ (Head(p).setscene => Head(p).tid \notin SetsceneExitsOf(q))
  <2>1. OneExitEach(q)
    <3> SUFFICES ASSUME NEW i \in DOMAIN q, NEW j \in DOMAIN q,
                        q[i].setscene, q[j].setscene, q[i].tid = q[j].tid
                 PROVE  i = j
      BY DEF OneExitEach
    <3>1. i + 1 = j + 1  BY <1>1, <1>5 DEF OneExitEach
    <3>2. QED  BY <1>1, <3>1
  <2>2. ASSUME Head(p).setscene, Head(p).tid \in SetsceneExitsOf(q) PROVE FALSE
    <3>1. PICK i \in DOMAIN q : q[i].setscene /\ q[i].tid = Head(p).tid
      BY <2>2 DEF SetsceneExitsOf
    <3>2. QED  BY <1>1, <1>5, <2>2, <3>1 DEF OneExitEach
  <2>3. QED  BY <2>1, <2>2
<1>6. QED  BY <1>1, <1>2, <1>3, <1>4, <1>5 DEF q

LEMMA Busy == BusyTasks = task_procs \cup TaskExitsOf(pipe)
BY DEF BusyTasks, TaskExitsOf

LEMMA BusyAfter == BusyTasks' = task_procs' \cup TaskExitsOf(pipe')
BY DEF BusyTasks, TaskExitsOf

-----------------------------------------------------------------------------
(* Resolving setscene tasks. *)

\* Setscene tasks are settled, never reopened.
Grows ==
  /\ scenequeue_notcovered \subseteq scenequeue_notcovered'
  /\ tasks_scenequeue_done \subseteq tasks_scenequeue_done'
  /\ holdoff_need_update => holdoff_need_update'

LEMMA MarkGrows ==
  ASSUME TypeOK, NEW cov, NEW fail, MarkSetscene(cov, fail)
  PROVE  Grows
<1>1. tasks_scenequeue_done \subseteq DoneFrom(tasks_scenequeue_done, cov \cup fail)
  BY DEF TypeOK, DoneFrom
<1>2. QED  BY <1>1 DEF MarkSetscene, Grows

LEMMA UnmarkedGrows == ASSUME UNCHANGED markVars PROVE Grows
BY DEF markVars, Grows

LEMMA ReleaseGrows ==
  ASSUME TypeOK, NEW t, ReleaseDeferred(t)
  PROVE  Grows
<1>1. UNCHANGED markVars \/ \E found \in DOMAIN sq_deferred : Cover(found)
  BY DEF ReleaseDeferred
<1>2. QED  BY <1>1, MarkGrows, UnmarkedGrows DEF Cover

\* Settling setscene tasks that are not fetching disturbs nothing; only the list
\* of what is being fetched may shrink, by what is settled.
LEMMA SettlingIsSafe ==
  ASSUME OrderInv,
         NEW cov \in SUBSET SetsceneTids, NEW fail \in SUBSET SetsceneTids,
         MarkSetscene(cov, fail),
         sq_live' \subseteq sq_live \ (cov \cup fail),
         DOMAIN sq_deferred' \subseteq DOMAIN sq_deferred
  PROVE  FateOpen' /\ Resolved \subseteq Resolved'
<1>1. Resolved' = Resolved \cup cov \cup fail /\ sq_running' = sq_running \cup cov \cup fail
  BY DEF MarkSetscene, Resolved
<1>2. QED  BY <1>1 DEF OrderInv, FateOpen

\* As long as the split is not computed anew, setscene tasks are only settled,
\* never reopened, and nothing new is started.
LEMMA StaleSplitIsSafe ==
  ASSUME OrderInv, Resolved \subseteq Resolved', UNCHANGED splitVars,
         runq_complete \subseteq runq_complete',
         holdoff_need_update => holdoff_need_update', pc' = "task" => pc = "task"
  PROVE  HeldBack' /\ (BusyTasks' \subseteq BusyTasks => Apart' /\ StampsApart')
<1>1. HeldBack'  BY DEF OrderInv, HeldBack, splitVars
<1>2. ASSUME BusyTasks' \subseteq BusyTasks PROVE Apart' /\ StampsApart'
  BY <1>2 DEF OrderInv, Apart, StampsApart
<1>3. QED  BY <1>1, <1>2

\* What fails outright together with a task whose fate is open is not being
\* fetched, that task apart.
LEMMA FailureSparesTheLive ==
  ASSUME OrderInv, NEW t \in SetsceneTids \ Resolved
  PROVE  FailsWith(t) \in SUBSET SetsceneTids /\ FailsWith(t) \cap sq_live \subseteq {t}
<1> DEFINE F == (SetsceneTids \ (sq_live \cup Resolved)) \cup {t}
<1>1. F \in SUBSET SetsceneTids /\ t \in F  OBVIOUS
<1>2. ASSUME NEW e \in SetsceneTids, HardDepsRev[e] \cap F # {}, e \notin Resolved
      PROVE  e \in F
  BY <1>2 DEF OrderInv, FateOpen
<1>3. FailsWith(t) \subseteq F  BY <1>1, <1>2 DEF FailsWith
<1>4. QED  BY <1>3

\* Completing a task releases what is deferred behind it; none of that is fetching.
LEMMA ReleaseIsSafe ==
  ASSUME OrderInv, NEW t, ReleaseDeferred(t), sq_live' = sq_live
  PROVE  FateOpen' /\ Resolved \subseteq Resolved'
<1>1. CASE UNCHANGED <<sq_deferred, markVars>>
  BY <1>1 DEF OrderInv, FateOpen, Resolved, markVars
<1>2. ASSUME NEW found \in DOMAIN sq_deferred,
             DOMAIN sq_deferred' = DOMAIN sq_deferred \ {found},
             Cover(found) \/ UNCHANGED markVars
      PROVE  FateOpen' /\ Resolved \subseteq Resolved'
  <2>1. found \in SetsceneTids \ sq_live  BY <1>2 DEF OrderInv, TypeOK, FateOpen
  <2>2. CASE Cover(found)  BY <1>2, <2>1, <2>2, SettlingIsSafe DEF Cover
  <2>3. CASE UNCHANGED markVars
    BY <1>2, <2>3 DEF OrderInv, FateOpen, Resolved, markVars
  <2>4. QED  BY <1>2, <2>2, <2>3
<1>3. CASE \E found \in DOMAIN sq_deferred :
             /\ DOMAIN sq_deferred' = DOMAIN sq_deferred \ {found}
             /\ Cover(found) \/ UNCHANGED markVars
  BY <1>2, <1>3
<1>4. QED  BY <1>1, <1>3 DEF ReleaseDeferred

\* What is counted complete makes buildable only what waits for nothing else.
LEMMA NewlyBuildableIsOrdered ==
  ASSUME OrderInv, NEW t, runq_complete' = runq_complete \cup {t},
         runq_buildable' = runq_buildable \cup NewlyBuildable(t),
         runq_running' \subseteq runq_running \cup runq_buildable
  PROVE  Ordered'
BY DEF OrderInv, Ordered, NewlyBuildable

-----------------------------------------------------------------------------
(* The actions. *)

LEMMA InitOrdered == Init => OrderInv
<1> SUFFICES ASSUME Init PROVE OrderInv  OBVIOUS
<1>1. TypeOK  BY InitTyped
<1>2. /\ runq_running = {} /\ runq_complete = {} /\ sq_live = {} /\ sq_procs = {}
      /\ task_procs = {} /\ pipe = <<>> /\ tasks_covered = {}
      /\ tasks_notcovered = IF SetsceneTids = {} THEN Tasks ELSE {}
      /\ scenequeue_notcovered = {} /\ sq_running = scenequeue_covered
      /\ \/ runq_buildable = Leaves(Tasks)
         \/ runq_buildable = Leaves(Unskippable \ SetsceneTids)
  BY Zenon DEF Init
<1>3. SetsceneExitsOf(pipe) = {} /\ BusyTasks = {}
  BY <1>2 DEF SetsceneExitsOf, BusyTasks
<1>4. Ordered /\ Started  BY <1>2, <1>3 DEF Ordered, Started, Leaves
<1>5. Delivered  BY <1>2, <1>3 DEF Delivered, OneExitEach
<1>6. FateOpen  BY <1>2 DEF FateOpen, Resolved
<1>7. HeldBack  BY <1>2 DEF HeldBack
<1>8. Apart /\ StampsApart  BY <1>3 DEF Apart, StampsApart
<1>9. QED  BY <1>1, <1>4, <1>5, <1>6, <1>7, <1>8 DEF OrderInv

\* The invariant without its types, which RunQueue_proofs preserves.
OrderParts == Ordered /\ Started /\ Delivered /\ FateOpen /\ HeldBack /\ Apart /\ StampsApart

\* A step that touches neither the tasks' nor the setscene tasks' progress.
LEMMA IdleOrdered ==
  ASSUME OrderInv,
         UNCHANGED <<runq_buildable, runq_running, runq_complete, markVars, splitVars, sq_live,
                     pipe>>,
         task_procs' \subseteq task_procs, sq_procs' \subseteq sq_procs,
         DOMAIN sq_deferred' \subseteq DOMAIN sq_deferred,
         pc' = "task" => pc = "task"
  PROVE  OrderParts'
<1>1. Ordered'  BY DEF OrderInv, Ordered
<1>2. BusyTasks' \subseteq BusyTasks  BY Busy, BusyAfter
<1>3. Started'  BY <1>2 DEF OrderInv, Started
<1>4. Delivered'  BY DEF OrderInv, Delivered
<1>5. Resolved' = Resolved  BY DEF Resolved, markVars
<1>6. FateOpen'  BY <1>5 DEF OrderInv, FateOpen, markVars
<1>7. HeldBack' /\ Apart' /\ StampsApart'
  BY <1>2, <1>5, StaleSplitIsSafe DEF markVars
<1>8. QED  BY <1>1, <1>3, <1>4, <1>6, <1>7 DEF OrderParts

LEMMA WorkerOrdered ==
  ASSUME OrderInv, WorkerStep
  PROVE  OrderParts'
<1>1. /\ UNCHANGED <<pc, runq_buildable, runq_running, runq_complete, markVars, sq_deferred,
                     splitVars, sq_live>>
      /\ Resolved' = Resolved
  BY DEF WorkerStep, TaskExits, SetsceneExits, control, taskVars, markVars, waitVars, Resolved
<1>2. BusyTasks' = BusyTasks /\ Delivered'
  <2>1. ASSUME NEW t \in Tasks, TaskExits(t) PROVE BusyTasks' = BusyTasks /\ Delivered'
    <3>1. PICK ok \in BOOLEAN :
            pipe' = Append(pipe, [tid |-> t, setscene |-> FALSE, ok |-> ok])
      BY <2>1 DEF TaskExits
    <3>2. [tid |-> t, setscene |-> FALSE, ok |-> ok] \in Exits  BY Zenon DEF Exits
    <3>3. /\ SetsceneExitsOf(pipe') = SetsceneExitsOf(pipe)
          /\ TaskExitsOf(pipe') = TaskExitsOf(pipe) \cup {t}
          /\ OneExitEach(pipe')
      BY <3>1, <3>2, AppendExits DEF OrderInv, TypeOK, Delivered
    <3>4. task_procs' = task_procs \ {t} /\ t \in task_procs /\ sq_procs' = sq_procs
      BY <2>1 DEF TaskExits
    <3>5. BusyTasks' = BusyTasks  BY <3>3, <3>4, Busy, BusyAfter
    <3>6. QED  BY <1>1, <3>3, <3>4, <3>5 DEF OrderInv, Delivered
  <2>2. ASSUME NEW t \in SetsceneTids, SetsceneExits(t)
        PROVE  BusyTasks' = BusyTasks /\ Delivered'
    <3>1. PICK ok \in BOOLEAN :
            pipe' = Append(pipe, [tid |-> t, setscene |-> TRUE, ok |-> ok])
      BY <2>2 DEF SetsceneExits
    <3>2. [tid |-> t, setscene |-> TRUE, ok |-> ok] \in Exits
      BY GraphAssumption, Zenon DEF Exits
    <3>3. sq_procs' = sq_procs \ {t} /\ t \in sq_procs /\ task_procs' = task_procs
      BY <2>2 DEF SetsceneExits
    <3>4. /\ SetsceneExitsOf(pipe') = SetsceneExitsOf(pipe) \cup {t}
          /\ TaskExitsOf(pipe') = TaskExitsOf(pipe)
          /\ OneExitEach(pipe')
      BY <3>1, <3>2, <3>3, AppendExits DEF OrderInv, TypeOK, Delivered
    <3>5. BusyTasks' = BusyTasks  BY <3>3, <3>4, Busy, BusyAfter
    <3>6. QED  BY <1>1, <3>3, <3>4, <3>5 DEF OrderInv, Delivered
  <2>3. QED  BY <2>1, <2>2 DEF WorkerStep
<1>3. Ordered' /\ Started'  BY <1>1, <1>2 DEF OrderInv, Ordered, Started
<1>4. FateOpen'  BY <1>1 DEF OrderInv, FateOpen, markVars
<1>5. HeldBack' /\ Apart' /\ StampsApart'
  BY <1>1, <1>2, StaleSplitIsSafe DEF markVars
<1>6. QED  BY <1>2, <1>3, <1>4, <1>5 DEF OrderParts

\* An exit code is taken for what it is, since Apart keeps the real task of a
\* setscene task that is fetching from running.
LEMMA ReadOrdered ==
  ASSUME OrderInv, ReadExit
  PROVE  OrderParts'
<1> DEFINE x == Head(pipe)
           t == x.tid
<1>1. /\ pipe \in Seq(Exits) /\ pipe # <<>> /\ pipe' = Tail(pipe)
      /\ UNCHANGED <<pc, task_procs, sq_procs, splitVars>>
  BY DEF OrderInv, TypeOK, ReadExit
<1>2. /\ x \in Exits
      /\ SetsceneExitsOf(pipe') \subseteq SetsceneExitsOf(pipe)
      /\ TaskExitsOf(pipe') \subseteq TaskExitsOf(pipe)
      /\ x.setscene => t \in SetsceneExitsOf(pipe)
      /\ ~x.setscene => t \in TaskExitsOf(pipe)
      /\ OneExitEach(pipe')
      /\ x.setscene => t \notin SetsceneExitsOf(pipe')
  BY <1>1, TailExits DEF OrderInv, Delivered
<1>3. BusyTasks' \subseteq BusyTasks  BY <1>1, <1>2, Busy, BusyAfter
<1>4. sq_live \cap BusyTasks = {}
  BY DEF OrderInv, TypeOK, FateOpen, Apart
<1>5. CASE SetsceneExitRead(t, x.ok)
  <2>1. /\ t \in sq_live /\ sq_live' = sq_live \ {t}
        /\ UNCHANGED <<runq_buildable, runq_running, runq_complete, sq_deferred>>
        /\ Cover(t) \/ Uncover(t)
    BY <1>5 DEF SetsceneExitRead, taskVars, waitVars
  <2>2. x.setscene  BY <1>2, <1>4, <2>1, Busy DEF Exits
  <2>3. Delivered'  BY <1>1, <1>2, <2>1, <2>2 DEF OrderInv, Delivered
  <2>4. t \in SetsceneTids \ Resolved  BY <2>1 DEF OrderInv, TypeOK, FateOpen
  <2>5. FateOpen' /\ Resolved \subseteq Resolved'
    <3>1. CASE Cover(t)  BY <2>1, <2>4, <3>1, SettlingIsSafe DEF Cover
    <3>2. CASE Uncover(t)
      <4>1. FailsWith(t) \in SUBSET SetsceneTids /\ FailsWith(t) \cap sq_live \subseteq {t}
        BY <2>4, FailureSparesTheLive
      <4>2. MarkSetscene({}, FailsWith(t))  BY <3>2 DEF Uncover
      <4>3. sq_live' \subseteq sq_live \ ({} \cup FailsWith(t))  BY <2>1, <4>1
      <4>4. QED  BY <2>1, <4>1, <4>2, <4>3, SettlingIsSafe
    <3>3. QED  BY <2>1, <3>1, <3>2
  <2>6. Ordered' /\ Started'  BY <1>3, <2>1 DEF OrderInv, Ordered, Started
  <2>7. Grows  BY <2>1, MarkGrows DEF OrderInv, Cover, Uncover
  <2>8. HeldBack' /\ Apart' /\ StampsApart'
    BY <1>1, <1>3, <2>1, <2>5, <2>7, StaleSplitIsSafe DEF Grows
  <2>9. QED  BY <2>3, <2>5, <2>6, <2>8 DEF OrderParts
<1>6. CASE TaskExitRead(t, x.ok)
  <2>1. /\ t \notin sq_live
        /\ UNCHANGED <<runq_running, sq_live>>
    BY <1>6 DEF TaskExitRead
  <2>2. t \in BusyTasks
    BY <1>2, <2>1, Busy DEF OrderInv, Delivered
  <2>3. Delivered'  BY <1>1, <1>2, <2>1 DEF OrderInv, Delivered
  <2>4. CASE /\ CompleteOutright(t)
             /\ runq_buildable' = runq_buildable \cup NewlyBuildable(t)
    <3>1. runq_complete' = runq_complete \cup {t}  BY <2>4 DEF CompleteOutright
    <3>2. Ordered'  BY <2>1, <2>4, <3>1, NewlyBuildableIsOrdered
    <3>3. Started'  BY <1>3, <2>1, <2>2, <3>1 DEF OrderInv, Started
    <3>4. FateOpen' /\ Resolved \subseteq Resolved'
      BY <2>1, <2>4, ReleaseIsSafe DEF CompleteOutright
    <3>5. Grows  BY <2>4, ReleaseGrows DEF OrderInv, CompleteOutright
    <3>6. HeldBack' /\ Apart' /\ StampsApart'
      BY <1>1, <1>3, <3>1, <3>4, <3>5, StaleSplitIsSafe DEF Grows
    <3>7. QED  BY <2>3, <3>2, <3>3, <3>4, <3>6 DEF OrderParts
  <2>5. CASE UNCHANGED <<runq_buildable, runq_complete, sq_deferred, markVars>>
    <3>1. Ordered' /\ Started'  BY <1>3, <2>1, <2>5 DEF OrderInv, Ordered, Started
    <3>2. Resolved' = Resolved  BY <2>5 DEF Resolved, markVars
    <3>3. FateOpen'  BY <2>1, <2>5, <3>2 DEF OrderInv, FateOpen, markVars
    <3>4. HeldBack' /\ Apart' /\ StampsApart'
      BY <1>1, <1>3, <2>5, <3>2, StaleSplitIsSafe DEF markVars
    <3>5. QED  BY <2>3, <3>1, <3>3, <3>4 DEF OrderParts
  <2>6. QED  BY <1>6, <2>4, <2>5 DEF TaskExitRead
<1>7. QED  BY <1>5, <1>6 DEF ReadExit

LEMMA SetsceneGrows ==
  ASSUME TypeOK, NEW t,
         \/ SkipSetsceneTask(t) \/ AwaitHardDeps(t) \/ FailOutright(t)
         \/ StartSetscene(t) \/ SendSetsceneFails(t)
  PROVE  Grows /\ pc' \in {"loop", "setscene", "holdoff", "raised"}
<1>1. CASE SkipSetsceneTask(t)  BY <1>1, MarkGrows DEF SkipSetsceneTask, Cover
<1>2. CASE AwaitHardDeps(t)  BY <1>2 DEF AwaitHardDeps, Grows
<1>3. CASE FailOutright(t)  BY <1>3, MarkGrows DEF FailOutright, Uncover
<1>4. CASE StartSetscene(t)  BY <1>4, Zenon DEF StartSetscene, Grows
<1>5. CASE SendSetsceneFails(t)  BY <1>5, UnmarkedGrows DEF SendSetsceneFails
<1>6. QED  BY <1>1, <1>2, <1>3, <1>4, <1>5

LEMMA SetsceneOrdered ==
  ASSUME OrderInv, NextSetscene
  PROVE  OrderParts'
<1>1. PICK t \in SetsceneCandidates :
        \/ SkipSetsceneTask(t) \/ AwaitHardDeps(t) \/ FailOutright(t)
        \/ StartSetscene(t) \/ SendSetsceneFails(t)
  BY DEF NextSetscene
<1>2. t \in SetsceneTids /\ t \notin sq_running  BY DEF OrderInv, TypeOK, SetsceneCandidates
<1>3. t \in SetsceneTids \ Resolved /\ t \notin sq_live  BY <1>2 DEF OrderInv, FateOpen
<1>4. /\ UNCHANGED <<runq_buildable, runq_running, runq_complete, splitVars, task_procs, pipe>>
      /\ BusyTasks' = BusyTasks
  BY Busy, BusyAfter DEF NextSetscene, taskVars
<1>5. Ordered' /\ Started'  BY <1>4 DEF OrderInv, Ordered, Started
<1>6. DOMAIN DropDeferred(t) = DOMAIN sq_deferred \ {t}  BY DEF DropDeferred
<1>7. Delivered' /\ FateOpen' /\ Resolved \subseteq Resolved'
  <2>1. CASE SkipSetsceneTask(t)
    <3>1. MarkSetscene({t}, {}) /\ UNCHANGED <<sq_live, sq_procs>>
          /\ DOMAIN sq_deferred' \subseteq DOMAIN sq_deferred
      BY <1>6, <2>1 DEF SkipSetsceneTask, Cover
    <3>2. sq_live' \subseteq sq_live \ ({t} \cup {})  BY <1>3, <3>1
    <3>3. Delivered'  BY <1>4, <3>1 DEF OrderInv, Delivered
    <3>4. QED  BY <1>2, <3>1, <3>2, <3>3, SettlingIsSafe
  <2>2. CASE AwaitHardDeps(t)
    BY <1>4, <2>2 DEF OrderInv, Delivered, FateOpen, Resolved, AwaitHardDeps
  <2>3. CASE FailOutright(t)
    <3>1. MarkSetscene({}, FailsWith(t)) /\ UNCHANGED <<sq_live, sq_procs>>
          /\ DOMAIN sq_deferred' \subseteq DOMAIN sq_deferred
      BY <1>6, <2>3 DEF FailOutright, Uncover
    <3>2. FailsWith(t) \in SUBSET SetsceneTids /\ FailsWith(t) \cap sq_live \subseteq {t}
      BY <1>3, FailureSparesTheLive
    <3>3. sq_live' \subseteq sq_live \ ({} \cup FailsWith(t))  BY <1>3, <3>1, <3>2
    <3>4. Delivered'  BY <1>4, <3>1 DEF OrderInv, Delivered
    <3>5. QED  BY <3>1, <3>2, <3>3, <3>4, SettlingIsSafe
  <2>4. CASE StartSetscene(t)
    <3>1. /\ sq_live' = sq_live \cup {t} /\ sq_procs' = sq_procs \cup {t}
          /\ sq_running' = sq_running \cup {t} /\ sq_deferred' = DropDeferred(t)
          /\ HardDepsRev[t] \subseteq Resolved
          /\ Resolved' = Resolved
      BY <2>4 DEF StartSetscene, Startable, HardDepsResolved, Resolved
    <3>2. Delivered'  BY <1>3, <1>4, <3>1 DEF OrderInv, Delivered
    <3>3. FateOpen'  BY <1>3, <1>6, <3>1 DEF OrderInv, FateOpen
    <3>4. QED  BY <3>1, <3>2, <3>3
  <2>5. CASE SendSetsceneFails(t)
    <3>1. UNCHANGED <<markVars, sq_live, sq_procs>>
          /\ DOMAIN sq_deferred' \subseteq DOMAIN sq_deferred
      BY <1>6, <2>5 DEF SendSetsceneFails
    <3>2. Resolved' = Resolved  BY <3>1 DEF Resolved, markVars
    <3>3. QED  BY <1>4, <3>1, <3>2 DEF OrderInv, Delivered, FateOpen, markVars
  <2>6. QED  BY <1>1, <2>1, <2>2, <2>3, <2>4, <2>5
<1>8. (holdoff_need_update => holdoff_need_update') /\ pc' # "task"
  BY <1>1, SetsceneGrows DEF OrderInv, Grows
<1>9. HeldBack' /\ Apart' /\ StampsApart'  BY <1>4, <1>7, <1>8, StaleSplitIsSafe
<1>10. QED  BY <1>5, <1>7, <1>9 DEF OrderParts

\* What is held off is computed from what is open now.
LEMMA UpdateOrdered ==
  ASSUME OrderInv, UpdateHoldoff,
         UNCHANGED <<runq_running, runq_complete, scenequeue_covered, scenequeue_notcovered,
                     sq_running, sq_deferred, sq_live, sq_procs, task_procs, pipe>>
  PROVE  OrderParts'
<1>1. Resolved' = Resolved /\ BusyTasks' = BusyTasks
  BY Busy, BusyAfter DEF Resolved
<1>2. \/ ~holdoff_need_update /\ UNCHANGED <<runq_buildable, splitVars>>
      \/ /\ holdoff_tasks' = HeldOff
         /\ runq_buildable' = runq_buildable \cup
              {t \in CoveredNow \cup NotCoveredTasks : Depends[t] \subseteq runq_complete}
  BY DEF UpdateHoldoff
<1>3. Ordered'  BY <1>1, <1>2 DEF OrderInv, Ordered
<1>4. Started' /\ Delivered' /\ FateOpen' /\ Apart' /\ StampsApart'
  BY <1>1 DEF OrderInv, Started, Delivered, FateOpen, Apart, StampsApart
<1>5. HeldBack'
  <2>1. CASE ~holdoff_need_update /\ UNCHANGED splitVars
    BY <1>1, <2>1 DEF OrderInv, HeldBack, splitVars
  <2>2. CASE holdoff_tasks' = HeldOff
    <3>1. ASSUME NEW s \in SetsceneTids \ Resolved
          PROVE  {s} \cup CoveredTasks[s] \subseteq HeldOff \cup runq_complete
      BY DEF HeldOff
    <3>2. QED  BY <1>1, <2>2, <3>1 DEF HeldBack
  <2>3. QED  BY <1>2, <2>1, <2>2
<1>6. QED  BY <1>3, <1>4, <1>5 DEF OrderParts

LEMMA HoldoffOrdered == ASSUME OrderInv, Holdoff PROVE OrderParts'
BY UpdateOrdered DEF Holdoff, waitVars, procVars

\* A real task starts when it is buildable and nothing holds it off.
LEMMA TaskOrdered ==
  ASSUME OrderInv, NextTask
  PROVE  OrderParts'
<1>1. PICK t \in ReadyTasks :
        RefuseTask(t) \/ SkipTask(t) \/ RunNoexecTask(t) \/ StartTask(t) \/ SendTaskFails(t)
  BY DEF NextTask
<1>2. /\ t \in runq_buildable /\ t \notin runq_running /\ t \notin holdoff_tasks
      /\ t \in tasks_covered \cup tasks_notcovered /\ ~StampInUse(t)
  BY DEF ReadyTasks
<1>3. pc = "task" /\ UNCHANGED <<splitVars, sq_live, sq_procs, pipe>>
  BY DEF NextTask
<1>4. Delivered'  BY <1>3 DEF OrderInv, Delivered
<1>5. CASE RefuseTask(t)
  <2>1. UNCHANGED <<runq_buildable, runq_running, runq_complete, sq_deferred, markVars,
                    task_procs>>
    BY <1>5 DEF RefuseTask
  <2>2. QED  BY <1>3, <2>1, IdleOrdered
<1>6. CASE SkipTask(t) \/ RunNoexecTask(t)
  <2>1. /\ runq_running' = runq_running \cup {t} /\ CompleteOutright(t)
        /\ runq_buildable' = runq_buildable \cup NewlyBuildable(t)
        /\ task_procs' = task_procs
    BY <1>6 DEF SkipTask, RunNoexecTask
  <2>2. runq_complete' = runq_complete \cup {t}  BY <2>1 DEF CompleteOutright
  <2>3. BusyTasks' = BusyTasks  BY <1>3, <2>1, Busy, BusyAfter
  <2>4. Ordered'  BY <1>2, <2>1, <2>2, NewlyBuildableIsOrdered
  <2>5. Started'  BY <2>1, <2>2, <2>3 DEF OrderInv, Started
  <2>6. FateOpen' /\ Resolved \subseteq Resolved'
    BY <1>3, <2>1, ReleaseIsSafe DEF CompleteOutright
  <2>7. Grows  BY <2>1, ReleaseGrows DEF OrderInv, CompleteOutright
  <2>8. HeldBack' /\ Apart' /\ StampsApart'
    BY <1>3, <2>2, <2>3, <2>6, <2>7, StaleSplitIsSafe DEF Grows
  <2>9. QED  BY <1>4, <2>4, <2>5, <2>6, <2>8 DEF OrderParts
<1>7. CASE StartTask(t)
  <2>1. /\ runq_running' = runq_running \cup {t} /\ task_procs' = task_procs \cup {t}
        /\ UNCHANGED <<runq_buildable, runq_complete, sq_deferred, markVars>>
    BY <1>7 DEF StartTask
  <2>2. BusyTasks' = BusyTasks \cup {t}  BY <1>3, <2>1, Busy, BusyAfter
  <2>3. Resolved' = Resolved  BY <2>1 DEF Resolved, markVars
  <2>4. Ordered' /\ Started'  BY <1>2, <2>1, <2>2 DEF OrderInv, Ordered, Started
  <2>5. FateOpen'  BY <1>3, <2>1, <2>3 DEF OrderInv, FateOpen, markVars
  <2>6. HeldBack'  BY <1>3, <2>1, <2>3, StaleSplitIsSafe DEF markVars
  <2>7. \A s \in SetsceneTids \ Resolved : t \notin {s} \cup CoveredTasks[s]
    BY <1>2, <1>3 DEF OrderInv, HeldBack, Started
  <2>8. Apart'  BY <2>2, <2>3, <2>7 DEF OrderInv, Apart
  <2>9. StampsApart'  BY <1>2, <2>2 DEF OrderInv, StampsApart, StampInUse
  <2>10. QED  BY <1>4, <2>4, <2>5, <2>6, <2>8, <2>9 DEF OrderParts
<1>8. CASE SendTaskFails(t)
  <2>1. UNCHANGED <<taskVars, sq_deferred, markVars, task_procs>>  BY <1>8 DEF SendTaskFails
  <2>2. QED  BY <1>3, <2>1, IdleOrdered DEF taskVars
<1>9. QED  BY <1>1, <1>5, <1>6, <1>7, <1>8

\* Nothing but update_holdofftasks leads to the choice of the next task.
LEMMA ControlKeepsPlace ==
  ASSUME \/ EndRead \/ NoSetscene \/ NoTask \/ WaitForWorkers \/ Conclude \/ BeginCall
         \/ CleanUp \/ StopAgain \/ Teardown \/ StopGracefully \/ StopNow \/ ForceDeferred
         \/ WorkerDies \/ UNCHANGED vars
  PROVE  pc' \in {"task", "idle"} => pc \in {"task", "idle"} /\ (pc' = "task" => pc = "task")
<1>1. CASE EndRead  BY <1>1, Zenon DEF EndRead
<1>2. CASE CleanUp  BY <1>2, Zenon DEF CleanUp, Finish
<1>3. CASE \/ NoSetscene \/ NoTask \/ WaitForWorkers \/ Conclude \/ BeginCall \/ StopAgain
           \/ Teardown \/ StopGracefully \/ StopNow \/ ForceDeferred \/ WorkerDies
           \/ UNCHANGED vars
  BY <1>3 DEF NoSetscene, NoTask, WaitForWorkers, Conclude, BeginCall, StopAgain, Teardown,
              StopGracefully, StopNow, ForceDeferred, WorkerDies, vars, control
<1>4. QED  BY <1>1, <1>2, <1>3

\* Stopping, waiting and reporting change nothing the invariant speaks of, except
\* that finish_now takes the workers away and ForceDeferred lets a task go.
LEMMA ControlOrdered ==
  ASSUME OrderInv,
         \/ EndRead \/ NoSetscene \/ NoTask \/ WaitForWorkers \/ Conclude \/ BeginCall
         \/ CleanUp \/ StopAgain \/ Teardown \/ StopGracefully \/ StopNow \/ ForceDeferred
         \/ WorkerDies \/ UNCHANGED vars
  PROVE  OrderParts'
<1>1. CASE ForceDeferred
  <2>1. UNCHANGED <<taskVars, markVars, splitVars, sq_live, procVars>>  BY <1>1 DEF ForceDeferred
  <2>2. DOMAIN sq_deferred' \subseteq DOMAIN sq_deferred
    BY <1>1 DEF ForceDeferred, DropDeferred
  <2>3. pc' = "loop"  BY <1>1 DEF ForceDeferred
  <2>4. QED  BY <2>1, <2>2, <2>3, IdleOrdered DEF taskVars, procVars
<1>2. CASE StopNow
  <2>1. /\ UNCHANGED <<pc, taskVars, markVars, waitVars, splitVars, sq_live, pipe>>
        /\ task_procs' = {} /\ sq_procs' = {}
    BY <1>2 DEF StopNow
  <2>2. QED  BY <2>1, IdleOrdered DEF taskVars, waitVars
<1>3. CASE \/ EndRead \/ NoSetscene \/ NoTask \/ WaitForWorkers \/ Conclude \/ BeginCall
           \/ CleanUp \/ StopAgain \/ Teardown \/ StopGracefully \/ UNCHANGED vars
  <2>1. UNCHANGED <<taskVars, markVars, waitVars, splitVars, sq_live, procVars>>
    BY <1>3 DEF EndRead, NoSetscene, NoTask, WaitForWorkers, Conclude, BeginCall, CleanUp,
                StopAgain, Teardown, StopGracefully, vars
  <2>2. pc' = "task" => pc = "task"  BY <1>3, ControlKeepsPlace
  <2>3. QED  BY <2>1, <2>2, IdleOrdered DEF taskVars, waitVars, procVars
<1>4. CASE WorkerDies
  BY <1>4, IdleOrdered DEF WorkerDies, control, taskVars, waitVars
<1>5. QED  BY <1>1, <1>2, <1>3, <1>4

-----------------------------------------------------------------------------
(* The theorems. *)

LEMMA StepOrdered ==
  ASSUME OrderInv, [Next]_vars
  PROVE  OrderInv'
<1>1. OrderParts'
  <2>1. CASE WorkerStep  BY <2>1, WorkerOrdered
  <2>2. CASE ReadExit  BY <2>2, ReadOrdered
  <2>3. CASE NextSetscene  BY <2>3, SetsceneOrdered
  <2>4. CASE Holdoff  BY <2>4, HoldoffOrdered
  <2>5. CASE NextTask  BY <2>5, TaskOrdered
  <2>6. CASE \/ EndRead \/ NoSetscene \/ NoTask \/ WaitForWorkers \/ Conclude \/ BeginCall
             \/ CleanUp \/ StopAgain \/ Teardown \/ StopGracefully \/ StopNow \/ ForceDeferred
             \/ WorkerDies \/ UNCHANGED vars
    BY <2>6, ControlOrdered
  <2>7. QED
    BY <2>1, <2>2, <2>3, <2>4, <2>5, <2>6 DEF Next, ServerStep, Terminated
<1>2. TypeOK'  BY StepTyped DEF OrderInv
<1>3. QED  BY <1>1, <1>2 DEF OrderInv, OrderParts

\* OrderInv is inductive.
THEOREM OrderInvariant == Spec => []OrderInv
<1>1. OrderInv /\ [Next]_vars => OrderInv'  BY StepOrdered
<1>2. QED  BY <1>1, InitOrdered, PTL DEF Spec

\* A task is started or skipped only when all it depends on has completed.
THEOREM DependenciesFirst == Spec => []DependencyOrder
<1>1. OrderInv => DependencyOrder  BY DEF OrderInv, DependencyOrder, Ordered, Started
<1>2. QED  BY <1>1, OrderInvariant, PTL

LEMMA OrderMeansApart ==
  ASSUME OrderInv
  PROVE  NoConcurrentRebuild
BY DEF OrderInv, NoConcurrentRebuild, TypeOK, FateOpen, Apart, StampsApart

\* No task is built while a setscene task fetches its output, and no two tasks
\* that share a stamp run together.
THEOREM BuiltOrFetched == Spec => []NoConcurrentRebuild
<1>1. OrderInv => NoConcurrentRebuild  BY OrderMeansApart
<1>2. QED  BY <1>1, OrderInvariant, PTL

-----------------------------------------------------------------------------
(* The inductive invariant, beside OrderInv. *)

\* No real task has two exit codes in the pipe.
OneTaskExitEach(p) ==
  \A i, j \in DOMAIN p : ~p[i].setscene /\ ~p[j].setscene /\ p[i].tid = p[j].tid => i = j

\* A task under way has neither failed nor completed, and will end once.
BusyOnce ==
  /\ task_procs \cap TaskExitsOf(pipe) = {}
  /\ OneTaskExitEach(pipe)
  /\ BusyTasks \cap (runq_complete \cup failed_tids) = {}

\* What is not covered stays so, even though the split may be out of date; before
\* the first update_holdofftasks nothing is looked up in it.  With SetsceneEnforce,
\* that is: without, setscene tasks may be reopened (module HashEquiv).
SplitIsFinal ==
  \/ ~SetsceneEnforce
  \/ tasks_notcovered \subseteq NotCoveredTasks
  \/ holdoff_need_update /\ pc \notin {"task", "idle"}

\* A task that was refused is refused whenever it is offered again.
RefusedForGood ==
  \A t \in failed_tids \ runq_running :
    /\ SetsceneEnforce
    /\ t \in NotCoveredTasks \ (tasks_covered \cup stamped \cup Noexec \cup IgnoreTasks)

OnceInv == BusyOnce /\ SplitIsFinal /\ RefusedForGood

GraphStep == [TaskGraphOf!Next]_(TaskGraphOf!vars)

-----------------------------------------------------------------------------
(* Lemmas. *)

LEMMA AppendTaskExit ==
  ASSUME NEW p \in Seq(Exits), NEW e \in Exits, OneTaskExitEach(p),
         ~e.setscene => e.tid \notin TaskExitsOf(p)
  PROVE  OneTaskExitEach(Append(p, e))
<1> DEFINE q == Append(p, e)
<1>1. DOMAIN q = (DOMAIN p) \cup {Len(p) + 1} /\ Len(p) \in Nat /\ DOMAIN p = 1..Len(p)
  OBVIOUS
<1>2. q[Len(p) + 1] = e /\ \A i \in DOMAIN p : q[i] = p[i]
  OBVIOUS
<1> HIDE DEF q
<1>3. OneTaskExitEach(q)  BY <1>1, <1>2 DEF OneTaskExitEach, TaskExitsOf
<1>4. QED  BY <1>3 DEF q

LEMMA TailTaskExit ==
  ASSUME NEW p \in Seq(Exits), p # <<>>, OneTaskExitEach(p)
  PROVE  /\ OneTaskExitEach(Tail(p))
         /\ ~Head(p).setscene => Head(p).tid \notin TaskExitsOf(Tail(p))
<1> DEFINE q == Tail(p)
<1>1. /\ Head(p) = p[1] /\ 1 \in DOMAIN p /\ DOMAIN q \subseteq Nat
      /\ \A i \in DOMAIN q : i + 1 \in DOMAIN p /\ q[i] = p[i + 1] /\ i + 1 # 1
  BY HeadTailProperties
<1> HIDE DEF q
<1>2. OneTaskExitEach(q)
  <2> SUFFICES ASSUME NEW i \in DOMAIN q, NEW j \in DOMAIN q,
                      ~q[i].setscene, ~q[j].setscene, q[i].tid = q[j].tid
               PROVE  i = j
    BY DEF OneTaskExitEach
  <2>1. i + 1 = j + 1  BY <1>1 DEF OneTaskExitEach
  <2>2. QED  BY <1>1, <2>1
<1>3. ASSUME ~Head(p).setscene, Head(p).tid \in TaskExitsOf(q) PROVE FALSE
  <2>1. PICK i \in DOMAIN q : ~q[i].setscene /\ q[i].tid = Head(p).tid
    BY <1>3 DEF TaskExitsOf
  <2>2. QED  BY <1>1, <1>3, <2>1 DEF OneTaskExitEach
<1>4. QED  BY <1>2, <1>3 DEF q

LEMMA NotCoveredGrows ==
  ASSUME Grows
  PROVE  NotCoveredTasks \subseteq NotCoveredTasks'
BY DEF Grows, NotCoveredTasks

LEMMA SplitStays ==
  ASSUME SplitIsFinal, Grows, UNCHANGED <<options, tasks_notcovered>>,
         pc' \in {"task", "idle"} => pc \in {"task", "idle"}
  PROVE  SplitIsFinal'
BY NotCoveredGrows DEF SplitIsFinal, Grows, SetsceneEnforce

LEMMA RefusedStays ==
  ASSUME RefusedForGood, Grows, UNCHANGED <<options, tasks_covered>>,
         SetsceneEnforce => stamped' = stamped,
         failed_tids' \ runq_running' \subseteq failed_tids \ runq_running
  PROVE  RefusedForGood'
BY NotCoveredGrows DEF RefusedForGood, SetsceneEnforce

LEMMA NoGraphStep ==
  ASSUME UNCHANGED <<runq_running, runq_complete, failed_tids>>
  PROVE  GraphStep
BY DEF GraphStep, TaskGraphOf!vars

-----------------------------------------------------------------------------
(* The actions. *)

LEMMA InitOnce == ASSUME Init PROVE OnceInv /\ TaskGraphOf!Init
<1>1. /\ pc = "loop" /\ holdoff_need_update = TRUE /\ task_procs = {} /\ pipe = <<>>
      /\ runq_running = {} /\ runq_complete = {} /\ failed_tids = {}
  BY Zenon DEF Init
<1>2. BusyTasks = {} /\ TaskExitsOf(pipe) = {}  BY <1>1 DEF BusyTasks, TaskExitsOf
<1>3. BusyOnce  BY <1>1, <1>2 DEF BusyOnce, OneTaskExitEach
<1>4. SplitIsFinal /\ RefusedForGood  BY <1>1 DEF SplitIsFinal, RefusedForGood
<1>5. TaskGraphOf!Init  BY <1>1 DEF TaskGraphOf!Init
<1>6. QED  BY <1>3, <1>4, <1>5 DEF OnceInv

\* A step after which nobody else is busy and no outcome has changed.
LEMMA QuietOnce ==
  ASSUME OnceInv, UNCHANGED <<options, taskVars, tasks_covered, tasks_notcovered, stamped, pipe>>,
         task_procs' \subseteq task_procs, Grows,
         pc' \in {"task", "idle"} => pc \in {"task", "idle"}
  PROVE  OnceInv' /\ GraphStep
<1>1. UNCHANGED <<runq_running, runq_complete, failed_tids>>  BY DEF taskVars
<1>2. BusyTasks' \subseteq BusyTasks  BY Busy, BusyAfter
<1>3. BusyOnce'  BY <1>1, <1>2 DEF OnceInv, BusyOnce
<1>4. SplitIsFinal' /\ RefusedForGood'
  BY <1>1, SplitStays, RefusedStays DEF OnceInv
<1>5. QED  BY <1>1, <1>3, <1>4, NoGraphStep DEF OnceInv

LEMMA WorkerOnce ==
  ASSUME OrderInv, OnceInv, WorkerStep
  PROVE  OnceInv' /\ GraphStep
<1>1. UNCHANGED <<control, taskVars, markVars, splitVars>>
  BY DEF WorkerStep, TaskExits, SetsceneExits
<1>2. UNCHANGED <<runq_running, runq_complete, failed_tids>>  BY <1>1 DEF taskVars
<1>3. Grows  BY <1>1, UnmarkedGrows
<1>4. ASSUME NEW t \in Tasks, TaskExits(t)
      PROVE  BusyOnce' /\ (SetsceneEnforce => stamped' = stamped)
  <2>1. PICK ok \in BOOLEAN :
          /\ pipe' = Append(pipe, [tid |-> t, setscene |-> FALSE, ok |-> ok])
          /\ stamped' = IF ok /\ ~SetsceneEnforce THEN stamped \cup {t} ELSE stamped
    BY <1>4 DEF TaskExits
  <2> DEFINE e == [tid |-> t, setscene |-> FALSE, ok |-> ok]
  <2>2. e \in Exits /\ e.tid = t /\ ~e.setscene  BY Zenon DEF Exits
  <2> HIDE DEF e
  <2>3. pipe' = Append(pipe, e)  BY <2>1 DEF e
  <2>4. TaskExitsOf(pipe') = TaskExitsOf(pipe) \cup {t}
    BY <2>2, <2>3, AppendExits DEF OrderInv, TypeOK
  <2>5. task_procs' = task_procs \ {t} /\ t \in task_procs  BY <1>4 DEF TaskExits
  <2>6. OneTaskExitEach(pipe')
    BY <2>2, <2>3, <2>5, AppendTaskExit DEF OrderInv, TypeOK, OnceInv, BusyOnce
  <2>7. BusyTasks' = BusyTasks  BY <2>4, <2>5, Busy, BusyAfter
  <2>8. QED  BY <1>2, <2>1, <2>4, <2>5, <2>6, <2>7 DEF OnceInv, BusyOnce
<1>5. ASSUME NEW t \in SetsceneTids, SetsceneExits(t)
      PROVE  BusyOnce' /\ (SetsceneEnforce => stamped' = stamped)
  <2>1. PICK ok \in BOOLEAN :
          pipe' = Append(pipe, [tid |-> t, setscene |-> TRUE, ok |-> ok])
    BY <1>5 DEF SetsceneExits
  <2> DEFINE e == [tid |-> t, setscene |-> TRUE, ok |-> ok]
  <2>2. e \in Exits /\ e.setscene  BY GraphAssumption, Zenon DEF Exits
  <2> HIDE DEF e
  <2>3. pipe' = Append(pipe, e)  BY <2>1 DEF e
  <2>4. TaskExitsOf(pipe') = TaskExitsOf(pipe)
    BY <2>2, <2>3, AppendExits DEF OrderInv, TypeOK
  <2>5. task_procs' = task_procs /\ stamped' = stamped  BY <1>5 DEF SetsceneExits
  <2>6. OneTaskExitEach(pipe')
    BY <2>2, <2>3, AppendTaskExit DEF OrderInv, TypeOK, OnceInv, BusyOnce
  <2>7. BusyTasks' = BusyTasks  BY <2>4, <2>5, Busy, BusyAfter
  <2>8. QED  BY <1>2, <2>4, <2>5, <2>6, <2>7 DEF OnceInv, BusyOnce
<1>6. BusyOnce' /\ (SetsceneEnforce => stamped' = stamped)  BY <1>4, <1>5 DEF WorkerStep
<1>7. SplitIsFinal' /\ RefusedForGood'
  BY <1>1, <1>2, <1>3, <1>6, SplitStays, RefusedStays DEF OnceInv, control, splitVars
<1>8. QED  BY <1>2, <1>6, <1>7, NoGraphStep DEF OnceInv

\* An exit code read ends the task it is of: Complete or Fail.
LEMMA ReadOnce ==
  ASSUME OrderInv, OnceInv, ReadExit
  PROVE  OnceInv' /\ GraphStep
<1> DEFINE x == Head(pipe)
           t == x.tid
<1>1. /\ pipe \in Seq(Exits) /\ pipe # <<>> /\ pipe' = Tail(pipe)
      /\ UNCHANGED <<pc, options, task_procs, splitVars, stamped>>
  BY DEF OrderInv, TypeOK, ReadExit
<1>2. /\ x \in Exits /\ OneTaskExitEach(pipe')
      /\ TaskExitsOf(pipe') \subseteq TaskExitsOf(pipe)
      /\ ~x.setscene => t \in TaskExitsOf(pipe) /\ t \notin TaskExitsOf(pipe')
      /\ x.setscene => t \in SetsceneExitsOf(pipe)
  BY <1>1, TailExits, TailTaskExit DEF OnceInv, BusyOnce
<1>3. BusyTasks' \subseteq BusyTasks  BY <1>1, <1>2, Busy, BusyAfter
<1>4. task_procs' \cap TaskExitsOf(pipe') = {}  BY <1>1, <1>2 DEF OnceInv, BusyOnce
<1>5. CASE SetsceneExitRead(t, x.ok)
  <2>1. UNCHANGED <<runq_running, runq_complete, failed_tids>> /\ (Cover(t) \/ Uncover(t))
    BY <1>5 DEF SetsceneExitRead, taskVars
  <2>2. Grows  BY <2>1, MarkGrows DEF OrderInv, Cover, Uncover
  <2>3. BusyOnce'  BY <1>2, <1>3, <1>4, <2>1 DEF OnceInv, BusyOnce
  <2>4. SplitIsFinal' /\ RefusedForGood'
    BY <1>1, <2>1, <2>2, SplitStays, RefusedStays DEF OnceInv, splitVars
  <2>5. QED  BY <2>1, <2>3, <2>4, NoGraphStep DEF OnceInv
<1>6. CASE TaskExitRead(t, x.ok)
  <2>1. /\ t \notin sq_live /\ runq_running' = runq_running
        /\ \/ /\ CompleteOutright(t) /\ failed_tids' = failed_tids
           \/ /\ failed_tids' = failed_tids \cup {t}
              /\ UNCHANGED <<runq_complete, markVars>>
    BY <1>6 DEF TaskExitRead
  <2>2. ~x.setscene  BY <1>2, <2>1 DEF OrderInv, Delivered
  <2>3. t \in BusyTasks /\ t \notin BusyTasks'
    BY <1>1, <1>2, <2>2, Busy, BusyAfter DEF OnceInv, BusyOnce
  <2>4. t \in Tasks /\ t \in runq_running \ (runq_complete \cup failed_tids)
    BY <2>3 DEF OrderInv, TypeOK, Started, OnceInv, BusyOnce
  <2>5. /\ runq_complete' \subseteq runq_complete \cup {t}
        /\ failed_tids' \subseteq failed_tids \cup {t}
    BY <2>1 DEF CompleteOutright
  <2>6. BusyOnce'  BY <1>2, <1>3, <1>4, <2>3, <2>5 DEF OnceInv, BusyOnce
  <2>7. Grows  BY <2>1, ReleaseGrows, UnmarkedGrows DEF OrderInv, CompleteOutright
  <2>8. SplitIsFinal' /\ RefusedForGood'
    BY <1>1, <2>1, <2>4, <2>5, <2>7, SplitStays, RefusedStays DEF OnceInv, splitVars
  <2>9. TaskGraphOf!Complete(t) \/ TaskGraphOf!Fail(t)
    BY <2>1, <2>4 DEF TaskGraphOf!Complete, TaskGraphOf!Fail, TaskGraphOf!UnderWay, CompleteOutright
  <2>10. QED  BY <2>4, <2>6, <2>8, <2>9 DEF OnceInv, GraphStep, TaskGraphOf!Next
<1>7. QED  BY <1>5, <1>6 DEF ReadExit

LEMMA SetsceneOnce ==
  ASSUME OrderInv, OnceInv, NextSetscene
  PROVE  OnceInv' /\ GraphStep
<1>1. PICK t \in SetsceneCandidates :
        \/ SkipSetsceneTask(t) \/ AwaitHardDeps(t) \/ FailOutright(t)
        \/ StartSetscene(t) \/ SendSetsceneFails(t)
  BY DEF NextSetscene
<1>2. UNCHANGED <<options, taskVars, splitVars, task_procs, pipe, stamped>>
  BY DEF NextSetscene
<1>3. Grows /\ pc' \in {"loop", "setscene", "holdoff", "raised"}
  BY <1>1, SetsceneGrows DEF OrderInv
<1>4. QED  BY <1>2, <1>3, QuietOnce DEF splitVars

\* Only here is the split computed anew; what it was computed from has only grown.
LEMMA UpdateOnce ==
  ASSUME OrderInv, OnceInv, UpdateHoldoff,
         UNCHANGED <<options, runq_running, runq_complete, failed_tids, scenequeue_covered,
                     scenequeue_notcovered, tasks_scenequeue_done, stamped, task_procs, pipe>>
  PROVE  OnceInv' /\ GraphStep
<1>1. NotCoveredTasks' = NotCoveredTasks /\ BusyTasks' = BusyTasks
  BY Busy, BusyAfter DEF NotCoveredTasks
<1>2. BusyOnce'  BY <1>1 DEF OnceInv, BusyOnce
<1>3. \/ ~holdoff_need_update /\ UNCHANGED <<tasks_covered, tasks_notcovered>>
      \/ tasks_covered' = CoveredNow /\ tasks_notcovered' = NotCoveredTasks
  BY DEF UpdateHoldoff, splitVars
<1>4. CoveredNow \cap NotCoveredTasks = {}  BY DEF CoveredNow
<1>5. SplitIsFinal'  BY <1>1, <1>3 DEF OnceInv, SplitIsFinal, SetsceneEnforce
<1>6. RefusedForGood'
  BY <1>1, <1>3, <1>4 DEF OnceInv, RefusedForGood, SetsceneEnforce
<1>7. QED  BY <1>1, <1>2, <1>5, <1>6, NoGraphStep DEF OnceInv

LEMMA HoldoffOnce ==
  ASSUME OrderInv, OnceInv, Holdoff
  PROVE  OnceInv' /\ GraphStep
BY UpdateOnce DEF Holdoff, procVars

\* A task that was refused is not started later: Ready.
LEMMA ReadyTaskIsReady ==
  ASSUME OrderInv, OnceInv, NEW t \in ReadyTasks
  PROVE  /\ t \in Tasks /\ t \notin runq_running /\ Depends[t] \subseteq runq_complete
         /\ t \in failed_tids => Refused(t) /\ t \notin tasks_covered \cup stamped \cup Noexec
<1>1. /\ t \in runq_buildable /\ t \notin runq_running  BY DEF ReadyTasks
<1>2. t \in Tasks /\ Depends[t] \subseteq runq_complete
  BY <1>1 DEF OrderInv, TypeOK, Ordered
<1>3. t \in failed_tids => Refused(t) /\ t \notin tasks_covered \cup stamped \cup Noexec
  BY <1>1 DEF OnceInv, RefusedForGood, Refused
<1>4. QED  BY <1>1, <1>2, <1>3

LEMMA TaskOnce ==
  ASSUME OrderInv, OnceInv, NextTask
  PROVE  OnceInv' /\ GraphStep
<1>1. PICK t \in ReadyTasks :
        RefuseTask(t) \/ SkipTask(t) \/ RunNoexecTask(t) \/ StartTask(t) \/ SendTaskFails(t)
  BY DEF NextTask
<1>2. /\ t \in Tasks /\ t \notin runq_running /\ Depends[t] \subseteq runq_complete
      /\ t \in failed_tids => Refused(t) /\ t \notin tasks_covered \cup stamped \cup Noexec
      /\ t \in tasks_covered \cup tasks_notcovered
  BY ReadyTaskIsReady DEF ReadyTasks
<1>3. pc = "task" /\ UNCHANGED <<options, splitVars, pipe>>  BY DEF NextTask
<1>4. t \notin BusyTasks /\ BusyTasks \subseteq runq_running
  BY <1>2 DEF OrderInv, Started
<1>5. CASE RefuseTask(t)
  <2>1. /\ failed_tids' = failed_tids \cup {t} /\ Refused(t)
        /\ UNCHANGED <<runq_running, runq_complete, markVars, task_procs, stamped>>
    BY <1>5 DEF RefuseTask
  <2>2. BusyTasks' = BusyTasks  BY <1>3, <2>1, Busy, BusyAfter
  <2>3. BusyOnce'  BY <1>3, <1>4, <2>1, <2>2 DEF OnceInv, BusyOnce
  <2>4. Grows  BY <2>1, UnmarkedGrows
  <2>5. SplitIsFinal'  BY <1>3, <2>4, SplitStays DEF OnceInv, splitVars
  <2>6. t \in NotCoveredTasks
    BY <1>2, <1>3, <2>1 DEF OnceInv, SplitIsFinal, Refused
  <2>7. RefusedForGood'
    BY <1>3, <2>1, <2>4, <2>6, NotCoveredGrows
    DEF OnceInv, RefusedForGood, Refused, SetsceneEnforce, splitVars
  <2>8. TaskGraphOf!Refuse(t) \/ UNCHANGED <<runq_running, runq_complete, failed_tids>>
    BY <1>2, <2>1 DEF TaskGraphOf!Refuse, TaskGraphOf!Ready
  <2>9. GraphStep  BY <1>2, <2>8, NoGraphStep DEF GraphStep, TaskGraphOf!Next
  <2>10. QED  BY <2>3, <2>5, <2>7, <2>9 DEF OnceInv
<1>6. CASE SkipTask(t) \/ RunNoexecTask(t)
  <2>1. /\ runq_running' = runq_running \cup {t} /\ CompleteOutright(t)
        /\ UNCHANGED <<failed_tids, task_procs>>
        /\ SetsceneEnforce => stamped' = stamped
        /\ t \in tasks_covered \cup stamped \cup Noexec
    BY <1>6 DEF SkipTask, RunNoexecTask
  <2>2. t \notin failed_tids  BY <1>2, <2>1
  <2>3. runq_complete' = runq_complete \cup {t}  BY <2>1 DEF CompleteOutright
  <2>4. BusyTasks' = BusyTasks  BY <1>3, <2>1, Busy, BusyAfter
  <2>5. BusyOnce'  BY <1>3, <1>4, <2>1, <2>3, <2>4 DEF OnceInv, BusyOnce
  <2>6. Grows  BY <2>1, ReleaseGrows DEF OrderInv, CompleteOutright
  <2>7. SplitIsFinal' /\ RefusedForGood'
    BY <1>3, <2>1, <2>6, SplitStays, RefusedStays DEF OnceInv, splitVars
  <2>8. TaskGraphOf!Skip(t)
    BY <1>2, <2>1, <2>2, <2>3 DEF TaskGraphOf!Skip, TaskGraphOf!Ready
  <2>9. QED  BY <1>2, <2>5, <2>7, <2>8 DEF OnceInv, GraphStep, TaskGraphOf!Next
<1>7. CASE StartTask(t)
  <2>1. /\ runq_running' = runq_running \cup {t} /\ task_procs' = task_procs \cup {t}
        /\ UNCHANGED <<runq_complete, failed_tids, markVars, stamped>> /\ ~Refused(t)
    BY <1>7 DEF StartTask
  <2>2. t \notin failed_tids \cup runq_complete
    BY <1>2, <2>1 DEF OrderInv, Started
  <2>3. BusyTasks' = BusyTasks \cup {t}  BY <1>3, <2>1, Busy, BusyAfter
  <2>4. t \notin TaskExitsOf(pipe)  BY <1>4, Busy
  <2>5. BusyOnce'  BY <1>3, <2>1, <2>2, <2>3, <2>4 DEF OnceInv, BusyOnce
  <2>6. Grows  BY <2>1, UnmarkedGrows
  <2>7. SplitIsFinal' /\ RefusedForGood'
    BY <1>3, <2>1, <2>6, SplitStays, RefusedStays DEF OnceInv, splitVars
  <2>8. TaskGraphOf!Start(t)
    BY <1>2, <2>1, <2>2 DEF TaskGraphOf!Start, TaskGraphOf!Ready
  <2>9. QED  BY <1>2, <2>5, <2>7, <2>8 DEF OnceInv, GraphStep, TaskGraphOf!Next
<1>8. CASE SendTaskFails(t)
  <2>1. UNCHANGED <<taskVars, markVars, task_procs, stamped>> /\ pc' = "raised"
    BY <1>8 DEF SendTaskFails
  <2>2. Grows  BY <2>1, UnmarkedGrows
  <2>3. QED  BY <1>3, <2>1, <2>2, QuietOnce DEF splitVars
<1>9. QED  BY <1>1, <1>5, <1>6, <1>7, <1>8

LEMMA ControlOnce ==
  ASSUME OnceInv,
         \/ EndRead \/ NoSetscene \/ NoTask \/ WaitForWorkers \/ Conclude \/ BeginCall
         \/ CleanUp \/ StopAgain \/ Teardown \/ StopGracefully \/ StopNow \/ ForceDeferred
         \/ WorkerDies \/ UNCHANGED vars
  PROVE  OnceInv' /\ GraphStep
<1>1. /\ UNCHANGED <<options, taskVars, markVars, splitVars, stamped, pipe>>
      /\ task_procs' \subseteq task_procs
  BY DEF EndRead, NoSetscene, NoTask, WaitForWorkers, Conclude, BeginCall, CleanUp, StopAgain,
         Teardown, StopGracefully, StopNow, ForceDeferred, WorkerDies, vars, control, procVars
<1>2. pc' \in {"task", "idle"} => pc \in {"task", "idle"}  BY ControlKeepsPlace
<1>3. Grows  BY <1>1, UnmarkedGrows
<1>4. QED  BY <1>1, <1>2, <1>3, QuietOnce DEF splitVars

-----------------------------------------------------------------------------
(* The theorems. *)

\* What holds of every build that keeps the promise: nothing is both done and failed,
\* nothing was taken up too early.
LEMMA SoundNext ==
  ASSUME TaskGraphOf!Sound, GraphStep
  PROVE  TaskGraphOf!Sound'
<1>1. CASE UNCHANGED TaskGraphOf!vars  BY <1>1 DEF TaskGraphOf!vars, TaskGraphOf!Sound
<1>2. CASE TaskGraphOf!Next
  <2>1. PICK t \in Tasks :
          \/ TaskGraphOf!Start(t) \/ TaskGraphOf!Skip(t) \/ TaskGraphOf!Refuse(t)
          \/ TaskGraphOf!Complete(t) \/ TaskGraphOf!Fail(t)
    BY <1>2 DEF TaskGraphOf!Next
  <2>2. QED
    BY <2>1 DEF TaskGraphOf!Start, TaskGraphOf!Skip, TaskGraphOf!Refuse, TaskGraphOf!Complete,
                TaskGraphOf!Fail, TaskGraphOf!Ready, TaskGraphOf!UnderWay, TaskGraphOf!Sound
<1>3. QED  BY <1>1, <1>2 DEF GraphStep

LEMMA OnceStep ==
  ASSUME OrderInv, OnceInv, [Next]_vars
  PROVE  OnceInv' /\ GraphStep
<1>1. CASE WorkerStep  BY <1>1, WorkerOnce
<1>2. CASE ReadExit  BY <1>2, ReadOnce
<1>3. CASE NextSetscene  BY <1>3, SetsceneOnce
<1>4. CASE Holdoff  BY <1>4, HoldoffOnce
<1>5. CASE NextTask  BY <1>5, TaskOnce
<1>6. CASE \/ EndRead \/ NoSetscene \/ NoTask \/ WaitForWorkers \/ Conclude \/ BeginCall
           \/ CleanUp \/ StopAgain \/ Teardown \/ StopGracefully \/ StopNow \/ ForceDeferred
           \/ WorkerDies \/ UNCHANGED vars
  BY <1>6, ControlOnce
<1>7. QED
  BY <1>1, <1>2, <1>3, <1>4, <1>5, <1>6 DEF Next, ServerStep, Terminated

\* The executor implements TaskGraph: each of its steps takes up, passes over, refuses
\* or ends one task as the abstract graph allows, or changes nothing there.
THEOREM KeepsThePromise == Spec => ImplementsTaskGraph
<1>1. OrderInv /\ OnceInv /\ [Next]_vars => OnceInv' /\ GraphStep  BY OnceStep
<1>2. Init => OnceInv /\ TaskGraphOf!Init  BY InitOnce
<1>3. QED
  BY <1>1, <1>2, OrderInvariant, PTL DEF Spec, ImplementsTaskGraph, TaskGraphOf!Spec, GraphStep

\* No task is both completed and failed, in any build.
THEOREM OutcomesAreFinal == Spec => [](runq_complete \cap failed_tids = {})
<1>1. TaskGraphOf!Init => TaskGraphOf!Sound  BY DEF TaskGraphOf!Init, TaskGraphOf!Sound
<1>2. TaskGraphOf!Sound /\ GraphStep => TaskGraphOf!Sound'  BY SoundNext
<1>3. TaskGraphOf!Sound => runq_complete \cap failed_tids = {}  BY DEF TaskGraphOf!Sound
<1>4. QED
  BY <1>1, <1>2, <1>3, KeepsThePromise, PTL DEF ImplementsTaskGraph, TaskGraphOf!Spec, GraphStep
-----------------------------------------------------------------------------
(* What a step of the run queue may change at most.  Module HashEquiv adds the one that *)
(* takes decisions about setscene tasks back.                                           *)

Undecided == SetsceneTids \ Resolved

\* The setscene tasks that turned out covered and nothing else: these alone are never
\* reopened.
CoveredOnly == scenequeue_covered \ scenequeue_notcovered

\* A noexec setscene task has nothing to fetch and is covered from the start.
NoexecCovered == Noexec \cap SetsceneTids \subseteq CoveredOnly

\* Setscene tasks are settled and not reopened; with one that is given up go those
\* that need it.
Settles ==
  /\ UNCHANGED options
  /\ runq_complete \subseteq runq_complete'
  /\ stamped \subseteq stamped' /\ sq_stamped \subseteq sq_stamped'
  /\ scenequeue_covered \subseteq scenequeue_covered'
  /\ scenequeue_notcovered \subseteq scenequeue_notcovered' /\ CoveredOnly \subseteq CoveredOnly'
  /\ \A e \in Undecided' :
       HardDepsRev[e] \cap (scenequeue_notcovered' \ scenequeue_notcovered) # {}
         => SetsceneStampPresent(e)

Runs ==
  \/ runq_running' = runq_running
  \/ pc = "task" /\ \E t \in ReadyTasks : runq_running' = runq_running \cup {t}

Fetches ==
  \/ sq_live' \subseteq sq_live
  \/ \E t \in SetsceneCandidates :
       HardDepsResolved(t) /\ t \notin stamped \cup sq_stamped /\ sq_live' = sq_live \cup {t}

Splits ==
  \/ /\ UNCHANGED splitVars
     /\ holdoff_need_update => holdoff_need_update' /\ (pc' = "task" => pc = "task")
  \/ /\ tasks_covered' = CoveredNow /\ tasks_notcovered' = NotCoveredTasks
     /\ holdoff_tasks' = HeldOff
     /\ UNCHANGED <<scenequeue_covered, scenequeue_notcovered, runq_complete>>

Places ==
  pc' \in {"setscene", "holdoff", "task"} =>
    runq_complete' = runq_complete /\ pc \in {"read", "setscene", "holdoff", "task"}

SmallStep == Settles /\ Runs /\ Fetches /\ Splits /\ Places

-----------------------------------------------------------------------------
(* Settling setscene tasks. *)

\* What fails outright is t and what needs it and is not settled; all of that.
LEMMA FailsWithClosed ==
  ASSUME NEW t \in SetsceneTids
  PROVE  /\ FailsWith(t) \in SUBSET SetsceneTids /\ t \in FailsWith(t)
         /\ FailsWith(t) \subseteq Undecided \cup {t}
         /\ \A e \in Undecided : HardDepsRev[e] \cap FailsWith(t) # {} =>
              e \in FailsWith(t) \/ SetsceneStampPresent(e)
<1>1. FailsWith(t) \in SUBSET SetsceneTids /\ t \in FailsWith(t)  BY DEF FailsWith
<1>2. FailsWith(t) \subseteq Undecided \cup {t}
  <2> DEFINE F == Undecided \cup {t}
  <2>1. F \in SUBSET SetsceneTids /\ t \in F  BY DEF Undecided
  <2>2. \A e \in SetsceneTids : e \notin Resolved => e \in F  BY DEF Undecided
  <2>3. QED  BY <2>1, <2>2 DEF FailsWith
<1>3. ASSUME NEW e \in Undecided, HardDepsRev[e] \cap FailsWith(t) # {},
             ~SetsceneStampPresent(e)
      PROVE  e \in FailsWith(t)
  <2> SUFFICES ASSUME NEW F \in SUBSET SetsceneTids, t \in F,
                      \A d \in SetsceneTids :
                        HardDepsRev[d] \cap F # {} /\ d \notin Resolved
                          /\ ~SetsceneStampPresent(d) => d \in F
               PROVE  e \in F
    BY DEF FailsWith, Undecided
  <2>1. FailsWith(t) \subseteq F  BY DEF FailsWith
  <2>2. QED  BY <1>3, <2>1 DEF Undecided
<1>4. QED  BY <1>1, <1>2, <1>3

\* One step of settling: `fail' is closed under hard dependencies, as far as no stamp
\* is there, and was undecided.
LEMMA MarkSettles ==
  ASSUME NEW cov, NEW fail, MarkSetscene(cov, fail),
         fail \subseteq Undecided,
         \A e \in Undecided : HardDepsRev[e] \cap fail # {} =>
           e \in fail \/ SetsceneStampPresent(e),
         UNCHANGED options, runq_complete \subseteq runq_complete',
         UNCHANGED <<stamped, sq_stamped>>
  PROVE  Settles
<1>1. /\ scenequeue_covered' = scenequeue_covered \cup cov
      /\ scenequeue_notcovered' = scenequeue_notcovered \cup fail
  BY DEF MarkSetscene
<1>2. CoveredOnly \subseteq CoveredOnly'  BY <1>1 DEF CoveredOnly, Undecided, Resolved
<1>3. ASSUME NEW e \in Undecided',
             HardDepsRev[e] \cap (scenequeue_notcovered' \ scenequeue_notcovered) # {}
      PROVE  SetsceneStampPresent(e)
  BY <1>1, <1>3 DEF Undecided, Resolved
<1>4. QED  BY <1>1, <1>2, <1>3 DEF Settles

LEMMA CoverSettles ==
  ASSUME NEW t, Cover(t), UNCHANGED options, runq_complete \subseteq runq_complete',
         stamped \subseteq stamped', UNCHANGED sq_stamped
  PROVE  Settles
<1>1. /\ scenequeue_covered' = scenequeue_covered \cup {t}
      /\ scenequeue_notcovered' = scenequeue_notcovered
  BY DEF Cover, MarkSetscene
<1>2. QED  BY <1>1 DEF Settles, CoveredOnly

LEMMA UncoverSettles ==
  ASSUME NEW t \in Undecided, Uncover(t), UNCHANGED options,
         runq_complete \subseteq runq_complete', UNCHANGED <<stamped, sq_stamped>>
  PROVE  Settles
<1>1. t \in SetsceneTids  BY DEF Undecided
<1>2. MarkSetscene({}, FailsWith(t))  BY DEF Uncover
<1>3. FailsWith(t) \subseteq Undecided  BY <1>1, FailsWithClosed
<1>4. \A e \in Undecided : HardDepsRev[e] \cap FailsWith(t) # {} =>
        e \in FailsWith(t) \/ SetsceneStampPresent(e)
  BY <1>1, FailsWithClosed
<1>5. QED  BY <1>2, <1>3, <1>4, MarkSettles

LEMMA UnmarkedSettles ==
  ASSUME UNCHANGED <<scenequeue_covered, scenequeue_notcovered>>, UNCHANGED options,
         runq_complete \subseteq runq_complete',
         stamped \subseteq stamped', sq_stamped \subseteq sq_stamped'
  PROVE  Settles
BY DEF Settles, CoveredOnly

\* A completed task may cover one that was deferred behind it.
LEMMA CompletionSettles ==
  ASSUME NEW t, CompleteOutright(t), UNCHANGED options,
         stamped \subseteq stamped', UNCHANGED sq_stamped
  PROVE  Settles
<1>1. runq_complete \subseteq runq_complete'  BY DEF CompleteOutright
<1>2. UNCHANGED markVars \/ \E found \in DOMAIN sq_deferred : Cover(found)
  BY DEF CompleteOutright, ReleaseDeferred
<1>3. CASE UNCHANGED markVars  BY <1>1, <1>3, UnmarkedSettles DEF markVars
<1>4. ASSUME NEW found \in DOMAIN sq_deferred, Cover(found) PROVE Settles
  BY <1>1, <1>4, CoverSettles
<1>5. QED  BY <1>2, <1>3, <1>4

-----------------------------------------------------------------------------
(* Every step of RunQueue is small. *)

\* A step that leaves the tasks' and setscene tasks' progress alone.
LEMMA IdleIsSmall ==
  ASSUME UNCHANGED <<options, runq_running, runq_complete, scenequeue_covered,
                     scenequeue_notcovered, splitVars>>,
         stamped \subseteq stamped', sq_stamped \subseteq sq_stamped',
         holdoff_need_update => holdoff_need_update',
         sq_live' \subseteq sq_live,
         pc' = "task" => pc = "task",
         pc' \in {"setscene", "holdoff"} => pc \in {"read", "setscene", "holdoff"}
  PROVE  SmallStep
<1>1. Settles  BY UnmarkedSettles
<1>2. Runs /\ Fetches /\ Splits /\ Places  BY DEF Runs, Fetches, Splits, Places
<1>3. QED  BY <1>1, <1>2 DEF SmallStep

LEMMA WorkerIsSmall ==
  ASSUME WorkerStep
  PROVE  SmallStep
<1>1. /\ UNCHANGED <<options, pc, runq_running, runq_complete, scenequeue_covered,
                     scenequeue_notcovered, splitVars, holdoff_need_update, sq_live>>
      /\ stamped \subseteq stamped' /\ sq_stamped \subseteq sq_stamped'
  BY DEF WorkerStep, TaskExits, SetsceneExits, control, taskVars, markVars
<1>2. QED  BY <1>1, IdleIsSmall

LEMMA ReadIsSmall ==
  ASSUME OrderInv, ReadExit
  PROVE  SmallStep
<1> DEFINE x == Head(pipe)
           t == x.tid
<1>1. /\ UNCHANGED <<pc, options, splitVars, stamped, sq_stamped>>
      /\ pc \in {"read", "drain", "teardown", "raised"}
  BY DEF ReadExit
<1>2. CASE SetsceneExitRead(t, x.ok)
  <2>1. /\ t \in sq_live /\ sq_live' \subseteq sq_live
        /\ UNCHANGED <<runq_running, runq_complete>> /\ (Cover(t) \/ Uncover(t))
    BY <1>2 DEF SetsceneExitRead, taskVars
  <2>2. t \in Undecided  BY <2>1 DEF OrderInv, TypeOK, FateOpen, Undecided
  <2>3. Settles  BY <1>1, <2>1, <2>2, CoverSettles, UncoverSettles
  <2>4. Grows  BY <2>1, MarkGrows DEF OrderInv, Cover, Uncover
  <2>5. Runs /\ Fetches /\ Splits /\ Places
    BY <1>1, <2>1, <2>4 DEF Runs, Fetches, Splits, Places, Grows
  <2>6. QED  BY <2>3, <2>5 DEF SmallStep
<1>3. CASE TaskExitRead(t, x.ok)
  <2>1. UNCHANGED <<runq_running, sq_live>>  BY <1>3 DEF TaskExitRead
  <2>2. CASE CompleteOutright(t)
    <3>1. Settles  BY <1>1, <2>2, CompletionSettles
    <3>2. Grows  BY <2>2, ReleaseGrows DEF OrderInv, CompleteOutright
    <3>3. Runs /\ Fetches /\ Splits /\ Places
      BY <1>1, <2>1, <3>2 DEF Runs, Fetches, Splits, Places, Grows
    <3>4. QED  BY <3>1, <3>3 DEF SmallStep
  <2>3. CASE UNCHANGED <<runq_complete, markVars>>
    BY <1>1, <2>1, <2>3, IdleIsSmall DEF markVars
  <2>4. QED  BY <1>3, <2>2, <2>3 DEF TaskExitRead
<1>4. QED  BY <1>2, <1>3 DEF ReadExit

LEMMA SetsceneIsSmall ==
  ASSUME OrderInv, NextSetscene
  PROVE  SmallStep
<1>1. PICK t \in SetsceneCandidates :
        \/ SkipSetsceneTask(t) \/ AwaitHardDeps(t) \/ FailOutright(t)
        \/ StartSetscene(t) \/ SendSetsceneFails(t)
  BY DEF NextSetscene
<1>2. t \in Undecided
  BY DEF OrderInv, TypeOK, FateOpen, SetsceneCandidates, Undecided
<1>3. /\ pc = "setscene"
      /\ UNCHANGED <<options, runq_running, runq_complete, splitVars, stamped, sq_stamped>>
  BY DEF NextSetscene, taskVars
<1>4. Grows /\ pc' \in {"loop", "setscene", "holdoff", "raised"}
  BY <1>1, SetsceneGrows DEF OrderInv
<1>5. Runs /\ Splits /\ Places  BY <1>3, <1>4 DEF Runs, Splits, Places, Grows
<1>6. Settles /\ Fetches
  <2>1. CASE SkipSetsceneTask(t)
    BY <1>3, <2>1, CoverSettles DEF SkipSetsceneTask, Fetches
  <2>2. CASE FailOutright(t)
    BY <1>2, <1>3, <2>2, UncoverSettles DEF FailOutright, Fetches
  <2>3. CASE StartSetscene(t)
    <3>1. UNCHANGED <<scenequeue_covered, scenequeue_notcovered>>  BY <2>3 DEF StartSetscene
    <3>2. Fetches  BY <2>3 DEF StartSetscene, Startable, Fetches
    <3>3. QED  BY <1>3, <3>1, <3>2, UnmarkedSettles
  <2>4. CASE AwaitHardDeps(t) \/ SendSetsceneFails(t)
    <3>1. UNCHANGED <<scenequeue_covered, scenequeue_notcovered, sq_live>>
      BY <2>4 DEF AwaitHardDeps, SendSetsceneFails, markVars
    <3>2. QED  BY <1>3, <3>1, UnmarkedSettles DEF Fetches
  <2>5. QED  BY <1>1, <2>1, <2>2, <2>3, <2>4
<1>7. QED  BY <1>5, <1>6 DEF SmallStep

\* HoldoffWaiting does the same to the split.
LEMMA UpdateIsSmall ==
  ASSUME UpdateHoldoff, pc = "holdoff",
         UNCHANGED <<options, runq_running, runq_complete, scenequeue_covered,
                     scenequeue_notcovered, sq_live, stamped, sq_stamped>>
  PROVE  SmallStep
<1>1. Settles  BY UnmarkedSettles
<1>2. Runs /\ Fetches /\ Places  BY DEF Runs, Fetches, Places
<1>3. Splits  BY DEF UpdateHoldoff, Splits
<1>4. QED  BY <1>1, <1>2, <1>3 DEF SmallStep

LEMMA TaskIsSmall ==
  ASSUME OrderInv, NextTask
  PROVE  SmallStep
<1>1. PICK t \in ReadyTasks :
        RefuseTask(t) \/ SkipTask(t) \/ RunNoexecTask(t) \/ StartTask(t) \/ SendTaskFails(t)
  BY DEF NextTask
<1>2. pc = "task" /\ UNCHANGED <<options, splitVars, sq_live, sq_stamped>>  BY DEF NextTask
<1>3. pc' \in {"loop", "idle", "raised"}
  BY <1>1, Zenon DEF RefuseTask, SkipTask, RunNoexecTask, StartTask, SendTaskFails
<1>4. CASE SkipTask(t) \/ RunNoexecTask(t)
  <2>1. /\ CompleteOutright(t) /\ runq_running' = runq_running \cup {t}
        /\ stamped \subseteq stamped'
    BY <1>4 DEF SkipTask, RunNoexecTask
  <2>2. Settles  BY <1>2, <2>1, CompletionSettles
  <2>3. Grows  BY <2>1, ReleaseGrows DEF OrderInv, CompleteOutright
  <2>4. Runs /\ Fetches /\ Splits /\ Places
    BY <1>2, <1>3, <2>1, <2>3 DEF Runs, Fetches, Splits, Places, Grows
  <2>5. QED  BY <2>2, <2>4 DEF SmallStep
<1>5. CASE RefuseTask(t) \/ StartTask(t) \/ SendTaskFails(t)
  <2>1. UNCHANGED <<runq_complete, markVars, stamped>>
    BY <1>5 DEF RefuseTask, StartTask, SendTaskFails, taskVars
  <2>2. Settles  BY <1>2, <2>1, UnmarkedSettles DEF markVars
  <2>3. runq_running' = runq_running \/ runq_running' = runq_running \cup {t}
    BY <1>5 DEF RefuseTask, StartTask, SendTaskFails, taskVars
  <2>4. Runs /\ Fetches /\ Splits /\ Places
    BY <1>2, <1>3, <2>1, <2>3 DEF Runs, Fetches, Splits, Places, markVars
  <2>5. QED  BY <2>2, <2>4 DEF SmallStep
<1>6. QED  BY <1>1, <1>4, <1>5

LEMMA ControlIsSmall ==
  ASSUME \/ EndRead \/ NoSetscene \/ NoTask \/ WaitForWorkers \/ Conclude \/ BeginCall
         \/ CleanUp \/ StopAgain \/ Teardown \/ StopGracefully \/ StopNow \/ ForceDeferred
         \/ WorkerDies \/ UNCHANGED vars
  PROVE  SmallStep
<1>1. UNCHANGED <<options, runq_running, runq_complete, scenequeue_covered, scenequeue_notcovered,
                  splitVars, stamped, sq_stamped, holdoff_need_update, sq_live>>
  BY DEF EndRead, NoSetscene, NoTask, WaitForWorkers, Conclude, BeginCall, CleanUp, StopAgain,
         Teardown, StopGracefully, StopNow, ForceDeferred, WorkerDies, vars, control, taskVars,
         markVars, procVars
<1>2. pc' = "task" => pc = "task"  BY ControlKeepsPlace
<1>3. pc' \in {"setscene", "holdoff"} => pc \in {"read", "setscene", "holdoff"}
  <2>1. CASE EndRead  BY <2>1, Zenon DEF EndRead
  <2>2. CASE CleanUp  BY <2>2, Zenon DEF CleanUp, Finish
  <2>3. CASE \/ NoSetscene \/ NoTask \/ WaitForWorkers \/ Conclude \/ BeginCall \/ StopAgain
             \/ Teardown \/ StopGracefully \/ StopNow \/ ForceDeferred \/ WorkerDies
             \/ UNCHANGED vars
    BY <2>3 DEF NoSetscene, NoTask, WaitForWorkers, Conclude, BeginCall, StopAgain, Teardown,
                StopGracefully, StopNow, ForceDeferred, WorkerDies, vars, control
  <2>4. QED  BY <2>1, <2>2, <2>3
<1>4. QED  BY <1>1, <1>2, <1>3, IdleIsSmall

LEMMA StepIsSmall ==
  ASSUME OrderInv, [Next]_vars
  PROVE  SmallStep
<1>1. CASE WorkerStep  BY <1>1, WorkerIsSmall
<1>2. CASE ReadExit  BY <1>2, ReadIsSmall
<1>3. CASE NextSetscene  BY <1>3, SetsceneIsSmall
<1>4. CASE Holdoff  BY <1>4, UpdateIsSmall DEF Holdoff, procVars
<1>5. CASE NextTask  BY <1>5, TaskIsSmall
<1>6. CASE \/ EndRead \/ NoSetscene \/ NoTask \/ WaitForWorkers \/ Conclude \/ BeginCall
           \/ CleanUp \/ StopAgain \/ Teardown \/ StopGracefully \/ StopNow \/ ForceDeferred
           \/ WorkerDies \/ UNCHANGED vars
  BY <1>6, ControlIsSmall
<1>7. QED
  BY <1>1, <1>2, <1>3, <1>4, <1>5, <1>6 DEF Next, ServerStep, Terminated
=============================================================================
