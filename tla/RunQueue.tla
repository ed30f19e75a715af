------------------------------ MODULE RunQueue ------------------------------
(***************************************************************************)
(* The executor of BitBake's run queue, RunQueueExecute in                 *)
(* bitbake/lib/bb/runqueue.py, with the worker processes it feeds.         *)
(*                                                                         *)
(* The server is single threaded: the idle loop calls _execute_runqueue    *)
(* again and again, and each call reads what the workers have written,     *)
(* settles at most one setscene task, recomputes what the setscene results *)
(* mean for the real tasks, and starts or skips at most one real task.     *)
(* `pc' is the place inside that call.  The workers run beside it: a task  *)
(* may end at any time, its exit code waits in the pipe.                   *)
(*                                                                         *)
(* A setscene task fetches the output of its real task from a cache; if it *)
(* succeeds the real tasks behind it are covered and need not run.         *)
(*                                                                         *)
(* Module HashEquiv adds hash equivalence (updated_taskhash_queue).  Left   *)
(* out: the fakeroot worker, and number_threads of single tasks.  The      *)
(* workers, one for each multiconfig, are one here, which may die.         *)
(***************************************************************************)
EXTENDS SceneQueue, Sequences

CONSTANTS
  HardDepsRev,    \* [SetsceneTids -> what its setscene variant depends on]
  Hash,           \* [SetsceneTids -> pending_hash_index]
  Rank,           \* [Tasks -> Nat]: the order sorted() puts the tids in
  Stamp,          \* [Tasks -> stamp file], shared by tasks with a shared work directory
  Noexec,         \* tasks with the noexec flag
  IgnoreTasks,    \* with SetsceneEnforce: the tasks that may run all the same
  NumberTasks,    \* BB_NUMBER_THREADS
  Options,        \* the command lines: sets of the flags below
  InitStamped,    \* sets of tasks whose stamp may be current when the build starts
  InitSqStamped,  \* the same of setscene stamps
  WorkersMayDie   \* whether the worker process may be killed

ASSUME QueueAssumption ==
  /\ HardDepsRev \in [SetsceneTids -> SUBSET SetsceneTids]
  /\ Rank \in [Tasks -> Nat]
  /\ Noexec \subseteq Tasks
  /\ IgnoreTasks \subseteq Tasks
  /\ NumberTasks \in Nat \ {0}
  /\ Options \subseteq SUBSET {"halt", "enforce", "setsceneonly", "skipsetscene", "force"}
  /\ InitStamped \subseteq SUBSET Tasks
  /\ InitSqStamped \subseteq SUBSET SetsceneTids
  /\ WorkersMayDie \in BOOLEAN

\* prepare() ends the build if tasks depend on each other in a circle: in every set of
\* tasks there is one that none of them depends on.
ASSUME AcyclicAssumption ==
  \A R \in (SUBSET Tasks) \ {{}} : \E m \in R : \A r \in R : m \notin Depends[r]

VARIABLES
  options,             \* the flags this build was started with
  pc, state,           \* the place in the call; the state machine of RunQueue
  shutdown,            \* the cooker was asked to stop: "no", "graceful", "force"
  runq_buildable, runq_running, runq_complete, failed_tids,
  active,              \* stats.active
  sq_buildable, sq_running, sq_live,
  sq_deferred,         \* setscene task -> the task with the same hash it waits for
  sq_needed_harddeps, sq_harddep_deferred,
  scenequeue_covered, scenequeue_notcovered, tasks_scenequeue_done,
  outrightfail,        \* sqdata.outrightfail
  tasks_covered, tasks_notcovered, holdoff_tasks, holdoff_need_update, sqdone,
  worker_up,               \* the worker process is alive
  task_procs, sq_procs,    \* what it runs, or ran when it died
  pipe,                    \* exit codes written and not yet read
  stamped, sq_stamped      \* the tasks with a current stamp, setscene stamp

control   == <<options, pc, state, shutdown>>
taskVars  == <<runq_buildable, runq_running, runq_complete, failed_tids, active>>
markVars  == <<scenequeue_covered, scenequeue_notcovered, sq_running, sq_buildable,
               tasks_scenequeue_done, sq_harddep_deferred, holdoff_need_update>>
waitVars  == <<sq_deferred, sq_needed_harddeps, outrightfail>>
splitVars == <<tasks_covered, tasks_notcovered, holdoff_tasks>>
procVars  == <<worker_up, task_procs, sq_procs, pipe, stamped, sq_stamped>>
vars == <<control, taskVars, markVars, waitVars, splitVars, sq_live, sqdone, procVars>>

Halt            == "halt" \in options           \* stop at the first failure, i.e. no -k
SetsceneEnforce == "enforce" \in options        \* BB_SETSCENE_ENFORCE
SetsceneOnly    == "setsceneonly" \in options   \* --setscene-only
SkipSetscene    == "skipsetscene" \in options   \* --skip-setscene
Forced          == "force" \in options          \* --force

Exits == [tid : Tasks, setscene : BOOLEAN, ok : BOOLEAN]

TypeOK ==
  /\ options \in Options
  /\ pc \in {"loop", "read", "setscene", "holdoff", "task", "idle", "drain", "teardown",
            "raised", "end"}
  /\ state \in {"running", "cleanup", "failed", "complete"}
  /\ shutdown \in {"no", "graceful", "force"}
  /\ runq_buildable \subseteq Tasks /\ runq_running \subseteq Tasks
  /\ runq_complete \subseteq Tasks /\ failed_tids \subseteq Tasks
  /\ active \in Int
  /\ sq_buildable \subseteq SetsceneTids /\ sq_running \subseteq SetsceneTids
  /\ sq_live \subseteq SetsceneTids
  /\ DOMAIN sq_deferred \subseteq SetsceneTids
  /\ sq_needed_harddeps \subseteq SetsceneTids /\ sq_harddep_deferred \subseteq SetsceneTids
  /\ scenequeue_covered \subseteq SetsceneTids /\ scenequeue_notcovered \subseteq SetsceneTids
  /\ tasks_scenequeue_done \subseteq Tasks /\ outrightfail \subseteq SetsceneTids
  /\ tasks_covered \subseteq Tasks /\ tasks_notcovered \subseteq Tasks
  /\ holdoff_tasks \subseteq Tasks
  /\ holdoff_need_update \in BOOLEAN /\ sqdone \in BOOLEAN
  /\ worker_up \in BOOLEAN /\ task_procs \subseteq Tasks /\ sq_procs \subseteq SetsceneTids
  /\ pipe \in Seq(Exits)
  /\ stamped \subseteq Tasks /\ sq_stamped \subseteq SetsceneTids

-----------------------------------------------------------------------------
(* What the executor computes from its state. *)

Resolved == scenequeue_covered \cup scenequeue_notcovered

\* RunQueueStats.taskFailed and taskCompleted.  The count may sink below zero (see
\* RefuseTask) and goes on sinking; it stops here at ActiveFloor, from where the
\* tasks left to start cannot lift it above zero, so that nothing changes.
ActiveFloor == -2 * Cardinality(Tasks)

OneLess(n) == IF n > ActiveFloor THEN n - 1 ELSE n

\* Mutant of CanStartTask: one too many.
CanStartTaskLoose == active + Cardinality(sq_live) <= NumberTasks

CanStartTask == active + Cardinality(sq_live) < NumberTasks

\* build_stamps: the stamp of a real task is held from its start until its
\* exit code is read.
BusyTasks == task_procs \cup {pipe[i].tid : i \in {j \in DOMAIN pipe : ~pipe[j].setscene}}

\* Mutant of StampInUse: build_stamps is not consulted.
StampInUseNever(t) == FALSE

StampInUse(t) == \E b \in BusyTasks : Stamp[b] = Stamp[t]

HardDeps(t) == {d \in SetsceneTids : t \in HardDepsRev[d]}

\* check_setscene_stamps: nothing to fetch, or fetched or built already.
SetsceneStampPresent(t) == t \in Noexec \cup sq_stamped \cup stamped

\* scenequeue_updatecounters(fail=True): what fails outright with t, along the
\* hard dependencies.
FailsWith(t) ==
  {d \in SetsceneTids : \A F \in SUBSET SetsceneTids :
     /\ t \in F
     /\ \A e \in SetsceneTids : HardDepsRev[e] \cap F # {} /\ e \notin Resolved
                               /\ ~SetsceneStampPresent(e) => e \in F
     => d \in F}

\* Mutant of SqBuildable: walks the real dependencies instead of sq_deps.
SqBuildableReal(new, resolved) ==
  {d \in UNION {Depends[t] : t \in new} : Revdeps[d] \subseteq resolved}

SqBuildable(new, resolved) ==
  {d \in SetsceneTids : SqRevdeps[d] \cap new # {} /\ SqRevdeps[d] \subseteq resolved}

\* Mutant of MarkSetscene: the waiters of a hard dependency are not let go.
MarkSetsceneKeepsWaiting(cov, fail) ==
  LET new      == cov \cup fail
      resolved == Resolved \cup new
  IN  /\ scenequeue_covered' = scenequeue_covered \cup cov
      /\ scenequeue_notcovered' = scenequeue_notcovered \cup fail
      /\ sq_running' = sq_running \cup new
      /\ sq_buildable' = sq_buildable \cup new \cup SqBuildable(new, resolved)
      /\ tasks_scenequeue_done' = DoneFrom(tasks_scenequeue_done, new)
      /\ sq_harddep_deferred' =
            sq_harddep_deferred
      /\ holdoff_need_update' = TRUE

\* The setscene tasks `cov' turned out covered and `fail' not covered:
\* sq_task_complete, sq_task_fail, sq_task_failoutright and sq_task_skip, each
\* with its scenequeue_updatecounters.
MarkSetscene(cov, fail) ==
  LET new      == cov \cup fail
      resolved == Resolved \cup new
  IN  /\ scenequeue_covered' = scenequeue_covered \cup cov
      /\ scenequeue_notcovered' = scenequeue_notcovered \cup fail
      /\ sq_running' = sq_running \cup new
      /\ sq_buildable' = sq_buildable \cup new \cup SqBuildable(new, resolved)
      /\ tasks_scenequeue_done' = DoneFrom(tasks_scenequeue_done, new)
      /\ sq_harddep_deferred' =
            IF \E t \in new : HardDeps(t) # {}
            THEN {d \in sq_harddep_deferred : ~(HardDepsRev[d] \subseteq resolved)}
            ELSE sq_harddep_deferred
      /\ holdoff_need_update' = TRUE

Cover(t)   == MarkSetscene({t}, {})
Uncover(t) == MarkSetscene({}, FailsWith(t))

DropDeferred(t) == [d \in DOMAIN sq_deferred \ {t} |-> sq_deferred[d]]

-----------------------------------------------------------------------------
(* RunQueueExecute.__init__ and the SceneInit stage. *)

\* build_scenequeue_data defers all but the first of the tasks that hash alike.
Earlier(t) == {u \in SetsceneTids : Hash[u] = Hash[t] /\ Rank[u] < Rank[t]}

Deferral ==
  [t \in {d \in SetsceneTids : Earlier(d) # {}} |->
     CHOOSE u \in Earlier(t) : \A v \in Earlier(t) : Rank[u] <= Rank[v]]

Leaves(S) == {t \in S : Depends[t] = {}}

Init ==
  /\ options \in Options
  /\ pc = "loop" /\ state = "running" /\ shutdown = "no"
  /\ stamped \in InitStamped /\ sq_stamped \in InitSqStamped
  /\ runq_buildable = IF SetsceneTids = {} THEN Leaves(Tasks)
                      ELSE Leaves(Unskippable \ SetsceneTids)
  /\ runq_running = {} /\ runq_complete = {} /\ failed_tids = {} /\ active = 0
  /\ LET skip == {t \in SetsceneTids : SetsceneStampPresent(t)}
     IN  /\ scenequeue_covered = skip
         /\ sq_running = skip
         /\ sq_buildable = {t \in SetsceneTids : SqRevdeps[t] \subseteq skip} \cup skip
         /\ tasks_scenequeue_done = DoneFrom(Unskippable \ SetsceneTids, skip)
         /\ outrightfail \in SUBSET (SetsceneTids \ (skip \cup DOMAIN Deferral))
  /\ scenequeue_notcovered = {}
  /\ sq_live = {} /\ sq_deferred = Deferral
  /\ sq_needed_harddeps = {} /\ sq_harddep_deferred = {}
  /\ tasks_covered = {} /\ holdoff_tasks = {} /\ holdoff_need_update = TRUE
  /\ tasks_notcovered = IF SetsceneTids = {} THEN Tasks ELSE {}
  /\ sqdone = (SetsceneTids = {})
  /\ worker_up = TRUE /\ task_procs = {} /\ sq_procs = {} /\ pipe = <<>>

-----------------------------------------------------------------------------
(* The workers (bitbake/bin/bitbake-worker): a task's process ends, having  *)
(* written its stamp if it succeeded, and its exit code goes into the pipe.  *)
(* With SetsceneEnforce real tasks are dry runs, which stamp nothing.        *)

TaskExits(t) ==
  /\ worker_up /\ t \in task_procs
  /\ task_procs' = task_procs \ {t}
  /\ \E ok \in BOOLEAN :
       /\ pipe' = Append(pipe, [tid |-> t, setscene |-> FALSE, ok |-> ok])
       /\ stamped' = IF ok /\ ~SetsceneEnforce THEN stamped \cup {t} ELSE stamped
  /\ UNCHANGED <<control, taskVars, markVars, waitVars, splitVars, sq_live, sqdone,
                 worker_up, sq_procs, sq_stamped>>

SetsceneExits(t) ==
  /\ worker_up /\ t \in sq_procs
  /\ sq_procs' = sq_procs \ {t}
  /\ \E ok \in BOOLEAN :
       /\ pipe' = Append(pipe, [tid |-> t, setscene |-> TRUE, ok |-> ok])
       /\ sq_stamped' = IF ok THEN sq_stamped \cup {t} ELSE sq_stamped
  /\ UNCHANGED <<control, taskVars, markVars, waitVars, splitVars, sq_live, sqdone,
                 worker_up, task_procs, stamped>>

WorkerStep == (\E t \in Tasks : TaskExits(t)) \/ (\E t \in SetsceneTids : SetsceneExits(t))

\* The worker is killed, and its tasks with it (signal_on_parent_exit): exit codes not
\* yet in the pipe never come.  A stamp one of the tasks has just written is of no
\* interest before the next build.
WorkerDies ==
  /\ WorkersMayDie /\ worker_up /\ pc \notin {"teardown", "raised", "end"}
  /\ worker_up' = FALSE
  /\ UNCHANGED <<control, taskVars, markVars, waitVars, splitVars, sq_live, sqdone,
                 task_procs, sq_procs, pipe, stamped, sq_stamped>>

-----------------------------------------------------------------------------
(* Completion of a real task, shared by the handlers below. *)

\* Mutant of NewlyBuildable: asks before the completed task is counted.
NewlyBuildableLate(t) ==
  {r \in Revdeps[t] \ (runq_running \cup runq_buildable) :
     Depends[r] \subseteq runq_complete}

NewlyBuildable(t) ==
  {r \in Revdeps[t] \ (runq_running \cup runq_buildable) :
     Depends[r] \subseteq runq_complete \cup {t}}

\* One of the setscene tasks deferred behind t goes free, the others queue up
\* behind it; update_scenequeue_data looks at its stamp and hash again.
ReleaseDeferred(t) ==
  LET behind == {d \in DOMAIN sq_deferred : sq_deferred[d] = t}
  IN  \/ /\ behind = {}
         /\ UNCHANGED <<sq_deferred, outrightfail, markVars>>
      \/ \E found \in behind :
           /\ sq_deferred' = [d \in DOMAIN sq_deferred \ {found} |->
                                IF d \in behind THEN found ELSE sq_deferred[d]]
           /\ \/ /\ SetsceneStampPresent(found)
                 /\ outrightfail' = outrightfail \ {found}
                 /\ Cover(found)
              \/ /\ ~SetsceneStampPresent(found)
                 /\ outrightfail' \in {outrightfail \ {found}}     \* its hash is valid now
                      \cup (IF found \in Resolved THEN {} ELSE {outrightfail \cup {found}})
                 /\ UNCHANGED markVars

\* task_completeoutright
CompleteOutright(t) ==
  /\ runq_complete' = runq_complete \cup {t}
  /\ ReleaseDeferred(t)

-----------------------------------------------------------------------------
(* Reading the pipe: runQueuePipe.read and runqueue_process_waitpid. *)

SetsceneExitRead(t, ok) ==
  /\ t \in sq_live
  /\ sq_live' = sq_live \ {t}
  /\ \/ ok /\ Cover(t) /\ UNCHANGED state
     \/ /\ ~ok /\ Uncover(t)
        /\ state' = IF SetsceneEnforce /\ t \notin IgnoreTasks THEN "cleanup" ELSE state
  /\ UNCHANGED <<taskVars, waitVars>>

\* Mutant of TaskExitRead: does not ask whether the task was being fetched.
TaskExitReadAny(t, ok) ==
  /\ active' = OneLess(active)
  /\ \/ /\ ok
        /\ CompleteOutright(t)
        /\ runq_buildable' = runq_buildable \cup NewlyBuildable(t)
        /\ UNCHANGED <<state, failed_tids>>
     \/ /\ ~ok
        /\ failed_tids' = failed_tids \cup {t}
        /\ state' = IF Halt THEN "cleanup" ELSE state
        /\ UNCHANGED <<runq_buildable, runq_complete, sq_deferred, outrightfail, markVars>>
  /\ UNCHANGED <<runq_running, sq_live, sq_needed_harddeps>>

TaskExitRead(t, ok) ==
  /\ t \notin sq_live
  /\ active' = OneLess(active)
  /\ \/ /\ ok
        /\ CompleteOutright(t)
        /\ runq_buildable' = runq_buildable \cup NewlyBuildable(t)
        /\ UNCHANGED <<state, failed_tids>>
     \/ /\ ~ok
        /\ failed_tids' = failed_tids \cup {t}
        /\ state' = IF Halt THEN "cleanup" ELSE state
        /\ UNCHANGED <<runq_buildable, runq_complete, sq_deferred, outrightfail, markVars>>
  /\ UNCHANGED <<runq_running, sq_live, sq_needed_harddeps>>

\* What the build has come to when nothing more is awaited.
Outcome == IF failed_tids # {} THEN "failed" ELSE "complete"

\* Mutant of Polled: nobody looks after the worker.
PolledNever(s) == s

\* Each read begins with a look at the worker; for one that is gone, finish_now()
\* ends the build, in the middle of the call.
Polled(s) == IF worker_up THEN s ELSE Outcome

ReadExit ==
  /\ pc \in {"read", "drain", "teardown", "raised"}
  /\ pipe # <<>>
  /\ pipe' = Tail(pipe)
  /\ \/ SetsceneExitRead(Head(pipe).tid, Head(pipe).ok)
     \/ TaskExitRead(Head(pipe).tid, Head(pipe).ok)
  /\ UNCHANGED <<pc, shutdown, options, splitVars, sqdone, worker_up, task_procs,
                 sq_procs, stamped, sq_stamped>>

\* A failure read during the teardown can set the state back to cleanup, unless an
\* exception ended the build.
EndRead ==
  /\ pipe = <<>>
  /\ \/ pc = "read" /\ pc' = "setscene" /\ UNCHANGED state
     \/ pc = "drain" /\ pc' = "loop" /\ UNCHANGED state
     \/ /\ pc = "teardown" /\ pc' = IF state = "cleanup" THEN "loop" ELSE "end"
        /\ UNCHANGED state
     \/ pc = "raised" /\ pc' = "end" /\ state' = "complete"
  /\ UNCHANGED <<shutdown, options, taskVars, markVars, waitVars, splitVars, sq_live, sqdone, procVars>>

-----------------------------------------------------------------------------
(* execute(): the next setscene task.  The generator's cycle reaches every  *)
(* setscene task, in an arbitrary order.                                   *)

SetsceneCandidates ==
  {t \in sq_buildable \ (sq_running \cup sq_harddep_deferred) :
     /\ ~StampInUse(t)
     /\ t \in DOMAIN sq_deferred => sq_deferred[t] \in runq_complete}

HardDepsResolved(t) == HardDepsRev[t] \subseteq Resolved

\* Mutant of MayBeUnneeded: one covered task is enough.
MayBeUnneededAny(t) ==
  /\ t \notin Unskippable \cup sq_needed_harddeps \cup Targets
  /\ SqRevdeps[t] \cap scenequeue_covered # {}

\* All that needs t's output is covered, so t may not be needed: the metadata's
\* check_dependencies decides.
MayBeUnneeded(t) ==
  /\ t \notin Unskippable \cup sq_needed_harddeps \cup Targets
  /\ SqRevdeps[t] # {} /\ SqRevdeps[t] \subseteq scenequeue_covered

\* The hard dependencies are made to run first; when they already were, the
\* scan goes on with the next task.
AwaitHardDeps(t) ==
  /\ ~HardDepsResolved(t)
  /\ sq_buildable' = sq_buildable \cup (HardDepsRev[t] \ sq_needed_harddeps)
  /\ sq_needed_harddeps' = sq_needed_harddeps \cup HardDepsRev[t]
  /\ sq_harddep_deferred' = sq_harddep_deferred \cup {t}
  /\ pc' = IF HardDepsRev[t] \subseteq sq_needed_harddeps THEN "setscene" ELSE "loop"
  /\ UNCHANGED <<scenequeue_covered, scenequeue_notcovered, sq_running,
                 tasks_scenequeue_done, holdoff_need_update,
                 sq_deferred, outrightfail, sq_live, sq_procs>>

\* No package found, a hash still missing after the deferral, a current stamp
\* of the real task, --force on a target, or --skip-setscene.
FailOutright(t) ==
  /\ HardDepsResolved(t)
  /\ \/ t \in DOMAIN sq_deferred \cup outrightfail \cup stamped
     \/ Forced /\ t \in Targets
     \/ SkipSetscene /\ t \notin sq_stamped
  /\ Uncover(t)
  /\ sq_deferred' = DropDeferred(t)
  /\ pc' = "loop"
  /\ UNCHANGED <<sq_needed_harddeps, outrightfail, sq_live, sq_procs>>

Startable(t) ==
  /\ HardDepsResolved(t)
  /\ t \notin outrightfail \cup stamped
  /\ ~(Forced /\ t \in Targets)

\* sq_task_skip: not needed, or its setscene stamp is current.
SkipSetsceneTask(t) ==
  /\ MayBeUnneeded(t) \/ (Startable(t) /\ t \in sq_stamped)
  /\ Cover(t)
  /\ sq_deferred' = DropDeferred(t)
  /\ pc' = "loop"
  /\ UNCHANGED <<sq_needed_harddeps, outrightfail, sq_live, sq_procs>>

StartSetscene(t) ==
  /\ Startable(t) /\ t \notin sq_stamped /\ ~SkipSetscene
  /\ worker_up
  /\ sq_running' = sq_running \cup {t}
  /\ sq_live' = sq_live \cup {t}
  /\ sq_procs' = sq_procs \cup {t}
  /\ sq_deferred' = DropDeferred(t)
  /\ pc' = IF active + Cardinality(sq_live') < NumberTasks THEN "loop" ELSE "holdoff"
  /\ UNCHANGED <<scenequeue_covered, scenequeue_notcovered, sq_buildable,
                 tasks_scenequeue_done, sq_harddep_deferred, holdoff_need_update,
                 sq_needed_harddeps, outrightfail>>

\* The task cannot be sent to a worker that is gone: the exception ends the build.
SendSetsceneFails(t) ==
  /\ Startable(t) /\ t \notin sq_stamped /\ ~SkipSetscene
  /\ ~worker_up
  /\ sq_deferred' = DropDeferred(t)
  /\ pc' = "raised"
  /\ UNCHANGED <<markVars, sq_needed_harddeps, outrightfail, sq_live, sq_procs>>

NextSetscene ==
  /\ pc = "setscene" /\ ~sqdone /\ CanStartTask
  /\ \E t \in SetsceneCandidates :
       \/ SkipSetsceneTask(t) \/ AwaitHardDeps(t) \/ FailOutright(t)
       \/ StartSetscene(t) \/ SendSetsceneFails(t)
  /\ UNCHANGED <<state, shutdown, options, taskVars, splitVars, sqdone, worker_up, task_procs,
                 pipe, stamped, sq_stamped>>

NoSetscene ==
  /\ pc = "setscene"
  /\ sqdone \/ ~CanStartTask \/ SetsceneCandidates = {}
  /\ pc' = "holdoff"
  /\ UNCHANGED <<state, shutdown, options, taskVars, markVars, waitVars, splitVars, sq_live, sqdone, procVars>>

-----------------------------------------------------------------------------
(* update_holdofftasks: split the real tasks into covered and not covered, and hold off *)
(* those whose fate a setscene task still decides.                                      *)

NotCoveredTasks ==
  LET direct == scenequeue_notcovered \cup CantSkip \cup (Unskippable \ SetsceneTids)
  IN  (direct \cup UNION {CoveredTasks[t] : t \in scenequeue_notcovered})
        \cap tasks_scenequeue_done

CoveredNow ==
  ((scenequeue_covered \cup UNION {CoveredTasks[t] : t \in scenequeue_covered})
     \ NotCoveredTasks) \cap tasks_scenequeue_done

HeldOff ==
  LET undecided == SetsceneTids \ Resolved
  IN  undecided \cup ((UNION {CoveredTasks[t] : t \in undecided}) \ runq_complete)

\* Mutant of UpdateHoldoff: does not wait for the dependencies.
UpdateHoldoffEager ==
  \/ /\ ~holdoff_need_update
     /\ UNCHANGED <<runq_buildable, splitVars, holdoff_need_update>>
  \/ /\ holdoff_need_update
     /\ holdoff_need_update' = FALSE
     /\ tasks_covered' = CoveredNow
     /\ tasks_notcovered' = NotCoveredTasks
     /\ holdoff_tasks' = HeldOff
     /\ runq_buildable' = runq_buildable \cup
          (CoveredNow \cup NotCoveredTasks)

UpdateHoldoff ==
  \/ /\ ~holdoff_need_update
     /\ UNCHANGED <<runq_buildable, splitVars, holdoff_need_update>>
  \/ /\ holdoff_need_update
     /\ holdoff_need_update' = FALSE
     /\ tasks_covered' = CoveredNow
     /\ tasks_notcovered' = NotCoveredTasks
     /\ holdoff_tasks' = HeldOff
     /\ runq_buildable' = runq_buildable \cup
          {t \in CoveredNow \cup NotCoveredTasks : Depends[t] \subseteq runq_complete}

\* summarise_scenequeue_errors, given what update_holdofftasks just computed.
SceneQueueError(deferred, holdoff, split, buildable) ==
  \/ deferred # {} \/ holdoff # {}
  \/ ~(SetsceneTids \subseteq Resolved \cap sq_buildable \cap sq_running)
  \/ ~(Tasks \subseteq split \cap tasks_scenequeue_done)
  \/ ~(Leaves(Tasks) \subseteq buildable)

SetsceneFinished ==
  sq_live = {} /\ ~sqdone /\ DOMAIN sq_deferred = {} /\ holdoff_tasks' = {}

\* The setscene half is over exactly once: a wrong result ends the build.
SettleSetscene ==
  LET err  == SceneQueueError(DOMAIN sq_deferred, holdoff_tasks',
                              tasks_covered' \cup tasks_notcovered', runq_buildable')
      ends == SetsceneFinished /\ (err \/ SetsceneOnly \/ Tasks = {})
  IN  /\ sqdone' = (sqdone \/ (SetsceneFinished /\ ~err /\ ~SetsceneOnly))
      /\ state' = CASE ~ends -> state
                    [] ends /\ err -> "failed"
                    [] ends /\ ~err -> "complete"
      /\ pc' = IF ends THEN "loop" ELSE "task"

Holdoff ==
  /\ pc = "holdoff"
  /\ UpdateHoldoff
  /\ SettleSetscene
  /\ UNCHANGED <<shutdown, options, runq_running, runq_complete, failed_tids, active,
                 scenequeue_covered, scenequeue_notcovered, sq_running, sq_buildable,
                 tasks_scenequeue_done, sq_harddep_deferred, waitVars, sq_live, procVars>>

-----------------------------------------------------------------------------
(* execute(): the next real task. *)

\* next_buildable_task, in whatever order the scheduler's priorities put them.
ReadyTasks ==
  {t \in runq_buildable \ (runq_running \cup holdoff_tasks) :
     t \in tasks_covered \cup tasks_notcovered /\ ~StampInUse(t)}

\* check_setscene_ignore_tasks: a task that should have come from the cache.
Refused(t) ==
  SetsceneEnforce /\ t \notin tasks_covered \cup stamped \cup Noexec \cup IgnoreTasks

RefuseTask(t) ==
  /\ Refused(t)
  /\ active' = OneLess(active)
  /\ failed_tids' = failed_tids \cup {t}
  /\ state' = IF Halt THEN "cleanup" ELSE state
  /\ pc' = "loop"
  /\ UNCHANGED <<runq_buildable, runq_running, runq_complete, sq_deferred,
                 outrightfail, markVars, task_procs, stamped>>

\* Covered by a setscene task, or its stamp is current.
SkipTask(t) ==
  /\ t \in tasks_covered \cup stamped
  /\ runq_running' = runq_running \cup {t}
  /\ CompleteOutright(t)
  /\ runq_buildable' = runq_buildable \cup NewlyBuildable(t)
  /\ pc' = "loop"
  /\ UNCHANGED <<active, failed_tids, state, task_procs, stamped>>

RunNoexecTask(t) ==
  /\ t \in Noexec \ (tasks_covered \cup stamped)
  /\ runq_running' = runq_running \cup {t}
  /\ stamped' = IF SetsceneEnforce THEN stamped ELSE stamped \cup {t}
  /\ CompleteOutright(t)
  /\ runq_buildable' = runq_buildable \cup NewlyBuildable(t)
  /\ pc' = "loop"
  /\ UNCHANGED <<active, failed_tids, state, task_procs>>

StartTask(t) ==
  /\ t \notin tasks_covered \cup stamped \cup Noexec
  /\ ~Refused(t)
  /\ worker_up
  /\ runq_running' = runq_running \cup {t}
  /\ active' = active + 1
  /\ task_procs' = task_procs \cup {t}
  /\ pc' = IF active' + Cardinality(sq_live) < NumberTasks THEN "loop" ELSE "idle"
  /\ UNCHANGED <<runq_buildable, runq_complete, failed_tids, state, sq_deferred,
                 outrightfail, markVars, stamped>>

SendTaskFails(t) ==
  /\ t \notin tasks_covered \cup stamped \cup Noexec
  /\ ~Refused(t)
  /\ ~worker_up
  /\ pc' = "raised"
  /\ UNCHANGED <<taskVars, state, sq_deferred, outrightfail, markVars, task_procs, stamped>>

NextTask ==
  /\ pc = "task" /\ ~SetsceneOnly /\ CanStartTask
  /\ \E t \in ReadyTasks :
       RefuseTask(t) \/ SkipTask(t) \/ RunNoexecTask(t) \/ StartTask(t) \/ SendTaskFails(t)
  /\ UNCHANGED <<shutdown, options, sq_needed_harddeps, splitVars, sq_live, sqdone,
                 worker_up, sq_procs, pipe, sq_stamped>>

\* Nothing is ready, or some task is active and the system is under pressure.
NoTask ==
  /\ pc = "task"
  /\ SetsceneOnly \/ ~CanStartTask \/ ReadyTasks = {} \/ active # 0
  /\ pc' = "idle"
  /\ UNCHANGED <<state, shutdown, options, taskVars, markVars, waitVars, splitVars, sq_live, sqdone, procVars>>

-----------------------------------------------------------------------------
(* execute(): nothing more to start in this call. *)

WaitForWorkers ==
  /\ pc = "idle" /\ (active > 0 \/ sq_live # {})
  /\ pc' = "drain" /\ state' = Polled(state)
  /\ UNCHANGED <<shutdown, options, taskVars, markVars, waitVars, splitVars, sq_live, sqdone, procVars>>

Quiet == pc = "idle" /\ ~(active > 0) /\ sq_live = {}

ForceDeferred ==
  /\ Quiet /\ DOMAIN sq_deferred # {}
  /\ \E t \in DOMAIN sq_deferred : sq_deferred' = DropDeferred(t)
  /\ pc' = "loop"
  /\ UNCHANGED <<state, shutdown, options, taskVars, markVars, sq_needed_harddeps, outrightfail,
                 splitVars, sq_live, sqdone, procVars>>

BuildError ==
  \/ SceneQueueError(DOMAIN sq_deferred, holdoff_tasks,
                     tasks_covered \cup tasks_notcovered, runq_buildable)
  \/ ~(Tasks \subseteq runq_buildable \cap runq_running \cap runq_complete)

Conclude ==
  /\ Quiet /\ DOMAIN sq_deferred = {}
  /\ state' = IF BuildError THEN "failed" ELSE Outcome
  /\ pc' = "loop"
  /\ UNCHANGED <<shutdown, options, taskVars, markVars, waitVars, splitVars, sq_live, sqdone, procVars>>

-----------------------------------------------------------------------------
(* _execute_runqueue and finish_runqueue. *)

BeginCall ==
  /\ pc = "loop" /\ state = "running" /\ shutdown = "no"
  /\ pc' = "read" /\ state' = Polled(state)
  /\ UNCHANGED <<shutdown, options, taskVars, markVars, waitVars, splitVars, sq_live, sqdone, procVars>>

\* Mutant of Finish: waits for setscene tasks only.
FinishForSetscene ==
  IF sq_live # {}
  THEN state' = "cleanup" /\ pc' = "drain"
  ELSE state' = Outcome /\ pc' = "loop"

\* finish(): wait for what is active, then report.
Finish ==
  IF active + Cardinality(sq_live) > 0
  THEN state' = Polled("cleanup") /\ pc' = "drain"
  ELSE state' = Outcome /\ pc' = "loop"

CleanUp ==
  /\ pc = "loop"
  /\ \/ state = "cleanup" /\ shutdown # "force"
     \/ state = "running" /\ shutdown = "graceful"
  /\ Finish
  /\ UNCHANGED <<shutdown, options, taskVars, markVars, waitVars, splitVars, sq_live, sqdone, procVars>>

\* The build is over: the workers are told to quit, what they still write is read.
Teardown ==
  /\ pc = "loop" /\ state \in {"failed", "complete"}
  /\ pc' = "teardown"
  /\ UNCHANGED <<state, shutdown, options, taskVars, markVars, waitVars, splitVars, sq_live, sqdone, procVars>>

StopGracefully ==
  /\ pc = "loop" /\ shutdown = "no" /\ state \in {"running", "cleanup"}
  /\ shutdown' = "graceful"
  /\ UNCHANGED <<pc, options, state, taskVars, markVars, waitVars, splitVars, sq_live, sqdone, procVars>>

\* finish_now(): the workers kill what they run and drop its exit codes; those
\* written before are read in the teardown.
StopNow ==
  /\ pc = "loop" /\ shutdown # "force" /\ state \in {"running", "cleanup"}
  /\ shutdown' = "force"
  /\ state' = Outcome
  /\ task_procs' = {} /\ sq_procs' = {}
  /\ UNCHANGED <<pc, options, taskVars, markVars, waitVars, splitVars, sq_live, sqdone, worker_up, pipe,
                 stamped, sq_stamped>>

\* finish_now() in the next call, the workers being gone already.
StopAgain ==
  /\ pc = "loop" /\ shutdown = "force" /\ state = "cleanup"
  /\ state' = Outcome
  /\ UNCHANGED <<pc, shutdown, options, taskVars, markVars, waitVars, splitVars, sq_live, sqdone, procVars>>

ServerStep == \/ BeginCall \/ ReadExit \/ EndRead \/ NextSetscene \/ NoSetscene \/ Holdoff
              \/ NextTask \/ NoTask \/ WaitForWorkers \/ ForceDeferred \/ Conclude
              \/ CleanUp \/ StopAgain \/ Teardown

Terminated == pc = "end" /\ UNCHANGED vars

Next == ServerStep \/ WorkerStep \/ WorkerDies \/ StopGracefully \/ StopNow \/ Terminated

Spec == Init /\ [][Next]_vars

\* The server's idle loop keeps calling, and every task's process ends.  Nobody
\* has to stop the build.
FairSpec ==
  /\ Spec
  /\ WF_vars(ServerStep)
  /\ \A t \in Tasks : WF_vars(TaskExits(t))
  /\ \A t \in SetsceneTids : WF_vars(SetsceneExits(t))

-----------------------------------------------------------------------------
(* Properties *)

\* A task is started or skipped only when everything it depends on has
\* completed, whatever order exit codes, setscene results and failures arrive in.
DependencyOrder ==
  /\ \A t \in runq_running : Depends[t] \subseteq runq_complete
  /\ BusyTasks \cup runq_complete \subseteq runq_running

\* The executor keeps the promise of TaskGraph: no task is started twice, ends twice
\* or changes its outcome, whatever is released, forced, refused or covered in the
\* meantime, and exit codes of both kinds come in one pipe under the same names.
TaskGraphOf == INSTANCE TaskGraph WITH
  started <- runq_running, done <- runq_complete, failed <- failed_tids
ImplementsTaskGraph == TaskGraphOf!Spec

\* stats.active is the number of real tasks whose exit code is outstanding, and
\* the workers never run more than BB_NUMBER_THREADS tasks of both kinds.
ThreadLimit ==
  /\ shutdown # "force" => active = Cardinality(BusyTasks)
  /\ Cardinality(task_procs) + Cardinality(sq_procs) <= NumberTasks

\* While a setscene task is fetching, none of the real tasks it stands for is
\* being built, and no two running tasks share a stamp.
NoConcurrentRebuild ==
  /\ \A s \in sq_live : ({s} \cup CoveredTasks[s]) \cap BusyTasks = {}
  /\ \A a, b \in BusyTasks : Stamp[a] = Stamp[b] => a = b

\* A task is only built when the output of everything it depends on is there,
\* built or fetched: no setscene task was passed over, and no real task skipped as
\* covered, that somebody still needs.
InputsPresent ==
  \A t \in task_procs : Depends[t] \subseteq stamped \cup sq_stamped \cup Noexec

\* What the build reports is what happened: it is complete only when every task
\* is, and it fails only because a task failed, never because the executor lost
\* track of its own queues.  A worker that died is reported by itself.
HonestOutcome ==
  shutdown = "no" /\ worker_up =>
    /\ state = "complete" =>
         /\ failed_tids = {}
         /\ SetsceneOnly => SetsceneTids \subseteq Resolved
         /\ ~SetsceneOnly => runq_complete = Tasks
    /\ state = "failed" => failed_tids # {}

\* Unless it was told to stop at once, the build ends with no task left running
\* and no exit code unread.
NoOrphans ==
  pc = "end" /\ shutdown # "force" /\ worker_up => BusyTasks = {} /\ sq_live = {}

\* The tasks that cannot be built once those of `failed' are not.
Blocked(failed) ==
  {t \in Tasks : \A B \in SUBSET Tasks :
     failed \subseteq B /\ (\A r \in Tasks : Depends[r] \cap B # {} => r \in B) => t \in B}

\* With -k the build goes on until only the failed tasks and those behind them
\* are left.
KeepsGoing ==
  pc = "end" /\ shutdown = "no" /\ worker_up /\ ~Halt /\ ~SetsceneOnly =>
    Tasks \ Blocked(failed_tids) \subseteq runq_complete

\* "No task should end up in both covered and uncovered, that is a bug."
CoveredOrNot == scenequeue_covered \cap scenequeue_notcovered = {}

\* Every build ends, also one whose worker died at any moment.
Terminates == <>(pc = "end")
=============================================================================
