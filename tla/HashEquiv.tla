----------------------------- MODULE HashEquiv -----------------------------
(***************************************************************************)
(* Hash equivalence in BitBake's run queue, on top of RunQueue             *)
(* (bitbake/lib/bb/runqueue.py).                                           *)
(*                                                                         *)
(* A task that was built reports what it built to the hash equivalence     *)
(* server, which may answer that an earlier build was equivalent: the      *)
(* task's unihash changes, and with it those of the tasks behind it, unless *)
(* the server knows these too.  process_possible_migrations, called at the *)
(* start of execute(), then takes setscene tasks that were given up        *)
(* (notcovered) back into the queue: under the new hash their output may   *)
(* be in the cache.                                                        *)
(*                                                                         *)
(* A unihash is abstracted to whether it has just changed.                 *)
(***************************************************************************)
EXTENDS RunQueue

CONSTANTS
  SameRecipe,   \* [SetsceneTids -> setscene tasks that may come to hash alike]
  FoundStamps   \* sets of tasks that may have a stamp under their new hash

ASSUME EquivAssumption ==
  /\ SameRecipe \in [SetsceneTids -> SUBSET SetsceneTids]
  /\ FoundStamps \subseteq SUBSET Tasks

VARIABLES
  updated_taskhash_queue,  \* the tasks with a changed unihash not yet dealt with
  pending_migrations,      \* moved setscene tasks that something running holds up
  runq_tasksrun,           \* the tasks that ran or had run before, not those covered
  update_tasks             \* the setscene tasks process_possible_migrations took back

equivVars == <<updated_taskhash_queue, pending_migrations, runq_tasksrun, update_tasks>>
hvars == <<vars, equivVars>>

EquivTypeOK ==
  /\ updated_taskhash_queue \subseteq SetsceneTids
  /\ pending_migrations \subseteq SetsceneTids
  /\ runq_tasksrun \subseteq Tasks
  /\ update_tasks \subseteq SetsceneTids

EquivInit ==
  /\ Init
  /\ updated_taskhash_queue = {} /\ pending_migrations = {}
  /\ runq_tasksrun = {} /\ update_tasks = {}

-----------------------------------------------------------------------------
(* Reading the pipe. *)

\* Mutant of Reporters: any task reports.
ReportersAll == BusyTasks

\* report_unihash: only tasks with a setscene variant report, while they run.
Reporters == BusyTasks \cap SetsceneTids

\* The event is written before the exit code.
ReadUpdate ==
  /\ pc \in {"read", "drain", "teardown", "raised"} /\ update_tasks = {}
  /\ ~SetsceneEnforce
  /\ \E t \in Reporters \ updated_taskhash_queue :
       updated_taskhash_queue' = updated_taskhash_queue \cup {t}
  /\ UNCHANGED <<vars, pending_migrations, runq_tasksrun, update_tasks>>

\* task_complete, not task_skip, records that the task ran.
ReadExitRecorded ==
  /\ update_tasks = {}
  /\ ReadExit
  /\ runq_tasksrun' = runq_tasksrun \cup (runq_complete' \ runq_complete)
  /\ UNCHANGED <<updated_taskhash_queue, pending_migrations, update_tasks>>

NextTaskRecorded ==
  /\ update_tasks = {}
  /\ NextTask
  /\ runq_tasksrun' = runq_tasksrun \cup ((runq_complete' \ runq_complete) \ tasks_covered)
  /\ UNCHANGED <<updated_taskhash_queue, pending_migrations, update_tasks>>

-----------------------------------------------------------------------------
(* process_possible_migrations *)

RunningNow == runq_running \ runq_complete

\* The entries it takes: those of tasks that are not running any more.
Processed == updated_taskhash_queue \ RunningNow

\* "Make sure we rehash any other tasks with the same task hash that we're
\* deferred against."
ToProcess ==
  Processed \cup {d \in DOMAIN sq_deferred : sq_deferred[d] \in Processed}

\* Mutant of Movable: what is covered or being fetched moves too.
MovableAll == Tasks

\* Tasks that are covered or being fetched keep their hash: the server is told
\* that the two are equivalent (report_unihash_equiv).
Movable == Tasks \ (scenequeue_covered \cup sq_live)

\* The tasks that get a new unihash: each depends on one that is rehashed, and the
\* server knows no equivalent of it under its old one.  One that keeps its hash
\* still passes the change on when the server does not take its report.
PossibleMoves ==
  {S \cap Movable : S \in {R \in SUBSET Tasks :
     \A r \in R : Depends[r] \cap (ToProcess \cup R) # {}}}

\* Mutant of HeldUp: nothing is waited for.
HeldUpNever(S) == {}

HeldUp(S) == {t \in S : CoveredTasks[t] \cap RunningNow # {}}

\* Those of the pending tasks that go back into the setscene queue now.
TakenBack(pending) ==
  LET late == pending \cap (runq_running \cup sq_live)
  IN  (pending \ late) \ HeldUp(pending \ late)

\* Mutant of StillPending: what was taken back is not removed.
StillPendingAll(pending) == pending

StillPending(pending) == HeldUp(pending \ (runq_running \cup sq_live))

StartedStill(again) == sq_running \ again

\* A setscene task that is taken back is undecided again, and so are the real
\* tasks it covers that are neither complete nor unskippable.
QueueAgain(again) ==
  LET notcovered == scenequeue_notcovered \ again
      covered    == scenequeue_covered \ again
  IN  /\ scenequeue_notcovered' = notcovered
      /\ scenequeue_covered' = covered
      /\ sq_running' = StartedStill(again)
      /\ outrightfail' = outrightfail \ again
      /\ tasks_scenequeue_done' = tasks_scenequeue_done \
           (again \cup ((UNION {CoveredTasks[t] : t \in again}) \ (runq_complete \cup Unskippable)))
      /\ sq_buildable' = (sq_buildable \ again) \cup
           {t \in again : \/ SqRevdeps[t] = {}
                          \/ /\ SqRevdeps[t] \subseteq covered \cup notcovered
                             /\ HardDepsRev[t] \cap notcovered = {}}
      /\ sqdone' = (sqdone /\ again = {})

\* sqdata.hashes keeps the first task of each original hash: a task that comes to
\* hash like one of them, in another multiconfig, is deferred behind it.
MayFollow(t) == (SameRecipe[t] \ DOMAIN Deferral) \ {t}

DeferAgain(again) ==
  \E follower \in SUBSET {t \in again : MayFollow(t) # {}} :
    \E leader \in [follower -> SetsceneTids] :
      /\ \A t \in follower : leader[t] \in MayFollow(t)
      /\ sq_deferred' = [t \in DOMAIN sq_deferred \cup follower |->
                           IF t \in follower THEN leader[t] ELSE sq_deferred[t]]

\* Stamps are named by the unihash: those of the moved tasks are for their old one.
Restamp(moved) ==
  /\ \E found \in FoundStamps : stamped' = (stamped \ moved) \cup (moved \cap found)
  /\ sq_stamped' = sq_stamped \ moved

\* Mutant of MigrationDue: fresh changes do not count.
MigrationDueLate == pending_migrations # {}

MigrationDue == updated_taskhash_queue # {} \/ pending_migrations # {}

Migrate ==
  /\ pc = "read" /\ pipe = <<>> /\ update_tasks = {}
  /\ MigrationDue
  /\ updated_taskhash_queue' = updated_taskhash_queue \ Processed
  /\ \E moved \in PossibleMoves :
       LET pending == pending_migrations \cup (moved \cap SetsceneTids)
           again   == TakenBack(pending)
           changed == moved # {} \/ again # {}
       IN  /\ pending_migrations' = StillPending(pending)
           /\ update_tasks' = again
           /\ Restamp(moved)
           /\ QueueAgain(again)
           /\ DeferAgain(again)
           /\ sq_needed_harddeps' = IF changed THEN {} ELSE sq_needed_harddeps
           /\ sq_harddep_deferred' = IF changed THEN {} ELSE sq_harddep_deferred
           /\ holdoff_need_update' = (holdoff_need_update \/ changed)
  /\ pc' = "setscene"
  /\ UNCHANGED <<state, shutdown, options, taskVars, splitVars, sq_live, worker_up,
                 task_procs, sq_procs, pipe, runq_tasksrun>>

\* Its second half, in the same call: update_scenequeue_data looks at stamps and
\* hashes again; what has a hard dependency that is not covered fails outright.
SettleTakenBack ==
  /\ update_tasks # {}
  /\ LET present == {t \in update_tasks : SetsceneStampPresent(t)}
         failing == {t \in update_tasks : HardDepsRev[t] \cap scenequeue_notcovered # {}}
     IN  /\ \E missing \in SUBSET (update_tasks \ (present \cup DOMAIN sq_deferred)) :
              outrightfail' = outrightfail \cup missing
         /\ MarkSetscene(present, UNION {FailsWith(t) : t \in failing})
  /\ update_tasks' = {}
  /\ UNCHANGED <<control, taskVars, sq_deferred, sq_needed_harddeps, splitVars, sq_live,
                 sqdone, procVars, updated_taskhash_queue, pending_migrations, runq_tasksrun>>

-----------------------------------------------------------------------------
(* What else of execute() looks at the changed hashes. *)

Unchanged(A) == A /\ update_tasks = {} /\ UNCHANGED equivVars

EndReadSettled ==
  Unchanged(EndRead /\ (pc = "read" => ~MigrationDue))

\* The setscene half is not over while changes wait.
HoldoffSettled == Unchanged(Holdoff /\ updated_taskhash_queue = {})

HoldoffWaiting ==
  /\ pc = "holdoff" /\ updated_taskhash_queue # {} /\ update_tasks = {}
  /\ UpdateHoldoff
  /\ pc' = "task"
  /\ UNCHANGED <<state, sqdone, shutdown, options, runq_running, runq_complete, failed_tids,
                 active, scenequeue_covered, scenequeue_notcovered, sq_running, sq_buildable,
                 tasks_scenequeue_done, sq_harddep_deferred, waitVars, sq_live, procVars,
                 equivVars>>

\* "Scenequeue had unprocessed changed taskhash entries"
ConcludeWaiting ==
  /\ Quiet /\ DOMAIN sq_deferred = {} /\ updated_taskhash_queue # {}
  /\ state' = "failed"
  /\ pc' = "loop"
  /\ UNCHANGED <<shutdown, options, taskVars, markVars, waitVars, splitVars, sq_live, sqdone,
                 procVars, equivVars>>

ConcludeSettled == Unchanged(Conclude /\ updated_taskhash_queue = {})

EquivServerStep ==
  \/ ReadUpdate \/ ReadExitRecorded \/ EndReadSettled \/ Migrate \/ SettleTakenBack
  \/ HoldoffSettled \/ HoldoffWaiting \/ NextTaskRecorded \/ ConcludeSettled \/ ConcludeWaiting
  \/ Unchanged(\/ BeginCall \/ NextSetscene \/ NoSetscene \/ NoTask \/ WaitForWorkers
               \/ ForceDeferred \/ CleanUp \/ StopAgain \/ Teardown)

EquivWorkerStep == (WorkerStep \/ WorkerDies) /\ UNCHANGED equivVars

EquivNext ==
  \/ EquivServerStep \/ EquivWorkerStep
  \/ (StopGracefully \/ StopNow \/ Terminated) /\ UNCHANGED equivVars

EquivSpec == EquivInit /\ [][EquivNext]_hvars

\* As in RunQueue: the idle loop keeps calling, and every task's process ends.
EquivFairSpec ==
  /\ EquivSpec
  /\ WF_hvars(EquivServerStep)
  /\ \A t \in Tasks : WF_hvars(TaskExits(t) /\ UNCHANGED equivVars)
  /\ \A t \in SetsceneTids : WF_hvars(SetsceneExits(t) /\ UNCHANGED equivVars)

-----------------------------------------------------------------------------
(* Properties *)

\* The tasks behind those of S.
BehindAny(S) ==
  {t \in Tasks : \A B \in SUBSET Tasks :
     (\A r \in Tasks : Depends[r] \cap (S \cup B) # {} => r \in B) => t \in B}

\* No task is built with a hash that is known to be out of date: whatever was
\* reported by what it depends on has been dealt with when it starts.
FreshBuild ==
  [][\A t \in task_procs' \ task_procs : t \notin BehindAny(updated_taskhash_queue)]_hvars

\* "Task ... marked as completed but now needing to rerun? Halting build.": that
\* never happens.  What a setscene task that is taken back covers was either built
\* or is still to come; it was never skipped as covered.
NeverNeedsRerun ==
  \A t \in update_tasks : CoveredTasks[t] \cap runq_complete \subseteq runq_tasksrun
=============================================================================
