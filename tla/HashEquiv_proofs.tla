--------------------------- MODULE HashEquiv_proofs ---------------------------
(* With hash equivalence setscene tasks are reopened while others run.  What     *)
(* RunQueue_proofs shows of the run queue holds all the same, and nothing is     *)
(* built, or left unbuilt, with a hash that is known to be out of date.          *)
EXTENDS HashEquiv, RunQueue_proofs

-----------------------------------------------------------------------------
(* The inductive invariant, beside OrderInv and OnceInv of RunQueue_proofs. *)

\* What a setscene task that is fetching needs was covered for good.  So none of it is
\* reopened, and the fetch does not fail with it a second time.
FetchesBackedUp == \A s \in sq_live : HardDepsRev[s] \subseteq CoveredOnly

\* A setscene task that is still undecided although a hard dependency was given up has
\* a stamp, so that it will not be started.
GivenUpWith ==
  \A t \in Undecided \ update_tasks :
    HardDepsRev[t] \cap scenequeue_notcovered # {} => SetsceneStampPresent(t)

\* An undecided setscene task has not been built, and what it stands for is complete
\* or was not started.
OpenUntouched ==
  \A s \in Undecided : s \notin runq_running /\ CoveredTasks[s] \cap RunningNow = {}

\* What is held up was given up.
PendingGivenUp == pending_migrations \subseteq scenequeue_notcovered

\* Setscene tasks are taken back at one place, and are undecided then.
TakenBackOpen ==
  /\ update_tasks # {} => pc = "setscene"
  /\ update_tasks \subseteq Undecided \ sq_live

\* What completed without having run was skipped as covered, by setscene tasks that
\* are never reopened.
CoveredForGood ==
  \A x \in runq_complete \ runq_tasksrun : \A t \in SetsceneTids :
    x \in CoveredTasks[t] => t \in CoveredOnly

\* The same of what may be skipped next, when the next real task is chosen.
SplitHonest ==
  \/ holdoff_need_update /\ pc # "task"
  \/ \A x \in tasks_covered \ (holdoff_tasks \cup runq_complete) : \A t \in SetsceneTids :
       x \in CoveredTasks[t] => t \in CoveredOnly

\* The reports that wait while a task is chosen are those of tasks that still run.
ReportsSettled ==
  pc \in {"setscene", "holdoff", "task"} => updated_taskhash_queue \cap runq_complete = {}

\* With BB_SETSCENE_ENFORCE real tasks are dry runs, which report nothing.
NoReports ==
  SetsceneEnforce => updated_taskhash_queue = {} /\ pending_migrations = {} /\ update_tasks = {}

EquivInv ==
  /\ EquivTypeOK
  /\ FetchesBackedUp /\ GivenUpWith /\ NoexecCovered /\ OpenUntouched
  /\ PendingGivenUp /\ TakenBackOpen
  /\ CoveredForGood /\ SplitHonest
  /\ ReportsSettled /\ NoReports

HashInv == OrderInv /\ OnceInv /\ EquivInv

-----------------------------------------------------------------------------
(* EquivInv is kept by every step but Migrate. *)

\* What such a step does to the variables of HashEquiv.
Records ==
  /\ EquivTypeOK'
  /\ UNCHANGED pending_migrations
  /\ update_tasks' \subseteq update_tasks
  /\ update_tasks' # {} =>
       UNCHANGED <<pc, scenequeue_covered, scenequeue_notcovered, sq_live>>
  /\ \A t \in update_tasks \ update_tasks' :
       HardDepsRev[t] \cap scenequeue_notcovered # {} => t \notin Undecided'
  /\ sq_live' \subseteq sq_live \/ update_tasks = {}
  /\ \A x \in runq_complete' \ runq_tasksrun' :
       \/ x \in runq_complete \ runq_tasksrun
       \/ pc = "task" /\ x \in tasks_covered \ (holdoff_tasks \cup runq_complete)
  /\ pc' \in {"setscene", "holdoff", "task"} =>
       /\ updated_taskhash_queue' = updated_taskhash_queue
       /\ pc = "read" => updated_taskhash_queue = {}
  /\ SetsceneEnforce => updated_taskhash_queue' = updated_taskhash_queue

LEMMA UndecidedShrinks ==
  ASSUME Settles
  PROVE  Undecided' \subseteq Undecided
BY DEF Settles, CoveredOnly, Undecided, Resolved

\* A fetch is started only when all it needs was covered for good.
LEMMA FetchesKept ==
  ASSUME HashInv, Settles, Fetches, Records
  PROVE  FetchesBackedUp'
<1>1. CoveredOnly \subseteq CoveredOnly'  BY DEF Settles
<1>2. CASE sq_live' \subseteq sq_live
  BY <1>1, <1>2 DEF HashInv, EquivInv, FetchesBackedUp
<1>3. ASSUME NEW t \in SetsceneCandidates, HardDepsResolved(t), t \notin stamped \cup sq_stamped,
             sq_live' = sq_live \cup {t}, update_tasks = {}
      PROVE  FetchesBackedUp'
  <2>1. t \in Undecided
    BY DEF HashInv, OrderInv, TypeOK, FateOpen, SetsceneCandidates, Undecided
  <2>2. ~SetsceneStampPresent(t)
    BY <1>3, <2>1
    DEF HashInv, EquivInv, NoexecCovered, CoveredOnly, SetsceneStampPresent, Undecided, Resolved
  <2>3. HardDepsRev[t] \cap scenequeue_notcovered = {}
    BY <1>3, <2>1, <2>2 DEF HashInv, EquivInv, GivenUpWith
  <2>4. HardDepsRev[t] \subseteq CoveredOnly
    BY <1>3, <2>3 DEF HardDepsResolved, Resolved, CoveredOnly
  <2>5. QED  BY <1>1, <1>3, <2>4 DEF HashInv, EquivInv, FetchesBackedUp
<1>4. QED  BY <1>2, <1>3 DEF Fetches, Records

LEMMA GivenUpKept ==
  ASSUME HashInv, Settles, Records
  PROVE  GivenUpWith'
<1> SUFFICES ASSUME NEW t \in Undecided', t \notin update_tasks',
                    HardDepsRev[t] \cap scenequeue_notcovered' # {}
             PROVE  SetsceneStampPresent(t)'
  BY DEF GivenUpWith
<1>1. t \in Undecided  BY UndecidedShrinks
<1>2. SetsceneStampPresent(t)
  <2>1. CASE HardDepsRev[t] \cap scenequeue_notcovered # {}
    BY <1>1, <2>1 DEF HashInv, EquivInv, GivenUpWith, Records
  <2>2. CASE HardDepsRev[t] \cap (scenequeue_notcovered' \ scenequeue_notcovered) # {}
    BY <2>2 DEF Settles
  <2>3. QED  BY <2>1, <2>2
<1>3. QED  BY <1>2 DEF Settles, SetsceneStampPresent

\* The next real task is none that an undecided setscene task stands for.
LEMMA UntouchedKept ==
  ASSUME HashInv, Settles, Runs
  PROVE  OpenUntouched'
<1>1. Undecided' \subseteq Undecided /\ runq_complete \subseteq runq_complete'
  BY UndecidedShrinks DEF Settles
<1>2. CASE runq_running' = runq_running
  BY <1>1, <1>2 DEF HashInv, EquivInv, OpenUntouched, RunningNow
<1>3. ASSUME pc = "task", NEW t \in ReadyTasks, runq_running' = runq_running \cup {t}
      PROVE  OpenUntouched'
  <2>1. t \notin runq_running \cup runq_complete /\ t \notin holdoff_tasks
        /\ t \in tasks_covered \cup tasks_notcovered
    BY DEF ReadyTasks, HashInv, OrderInv, Started
  <2>2. \A s \in Undecided : t \notin {s} \cup CoveredTasks[s]
    BY <1>3, <2>1 DEF HashInv, OrderInv, HeldBack, Undecided
  <2>3. QED  BY <1>1, <1>3, <2>2 DEF HashInv, EquivInv, OpenUntouched, RunningNow
<1>4. QED  BY <1>2, <1>3 DEF Runs

LEMMA CoverageKept ==
  ASSUME HashInv, Settles, Splits, Records
  PROVE  CoveredForGood' /\ SplitHonest'
<1>1. CoveredOnly \subseteq CoveredOnly' /\ runq_complete \subseteq runq_complete'
  BY DEF Settles
<1>2. CoveredForGood'
  <2> SUFFICES ASSUME NEW x \in runq_complete', x \notin runq_tasksrun',
                      NEW t \in SetsceneTids, x \in CoveredTasks[t]
               PROVE  t \in CoveredOnly
    BY <1>1 DEF CoveredForGood
  <2>1. CASE x \in runq_complete \ runq_tasksrun
    BY <2>1 DEF HashInv, EquivInv, CoveredForGood
  <2>2. CASE pc = "task" /\ x \in tasks_covered \ (holdoff_tasks \cup runq_complete)
    BY <2>2 DEF HashInv, EquivInv, SplitHonest
  <2>3. QED  BY <2>1, <2>2 DEF Records
<1>3. SplitHonest'
  <2>1. CASE /\ UNCHANGED splitVars
             /\ holdoff_need_update => holdoff_need_update' /\ (pc' = "task" => pc = "task")
    BY <1>1, <2>1 DEF HashInv, EquivInv, SplitHonest, splitVars
  <2>2. CASE /\ tasks_covered' = CoveredNow /\ holdoff_tasks' = HeldOff
             /\ UNCHANGED <<scenequeue_covered, scenequeue_notcovered, runq_complete>>
    <3> SUFFICES ASSUME NEW x \in CoveredNow, x \notin HeldOff \cup runq_complete,
                        NEW t \in SetsceneTids, x \in CoveredTasks[t]
                 PROVE  t \in CoveredOnly
      BY <1>1, <2>2 DEF SplitHonest
    <3>1. t \in Resolved  BY DEF HeldOff
    <3>2. t \notin scenequeue_notcovered  BY DEF CoveredNow, NotCoveredTasks
    <3>3. QED  BY <3>1, <3>2 DEF Resolved, CoveredOnly
  <2>3. QED  BY <2>1, <2>2 DEF Splits
<1>4. QED  BY <1>2, <1>3

LEMMA ReportsKept ==
  ASSUME HashInv, Settles, Places, Records
  PROVE  ReportsSettled' /\ NoReports'
<1>1. ReportsSettled'
  BY DEF HashInv, EquivInv, ReportsSettled, Places, Records
<1>2. NoReports'
  BY DEF HashInv, EquivInv, NoReports, Settles, Records, SetsceneEnforce
<1>3. QED  BY <1>1, <1>2

LEMMA SmallStepKeeps ==
  ASSUME HashInv, SmallStep, Records
  PROVE  EquivInv'
<1>1. Settles /\ Runs /\ Fetches /\ Splits /\ Places  BY DEF SmallStep
<1>2. NoexecCovered' /\ PendingGivenUp'
  BY <1>1 DEF HashInv, EquivInv, NoexecCovered, PendingGivenUp, Settles, Records
<1>3. TakenBackOpen'
  BY DEF HashInv, EquivInv, TakenBackOpen, Records, Undecided, Resolved
<1>4. EquivTypeOK'  BY DEF Records
<1>5. QED
  BY <1>1, <1>2, <1>3, <1>4, FetchesKept, GivenUpKept, UntouchedKept, CoverageKept, ReportsKept
  DEF EquivInv

-----------------------------------------------------------------------------
(* The steps that HashEquiv takes over from RunQueue. *)

LEMMA PlainStep ==
  ASSUME HashInv, [Next]_vars, Records
  PROVE  HashInv' /\ GraphStep
<1>1. OrderInv' /\ OnceInv' /\ GraphStep  BY StepOrdered, OnceStep DEF HashInv
<1>2. SmallStep  BY StepIsSmall DEF HashInv
<1>3. EquivInv'  BY <1>2, SmallStepKeeps
<1>4. QED  BY <1>1, <1>3 DEF HashInv

LEMMA NothingRecorded ==
  ASSUME HashInv, UNCHANGED equivVars, UNCHANGED runq_complete,
         update_tasks = {} \/ UNCHANGED <<pc, scenequeue_covered, scenequeue_notcovered, sq_live>>,
         pc = "read" /\ pc' \in {"setscene", "holdoff", "task"} => updated_taskhash_queue = {}
  PROVE  Records
<1>1. EquivTypeOK'  BY DEF HashInv, EquivInv, EquivTypeOK, equivVars
<1>2. QED  BY <1>1 DEF Records, equivVars

\* What is read from the pipe is recorded.
LEMMA ReadRecords ==
  ASSUME HashInv, ReadUpdate \/ ReadExitRecorded
  PROVE  [Next]_vars /\ Records
<1>1. pc' = pc /\ pc \in {"read", "drain", "teardown", "raised"}
      /\ update_tasks = {} /\ UNCHANGED <<pending_migrations, update_tasks>>
  BY DEF ReadUpdate, ReadExitRecorded, ReadExit, vars, control
<1>2. CASE ReadUpdate
  <2>1. UNCHANGED vars /\ UNCHANGED <<runq_complete, runq_tasksrun>> /\ ~SetsceneEnforce
    BY <1>2 DEF ReadUpdate, vars, taskVars
  <2>2. updated_taskhash_queue' \subseteq SetsceneTids
    BY <1>2 DEF ReadUpdate, Reporters, HashInv, EquivInv, EquivTypeOK
  <2>3. EquivTypeOK'  BY <1>1, <2>1, <2>2 DEF HashInv, EquivInv, EquivTypeOK
  <2>4. QED  BY <1>1, <2>1, <2>3 DEF Records
<1>3. CASE ReadExitRecorded
  <2>1. Next /\ updated_taskhash_queue' = updated_taskhash_queue
        /\ runq_tasksrun' = runq_tasksrun \cup (runq_complete' \ runq_complete)
    BY <1>3 DEF ReadExitRecorded, Next, ServerStep
  <2>2. TypeOK'  BY <2>1, StepTyped DEF HashInv, OrderInv
  <2>3. EquivTypeOK'
    BY <1>1, <2>1, <2>2 DEF HashInv, EquivInv, EquivTypeOK, TypeOK
  <2>4. QED  BY <1>1, <2>1, <2>3 DEF Records
<1>4. QED  BY <1>2, <1>3

\* What was skipped as covered was not held off.
LEMMA TaskRecords ==
  ASSUME HashInv, NextTaskRecorded
  PROVE  [Next]_vars /\ Records
<1>1. Next /\ NextTask /\ pc = "task" /\ update_tasks = {}
      /\ UNCHANGED <<updated_taskhash_queue, pending_migrations, update_tasks>>
      /\ runq_tasksrun' = runq_tasksrun \cup ((runq_complete' \ runq_complete) \ tasks_covered)
  BY DEF NextTaskRecorded, NextTask, Next, ServerStep
<1>2. TypeOK'  BY <1>1, StepTyped DEF HashInv, OrderInv
<1>3. EquivTypeOK'
  BY <1>1, <1>2 DEF HashInv, EquivInv, EquivTypeOK, TypeOK
<1>4. runq_complete' \subseteq runq_complete \cup ReadyTasks
  <2>1. PICK t \in ReadyTasks :
          RefuseTask(t) \/ SkipTask(t) \/ RunNoexecTask(t) \/ StartTask(t) \/ SendTaskFails(t)
    BY <1>1 DEF NextTask
  <2>2. runq_complete' \subseteq runq_complete \cup {t}
    BY <2>1 DEF RefuseTask, SkipTask, RunNoexecTask, StartTask, SendTaskFails, taskVars,
                CompleteOutright
  <2>3. QED  BY <2>2
<1>5. ReadyTasks \cap holdoff_tasks = {}  BY DEF ReadyTasks
<1>6. QED  BY <1>1, <1>3, <1>4, <1>5 DEF Records

\* The other steps record nothing.
LEMMA OtherRecords ==
  ASSUME HashInv,
         \/ EndReadSettled \/ HoldoffSettled \/ ConcludeSettled
         \/ Unchanged(\/ BeginCall \/ NextSetscene \/ NoSetscene \/ NoTask \/ WaitForWorkers
                      \/ ForceDeferred \/ CleanUp \/ StopAgain \/ Teardown)
  PROVE  [Next]_vars /\ Records
<1>1. Next /\ UNCHANGED equivVars /\ update_tasks = {}
  BY DEF EndReadSettled, HoldoffSettled, ConcludeSettled, Unchanged, Next, ServerStep
<1>2. UNCHANGED runq_complete
  BY DEF EndReadSettled, HoldoffSettled, ConcludeSettled, Unchanged, EndRead, Holdoff, Conclude,
         BeginCall, NextSetscene, NoSetscene, NoTask, WaitForWorkers, ForceDeferred, CleanUp,
         StopAgain, Teardown, taskVars
<1>3. pc = "read" => updated_taskhash_queue = {}
  BY DEF EndReadSettled, HoldoffSettled, ConcludeSettled, Unchanged, EndRead, MigrationDue,
         Holdoff, Conclude, Quiet, BeginCall, NextSetscene, NoSetscene, NoTask, WaitForWorkers,
         ForceDeferred, CleanUp, StopAgain, Teardown
<1>4. QED  BY <1>1, <1>2, <1>3, NothingRecorded

LEMMA OutsideRecords ==
  ASSUME HashInv,
         \/ EquivWorkerStep
         \/ (StopGracefully \/ StopNow \/ Terminated) /\ UNCHANGED equivVars
         \/ UNCHANGED hvars
  PROVE  [Next]_vars /\ Records
<1>1. [Next]_vars /\ UNCHANGED equivVars  BY DEF EquivWorkerStep, Next, hvars
<1>2. UNCHANGED <<pc, runq_complete, scenequeue_covered, scenequeue_notcovered, sq_live>>
  BY DEF EquivWorkerStep, WorkerStep, TaskExits, SetsceneExits, WorkerDies, StopGracefully,
         StopNow, Terminated, hvars, vars, control, taskVars, markVars
<1>3. QED  BY <1>1, <1>2, NothingRecorded

-----------------------------------------------------------------------------
(* The steps of its own, Migrate apart. *)

LEMMA OwnStep ==
  ASSUME HashInv, TypeOK', OrderParts', OnceInv', SmallStep, Records
  PROVE  HashInv'
<1>1. OrderInv'  BY DEF OrderInv, OrderParts
<1>2. EquivInv'  BY SmallStepKeeps
<1>3. QED  BY <1>1, <1>2 DEF HashInv

LEMMA HoldoffWaitingStep ==
  ASSUME HashInv, HoldoffWaiting
  PROVE  HashInv' /\ GraphStep
<1>1. /\ UpdateHoldoff /\ pc = "holdoff" /\ pc' = "task" /\ update_tasks = {}
      /\ UNCHANGED <<options, state, shutdown, runq_running, runq_complete, failed_tids, active,
                     scenequeue_covered, scenequeue_notcovered, sq_running, sq_buildable,
                     tasks_scenequeue_done, sq_harddep_deferred, waitVars, sq_live, sqdone,
                     procVars, equivVars>>
  BY DEF HoldoffWaiting
<1>2. TypeOK'
  <2>1. TypeOK  BY DEF HashInv, OrderInv
  <2>2. runq_buildable' \subseteq Tasks /\ SplitTypes' /\ holdoff_need_update' \in BOOLEAN
    BY <1>1, <2>1, UpdateTyped
  <2>3. ControlTypes' /\ TaskTypes' /\ MarkTypes'
    BY <1>1, <2>1, <2>2 DEF TypeOK, ControlTypes, TaskTypes, MarkTypes
  <2>4. WaitTypes' /\ SetsceneTypes' /\ ProcTypes'  BY <1>1, <2>1, UnchangedTypes
  <2>5. QED  BY <2>2, <2>3, <2>4, TypeGroupsAfter
<1>3. OrderParts'  BY <1>1, UpdateOrdered DEF HashInv, waitVars, procVars
<1>4. OnceInv' /\ GraphStep  BY <1>1, UpdateOnce DEF HashInv, procVars
<1>5. SmallStep  BY <1>1, UpdateIsSmall DEF procVars
<1>6. Records  BY <1>1, NothingRecorded
<1>7. QED  BY <1>2, <1>3, <1>4, <1>5, <1>6, OwnStep

LEMMA ConcludeWaitingStep ==
  ASSUME HashInv, ConcludeWaiting
  PROVE  HashInv' /\ GraphStep
<1>1. /\ pc = "idle" /\ pc' = "loop" /\ state' = "failed"
      /\ UNCHANGED <<shutdown, options, taskVars, markVars, waitVars, splitVars, sq_live, sqdone,
                     procVars, equivVars>>
  BY DEF ConcludeWaiting, Quiet
<1>2. TypeOK'
  <2>1. TypeOK  BY DEF HashInv, OrderInv
  <2>2. ControlTypes'  BY <1>1, <2>1 DEF TypeOK, ControlTypes
  <2>3. QED  BY <1>1, <2>1, <2>2, UnchangedTypes, TypeGroupsAfter
<1>3. OrderParts'
  BY <1>1, IdleOrdered DEF HashInv, taskVars, waitVars, procVars
<1>4. OnceInv' /\ GraphStep
  <2>1. Grows  BY <1>1, UnmarkedGrows
  <2>2. QED  BY <1>1, <2>1, QuietOnce DEF HashInv, splitVars, procVars
<1>5. SmallStep
  <2>1. UNCHANGED <<options, runq_running, runq_complete, scenequeue_covered,
                    scenequeue_notcovered, splitVars, stamped, sq_stamped, holdoff_need_update,
                    sq_live>>
    BY <1>1 DEF taskVars, markVars, procVars
  <2>2. QED  BY <1>1, <2>1, IdleIsSmall
<1>6. Records
  <2>1. update_tasks = {}  BY <1>1 DEF HashInv, EquivInv, TakenBackOpen
  <2>2. QED  BY <1>1, <2>1, NothingRecorded DEF taskVars
<1>7. QED  BY <1>2, <1>3, <1>4, <1>5, <1>6, OwnStep

\* What was taken back and is settled again was not fetching, nor is what fails with it.
LEMMA SettleTakenBackStep ==
  ASSUME HashInv, SettleTakenBack
  PROVE  HashInv' /\ GraphStep
<1> DEFINE present == {t \in update_tasks : SetsceneStampPresent(t)}
           failing == {t \in update_tasks : HardDepsRev[t] \cap scenequeue_notcovered # {}}
           fail    == UNION {FailsWith(t) : t \in failing}
<1>1. /\ MarkSetscene(present, fail) /\ update_tasks # {} /\ update_tasks' = {}
      /\ outrightfail' \subseteq outrightfail \cup update_tasks
      /\ UNCHANGED <<control, taskVars, sq_deferred, sq_needed_harddeps, splitVars, sq_live,
                     sqdone, procVars, updated_taskhash_queue, pending_migrations,
                     runq_tasksrun>>
  BY DEF SettleTakenBack
<1>2. update_tasks \subseteq Undecided \ sq_live /\ pc = "setscene"
  BY <1>1 DEF HashInv, EquivInv, TakenBackOpen
<1>3. present \in SUBSET SetsceneTids /\ present \cap sq_live = {}
  BY <1>2 DEF Undecided
<1>4. ASSUME NEW t \in failing
      PROVE  /\ FailsWith(t) \in SUBSET SetsceneTids /\ t \in FailsWith(t)
             /\ FailsWith(t) \subseteq Undecided
             /\ FailsWith(t) \cap sq_live = {}
             /\ \A e \in Undecided : HardDepsRev[e] \cap FailsWith(t) # {} =>
                  e \in FailsWith(t) \/ SetsceneStampPresent(e)
  <2>1. t \in Undecided /\ t \in SetsceneTids \ Resolved /\ t \notin sq_live
    BY <1>2 DEF Undecided
  <2>2. FailsWith(t) \cap sq_live \subseteq {t}
    BY <2>1, FailureSparesTheLive DEF HashInv
  <2>3. /\ FailsWith(t) \in SUBSET SetsceneTids /\ t \in FailsWith(t)
        /\ FailsWith(t) \subseteq Undecided \cup {t}
        /\ \A e \in Undecided : HardDepsRev[e] \cap FailsWith(t) # {} =>
             e \in FailsWith(t) \/ SetsceneStampPresent(e)
    BY <2>1, FailsWithClosed
  <2>4. QED  BY <2>1, <2>2, <2>3
<1>5. fail \in SUBSET SetsceneTids /\ fail \subseteq Undecided /\ fail \cap sq_live = {}
  BY <1>4
<1>6. \A e \in Undecided : HardDepsRev[e] \cap fail # {} => e \in fail \/ SetsceneStampPresent(e)
  BY <1>4
<1>7. failing \subseteq fail  BY <1>4
<1> HIDE DEF present, fail
<1>8. /\ UNCHANGED <<options, pc, runq_buildable, runq_running, runq_complete, task_procs,
                     sq_procs, pipe, stamped, sq_stamped>>
      /\ BusyTasks' = BusyTasks
  BY <1>1, Busy, BusyAfter DEF control, taskVars, procVars
<1>9. TypeOK'
  <2>1. TypeOK  BY DEF HashInv, OrderInv
  <2>2. ControlTypes'  BY <1>1, <2>1 DEF TypeOK, ControlTypes, control
  <2>3. MarkTypes'  BY <1>1, <1>3, <1>5, <2>1, MarkTyped
  <2>4. WaitTypes'
    BY <1>1, <1>2, <2>1 DEF TypeOK, WaitTypes, Undecided
  <2>5. QED  BY <1>1, <2>1, <2>2, <2>3, <2>4, UnchangedTypes, TypeGroupsAfter
<1>10. Grows /\ holdoff_need_update'
  <2>1. Grows  BY <1>1, MarkGrows DEF HashInv, OrderInv
  <2>2. holdoff_need_update'  BY <1>1, Zenon DEF MarkSetscene
  <2>3. QED  BY <2>1, <2>2
<1>11. OrderParts'
  <2>1. sq_live' \subseteq sq_live \ (present \cup fail)  BY <1>1, <1>3, <1>5
  <2>2. FateOpen' /\ Resolved \subseteq Resolved'
    BY <1>1, <1>3, <1>5, <2>1, SettlingIsSafe DEF HashInv
  <2>3. HeldBack' /\ Apart' /\ StampsApart'
    BY <1>1, <1>8, <1>10, <2>2, StaleSplitIsSafe DEF HashInv
  <2>4. Ordered' /\ Started' /\ Delivered'
    BY <1>1, <1>8 DEF HashInv, OrderInv, Ordered, Started, Delivered
  <2>5. QED  BY <2>2, <2>3, <2>4 DEF OrderParts
<1>12. OnceInv' /\ GraphStep
  BY <1>1, <1>8, <1>10, QuietOnce DEF HashInv, splitVars
<1>13. Settles  BY <1>1, <1>5, <1>6, <1>8, MarkSettles
<1>14. SmallStep
  <2>1. Runs /\ Fetches /\ Places  BY <1>1, <1>8 DEF Runs, Fetches, Places
  <2>2. Splits  BY <1>1, <1>8, <1>10 DEF Splits
  <2>3. QED  BY <1>13, <2>1, <2>2 DEF SmallStep
<1>15. Records
  <2>1. EquivTypeOK'  BY <1>1 DEF HashInv, EquivInv, EquivTypeOK
  <2>2. \A t \in failing : t \notin Undecided'
    BY <1>1, <1>7 DEF MarkSetscene, Undecided, Resolved
  <2>3. QED  BY <1>1, <1>2, <1>8, <2>1, <2>2 DEF Records
<1>16. QED  BY <1>9, <1>11, <1>12, <1>14, <1>15, OwnStep

-----------------------------------------------------------------------------
(* process_possible_migrations. *)

\* What is taken back: it was not covered for good, is not being fetched, and nothing
\* it stands for is being built.
LEMMA TakenBackIsOpen ==
  ASSUME HashInv, NEW moved \in PossibleMoves, NEW pending, NEW again,
         pending = pending_migrations \cup (moved \cap SetsceneTids),
         again = TakenBack(pending)
  PROVE  /\ moved \subseteq Tasks \ (scenequeue_covered \cup sq_live)
         /\ pending \subseteq SetsceneTids /\ pending \cap CoveredOnly = {}
         /\ again \subseteq pending \ (runq_running \cup sq_live)
         /\ \A t \in again : CoveredTasks[t] \cap RunningNow = {}
         /\ moved \cap Undecided \subseteq again
         /\ StillPending(pending) \subseteq scenequeue_notcovered \ again
<1>1. moved \subseteq Tasks \ (scenequeue_covered \cup sq_live)
  BY DEF PossibleMoves, Movable
<1>2. pending_migrations \subseteq SetsceneTids \cap scenequeue_notcovered
  BY DEF HashInv, EquivInv, EquivTypeOK, PendingGivenUp
<1>3. pending \subseteq SetsceneTids /\ pending \cap CoveredOnly = {}
  BY <1>1, <1>2 DEF CoveredOnly
<1>4. /\ again \subseteq pending \ (runq_running \cup sq_live)
      /\ \A t \in again : CoveredTasks[t] \cap RunningNow = {}
  BY DEF TakenBack, HeldUp
<1>5. \A t \in Undecided : t \notin runq_running /\ CoveredTasks[t] \cap RunningNow = {}
  BY DEF HashInv, EquivInv, OpenUntouched
<1>6. moved \cap Undecided \subseteq again
  BY <1>1, <1>5 DEF TakenBack, HeldUp, Undecided
<1>7. ASSUME NEW t \in StillPending(pending) PROVE t \in scenequeue_notcovered \ again
  <2>1. t \in pending /\ CoveredTasks[t] \cap RunningNow # {}
    BY DEF StillPending, HeldUp
  <2>2. t \notin again /\ t \notin Undecided  BY <1>4, <1>5, <2>1
  <2>3. QED  BY <1>1, <1>2, <1>3, <2>1, <2>2 DEF Undecided, Resolved
<1>8. QED  BY <1>1, <1>3, <1>4, <1>6, <1>7

\* What QueueAgain does to who is settled.
LEMMA Reopened ==
  ASSUME NEW again \in SUBSET SetsceneTids, QueueAgain(again), again \cap CoveredOnly = {}
  PROVE  /\ Resolved' = Resolved \ again /\ Undecided' = Undecided \cup again
         /\ CoveredOnly' = CoveredOnly
         /\ scenequeue_notcovered' \subseteq scenequeue_notcovered
<1>1. /\ scenequeue_notcovered' = scenequeue_notcovered \ again
      /\ scenequeue_covered' = scenequeue_covered \ again
  BY DEF QueueAgain
<1>2. QED  BY <1>1 DEF Resolved, Undecided, CoveredOnly

\* Migrate's effect, and what is known of it.
Migrates(moved, again) ==
  /\ moved \subseteq Tasks \ (scenequeue_covered \cup sq_live)
  /\ again \subseteq SetsceneTids /\ again \cap CoveredOnly = {}
  /\ again \cap (runq_running \cup sq_live) = {}
  /\ \A t \in again : CoveredTasks[t] \cap RunningNow = {}
  /\ moved \cap Undecided \subseteq again
  /\ pending_migrations' \subseteq SetsceneTids \cap (scenequeue_notcovered \ again)
  /\ update_tasks' = again
  /\ Restamp(moved) /\ QueueAgain(again) /\ DeferAgain(again)
  /\ sq_needed_harddeps' \subseteq sq_needed_harddeps
  /\ sq_harddep_deferred' \subseteq sq_harddep_deferred
  /\ holdoff_need_update' \in BOOLEAN
  /\ holdoff_need_update \/ again # {} => holdoff_need_update'
  /\ updated_taskhash_queue' = updated_taskhash_queue \cap RunningNow
  /\ pc = "read" /\ pc' = "setscene" /\ update_tasks = {} /\ ~SetsceneEnforce
  /\ UNCHANGED <<state, shutdown, options, taskVars, splitVars, sq_live, worker_up,
                 task_procs, sq_procs, pipe, runq_tasksrun>>

LEMMA MigrateIs ==
  ASSUME HashInv, Migrate
  PROVE  \E moved, again : Migrates(moved, again)
<1>1. PICK moved \in PossibleMoves :
        LET pending == pending_migrations \cup (moved \cap SetsceneTids)
            again   == TakenBack(pending)
            changed == moved # {} \/ again # {}
        IN  /\ pending_migrations' = StillPending(pending)
            /\ update_tasks' = again
            /\ Restamp(moved)
            /\ QueueAgain(again)
            /\ DeferAgain(again)
            /\ sq_needed_harddeps' = IF changed THEN {} ELSE sq_needed_harddeps
            /\ sq_harddep_deferred' = IF changed THEN {} ELSE sq_harddep_deferred
            /\ holdoff_need_update' = (holdoff_need_update \/ changed)
  BY DEF Migrate
<1> DEFINE pending == pending_migrations \cup (moved \cap SetsceneTids)
           again   == TakenBack(pending)
           changed == moved # {} \/ again # {}
<1>2. /\ pending_migrations' = StillPending(pending)
      /\ update_tasks' = again
      /\ Restamp(moved) /\ QueueAgain(again) /\ DeferAgain(again)
  BY <1>1
<1>3. sq_needed_harddeps' \subseteq sq_needed_harddeps
      /\ sq_harddep_deferred' \subseteq sq_harddep_deferred
  BY <1>1
<1>4. holdoff_need_update' = (holdoff_need_update \/ changed)  BY <1>1
<1>5. holdoff_need_update' \in BOOLEAN /\ (holdoff_need_update \/ again # {} => holdoff_need_update')
  BY <1>4, Zenon
<1>6. /\ pc = "read" /\ pc' = "setscene" /\ update_tasks = {} /\ MigrationDue
      /\ updated_taskhash_queue' = updated_taskhash_queue \ Processed
      /\ UNCHANGED <<state, shutdown, options, taskVars, splitVars, sq_live, worker_up,
                     task_procs, sq_procs, pipe, runq_tasksrun>>
  BY DEF Migrate
<1>7. updated_taskhash_queue' = updated_taskhash_queue \cap RunningNow
  BY <1>6 DEF Processed
<1>8. ~SetsceneEnforce
  BY <1>6 DEF MigrationDue, HashInv, EquivInv, NoReports
<1> HIDE DEF pending, again, changed
<1>9. /\ moved \subseteq Tasks \ (scenequeue_covered \cup sq_live)
      /\ pending \subseteq SetsceneTids /\ pending \cap CoveredOnly = {}
      /\ again \subseteq pending \ (runq_running \cup sq_live)
      /\ \A t \in again : CoveredTasks[t] \cap RunningNow = {}
      /\ moved \cap Undecided \subseteq again
      /\ StillPending(pending) \subseteq scenequeue_notcovered \ again
  <2>1. pending = pending_migrations \cup (moved \cap SetsceneTids)
        /\ again = TakenBack(pending)
    BY DEF pending, again
  <2>2. QED  BY <2>1, TakenBackIsOpen
<1>10. StillPending(pending) \subseteq SetsceneTids
  BY <1>9 DEF StillPending, HeldUp
<1>11. Migrates(moved, again)
  BY <1>2, <1>3, <1>5, <1>6, <1>7, <1>8, <1>9, <1>10 DEF Migrates
<1>12. QED  BY <1>11

LEMMA MigrateTyped ==
  ASSUME HashInv, NEW moved, NEW again, Migrates(moved, again)
  PROVE  TypeOK' /\ EquivTypeOK'
<1>1. TypeOK /\ EquivTypeOK  BY DEF HashInv, OrderInv, EquivInv
<1>2. /\ again \subseteq SetsceneTids /\ moved \subseteq Tasks
      /\ Restamp(moved) /\ QueueAgain(again) /\ DeferAgain(again)
      /\ pc' = "setscene"
      /\ UNCHANGED <<state, shutdown, options, taskVars, splitVars, sq_live, worker_up,
                     task_procs, sq_procs, pipe, runq_tasksrun>>
  BY DEF Migrates
<1>3. ControlTypes'  BY <1>1, <1>2 DEF TypeOK, ControlTypes
<1>4. MarkTypes'
  <2>1. /\ scenequeue_covered' \subseteq SetsceneTids /\ scenequeue_notcovered' \subseteq SetsceneTids
        /\ sq_running' \subseteq SetsceneTids /\ sq_buildable' \subseteq SetsceneTids
        /\ tasks_scenequeue_done' \subseteq Tasks
    BY <1>1, <1>2 DEF TypeOK, QueueAgain, StartedStill
  <2>2. sq_harddep_deferred' \subseteq SetsceneTids /\ holdoff_need_update' \in BOOLEAN
    BY <1>1 DEF TypeOK, Migrates
  <2>3. QED  BY <2>1, <2>2 DEF MarkTypes
<1>5. WaitTypes'
  <2>1. DOMAIN sq_deferred' \subseteq SetsceneTids
    BY <1>1, <1>2 DEF TypeOK, DeferAgain
  <2>2. outrightfail' \subseteq SetsceneTids  BY <1>1, <1>2 DEF TypeOK, QueueAgain
  <2>3. sq_needed_harddeps' \subseteq SetsceneTids  BY <1>1 DEF TypeOK, Migrates
  <2>4. QED  BY <2>1, <2>2, <2>3 DEF WaitTypes
<1>6. SetsceneTypes'
  <2>1. sqdone' = (sqdone /\ again = {})  BY <1>2 DEF QueueAgain
  <2>2. sqdone' \in BOOLEAN  BY <2>1, Zenon
  <2>3. QED  BY <1>1, <1>2, <2>2 DEF TypeOK, SetsceneTypes
<1>7. ProcTypes'
  <2>1. stamped' \subseteq Tasks /\ sq_stamped' \subseteq SetsceneTids
    BY <1>1, <1>2 DEF TypeOK, Restamp
  <2>2. QED  BY <1>1, <1>2, <2>1 DEF TypeOK, ProcTypes
<1>8. TypeOK'  BY <1>1, <1>2, <1>3, <1>4, <1>5, <1>6, <1>7, UnchangedTypes, TypeGroupsAfter
<1>9. EquivTypeOK'  BY <1>1, <1>2 DEF EquivTypeOK, Migrates
<1>10. QED  BY <1>8, <1>9

LEMMA MigrateOrdered ==
  ASSUME HashInv, NEW moved, NEW again, Migrates(moved, again)
  PROVE  OrderParts'
<1>1. /\ again \subseteq SetsceneTids /\ again \cap CoveredOnly = {}
      /\ again \cap (runq_running \cup sq_live) = {}
      /\ \A t \in again : CoveredTasks[t] \cap RunningNow = {}
      /\ QueueAgain(again) /\ DeferAgain(again) /\ pc' = "setscene"
      /\ holdoff_need_update \/ again # {} => holdoff_need_update'
      /\ UNCHANGED <<taskVars, splitVars, sq_live, task_procs, sq_procs, pipe>>
  BY DEF Migrates
<1>2. Resolved' = Resolved \ again /\ sq_running' = sq_running \ again
  BY <1>1, Reopened DEF QueueAgain, StartedStill
<1>3. BusyTasks' = BusyTasks  BY <1>1, Busy, BusyAfter
<1>4. BusyTasks \subseteq RunningNow
  BY DEF HashInv, OrderInv, Started, OnceInv, BusyOnce, RunningNow
<1>5. Ordered' /\ Started' /\ Delivered' /\ StampsApart'
  BY <1>1, <1>3 DEF HashInv, OrderInv, Ordered, Started, Delivered, StampsApart, taskVars
<1>6. FateOpen'
  <2>1. DOMAIN sq_deferred' \subseteq DOMAIN sq_deferred \cup again
    BY <1>1 DEF DeferAgain
  <2>2. \A s \in sq_live : HardDepsRev[s] \subseteq Resolved \ again
    BY <1>1 DEF HashInv, EquivInv, FetchesBackedUp, CoveredOnly, Resolved
  <2>3. QED  BY <1>1, <1>2, <2>1, <2>2 DEF HashInv, OrderInv, FateOpen
<1>7. Apart'
  <2>1. \A s \in again : ({s} \cup CoveredTasks[s]) \cap BusyTasks = {}
    BY <1>1, <1>4 DEF RunningNow
  <2>2. QED  BY <1>2, <1>3, <2>1 DEF HashInv, OrderInv, Apart
<1>8. HeldBack'
  <2>1. CASE again # {}  BY <1>1, <2>1 DEF HeldBack
  <2>2. CASE again = {}
    BY <1>1, <1>2, <2>2 DEF HashInv, OrderInv, HeldBack, splitVars, taskVars
  <2>3. QED  BY <2>1, <2>2
<1>9. QED  BY <1>5, <1>6, <1>7, <1>8 DEF OrderParts

LEMMA MigrateEquiv ==
  ASSUME HashInv, NEW moved, NEW again, Migrates(moved, again)
  PROVE  EquivInv'
<1>1. /\ Resolved' = Resolved \ again /\ Undecided' = Undecided \cup again
      /\ CoveredOnly' = CoveredOnly
      /\ scenequeue_notcovered' = scenequeue_notcovered \ again
  BY Reopened DEF Migrates, QueueAgain
<1>2. UNCHANGED <<options, runq_running, runq_complete, tasks_covered, holdoff_tasks, sq_live,
                  runq_tasksrun>>
      /\ RunningNow' = RunningNow /\ pc' = "setscene"
  BY DEF Migrates, taskVars, splitVars, RunningNow
<1>3. FetchesBackedUp' /\ NoexecCovered' /\ CoveredForGood'
  BY <1>1, <1>2 DEF HashInv, EquivInv, FetchesBackedUp, NoexecCovered, CoveredForGood
<1>4. GivenUpWith'
  <2> SUFFICES ASSUME NEW t \in Undecided', t \notin update_tasks',
                      HardDepsRev[t] \cap scenequeue_notcovered' # {}
               PROVE  SetsceneStampPresent(t)'
    BY DEF GivenUpWith
  <2>1. t \in Undecided /\ t \notin again  BY <1>1 DEF Migrates
  <2>2. SetsceneStampPresent(t)
    BY <1>1, <2>1 DEF HashInv, EquivInv, GivenUpWith, Migrates
  <2>3. t \notin moved  BY <2>1 DEF Migrates
  <2>4. QED  BY <2>2, <2>3 DEF Migrates, Restamp, SetsceneStampPresent
<1>5. OpenUntouched'
  BY <1>1, <1>2 DEF HashInv, EquivInv, OpenUntouched, Migrates
<1>6. PendingGivenUp' /\ TakenBackOpen'
  BY <1>1, <1>2 DEF PendingGivenUp, TakenBackOpen, Migrates
<1>7. SplitHonest'
  <2>1. CASE holdoff_need_update /\ pc # "task"
    BY <1>2, <2>1 DEF SplitHonest, Migrates
  <2>2. QED  BY <1>1, <1>2, <2>1 DEF HashInv, EquivInv, SplitHonest
<1>8. ReportsSettled'
  BY <1>2 DEF ReportsSettled, Migrates, RunningNow
<1>9. NoReports'  BY <1>2 DEF NoReports, Migrates, SetsceneEnforce
<1>10. EquivTypeOK'  BY MigrateTyped
<1>11. QED  BY <1>3, <1>4, <1>5, <1>6, <1>7, <1>8, <1>9, <1>10 DEF EquivInv

\* Reopening setscene tasks keeps everything: those it reopens stand for nothing that
\* is being built, what a fetch needs is never among them, and the split is computed anew.
LEMMA MigrateStep ==
  ASSUME HashInv, Migrate
  PROVE  HashInv' /\ GraphStep
<1>1. PICK moved, again : Migrates(moved, again)  BY MigrateIs
<1>2. OrderInv'  BY <1>1, MigrateTyped, MigrateOrdered DEF OrderInv, OrderParts
<1>3. UNCHANGED <<options, taskVars, task_procs, pipe>> /\ ~SetsceneEnforce
  BY <1>1 DEF Migrates
<1>4. BusyTasks' = BusyTasks  BY <1>3, Busy, BusyAfter
<1>5. OnceInv'
  <2>1. BusyOnce'  BY <1>3, <1>4 DEF HashInv, OnceInv, BusyOnce, taskVars
  <2>2. SplitIsFinal'  BY <1>3 DEF SplitIsFinal, SetsceneEnforce
  <2>3. RefusedForGood'
    BY <1>3 DEF HashInv, OnceInv, RefusedForGood, SetsceneEnforce, taskVars
  <2>4. QED  BY <2>1, <2>2, <2>3 DEF OnceInv
<1>6. GraphStep  BY <1>3, NoGraphStep DEF taskVars
<1>7. QED  BY <1>1, <1>2, <1>5, <1>6, MigrateEquiv DEF HashInv

-----------------------------------------------------------------------------
(* The theorems. *)

LEMMA InitHash == ASSUME EquivInit PROVE HashInv /\ TaskGraphOf!Init
<1>1. Init /\ updated_taskhash_queue = {} /\ pending_migrations = {} /\ runq_tasksrun = {}
      /\ update_tasks = {}
  BY DEF EquivInit
<1>2. /\ pc = "loop" /\ holdoff_need_update = TRUE /\ runq_running = {} /\ runq_complete = {}
      /\ scenequeue_notcovered = {} /\ sq_live = {}
      /\ scenequeue_covered = {t \in SetsceneTids : SetsceneStampPresent(t)}
  BY <1>1, Zenon DEF Init
<1>3. OrderInv /\ OnceInv /\ TaskGraphOf!Init  BY <1>1, InitOrdered, InitOnce
<1>4. EquivTypeOK /\ PendingGivenUp /\ TakenBackOpen /\ ReportsSettled /\ NoReports
  BY <1>1 DEF EquivTypeOK, PendingGivenUp, TakenBackOpen, ReportsSettled, NoReports
<1>5. FetchesBackedUp /\ GivenUpWith /\ CoveredForGood /\ SplitHonest
  BY <1>2 DEF FetchesBackedUp, GivenUpWith, CoveredForGood, SplitHonest
<1>6. NoexecCovered  BY <1>2 DEF NoexecCovered, CoveredOnly, SetsceneStampPresent
<1>7. OpenUntouched  BY <1>2 DEF OpenUntouched, RunningNow
<1>8. QED  BY <1>3, <1>4, <1>5, <1>6, <1>7 DEF HashInv, EquivInv

LEMMA StepHash ==
  ASSUME HashInv, [EquivNext]_hvars
  PROVE  HashInv' /\ GraphStep
<1>1. CASE Migrate  BY <1>1, MigrateStep
<1>2. CASE SettleTakenBack  BY <1>2, SettleTakenBackStep
<1>3. CASE HoldoffWaiting  BY <1>3, HoldoffWaitingStep
<1>4. CASE ConcludeWaiting  BY <1>4, ConcludeWaitingStep
<1>5. CASE ReadUpdate \/ ReadExitRecorded  BY <1>5, ReadRecords, PlainStep
<1>6. CASE NextTaskRecorded  BY <1>6, TaskRecords, PlainStep
<1>7. CASE \/ EndReadSettled \/ HoldoffSettled \/ ConcludeSettled
           \/ Unchanged(\/ BeginCall \/ NextSetscene \/ NoSetscene \/ NoTask \/ WaitForWorkers
                        \/ ForceDeferred \/ CleanUp \/ StopAgain \/ Teardown)
  BY <1>7, OtherRecords, PlainStep
<1>8. CASE \/ EquivWorkerStep
           \/ (StopGracefully \/ StopNow \/ Terminated) /\ UNCHANGED equivVars
           \/ UNCHANGED hvars
  BY <1>8, OutsideRecords, PlainStep
<1>9. QED
  BY <1>1, <1>2, <1>3, <1>4, <1>5, <1>6, <1>7, <1>8 DEF EquivNext, EquivServerStep

\* HashInv is inductive.
THEOREM HashInvariant == EquivSpec => []HashInv
<1>1. HashInv /\ [EquivNext]_hvars => HashInv'  BY StepHash
<1>2. EquivInit => HashInv  BY InitHash
<1>3. QED  BY <1>1, <1>2, PTL DEF EquivSpec

\* The variables of hash equivalence keep their types.
THEOREM EquivTypes == EquivSpec => []EquivTypeOK
<1>1. HashInv => EquivTypeOK  BY DEF HashInv, EquivInv
<1>2. QED  BY <1>1, HashInvariant, PTL

\* No task that was skipped as covered needs to run after all: the setscene tasks that
\* covered it are never taken back.
THEOREM NothingRerun == EquivSpec => []NeverNeedsRerun
<1>1. ASSUME HashInv PROVE NeverNeedsRerun
  <2> SUFFICES ASSUME NEW t \in update_tasks, NEW x \in CoveredTasks[t] \cap runq_complete,
                      x \notin runq_tasksrun
               PROVE  FALSE
    BY DEF NeverNeedsRerun
  <2>1. t \in Undecided  BY <1>1 DEF HashInv, EquivInv, TakenBackOpen
  <2>2. t \in CoveredOnly  BY <1>1, <2>1 DEF HashInv, EquivInv, CoveredForGood, Undecided
  <2>3. QED  BY <2>1, <2>2 DEF Undecided, CoveredOnly, Resolved
<1>2. QED  BY <1>1, HashInvariant, PTL

\* Also when setscene tasks are reopened, a task is taken up only after all it depends on.
THEOREM MovedInOrder == EquivSpec => []DependencyOrder
<1>1. HashInv => DependencyOrder
  BY DEF HashInv, OrderInv, DependencyOrder, Ordered, Started
<1>2. QED  BY <1>1, HashInvariant, PTL

\* Also when setscene tasks are reopened, none fetches what is being built.
THEOREM MovedApart == EquivSpec => []NoConcurrentRebuild
<1>1. HashInv => NoConcurrentRebuild  BY OrderMeansApart DEF HashInv
<1>2. QED  BY <1>1, HashInvariant, PTL

\* With hash equivalence, too, the executor implements TaskGraph: no task is built twice,
\* whatever becomes of its hash.
THEOREM EquivKeepsThePromise == EquivSpec => ImplementsTaskGraph
<1>1. HashInv /\ [EquivNext]_hvars => GraphStep  BY StepHash
<1>2. EquivInit => TaskGraphOf!Init  BY InitHash
<1>3. QED
  BY <1>1, <1>2, HashInvariant, PTL DEF EquivSpec, ImplementsTaskGraph, TaskGraphOf!Spec, GraphStep

\* What waits for a change to be dealt with cannot be ready: what reported it is still
\* running, and so is nothing behind it.
LEMMA ReadyIsNotBehind ==
  ASSUME OrderInv, NEW S, S \cap runq_complete = {}, NEW t \in ReadyTasks
  PROVE  t \notin BehindAny(S)
<1> DEFINE B == {x \in Tasks : ~(Depends[x] \subseteq runq_complete)}
<1>1. ASSUME NEW r \in Tasks, Depends[r] \cap (S \cup B) # {} PROVE r \in B
  <2>1. PICK d \in Depends[r] : d \in S \cup B  BY <1>1
  <2>2. d \notin runq_complete  BY <2>1 DEF OrderInv, Ordered, Started
  <2>3. QED  BY <2>1, <2>2
<1>2. t \notin B  BY DEF ReadyTasks, OrderInv, Ordered
<1>3. B \in SUBSET Tasks  OBVIOUS
<1>4. QED  BY <1>1, <1>2, <1>3 DEF BehindAny

LEMMA OnlyStartTaskStarts ==
  ASSUME [EquivNext]_hvars, NEW t \in task_procs' \ task_procs
  PROVE  pc = "task" /\ t \in ReadyTasks
<1>1. CASE NextTaskRecorded
  <2>1. PICK u \in ReadyTasks :
          RefuseTask(u) \/ SkipTask(u) \/ RunNoexecTask(u) \/ StartTask(u) \/ SendTaskFails(u)
    BY <1>1 DEF NextTaskRecorded, NextTask
  <2>2. task_procs' \subseteq task_procs \cup {u}
    BY <2>1 DEF RefuseTask, SkipTask, RunNoexecTask, StartTask, SendTaskFails
  <2>3. QED  BY <1>1, <2>2 DEF NextTaskRecorded, NextTask
<1>2. CASE \/ ReadUpdate \/ ReadExitRecorded \/ EndReadSettled \/ Migrate \/ SettleTakenBack
           \/ HoldoffSettled \/ HoldoffWaiting \/ ConcludeSettled \/ ConcludeWaiting
  <2>1. task_procs' = task_procs
    BY <1>2 DEF ReadUpdate, ReadExitRecorded, ReadExit, EndReadSettled, Unchanged, EndRead,
                Migrate, SettleTakenBack, HoldoffSettled, Holdoff, HoldoffWaiting,
                ConcludeSettled, Conclude, ConcludeWaiting, vars, procVars
  <2>2. QED  BY <2>1
<1>3. CASE Unchanged(\/ BeginCall \/ NextSetscene \/ NoSetscene \/ NoTask \/ WaitForWorkers
                     \/ ForceDeferred \/ CleanUp \/ StopAgain \/ Teardown)
  <2>1. task_procs' = task_procs
    BY <1>3 DEF Unchanged, BeginCall, NextSetscene, NoSetscene, NoTask, WaitForWorkers,
                ForceDeferred, CleanUp, StopAgain, Teardown, procVars
  <2>2. QED  BY <2>1
<1>4. CASE \/ EquivWorkerStep
           \/ (StopGracefully \/ StopNow \/ Terminated) /\ UNCHANGED equivVars
           \/ UNCHANGED hvars
  <2>1. task_procs' \subseteq task_procs
    BY <1>4 DEF EquivWorkerStep, WorkerStep, TaskExits, SetsceneExits, WorkerDies,
                StopGracefully, StopNow, Terminated, hvars, vars, procVars
  <2>2. QED  BY <2>1
<1>5. QED  BY <1>1, <1>2, <1>3, <1>4 DEF EquivNext, EquivServerStep

\* Nothing is built with a hash that is known to be out of date.
THEOREM BuiltFresh == EquivSpec => FreshBuild
<1>1. ASSUME HashInv, [EquivNext]_hvars
      PROVE  \A t \in task_procs' \ task_procs : t \notin BehindAny(updated_taskhash_queue)
  <2> SUFFICES ASSUME NEW t \in task_procs' \ task_procs
               PROVE  t \notin BehindAny(updated_taskhash_queue)
    OBVIOUS
  <2>1. pc = "task" /\ t \in ReadyTasks  BY <1>1, OnlyStartTaskStarts
  <2>2. updated_taskhash_queue \cap runq_complete = {}
    BY <1>1, <2>1 DEF HashInv, EquivInv, ReportsSettled
  <2>3. QED  BY <1>1, <2>1, <2>2, ReadyIsNotBehind DEF HashInv
<1>2. QED  BY <1>1, HashInvariant, PTL DEF EquivSpec, FreshBuild
=============================================================================
