# A TLA+ verification of rpi-plc-hmi

The repository builds, with Yocto, the Linux image of an industrial panel: a
Raspberry Pi that shows and commands a conveyor driven by a PLC. It holds three
kinds of things: the product's own application (`meta-plc`), the layers with the
recipes of everything else on the image, and BitBake, the build system that runs
these recipes. State that several actors change is found in these places, and this
project is about them:

* the **HMI application**, where two threads share a serial line to the PLC;
* **BitBake's run queue**, where one server process schedules the tasks of a build
  on worker processes and decides which of them it can fetch instead of building,
  with the **hash equivalence** that makes it change its mind while tasks run;
* the **BitBake server**, which the commands in a build directory start, find and
  share through a lock file and a socket;
* the **hash equivalence server** and the **PR server**, whose requests wait for an
  upstream server while others change their tables.

All are modelled in TLA+, checked with TLC on small instances, and their main
safety properties are proved with TLAPS for all instances.

| Module | What it is | Code |
|---|---|---|
| `HMI` | worker thread, GUI thread, Modbus client, shutdown | `meta-plc/recipes-app/hmi-app/files/hmi_fx_ai.py` |
| `SceneQueue` | the graph of setscene tasks: what the sets *are* (the abstract definitions) | `bitbake/lib/bb/runqueue.py`, `build_scenequeue_data`, `scenequeue_updatecounters` |
| `BuildSceneQueue` | the algorithm that computes that graph | `build_scenequeue_data` |
| `RunQueue` | the executor: both task queues, the workers, stop and kill | `RunQueueExecute`, `RunQueue._execute_runqueue`, `runQueuePipe.read`, `BBCooker.buildTargets` |
| `TaskGraph` | what a build promises about its tasks; `RunQueue` implements it | `task_skip`, `task_complete`, `task_fail`, `execute` |
| `HashEquiv` | hash equivalence, on top of `RunQueue` | `process_possible_migrations`, `report_unihash` |
| `BBServer` | the server process and the commands that meet at it | `bitbake/lib/bb/server/process.py`, `main.py`, `utils.py`, `command.py` |
| `HashServer` | the tables, requests and backfill worker of the hash server | `bitbake/lib/hashserv/server.py`, `sqlite.py` |
| `PRServer` | the numbering of package revisions | `bitbake/lib/prserv/serv.py`, `db.py`, `__init__.py` |
| `MCHMI`, `MCBuildSceneQueue`, `MCRunQueue`, `MCHashEquiv`, `MCBBServer`, `MCHashServer`, `MCPRServer` | instances for TLC | |
| `HMI_proofs`, `BuildSceneQueue_proofs`, `RunQueue_proofs`, `Outcome_proofs`, `HashEquiv_proofs`, `BBServer_proofs`, `HashServer_proofs`, `PRServer_proofs` | theorems | |

To repeat the checks: `tlc -config <cfg> <MC module>` for the runs of
`PROJECT.json`, `tlapm <module>` for the eight `_proofs` modules.

## 1. Inventory

### The HMI application

State: the worker thread's place in its loop, its cycle counter and sample; the
Modbus client (one serial port, used by both threads without a lock); the PLC's
speed register; the queue of Qt signals; the labels, the "apply" button and the
graph window.
Operations: the worker reads the PLC twice a second, posts the sample, and every
tenth cycle runs the AI model and posts a suggested speed. The GUI thread delivers
the signals, one at a time, and writes to the PLC from two click handlers. Closing
the window clears a flag, closes the port and waits for the worker.
Hard: a read reopens a port that the shutdown has closed; signals posted while the
GUI thread is blocked; a suggestion arriving around a click; a write whose answer
is lost; a model that recommends any integer.
Correct when: only safe commands reach the drive; what is applied is what was
shown; nothing moves once the window is closed; the shutdown ends.

### BitBake's run queue

State: the task graph (fixed), and for each task whether it is buildable, running,
complete or failed; for each *setscene* task (the variant that fetches a task's
output from a cache) whether it is buildable, running, covered, not covered, or
deferred behind one with the same hash; the tasks held off while that is open; the
workers' processes and pipes; the stamps on disk; the state of the whole build.
Operations: the server's idle loop calls `_execute_runqueue` again and again.
A call reads exit codes, settles at most one setscene task, recomputes what is
covered, and starts, skips or refuses at most one real task.
Hard: exit codes of several workers arrive in any order between these steps;
failure with and without `-k`; hard dependencies between setscene tasks; deferred
tasks released, failed or forced; stop and kill requests; counters that several
places change; recomputed sets that may be stale.
Correct when: dependencies come first; nothing is built while it is fetched;
nothing needed is passed over; the thread limit holds; every build ends, and
reports what happened.

### Hash equivalence in the run queue

State: the tasks whose unihash has changed and not been dealt with; the setscene
tasks that would move but are held up by something running; which tasks really ran.
Operations: a running task reports what it built, and the server may answer with
another unihash; at the start of a call `process_possible_migrations` gives the
tasks behind it new hashes and takes setscene tasks that were given up back into the
queue.
Hard: what was decided becomes open again while tasks run; a change may not be dealt
with while its task runs; deferred tasks follow other leaders; the stamps are named
by the hash that changes.
Correct when: the run queue's promises still hold; nothing is built with a hash known
to be stale; nothing skipped as covered has to be run after all.

### Its input: the setscene graph

`build_scenequeue_data` collapses the graph of all tasks onto the setscene tasks.
It walks the graph in rounds, changing the sets it walks by, in the order of a dict.
Correct when the result does not depend on that order, is the graph the executor
relies on, and the code's own sanity check never fires.

### The BitBake server

State: `bitbake.lock` (which inode the name leads to, who holds a lock on which),
`bitbake.sock`, the pipes of each connection; the place of each command in
`setup_bitbake` and of each server in its life; the client at hand and those waiting;
the asynchronous command, the idle thread, the cooker's request to stop.
Operations: a command takes the lock and starts a server, which inherits the lock, or
connects to the one there is, or polls; the server takes one client after the other,
runs their commands, and ends by itself, when told to, or is killed.
Hard: the lock file is removed and created again under those who open it; a server on
its way out meets the next one; clients die with a command running; every attempt is
retried; processes may be killed between any two steps.
Correct when: one process owns the lock; the socket is that of the server that runs;
no client's command or stop request meets another client; everybody ends.

### The hash equivalence server

State: the unihash of each task hash with its garbage collection mark, the outputs in
order of time; the requests that wait for upstream; the queue of the backfill worker.
Operations: lookups (single and streamed), reports, removal, garbage collection by mark
and sweep, the backfill worker.
Hard: between a question to upstream and its answer anything may be stored, and the
answer may be old when it comes; a row may
arrive, be marked or be removed during a collection; upstream learns, forgets, cannot be
reached, or the server restarts.
Correct when: those who report a task hash, find it, or bring its row from upstream are told
one unihash; the first producer of an output decides; a sweep spares what was marked or stored since; who waits is answered.

### The PR server

State: the numbers given out, each with the checksum it was given for, per version and
architecture of a package; the requests that wait for an upstream server.
Operations: `get-pr`, in "history" mode (a checksum keeps its number) or in "no history"
mode (what is built last has the greatest); imports.
Hard: a request with an upstream server asks it up to three questions, and requests of
others are answered between them, here and there; each connection asks upstream over one
of its own, so answers may overtake each other; numbers are compared part by part in
one place and as texts in another.
Correct when: packages with different inputs never share a number, but for what an
administrator imports; a new number is above those given out before it was asked for; in "no history" mode it never goes down.

### Everything else

`PROJECT.json` lists the other components. In short:

* *concurrent, planned* (section 2): the worker process.
* *sequential text and data processing*, where a model checker helps little: parser,
  data store, cache, signature generator, providers, fetcher.
* *no logic of its own*: recipes, layers, images, the RAUC configuration (the
  update client is built from elsewhere), developer tools, user interfaces, Toaster.

### How the parts interact

`build_scenequeue_data` computes its sets once, before the first call of `execute()`.
`BuildSceneQueue` shows them equal to the definitions of `SceneQueue`, which
`RunQueue` extends: so the executor is checked with the sets the code really
computes, for any graph. The executor talks to the workers over pipes (modelled: a
task is running, then its exit code is in the pipe, then read) and to the cooker,
which may ask it to stop between two calls. `HashEquiv` puts its steps around those
of `RunQueue`, in the order of `execute()`; what the hash server answers a build is any
change of hash, so what `HashServer` promises is not needed there. `BBServer` sees a
build only as an asynchronous command that ends. The PR server is asked by packaging
tasks, whose contents the executor does not see, and shares no state with the others.
The HMI is a program on the image and shares nothing with the build system at run time.

## 2. Plan

Done, in this order: `HMI`, `SceneQueue`, `RunQueue`, `BuildSceneQueue`, `HashEquiv`,
`BBServer`, `HashServer`, `TaskGraph`, `PRServer`, with the proofs of section 6. Left:

1. *Proofs about the end of a build with hash equivalence*: `HonestOutcome` and `NoOrphans`
   for `HashEquiv`, where a settled setscene task may be opened again after the setscene
   half was declared over (`sqdone`).
2. *The fakeroot worker*, which is started when the first task needs it (2315, 2411)
   and may fail to (2412-2416).

## 3. How the models correspond to the code

### HMI

`worker` is the place in `run()`, `gui` the place in the GUI thread's current
handler; every action is the code between two points where the other thread can
be seen. Emitting a signal from the worker appends to `queue` (a queued
connection); the error that `write_speed` reports is emitted in the GUI thread
itself and is a direct call. A Modbus request ends with a good answer, an
error answer or an exception; an exception of a write leaves the register old or
new, as the answer may be lost after the PLC has obeyed. `RawCommand` is
`calculate_raw_command` in integer arithmetic.

Bounds: `MaxBacklog` (signals queued when a cycle begins), `AiPeriod` 2 in place
of 10. Two manual speeds, and AI speeds below and above the working range, reach
every branch of the conversion; the proofs are for any.

### RunQueue

`pc` is the place in the call:

    loop -> read -> setscene -> holdoff -> task -> idle -> drain -> loop ... -> teardown -> end

* `read`: `ReadExit` takes one exit code from the pipe and runs all that follows from
  it (`task_completeoutright` and the release of deferred tasks, `task_fail`, or the
  setscene counterparts with `scenequeue_updatecounters`). Whether an exit code is
  taken for that of a setscene task is decided as in the code, by `sq_live`.
* `setscene`: `NextSetscene` treats the first candidate in the sorted order, one
  disjunct per branch of the loop: passed over as unneeded, waiting for hard
  dependencies, failed outright, present already, or started.
* `holdoff`: `update_holdofftasks`, and the split into covered and not covered tasks.
* `task`: `NextTask`: refused (`BB_SETSCENE_ENFORCE`), skipped, run as noexec, or
  started. Any ready task may be the next, which stands for every scheduler and
  priority. `NoTask` also stands for the pressure check, which holds tasks back
  only while some are active.
* `idle`: wait for the workers, force a deferred task, or conclude.

The command line (`options`) and the stamps left by earlier builds are chosen in
the initial state. `StopGracefully`, `StopNow` and `StopAgain` are the cooker's
requests; they happen between calls, as in the code.

Bounds: `ActiveFloor`. `stats.active` sinks without end in a case of section 5. The
model stops it where even starting every task cannot lift it above zero; the tests
of the code only compare it with zero and with the thread limit, so from there
on nothing can differ.

The worker may die at any moment (`WorkerDies`, if the constant `WorkersMayDie` says so),
and its tasks with it. The exit codes already in the pipe are still read. Each call of
`read` looks after it first (`Polled`) and, when it is gone, ends the build through
`finish_now`, in the middle of the call, which goes on: what it reads may set the state
back to `cleanup`, and a task it tries to send raises an exception (`SendSetsceneFails`,
`SendTaskFails`, then `raised`), which ends the build in `execute_runqueue` (1656-1678).
The workers of several multiconfigs are one here: `finish_now` tells those that live to
kill what they run.

Not in the model: the fakeroot worker, `number_threads` of single tasks, and the stamp
cache: the model reads stamps as they are. Circular graphs are excluded by an assumption:
`prepare()` rejects them (`calculate_task_weights`, 1110-1118).

### TaskGraph

The abstract specification knows three sets: the tasks taken up, done and failed. In
`RunQueue` these are `runq_running` (to which the code only adds), `runq_complete` and
`failed_tids`; `ImplementsTaskGraph` is the abstract `Spec` under this mapping. Everything
else in the executor, setscene tasks, deferral, holdoff, exit codes, stop requests, must
not show: it either makes one abstract step or changes none of the three.

### HashEquiv

A unihash is abstracted to whether it has just changed: the code compares unihashes and
looks outputs up under them, it never orders or combines them. `Migrate` and
`SettleTakenBack` are the two halves of one call of `process_possible_migrations`;
while `update_tasks` is not empty the second half is the only step of the server.
Which tasks move with a change is any set in which each has a reason to (the hash server
may know equivalents of the others); a task that is covered keeps its hash, but passes the
change on if the server does not take the report that the two are equivalent; which stamps exist under the new hashes is chosen
from `FoundStamps`; which setscene tasks of other multiconfigs now hash alike, from
`SameRecipe`. The event of a changed hash is written to the pipe before the exit code of
its task, so `ReadUpdate` is possible while the exit code is outstanding. The
actions of `RunQueue` that look at changed hashes appear in two forms (`HoldoffSettled`
and `HoldoffWaiting`, `ConcludeSettled` and `ConcludeWaiting`).

### BBServer

`cpc` and `spc` are the places of the commands and servers. The lock file is the inode its
name leads to (`lockPath`), the inode each process has opened, and the one it holds
a lock on; a forked server inherits its client's. A connection is named by its client
and the attempt that made it. Its pipes hold at most one command and one reply,
since a client waits for the reply (only `terminateServer` has none). Steps that nobody
can look between are one action: unlink and unlock, the join of the idle thread,
closing a socket with its backlog. Timeouts that fire while an answer is on its way
are *faults*, as are killed processes, a function that raises and a child left behind
with the lock; `Scenarios` says how many there may be. Timeouts that have nothing to wait
for are not. Server identities are those of live processes, so two are enough for a
server and its successor, and are used again.

### HashServer

The database is called synchronously, so a request is one step up to its question
to upstream and one from the answer on. Between them `UpstreamAnswers` (for the backfill
worker `UpstreamAnswersWorker`) looks the question up in upstream's table: what it `found`
stays with the request, and is old if upstream or the table here changes before the
request goes on. Rows of outputs are a set with `older`, their order of creation: a
row copied from upstream keeps its time and may land anywhere. `cursor.lastrowid`
says of an ignored insertion too that it made a row, hence a repeated report asks
again. `told` and `kept` are history: what clients were told, and what was marked or
stored during a collection. `told` holds the answers read from the table (of reports, and of
lookups that find a row) and those of upstream that a lookup stores (`PassOn`). Two kinds of
answers are not in it, because the code answers with what upstream said whatever the table
says: a lookup whose answer found another row here (340, 347-350, 372-374), and a streamed
lookup, whose row the backfill worker stores later, if at all (426-429). A lookup that finds nothing changes nothing and has no
action. A dropped connection is an idle one again: its client reconnects.
`Restart` stands for a stop, a kill, and a backfill worker that cannot reach upstream,
since its exception ends the server. `remove` and `gc-mark` select by one column,
as the tools do. Bounds: `MaxQueue`, and `interventions` (how often administrators,
equivalence reports and faults take part).

### PRServer

One version of a package for one architecture is modelled, since every query selects by
both. A revision is the sequence of its parts: `"3.0"` is `<<3, 0>>`. The upstream server has
none itself, so its numbers have one part and those made behind it have two.
Without an upstream server a request is one step (`GetPr`); with one it is `AskMax`, which
looks the checksum up first, and one step per answer, with the `pc` of the question it
waits for. `UpstreamAnswers` is a step of its own: it reads upstream's table, and the answer
stays with the connection until the request goes on, while others are answered, here and
upstream. `ImportOne` stores any row, also one whose number another checksum has.
`Smaller`, `Extends` and `Above` are the comparisons of `__init__.py`: "1" and "1.0" are
each greater than the other there, so `Maxima` is the set of all results that an order
of the rows can produce. `TextGreater` compares the same numbers as texts, as line 184 of
`db.py` does. A request that fails drops its connection, which is then an idle one again.
`last` and `before` are history: the last number given out in "no history" mode, and what
was in the table when a connection's request came. Bound: `limit`, the greatest part of a
number.

### BuildSceneQueue

The graph, the setscene tasks and the targets are chosen in the initial state, so
that one run covers all of them. `Process` is one iteration of the loop over the
end points (any one that is left: the dict's order), `NextRound` the recursive
call, `UnskippablePass` one turn of the `while` loop. Circular graphs are excluded by
an assumption, as the code rejects them before (`calculate_task_weights`).

## 4. What is checked

| Run | Instance | Shows |
|---|---|---|
| `hmi` | two manual and two AI speeds, backlog 0 | safe commands, honest offers, quiet after closing; the shutdown ends, a suggestion reaches the operator |
| `rq_twin` | two multiconfigs with equal hashes, a shared work directory, a noexec task, a hard dependency, three command lines; the worker may die | the executor implements the abstract task graph; deferral; with `-k` all that can be built is |
| `rq_shared` | a library under two setscene tasks, headers needed directly; 3 command lines, 4 combinations of left-over stamps; the worker may die | nothing needed is passed over; the thread limit; the build ends, also with a dead worker; otherwise with an honest report and no orphan |
| `sq_build` | all acyclic graphs of 5 tasks, all choices of setscene tasks | the computed graph is the defined one; no order matters; the sanity check passes |
| `he_moved` | an application two multiconfigs build on one library; any changed hash at any moment | setscene tasks come back while others run: the abstract task graph is still implemented, nothing is built with a stale hash, the build ends |
| `bb_server` | two commands that build, or one and `bitbake -m`; two attempts each (one for `-m`), one fault | one owner of the lock, the right socket, clean handovers, everybody ends |
| `hs_server` | three scenarios: reports alone, two builders with an upstream that learns and forgets, a collection with two marks | one unihash per task hash for those `told` speaks of, the first output decides, sweeps spare what is kept, waiting ends |
| `pr_server` | one server alone, with an import and two digits; two builders behind an upstream server; a package upstream may not know | with answers of any age: nothing shares a number unless imported so, new numbers are above the old |
| `hmi_status`, `rq_covered`, `rq_refused`, `pr_decrease` | | violations, section 5 |

The properties, beside one `TypeOK` per module:

* `CommandInRange`, `OfferIsWhatIsShown`, `QuietAfterClose` (an action property),
  `CloseCompletes`, `SuggestionArrives` for the HMI.
* `DependencyOrder`: started or skipped only after all dependencies.
  `ThreadLimit`: the counter is the truth and the limit holds.
  `NoConcurrentRebuild`: what is being fetched is not being built, and tasks with one
  stamp do not run together. `InputsPresent`: whatever is built finds its inputs,
  built or fetched. `HonestOutcome`: "complete" means everything, "failed" means a
  task failed. `NoOrphans`: nothing is left running. `KeepsGoing`: with `-k` only the
  failed tasks and those behind them are missing. `CoveredOrNot`: the code's own
  sanity check (section 5). `Terminates`.
  `ImplementsTaskGraph`: the refinement of section 3.
* `ResultIsMeant`, `NeverBadlyWrong`, `Terminates` for `build_scenequeue_data`.
* `FreshBuild`: nothing is built behind a hash that is known to have changed.
  `NeverNeedsRerun`: the code's "marked as completed but now needing to rerun" never
  happens.
* `LockExclusive`: two processes never own `bitbake.lock`. `SocketStays`: `bitbake.sock` leads
  to the server that runs. `CleanHandover`: no command of a previous client goes on while
  the server listens to the next. `StopsOwnBuild`: a request to stop never hits the next
  client. `EveryoneEnds`.
* `AnswersAgree`: all whose answers `told` holds (section 3) are told what is in the table,
  until the row is removed. `OldestDecides`: the first task
  hash with an output decides its unihash. `SweepKeeps`: what was marked or stored in a
  collection survives its sweep. `WaitEnds`: who waits for the backfill queue is answered.
* `NoSharing`: two checksums never have one number, unless it was imported. `NewIsHigher`: a
  number the server makes up is above all that were in its table when the request came
  (above all there are, if the request waits for nobody). Both speak of the cases where the
  code keeps numbers apart (`Apart`): elsewhere it takes a number over from upstream by design.
  `NeverDecreases`: the promise of the "no history" mode (section 5).

Each property of a passing run has a mutant: a small change of one definition, of the
kind a bug would be, which makes the run fail. The mutated form stands
before the definition it changes.

**Why the bounds are enough.** The run queue's branches depend on how a setscene task
stands to others (alone, behind one, with a hard dependency, with the same hash), on
the stamps that exist, and on the order of exit codes. The graphs contain
each of these, with two threads, the smallest number that lets tasks of both
kinds overlap; together they take every action and every disjunct. With five tasks
`build_scenequeue_data` takes several rounds, and chains of different lengths
meet; one target in the middle is enough, as a target that nothing depends
on is an end point, and unskippable, anyway. `BBServer` needs two commands to race, two
attempts to retry, and one fault at any place; three commands meet each other no
differently, as the server takes them one by one, and the theorems hold for any number.
`HashServer` needs two connections for an answer to come late, three task hashes for
"first, second, third" with one output, two marks for a collection that replaces
another; its one intervention between two builders, and three in a collection, let a report
of an equivalence, a removal, a mark, a sweep and a fault meet. `PRServer` needs two connections for one to overtake the other, a third checksum
for the next number, and, where texts and numbers differ, numbers above 9: an import of
9 leads there, with a limit of 11. `AiPeriod` 2 and an empty backlog make
the HMI's run small; its safety theorems are proved for every period and backlog. What the proofs establish does not depend
on bounds at all.

**Fairness.** `HMI`: every Modbus call has a timeout of one second, so both threads go
on (weak fairness of the worker and of the handlers under way); Qt takes posted
events in every turn of its loop (strong fairness of `Deliver`, because clicks
disable it again and again). Nobody has to click or to close the window.
`RunQueue`: the server's idle loop keeps calling (`ServerStep`), and every task's
process ends (one condition for each task: a long one must not depend on the others).
Nobody has to stop the build. Nothing is assumed of tasks whose worker has died, and
the worker need not die. `HashEquiv`: the same, with workers that live. `BuildSceneQueue`: the function runs on.
`BBServer`: as long as a command can go on some command does, and so for the servers
(weak fairness of each side as a whole), and a command that polls gives up after 50
rounds (strong fairness of `StopsPolling`, because every poll disables it for a moment).
`HashServer`: the backfill worker goes on, as its call to upstream answers or fails.
Nobody has to send a request, and no fault has to happen.
Deadlock is checked everywhere but in the HMI, which stops when its window is closed,
and in `BBServer`, which stops when all commands and servers have ended.

## 5. Findings

* `hmi_status`: a write that raises is shown as done. `write_speed` (192) sets the
  status label, but its signal is a direct call, and the handler that called it
  overwrites the label at once (363, 368).
* `rq_covered`: the comment at `runqueue.py:2170` says that no task should end up in
  both `covered` and `uncovered`. A deferred setscene task that failed outright along a
  hard dependency keeps its entry in `sq_deferred`; when its leader completes it is
  released and marked covered as well.
* `rq_refused`: with `-k` and `BB_SETSCENE_ENFORCE` a refused task is failed without
  having been started. It stays ready, is refused again in every call, `stats.active`
  sinks below zero, and the build never ends.
* `pr_decrease`: `db.py:19-21` promises that in "no history" mode the number "can NOT be
  decremented". Line 184 compares numbers as texts, so a checksum that has 9 keeps it
  when another has 10: two builds in turn get ..., 9, 10, 9, 10.

More disagreements met while modelling are hazards without a run. Their code is modelled as
it is:

* The loop at `runqueue.py:2567` is there to "rehash any other tasks with the same task hash
  that we're deferred against" and never finds one. The entry of a running task is put off
  until it is complete (2561), and its completion, read earlier in the same call, has
  released what was deferred behind it (2097-2109), under the old hash.
* `--kill-server` ("Terminate any running bitbake server", `main.py:276`) writes
  `terminateServer` and closes its socket at once. When the server sees both in one `select`, it
  handles the closed socket first (`process.py:245-269`) and closes the command channel with
  the command in it. With `BB_SERVER_TIMEOUT`, or another client waiting, it goes on.
* Two requests for new checksums of a package upstream knows wait at the same time. Upstream
  answers the first with 0, gives out 1, and answers the second with 1; the second answer is
  here first. The table then gets 1.0 and after it 0.0, which is not "a new higher value"
  (`db.py:23`). `NewIsHigher` compares with what was there when the request came.
* `importone` (`db.py:195`) stores a number whether or not another checksum has it, also with no
  upstream: the import of 1 for one package after 1 was given to another makes them share it.
* `get`, asked for a task hash that upstream knows, answers with upstream's unihash although
  another one was stored meanwhile (`hashserv/server.py:347-350`); a report in its place would
  read the table again (514). No document says that `get` should.
* A second "no history" request for a package upstream does not know fails, since
  `revision_smaller` is given `None` (`prserv/serv.py:108`).
* `clean-unused` computes its age limit with the wrong sign (`hashserv/server.py:645`) and
  removes rows of any age.

## 6. What is proved

TLAPS checks every leaf; nothing is assumed beyond the named assumptions on the
constants (`SpeedAssumption`, `GraphAssumption`, `QueueAssumption`,
`BuildAssumption`, `AcyclicAssumption`, `ServerAssumption`, `HashServerAssumption`,
`PRServerAssumption`), which TLC evaluates on each instance.

**HMI** (`HMI_proofs`): `TypeCorrect`, `CommandsAreSafe`, `OffersAreHonest`,
`ClosedIsQuiet`, for all speeds, readings and periods; `RawCommandMonotone`, a lemma
about the conversion. `ClosedIsQuiet` rests on the invariant that the window is
closed only after the worker has left its loop.

**RunQueue** (`RunQueue_proofs`): `TypeCorrect`, for every graph, command line and
number of threads. `TypeOK` is split into the groups that the tuples of variables
make, so that what a step leaves alone is dealt with once.

**Order** (`RunQueue_proofs`): `DependenciesFirst` (`DependencyOrder`) and
`BuiltOrFetched` (`NoConcurrentRebuild`) from one inductive invariant, `OrderInv`. Neither
property is inductive. The argument:

* `Delivered`: a setscene task has at most one exit code outstanding and is in
  `sq_live` until it is read. Exit codes carry only the task's name, so without this
  one of a fetch could be taken for one of a build.
* `FateOpen`: while a fetch runs nobody else settles the task: not with a hard
  dependency, since those were resolved before it was started, and not with its
  leader, since it is not deferred any more.
* `HeldBack`: once any task may run, what an open setscene task stands for is held off or
  complete, unless an update is due that comes before the next task is chosen.
  `update_holdofftasks` runs only when asked to, so the sets may be
  stale; this holds all the same, because setscene tasks are settled and
  not reopened without asking for it, and completed tasks stay completed (`StaleSplitIsSafe`).
* `Apart`: hence nothing an open setscene task stands for is being built, which gives
  `NoConcurrentRebuild`; `Ordered` and `Started` give `DependencyOrder`.

**Task graph** (`RunQueue_proofs`): `KeepsThePromise` (`ImplementsTaskGraph`): the refinement,
for every task graph, command line and order of events. Most of it is `OrderInv`; what
has to be added says that each task ends once: `BusyOnce` (a task has a process or one
exit code outstanding, never both, and is then neither complete nor failed),
`SplitIsFinal` (with `BB_SETSCENE_ENFORCE`, what was split off as not covered stays so,
although the split may be out of date) and `RefusedForGood` (a refused task is refused again, if at all).
`OutcomesAreFinal`: no task is both complete and failed.

**Outcome** (`Outcome_proofs`): `ThreadsLimited` (`ThreadLimit`),
for every number of threads, under the assumption that `BB_SETSCENE_ENFORCE` is not set,
which section 5 shows to be needed: by `CountInv`, until `finish_now` has emptied the workers,
`stats.active` is the number of real tasks whose exit code is outstanding (each has one at
most, by `BusyOnce`), and after it no call begins that could start a task.

`InputsAreThere` (`InputsPresent`), under the same assumption (a dry run leaves no output).
A task that is started depends only on completed ones; what completed without an output was
skipped as covered. `InputsInv` says who is passed over: a setscene task only if nothing
needs it that is not covered itself (`Spared`), a real task only behind setscene tasks that
were covered and nothing else (`SparedForGood`). So whoever is built behind a setscene task
that was given up finds none of these among its dependencies. A setscene task can be
both covered and not covered (section 5); one that is has been taken up as a real task, and all
it stands for was complete then (`TakenUpIsBehind`).

`NothingLeftBehind` (`NoOrphans`), `OutcomeIsHonest` (`HonestOutcome`) and `GoesOnToTheEnd`
(`KeepsGoing`): unless it is stopped at once or its worker dies, a build ends in `Holdoff`,
`CleanUp` or `Conclude`, each time with nothing awaited, and in `Conclude` with nothing left in
a queue. The argument:

* An acyclic graph can be walked from either end (`FirstOf`, `FirstToFetch`).
* `QueueInv`, `WalkInv`: of the undecided setscene tasks the first is in the queue; once all are
  decided, `scenequeue_updatecounters` has walked all real tasks.
* `SplitInv`: unless an update is due every task is in the split when nothing is undecided, so
  `summarise_scenequeue_errors` finds nothing (`NoQueueError`).
* `CallInv`: what the call has found out in turn (no setscene task to start, the setscene half
  not over, no real task ready) still holds when it concludes.
* So at `Conclude` the setscene half is over (`SetsceneIsOver`): otherwise each candidate would
  wait for a hard dependency among the others. And of the tasks that are neither complete
  nor behind a failed one, the first would be ready (`NothingIsLeft`).

Beside the missing `BB_SETSCENE_ENFORCE` this assumes what the code does not check. `HardDepsAcyclic`:
setscene tasks have no circle of hard dependencies; they would wait for each other until the
build is given up as failed, with no failed task. `SomethingToFetch`: `--setscene-only` with no
setscene task at all ends in the same way, since the branch that completes such a build (2340)
is never reached. `NoOrphans` needs neither.

`NeverBoth` (`CoveredOrNot`), where no deferred setscene task has a hard dependency: what waits
behind another is then never given up, so releasing it cannot cover what is not covered. The
violation of section 5 thus has no other cause.

**HashEquiv** (`HashEquiv_proofs`): `HashInvariant`, and from it every safety property of the run:
`EquivTypes`, `NothingRerun` (`NeverNeedsRerun`), `BuiltFresh` (`FreshBuild`), `MovedInOrder`
(`DependencyOrder`), `MovedApart` (`NoConcurrentRebuild`) and the refinement,
`EquivKeepsThePromise` (`ImplementsTaskGraph`); for every graph, whatever moves and whenever.
The invariant is `OrderInv` and `OnceInv` of the run queue with `EquivInv`. The argument:

* Every step of `RunQueue` is small (`SmallStep`, `StepIsSmall` in `RunQueue_proofs`): it settles setscene tasks and reopens none,
  starts at most one task of each kind, and leaves the split alone or makes it anew. The steps
  of `HashEquiv` around them only record changed hashes (`Records`).
* `Migrate` alone reopens. What it reopens was given up (`Reopened`): never a task that was
  covered and nothing else (`CoveredOnly`), and none that is fetched, as what a
  fetch needs was covered for good (`FetchesBackedUp`).
* So what was skipped as covered stays covered (`CoveredForGood`, `SplitHonest`), which is
  `NeverNeedsRerun`; and an undecided task was not built, nor does what it stands for run
  (`OpenUntouched`), which is what the run queue's own invariant needs when tasks are reopened.
* The stale split does no harm because `Migrate` asks for an update, in the call that would use
  it (`HeldBack`, `SplitHonest`).
* `FreshBuild`: while a task is chosen, the reports that wait are those of tasks that still run
  (`ReportsSettled`).

**BBServer** (`BBServer_proofs`): `TypeCorrect`, `OneOwner` (`LockExclusive`), `SocketIsOurs`
(`SocketStays`), `HandoverIsClean` (`CleanHandover`), `StopIsOnesOwn` (`StopsOwnBuild`), for any
number of commands, servers, attempts and faults. The argument for the lock is
`LockInv`: an inode is locked by one process at most, and the one an owner holds is
the one on disk. The second half is what the comparison of inodes in `lockfile` buys:
a process that opened the old file cannot become an owner by locking it, and only an owner
removes the file. `SocketStays` follows because only owners of the lock touch the
socket file. `HandInv` ties the running command and the stop request to the client at
hand: with none there is nothing, or the server has been told to quit.

**HashServer** (`HashServer_proofs`): `TypeCorrect`, `ClientsAgree` (`AnswersAgree`), `SweepSpares`
(`SweepKeeps`), `FirstReportDecides` (`OldestDecides`). The first three rest on one invariant:
`TableInv` (what is in `told` is in the table, and rows kept carry the mark of the
collection under way), `ConnInv` and `QueueInv` (what a request waits with, and the counter
of the queue). An answer of upstream may be of any age: `PassOnKeeps` needs only that it is
told when its row is stored with it, `RepliesFit` that it is a row. `OldestDecides` needs that
`older` is a total order in which every
later row with the same output was answered from the first (`AloneInv`).

**PRServer** (`PRServer_proofs`): `TypeCorrect`, `RevisionsApart` (`NoSharing`) and
`NewRevisionsAbove` (`NewIsHigher`), for any number of connections and checksums, and no bound
that matters (`limit` is any number). The argument: behind an upstream server a number with one
part was copied from upstream together with its checksum, and rows upstream are
never removed, so an answer stays right however old it is when it is used (`AnswerOK`); a number
with two parts was made here, by one step that reads the table and writes it, however old the
maximum is that it begins with. The two kinds never meet. That maximum is not below what had
come from upstream when the request began (`MaxOK`), so the new number is above all that was in
the table then; nothing is said of what others store while it waits. Without an
upstream server all numbers have one part (`PlainNumbers`), where the order is total. About
half of the module is the arithmetic of numbers with one and two parts.

**BuildSceneQueue** (`BuildSceneQueue_proofs`): `CollapseIsRight` (`ResultIsMeant`): for
every acyclic graph, choice of setscene tasks and order, the function that finishes has
computed what `SceneQueue` defines. The definitions speak of smallest closed sets,
so the proof needs both directions: `NothingInvented` (what a task is handed, it
is reached by) and `NothingLost` (where a setscene task has arrived, its
successors are covered or still wait), and at the end nothing waits. `SanityHolds`
(`NeverBadlyWrong`): a real task that still holds something has somebody in front of
it who will be processed; if none were waiting, following them upwards would never end, which
an acyclic graph excludes.

**Only model-checked**: all liveness properties (`CloseCompletes`, `SuggestionArrives`,
`Terminates`, `EveryoneEnds`, `WaitEnds`), which need fairness and `ENABLED`, out of TLAPS's
reach here. The safety properties of all passing runs
are proved, under the assumptions named above.

## 7. Not modelled

MQTT publishing and the curves of the HMI's graph window (no decision depends on
them). In the run queue: the fakeroot worker, a stale stamp cache
(hazards without a property in `PROJECT.json` say so at their lines). In the
BitBake server: the XML-RPC interface, the heartbeat, and commands answered at once
other than `setFeatures` and the stop request, which do not touch what is modelled. In the hash
server: users and permissions, statistics, the stream of `exists` questions and `gc-status`,
which change no table; several methods, by which every query selects; the
SQLAlchemy backend. In the PR server: read-only servers, which store nothing; lookups and
exports, which change nothing; upstream servers that have an upstream themselves; rows lost
in a power failure (`PRAGMA synchronous = OFF`); the daemon. The other
components of section 1, for the reasons given there and in `PROJECT.json`.
