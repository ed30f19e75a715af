----------------------------- MODULE BBServer ------------------------------
(***************************************************************************)
(* The BitBake server and the commands that start it, find it and use it   *)
(* (bitbake/lib/bb/server/process.py, setup_bitbake in main.py, lockfile    *)
(* and unlockfile in utils.py).                                             *)
(*                                                                         *)
(* Clients race for bitbake.lock.  The winner starts a server, which       *)
(* inherits the lock and keeps it as long as it lives; the others connect  *)
(* to the server's socket, and it serves them one after the other.  Files, *)
(* locks, sockets and pipes belong to the state; processes may die between  *)
(* any two steps.                                                          *)
(***************************************************************************)
EXTENDS Naturals, Sequences, FiniteSets, SequencesExt

CONSTANTS
  Clients,      \* bitbake commands
  KillClients,  \* those given --kill-server; the others build
  Retries,      \* [Clients -> attempts of setup_bitbake] (8 in the code)
  ServerIds,    \* server processes alive at a time; a dead one's id is reused
  Inodes,       \* inode numbers of bitbake.lock over time
  Backlog,      \* connections the listening socket holds
  Scenarios     \* records: the clients that come; timeout "none" (BB_SERVER_TIMEOUT is
                \* not set), "some" or "forever"; how many faults may happen: processes
                \* killed, failures, timeouts that come too early

ASSUME ServerAssumption ==
  /\ KillClients \subseteq Clients
  /\ Retries \in [Clients -> Nat \ {0}] /\ Inodes \subseteq Nat \ {0}
  /\ Clients \cap ServerIds = {} /\ "children" \notin Clients \cup ServerIds
  /\ Backlog \in Nat
  /\ Scenarios \subseteq [clients : SUBSET Clients,
                          timeout : {"none", "some", "forever"}, faults : Nat]

Procs == Clients \cup ServerIds \cup {"children"}

\* A connection is named by its client and the attempts left when it was made.
Conns == UNION {{c} \X (1 .. Retries[c]) : c \in Clients}
None == <<>>

VARIABLES
  lockPath,  \* the inode bitbake.lock names, 0 when there is no such file
  opened,    \* the inode a process has opened and not tried to lock yet, or 0
  held,      \* the inode whose lock a process holds, or 0
  sockPath,  \* whose socket bitbake.sock is, "stale" for a dead server's, or "none"
  timeout, faults,
  cpc, retries,    \* the clients
  ready, live, sent, cmd, reply, news,  \* what is in their pipes, by connection
  spc, quit, starter, backlog, newconnections, controllersock, haveui, hadanyui,
  stopper,   \* who made cooker.state FORCE_SHUTDOWN, or None
  currentAsyncCommand,  \* the connection whose command it is, or None
  idlefun,   \* how far the idle thread is with it
  ui_queue   \* a completion event waits for a UI

fileVars == <<lockPath, opened, held>>
pipeVars == <<ready, live, sent, cmd, reply, news>>
loopVars == <<backlog, newconnections, controllersock, haveui, hadanyui>>
jobVars == <<stopper, currentAsyncCommand, idlefun, ui_queue>>
clientVars == <<cpc, retries>>
serverVars == <<spc, quit, starter, loopVars, jobVars>>
constVars == <<timeout, faults>>
vars == <<fileVars, sockPath, constVars, clientVars, pipeVars, serverVars>>

ClientEnds == {"done", "fatal", "gone", "lost"}
ClientPcs == ClientEnds \cup
  {"begin", "opened", "locked", "starting", "reconnect", "waiting", "polling",
   "unlinking", "connect", "connected", "asked", "session",
   "closing", "building", "stopping"}
ServerPcs ==
  {"free", "exec", "bind", "cooker", "loop", "waitidle", "unlink", "shutting",
   "closed", "opened", "unlinking"}
Commands == {"none", "setFeatures", "build", "stop", "terminate"}

TypeOK ==
  /\ lockPath \in Inodes \cup {0}
  /\ opened \in [Procs -> Inodes \cup {0}]
  /\ held \in [Procs -> Inodes \cup {0}]
  /\ sockPath \in ServerIds \cup {"none", "stale"}
  /\ timeout \in {"none", "some", "forever"} /\ faults \in Nat
  /\ cpc \in [Clients -> ClientPcs] /\ retries \in [Clients -> Nat]
  /\ ready \subseteq Conns /\ live \subseteq Conns /\ sent \subseteq Conns
  /\ cmd \in [Conns -> Commands]
  /\ reply \in [Conns -> {"none", "ok", "busy"}]
  /\ news \subseteq Conns
  /\ spc \in [ServerIds -> ServerPcs] /\ quit \in [ServerIds -> BOOLEAN]
  /\ starter \in [ServerIds -> Conns \cup {None}]
  /\ backlog \in [ServerIds -> Seq(Conns)]
  /\ newconnections \in [ServerIds -> Seq(Conns)]
  /\ controllersock \in [ServerIds -> Conns \cup {None}]
  /\ haveui \in [ServerIds -> BOOLEAN] /\ hadanyui \in [ServerIds -> BOOLEAN]
  /\ stopper \in [ServerIds -> Conns \cup {None}]
  /\ currentAsyncCommand \in [ServerIds -> Conns \cup {None}]
  /\ idlefun \in [ServerIds -> {"none", "registered", "firing"}]
  /\ ui_queue \in [ServerIds -> BOOLEAN]

Init ==
  /\ lockPath = 0 /\ opened = [p \in Procs |-> 0] /\ held = [p \in Procs |-> 0]
  /\ sockPath = "none" /\ retries = Retries
  /\ \E sc \in Scenarios :
       /\ timeout = sc.timeout /\ faults = sc.faults
       /\ cpc = [c \in Clients |-> IF c \in sc.clients THEN "begin" ELSE "done"]
  /\ ready = {} /\ live = {} /\ sent = {} /\ news = {}
  /\ cmd = [k \in Conns |-> "none"] /\ reply = [k \in Conns |-> "none"]
  /\ spc = [s \in ServerIds |-> "free"] /\ quit = [s \in ServerIds |-> FALSE]
  /\ starter = [s \in ServerIds |-> None]
  /\ backlog = [s \in ServerIds |-> <<>>] /\ newconnections = [s \in ServerIds |-> <<>>]
  /\ controllersock = [s \in ServerIds |-> None]
  /\ haveui = [s \in ServerIds |-> FALSE] /\ hadanyui = [s \in ServerIds |-> FALSE]
  /\ stopper = [s \in ServerIds |-> None]
  /\ currentAsyncCommand = [s \in ServerIds |-> None]
  /\ idlefun = [s \in ServerIds |-> "none"] /\ ui_queue = [s \in ServerIds |-> FALSE]

-----------------------------------------------------------------------------
(* bb.utils.lockfile(retry=False) and unlockfile.  Others may run between   *)
(* the open and the flock.  Between the unlink and the unlock nobody can    *)
(* tell the difference: the file held is no longer the one on disk.         *)

Unused(i) ==
  /\ i # lockPath
  /\ \A p \in Procs : opened[p] # i /\ held[p] # i

\* open(name, 'a+') creates the file when it is missing.
OpenLock(p) ==
  /\ \/ lockPath # 0 /\ UNCHANGED lockPath
     \/ /\ lockPath = 0
        /\ \E i \in Inodes :
             /\ Unused(i) /\ \A j \in Inodes : j < i => ~Unused(j)
             /\ lockPath' = i
  /\ opened' = [opened EXCEPT ![p] = lockPath']
  /\ UNCHANGED held

\* Mutant of GetsLock: the inode is not compared with the file's on disk.
GetsLockUnchecked(p) == \A q \in Procs : held[q] # opened[p]

\* flock succeeds, and the file locked is still the one on disk.
GetsLock(p) ==
  /\ \A q \in Procs : held[q] # opened[p]
  /\ opened[p] = lockPath

TakeLock(p) ==
  /\ held' = [held EXCEPT ![p] = opened[p]]
  /\ opened' = [opened EXCEPT ![p] = 0]
  /\ UNCHANGED lockPath

MissLock(p) ==
  /\ opened' = [opened EXCEPT ![p] = 0]
  /\ UNCHANGED <<lockPath, held>>

UnlockFile(p) == lockPath' = 0 /\ held' = [held EXCEPT ![p] = 0] /\ UNCHANGED opened

DropLock(p) ==
  /\ held' = [held EXCEPT ![p] = 0]
  /\ opened' = [opened EXCEPT ![p] = 0]
  /\ UNCHANGED lockPath

-----------------------------------------------------------------------------
(* setup_bitbake: the attempts of one client.                              *)

Fault == faults > 0 /\ faults' = faults - 1 /\ UNCHANGED timeout
NoFault == UNCHANGED constVars

conn(c) == <<c, retries[c]>>
Goto(c, pc) == cpc' = [cpc EXCEPT ![c] = pc]
Step(c, from, to) == cpc[c] = from /\ Goto(c, to) /\ UNCHANGED retries

\* A client closes its ends of the socket and the pipes: what it has not read is
\* lost, what it has written can still be read.
Hang(k) ==
  /\ live' = live \ {k} /\ ready' = ready \ {k} /\ news' = news \ {k}
  /\ reply' = [x \in Conns |-> IF x = k THEN "none" ELSE reply[x]]

\* The server's ends of some connections are closed.
Forget(ks) ==
  /\ sent' = sent \ ks
  /\ cmd' = [k \in Conns |-> IF k \in ks THEN "none" ELSE cmd[k]]

\* Mutant of LastTry: one attempt too many.
LastTryLate(c) == retries[c] = 0

LastTry(c) == retries[c] = 1

\* A failed attempt closes whatever it had opened.
Retry(c) ==
  /\ retries' = [retries EXCEPT ![c] = @ - 1]
  /\ Goto(c, IF LastTry(c) THEN "fatal" ELSE "begin")
  /\ Hang(conn(c)) /\ UNCHANGED <<sent, cmd>>

ClientOpens(c) ==
  /\ Step(c, "begin", "opened") \/ Step(c, "waiting", "polling")
  /\ OpenLock(c)
  /\ UNCHANGED <<sockPath, constVars, pipeVars, serverVars>>

ClientLocks(c) ==
  /\ \/ GetsLock(c) /\ TakeLock(c)
        /\ (Step(c, "opened", "locked") \/ Step(c, "polling", "unlinking"))
     \/ ~GetsLock(c) /\ MissLock(c)
        /\ (Step(c, "opened", "reconnect") \/ Step(c, "polling", "waiting"))
  /\ UNCHANGED <<sockPath, constVars, pipeVars, serverVars>>

\* --kill-server without a server: "bitbake server is not running".
NoServerToKill(c) ==
  /\ c \in KillClients /\ Step(c, "locked", "done") /\ DropLock(c)
  /\ UNCHANGED <<sockPath, constVars, pipeVars, serverVars>>

\* The daemon is forked and owns the lock; the client closes its copy.
StartServer(c) ==
  /\ c \notin KillClients /\ Step(c, "locked", "starting")
  /\ \E s \in ServerIds : spc[s] = "free"
  /\ LET s == CHOOSE x \in ServerIds : spc[x] = "free" IN
       /\ spc' = [spc EXCEPT ![s] = "exec"]
       /\ starter' = [starter EXCEPT ![s] = conn(c)]
       /\ held' = [held EXCEPT ![s] = held[c], ![c] = 0]
  /\ UNCHANGED <<lockPath, opened, sockPath, constVars, pipeVars, quit, loopVars, jobVars>>

SeesReady(c) ==
  /\ Step(c, "starting", "connect") /\ conn(c) \in ready
  /\ ready' = ready \ {conn(c)}
  /\ UNCHANGED <<fileVars, sockPath, constVars, live, sent, cmd, reply, news, serverVars>>

\* The pipe closed, or nothing came in 95 seconds: SystemExit, a new attempt.
SeesNoServer(c) ==
  /\ cpc[c] = "starting" /\ conn(c) \notin ready
  /\ IF \E s \in ServerIds : starter[s] = conn(c) THEN Fault ELSE NoFault
  /\ Retry(c)
  /\ UNCHANGED <<fileVars, sockPath, serverVars>>

Reconnect(c) ==
  /\ IF sockPath = "none" THEN Step(c, "reconnect", "waiting")
                          ELSE Step(c, "reconnect", "connect")
  /\ UNCHANGED <<fileVars, sockPath, constVars, pipeVars, serverVars>>

\* A poll that got the lock removes the file and starts again.
ClientUnlocks(c) ==
  /\ cpc[c] = "unlinking" /\ UnlockFile(c) /\ Retry(c)
  /\ UNCHANGED <<sockPath, constVars, serverVars>>

\* After 50 polls; a server on its way out is expected to be faster.
StopsPolling(c) ==
  /\ cpc[c] = "waiting" /\ Retry(c)
  /\ IF \E s \in ServerIds : spc[s] \in {"unlink", "shutting"} THEN Fault ELSE NoFault
  /\ UNCHANGED <<fileVars, sockPath, serverVars>>

Connect(c) ==
  /\ Step(c, "connect", "connected")
  /\ sockPath \in ServerIds /\ Len(backlog[sockPath]) < Backlog
  /\ backlog' = [backlog EXCEPT ![sockPath] = Append(@, conn(c))]
  /\ live' = live \cup {conn(c)}
  /\ UNCHANGED <<fileVars, sockPath, constVars, ready, sent, cmd, reply, news, spc, quit,
       starter, newconnections, controllersock, haveui, hadanyui, jobVars>>

ConnectFails(c) ==
  /\ cpc[c] = "connect"
  /\ sockPath \in ServerIds => Len(backlog[sockPath]) >= Backlog
  /\ Retry(c)
  /\ UNCHANGED <<fileVars, sockPath, constVars, serverVars>>

\* sendfds, and the first command, setFeatures.
SendFds(c) ==
  /\ Step(c, "connected", "asked")
  /\ sent' = sent \cup {conn(c)}
  /\ cmd' = [cmd EXCEPT ![conn(c)] = "setFeatures"]
  /\ UNCHANGED <<fileVars, sockPath, constVars, ready, live, reply, news, serverVars>>

Answered(c) ==
  /\ Step(c, "asked", "session") /\ reply[conn(c)] = "ok"
  /\ reply' = [reply EXCEPT ![conn(c)] = "none"]
  /\ UNCHANGED <<fileVars, sockPath, constVars, ready, live, sent, cmd, news, serverVars>>

\* The connections a server holds.
Of(s) == {controllersock[s]} \cup ToSet(backlog[s]) \cup ToSet(newconnections[s])
Cut(k) == \A s \in ServerIds : k \notin Of(s)

\* The pipe closed, or no reply in 60 seconds: ProcessTimeout, a new attempt.
NotAnswered(c) ==
  /\ cpc[c] = "asked" /\ reply[conn(c)] = "none"
  /\ IF Cut(conn(c)) THEN NoFault ELSE Fault
  /\ Retry(c)
  /\ UNCHANGED <<fileVars, sockPath, serverVars>>

Send(c, command) ==
  /\ cmd' = [cmd EXCEPT ![conn(c)] = command]
  /\ UNCHANGED <<fileVars, sockPath, constVars, ready, live, sent, reply, news, serverVars>>

\* terminateServer expects no reply; terminate() closes the connection.
SendTerminate(c) ==
  c \in KillClients /\ Step(c, "session", "closing") /\ Send(c, "terminate")

SendBuild(c) ==
  c \notin KillClients /\ Step(c, "session", "building") /\ Send(c, "build")

\* A second Ctrl-C: stateForceShutdown.
SendStop(c) ==
  /\ Step(c, "building", "stopping") /\ Send(c, "stop")
  /\ cmd[conn(c)] = "none" /\ reply[conn(c)] = "ok"

Close(c, pc) ==
  /\ Goto(c, pc) /\ UNCHANGED retries
  /\ Hang(conn(c))
  /\ UNCHANGED <<fileVars, sockPath, constVars, sent, cmd, serverVars>>

\* A completion event, or the end of --kill-server.
Finish(c) ==
  /\ cpc[c] = "closing" \/ (cpc[c] \in {"building", "stopping"} /\ conn(c) \in news)
  /\ Close(c, "done")

\* The server is gone: the commands and pings of the UI fail.
LoseServer(c) ==
  /\ cpc[c] \in {"connected", "session", "building", "stopping"}
  /\ Cut(conn(c)) \/ reply[conn(c)] = "busy"
  /\ IF cpc[c] = "connected"
       THEN Retry(c) /\ UNCHANGED <<fileVars, sockPath, constVars, serverVars>>
       ELSE Close(c, "lost")

\* A client is killed; the kernel closes its files.
Killed(c) ==
  /\ cpc[c] \notin ClientEnds /\ Fault
  /\ Goto(c, "gone") /\ UNCHANGED retries
  /\ DropLock(c)
  /\ Hang(conn(c))
  /\ UNCHANGED <<sockPath, sent, cmd, serverVars>>

ClientStep(c) ==
  \/ ClientOpens(c) \/ ClientLocks(c) \/ NoServerToKill(c) \/ StartServer(c)
  \/ SeesReady(c) \/ SeesNoServer(c) \/ Reconnect(c) \/ ClientUnlocks(c)
  \/ StopsPolling(c) \/ Connect(c) \/ ConnectFails(c)
  \/ SendFds(c) \/ Answered(c) \/ NotAnswered(c) \/ SendTerminate(c)
  \/ SendBuild(c) \/ Finish(c) \/ LoseServer(c)

-----------------------------------------------------------------------------
(* The server process: execServer.                                         *)

At(s, pc) == spc[s] = pc
Move(s, from, to) == At(s, from) /\ spc' = [spc EXCEPT ![s] = to]

\* The process ends: its files are closed, its socket file stays behind.
Vanish(s) ==
  /\ sockPath' = IF sockPath = s THEN "stale" ELSE sockPath
  /\ spc' = [spc EXCEPT ![s] = "free"] /\ quit' = [quit EXCEPT ![s] = FALSE]
  /\ starter' = [starter EXCEPT ![s] = None]
  /\ backlog' = [backlog EXCEPT ![s] = <<>>]
  /\ newconnections' = [newconnections EXCEPT ![s] = <<>>]
  /\ controllersock' = [controllersock EXCEPT ![s] = None]
  /\ haveui' = [haveui EXCEPT ![s] = FALSE] /\ hadanyui' = [hadanyui EXCEPT ![s] = FALSE]
  /\ stopper' = [stopper EXCEPT ![s] = None]
  /\ currentAsyncCommand' = [currentAsyncCommand EXCEPT ![s] = None]
  /\ idlefun' = [idlefun EXCEPT ![s] = "none"]
  /\ ui_queue' = [ui_queue EXCEPT ![s] = FALSE]
  /\ Forget(Of(s))
  /\ UNCHANGED <<clientVars, ready, live, reply, news>>

\* The file of an earlier server that died.
RemoveSocket(s) ==
  /\ Move(s, "exec", "bind") /\ sockPath' = "none"
  /\ UNCHANGED <<fileVars, constVars, clientVars, pipeVars, quit, starter, loopVars, jobVars>>

BindSocket(s) ==
  /\ Move(s, "bind", "cooker") /\ sockPath' = s
  /\ UNCHANGED <<fileVars, constVars, clientVars, pipeVars, quit, starter, loopVars, jobVars>>

\* The cooker is there: tell the client, who may have stopped waiting.
Waiting(k) == cpc[k[1]] = "starting" /\ conn(k[1]) = k

SendReady(s) ==
  /\ Move(s, "cooker", "loop") /\ Waiting(starter[s])
  /\ ready' = ready \cup {starter[s]}
  /\ starter' = [starter EXCEPT ![s] = None]
  /\ UNCHANGED <<fileVars, sockPath, constVars, clientVars, live, sent, cmd, reply, news,
       quit, loopVars, jobVars>>

\* BBCooker fails, or the ready pipe is broken: execServer ends.
StartFails(s) ==
  /\ At(s, "cooker") /\ Vanish(s) /\ DropLock(s)
  /\ IF Waiting(starter[s]) THEN Fault ELSE NoFault

-----------------------------------------------------------------------------
(* Its main loop.                                                          *)

InLoop(s) == At(s, "loop") /\ ~quit[s]
OnlyLoop == UNCHANGED <<fileVars, sockPath, constVars, clientVars, starter>>

Accept(s) ==
  /\ InLoop(s) /\ backlog[s] # <<>>
  /\ backlog' = [backlog EXCEPT ![s] = Tail(@)]
  /\ IF controllersock[s] = None
       THEN /\ controllersock' = [controllersock EXCEPT ![s] = Head(backlog[s])]
            /\ UNCHANGED newconnections
       ELSE /\ newconnections' = [newconnections EXCEPT ![s] = Append(@, Head(backlog[s]))]
            /\ UNCHANGED controllersock
  /\ OnlyLoop /\ UNCHANGED <<pipeVars, spc, quit, haveui, hadanyui, jobVars>>

\* The file descriptors of the client's pipes; its handler is registered.
RecvFds(s) ==
  /\ InLoop(s) /\ ~haveui[s] /\ controllersock[s] \in sent
  /\ haveui' = [haveui EXCEPT ![s] = TRUE] /\ hadanyui' = [hadanyui EXCEPT ![s] = TRUE]
  /\ OnlyLoop /\ UNCHANGED <<pipeVars, spc, quit, backlog, newconnections, controllersock, jobVars>>

\* wait_for_idle and set_async_cmd: _idle_check.
Idle(s) == idlefun[s] \in {"none", "firing"} /\ currentAsyncCommand[s] = None

\* The reply of a client that has closed its end is lost.
Reply(k, r) ==
  /\ cmd' = [cmd EXCEPT ![k] = "none"]
  /\ reply' = IF k \in live THEN [reply EXCEPT ![k] = r] ELSE reply
  /\ UNCHANGED <<ready, live, sent, news>>

RunCommand(s) ==
  LET k == controllersock[s] IN
  /\ InLoop(s) /\ haveui[s]
  /\ \/ /\ cmd[k] = "setFeatures" /\ Reply(k, "ok")
        /\ UNCHANGED <<quit, jobVars>>
     \/ /\ cmd[k] = "build"
        /\ IF Idle(s)
             THEN /\ currentAsyncCommand' = [currentAsyncCommand EXCEPT ![s] = k]
                  /\ idlefun' = [idlefun EXCEPT ![s] = "registered"]
                  /\ Reply(k, "ok")
             ELSE Reply(k, "busy") /\ UNCHANGED <<currentAsyncCommand, idlefun>>
        /\ UNCHANGED <<quit, stopper, ui_queue>>
     \/ /\ cmd[k] = "stop" /\ Reply(k, "none")
        /\ stopper' = [stopper EXCEPT ![s] = k]
        /\ UNCHANGED <<quit, currentAsyncCommand, idlefun, ui_queue>>
     \/ /\ cmd[k] = "terminate" /\ Reply(k, "none")
        /\ quit' = [quit EXCEPT ![s] = TRUE]
        /\ UNCHANGED jobVars
  /\ OnlyLoop /\ UNCHANGED <<spc, loopVars>>

\* The socket or the command pipe of the client at hand is closed at its end.
Hangup(s) ==
  /\ InLoop(s) /\ controllersock[s] \notin live \cup {None}
  /\ haveui[s] \/ controllersock[s] \notin sent
  /\ spc' = [spc EXCEPT ![s] = "waitidle"]
  /\ OnlyLoop /\ UNCHANGED <<pipeVars, quit, loopVars, jobVars>>

\* Mutant of ToldToQuit: the server does not quit after a wait in vain.
ToldToQuitNever(s) == quit[s]

\* wait_for_idle(30); only a client that had sent its pipes is waited for.
ToldToQuit(s) == quit[s] \/ (haveui[s] /\ ~Idle(s))

\* Mutant of Cleared: clientComplete leaves the cooker's state.
ClearedNot(s) == stopper

\* clientComplete: finishcommand.
Cleared(s) == IF haveui[s] THEN [stopper EXCEPT ![s] = None] ELSE stopper

\* disconnect_client, after the wait: the last of the waiting clients is next.
Disconnect(s) ==
  /\ At(s, "waitidle")
  /\ spc' = [spc EXCEPT ![s] = "loop"]
  /\ haveui' = [haveui EXCEPT ![s] = FALSE]
  /\ stopper' = Cleared(s)
  /\ IF newconnections[s] # <<>> /\ ~ToldToQuit(s)
       THEN /\ controllersock' = [controllersock EXCEPT ![s] = Last(newconnections[s])]
            /\ newconnections' = [newconnections EXCEPT ![s] = Front(@)]
            /\ UNCHANGED quit
       ELSE /\ controllersock' = [controllersock EXCEPT ![s] = None]
            /\ quit' = [quit EXCEPT ![s] =
                 ToldToQuit(s) \/ (timeout = "none" /\ backlog[s] = <<>>)]
            /\ UNCHANGED newconnections
  /\ Forget({controllersock[s]})
  /\ OnlyLoop
  /\ UNCHANGED <<ready, live, reply, news, backlog, hadanyui, currentAsyncCommand, idlefun,
       ui_queue>>

Arriving == {"starting", "connect", "connected", "asked"}

\* Mutant of TooLongAlone: a server no user interface ever reached waits on.
TooLongAloneSome(s) == timeout = "some" /\ ~haveui[s]

\* The timers of the loop: no user interface for long, or none within maxuiwait.
TooLongAlone(s) ==
  \/ timeout = "some" /\ ~haveui[s]
  \/ timeout = "none" /\ ~hadanyui[s]

UITimeout(s) ==
  /\ InLoop(s) /\ TooLongAlone(s)
  /\ quit' = [quit EXCEPT ![s] = TRUE]
  /\ IF \E c \in Clients : cpc[c] \in Arriving THEN Fault ELSE NoFault
  /\ UNCHANGED <<fileVars, sockPath, clientVars, starter, pipeVars, spc, loopVars, jobVars>>

-----------------------------------------------------------------------------
(* The idle thread, which runs the commands that take time.                *)

Advance(s, from, to) ==
  /\ idlefun[s] = from /\ idlefun' = [idlefun EXCEPT ![s] = to]
  /\ UNCHANGED <<fileVars, sockPath, clientVars, spc, starter, loopVars>>

InThread(s) == spc[s] \in {"loop", "waitidle"}

\* idleFinish: the build has ended, or the cooker is shut down.  The function is
\* removed, then finishAsyncCommand: finishcommand, clear_async_cmd, and the event.
EndCommand(s) ==
  /\ InThread(s) /\ Advance(s, "registered", "firing")
  /\ stopper' = [stopper EXCEPT ![s] = None]
  /\ currentAsyncCommand' = [currentAsyncCommand EXCEPT ![s] = None]
  /\ UNCHANGED <<constVars, pipeVars, quit, ui_queue>>

Deliver(s) ==
  news' = IF controllersock[s] \in live THEN news \cup {controllersock[s]} ELSE news

\* The event goes to the handler registered now; without one it is queued.
FireCompleted(s) ==
  /\ Advance(s, "firing", "none")
  /\ IF haveui[s] THEN Deliver(s) /\ UNCHANGED ui_queue
                  ELSE ui_queue' = [ui_queue EXCEPT ![s] = TRUE] /\ UNCHANGED news
  /\ UNCHANGED <<constVars, ready, live, sent, cmd, reply, quit, stopper, currentAsyncCommand>>

\* The next event of any kind takes the queued ones with it.
FireQueued(s) ==
  /\ ui_queue[s] /\ haveui[s]
  /\ ui_queue' = [ui_queue EXCEPT ![s] = FALSE]
  /\ Deliver(s)
  /\ UNCHANGED <<fileVars, sockPath, constVars, clientVars, ready, live, sent, cmd, reply, spc,
       quit, starter, loopVars, stopper, currentAsyncCommand, idlefun>>

\* The function raised an exception: it is removed and the server quits.
IdleBreaks(s) ==
  /\ InThread(s) /\ ~quit[s]
  /\ Advance(s, "registered", "none") /\ Fault
  /\ quit' = [quit EXCEPT ![s] = TRUE]
  /\ UNCHANGED <<pipeVars, stopper, currentAsyncCommand, ui_queue>>

-----------------------------------------------------------------------------
(* The end of the server.                                                  *)

\* Out of the loop, then idle.join(): a function that has not ended is not called
\* again, but what follows its end is done.
JoinIdle(s) ==
  /\ quit[s] /\ Move(s, "loop", "unlink") /\ idlefun[s] \in {"none", "registered"}
  /\ idlefun' = [idlefun EXCEPT ![s] = "none"]
  /\ UNCHANGED <<fileVars, sockPath, constVars, clientVars, pipeVars, quit, starter,
       loopVars, stopper, currentAsyncCommand, ui_queue>>

\* The socket file goes if it is still this server's; then the socket is closed,
\* and post_serve fires CookerExit, which ends the client too.
UnlinkSocket(s) ==
  /\ Move(s, "unlink", "shutting")
  /\ sockPath' = IF sockPath = s THEN "none" ELSE sockPath
  /\ backlog' = [backlog EXCEPT ![s] = <<>>]
  /\ IF haveui[s] THEN Deliver(s) ELSE UNCHANGED news
  /\ Forget(ToSet(backlog[s]))
  /\ UNCHANGED <<fileVars, constVars, clientVars, ready, live, reply, quit, starter,
       newconnections, controllersock, haveui, hadanyui, jobVars>>

\* lock.close(): a process left behind may still hold the file open.
CloseLock(s) ==
  /\ Move(s, "shutting", "closed")
  /\ \/ held' = [held EXCEPT ![s] = 0] /\ NoFault
     \/ /\ held["children"] = 0 /\ Fault
        /\ held' = [held EXCEPT ![s] = 0, !["children"] = held[s]]
  /\ UNCHANGED <<lockPath, opened, sockPath, clientVars, pipeVars, quit, starter,
       loopVars, jobVars>>

ChildrenEnd ==
  /\ held["children"] # 0 /\ held' = [held EXCEPT !["children"] = 0]
  /\ UNCHANGED <<lockPath, opened, sockPath, constVars, clientVars, pipeVars, serverVars>>

\* Take the lock again, to remove the file; without it the process ends anyway.
LastLock(s) ==
  /\ \/ lockPath # 0 /\ Move(s, "closed", "opened") /\ OpenLock(s)
     \/ GetsLock(s) /\ Move(s, "opened", "unlinking") /\ TakeLock(s)
  /\ UNCHANGED <<sockPath, constVars, clientVars, pipeVars, quit, starter, loopVars, jobVars>>

Exit(s) ==
  /\ \/ At(s, "closed") /\ UNCHANGED fileVars
     \/ At(s, "opened") /\ ~GetsLock(s) /\ MissLock(s)
     \/ At(s, "unlinking") /\ UnlockFile(s)
  /\ Vanish(s)
  /\ UNCHANGED constVars

\* "bitbake-server might have died or been forcibly stopped, ie. OOM killed".
Crash(s) ==
  /\ ~At(s, "free") /\ Vanish(s) /\ DropLock(s) /\ Fault

ServerStep(s) ==
  \/ RemoveSocket(s) \/ BindSocket(s) \/ SendReady(s) \/ StartFails(s)
  \/ Accept(s) \/ RecvFds(s) \/ RunCommand(s) \/ Hangup(s) \/ Disconnect(s)
  \/ UITimeout(s) \/ JoinIdle(s) \/ UnlinkSocket(s)
  \/ CloseLock(s) \/ LastLock(s) \/ Exit(s)

IdleStep(s) ==
  \/ EndCommand(s) \/ FireCompleted(s) \/ FireQueued(s)

Next ==
  \/ \E c \in Clients : ClientStep(c) \/ SendStop(c) \/ Killed(c)
  \/ \E s \in ServerIds : ServerStep(s) \/ IdleStep(s) \/ IdleBreaks(s) \/ Crash(s)
  \/ ChildrenEnd

Spec == Init /\ [][Next]_vars

\* As long as a client can go on, some client does, and so for the servers; a poll
\* loop ends after 50 rounds.
FairSpec ==
  /\ Spec
  /\ WF_vars(\E c \in Clients : ClientStep(c))
  /\ WF_vars(\E s \in ServerIds : ServerStep(s) \/ IdleStep(s))
  /\ SF_vars(\E c \in Clients : StopsPolling(c))

-----------------------------------------------------------------------------
(* Properties.                                                             *)

\* The processes that believe they own the lock.
Owner(p) ==
  \/ p \in Clients /\ cpc[p] \in {"locked", "unlinking"}
  \/ p \in ServerIds /\ spc[p] \in ServerPcs \
       {"free", "closed", "opened"}

\* Two processes never own the lock at the same time, although its file is
\* removed and created again under them (lockfile and unlockfile).
LockExclusive == \A p, q \in Procs : Owner(p) /\ Owner(q) => p = q

\* bitbake.sock leads to the server that runs, from its bind to its exit: no server
\* that starts or ends takes the socket file of another one away.
SocketStays ==
  \A s \in ServerIds :
    spc[s] \in {"cooker", "loop", "waitidle", "unlink"} => sockPath = s

\* The command of one client never goes on while the server listens to another:
\* a new client is taken only when the idle thread has cleared (disconnect_client).
CleanHandover ==
  \A s \in ServerIds :
    InLoop(s) /\ haveui[s] => currentAsyncCommand[s] \in {None, controllersock[s]}

\* A client's request to stop (stateForceShutdown), which races with the end of its
\* build and of its connection, is never left to fail the next client's build.
StopsOwnBuild ==
  \A s \in ServerIds : haveui[s] => stopper[s] \in {None, controllersock[s]}

\* Every client ends, whatever dies, and however servers and clients meet; and
\* without BB_SERVER_TIMEOUT no server stays behind.
EveryoneEnds ==
  /\ <>(\A c \in Clients : cpc[c] \in ClientEnds)
  /\ timeout # "forever" => <>[](\A s \in ServerIds : At(s, "free"))
=============================================================================
