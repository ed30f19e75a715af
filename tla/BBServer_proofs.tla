--------------------------- MODULE BBServer_proofs ---------------------------
(* Proofs about the BitBake server for any number of clients and servers, any *)
(* number of attempts, and whatever is killed and whenever.                   *)
EXTENDS BBServer, TLAPS

-----------------------------------------------------------------------------
(* The invariant of the lock. *)

PcTypes == cpc \in [Clients -> ClientPcs] /\ spc \in [ServerIds -> ServerPcs]

LockTypes ==
  /\ lockPath \in Inodes \cup {0}
  /\ opened \in [Procs -> Inodes \cup {0}]
  /\ held \in [Procs -> Inodes \cup {0}]

\* Between open and flock.
Trying(p) ==
  \/ p \in Clients /\ cpc[p] \in {"opened", "polling"}
  \/ p \in ServerIds /\ spc[p] = "opened"

\* An inode is locked by one process at most; an owner's is the one on disk.
LockInv ==
  /\ PcTypes /\ LockTypes
  /\ \A p, q \in Procs : held[p] # 0 /\ held[p] = held[q] => p = q
  /\ \A p \in Procs : Owner(p) => held[p] = lockPath /\ lockPath # 0
  /\ \A p \in Procs : Trying(p) => opened[p] # 0

Stays(q) == (Owner(q)' <=> Owner(q)) /\ (Trying(q)' <=> Trying(q))

LEMMA InodeFacts == 0 \notin Inodes
BY ServerAssumption

LEMMA LockIsExclusive == ASSUME LockInv PROVE LockExclusive
BY DEF LockInv, LockExclusive

\* What a step of one client does to who owns the lock and who tries to.
LEMMA ClientMoves ==
  ASSUME PcTypes, NEW c \in Clients, NEW pc \in ClientPcs, Goto(c, pc), UNCHANGED spc
  PROVE  /\ PcTypes'
         /\ \A q \in Procs \ {c} : Stays(q)
         /\ Owner(c)' <=> pc \in {"locked", "unlinking"}
         /\ Trying(c)' <=> pc \in {"opened", "polling"}
<1>1. PcTypes'  BY DEF PcTypes, Goto
<1>2. c \notin ServerIds  BY ServerAssumption
<1>3. cpc'[c] = pc  BY DEF PcTypes, Goto
<1>4. \A q \in Clients \ {c} : cpc'[q] = cpc[q]  BY DEF PcTypes, Goto
<1>5. \A q \in Procs \ {c} : Stays(q)  BY <1>4 DEF Stays, Owner, Trying
<1>6. QED  BY <1>1, <1>2, <1>3, <1>5 DEF Owner, Trying

\* The same for a step of one server.
LEMMA ServerMoves ==
  ASSUME PcTypes, NEW s \in ServerIds, NEW pc \in ServerPcs,
         spc' = [spc EXCEPT ![s] = pc], UNCHANGED cpc
  PROVE  /\ PcTypes'
         /\ \A q \in Procs \ {s} : Stays(q)
         /\ Owner(s)' <=> pc \notin {"free", "closed", "opened"}
         /\ Trying(s)' <=> pc = "opened"
<1>1. PcTypes'  BY DEF PcTypes
<1>2. s \notin Clients  BY ServerAssumption
<1>3. spc'[s] = pc  BY DEF PcTypes
<1>4. \A q \in ServerIds \ {s} : spc'[q] = spc[q]  BY DEF PcTypes
<1>5. \A q \in Procs \ {s} : Stays(q)  BY <1>4 DEF Stays, Owner, Trying
<1>6. QED  BY <1>1, <1>2, <1>3, <1>5 DEF Owner, Trying

-----------------------------------------------------------------------------
(* The operations on the lock keep the invariant. *)

LEMMA FilesAlone ==
  ASSUME LockInv, PcTypes', UNCHANGED fileVars,
         \A q \in Procs : (Owner(q)' => Owner(q)) /\ (Trying(q)' => Trying(q))
  PROVE  LockInv'
BY DEF LockInv, LockTypes, fileVars

LEMMA OpenKeeps ==
  ASSUME LockInv, PcTypes', NEW p \in Procs, OpenLock(p), ~Owner(p)',
         \A q \in Procs \ {p} : Stays(q)
  PROVE  LockInv'
<1>1. lockPath' \in Inodes  BY DEF LockInv, LockTypes, OpenLock
<1>2. opened' = [opened EXCEPT ![p] = lockPath'] /\ held' = held  BY DEF OpenLock
<1>3. LockTypes'  BY <1>1, <1>2 DEF LockInv, LockTypes
<1>4. lockPath # 0 => lockPath' = lockPath  BY DEF OpenLock
<1>5. \A q \in Procs : Owner(q)' => held'[q] = lockPath' /\ lockPath' # 0
  BY <1>2, <1>4 DEF LockInv, Stays
<1>6. \A q \in Procs : Trying(q)' => opened'[q] # 0
  <2>1. opened'[p] # 0  BY <1>1, <1>2, InodeFacts DEF LockInv, LockTypes
  <2>2. \A q \in Procs \ {p} : opened'[q] = opened[q]  BY <1>2 DEF LockInv, LockTypes
  <2>3. QED  BY <2>1, <2>2 DEF LockInv, Stays
<1>7. QED  BY <1>2, <1>3, <1>5, <1>6 DEF LockInv

LEMMA TakeKeeps ==
  ASSUME LockInv, PcTypes', NEW p \in Procs, Trying(p), GetsLock(p), TakeLock(p),
         ~Trying(p)', \A q \in Procs \ {p} : Stays(q)
  PROVE  LockInv'
<1>1. /\ held' = [held EXCEPT ![p] = opened[p]]
      /\ opened' = [opened EXCEPT ![p] = 0] /\ lockPath' = lockPath
  BY DEF TakeLock
<1>2. LockTypes'  BY <1>1 DEF LockInv, LockTypes
<1>3. /\ held'[p] = opened[p] /\ opened[p] # 0
      /\ \A q \in Procs \ {p} : held'[q] = held[q] /\ opened'[q] = opened[q]
  BY <1>1 DEF LockInv, LockTypes
<1>4. opened[p] = lockPath /\ \A q \in Procs : held[q] # opened[p]  BY DEF GetsLock
<1>5. \A q, r \in Procs : held'[q] # 0 /\ held'[q] = held'[r] => q = r
  BY <1>3, <1>4 DEF LockInv
<1>6. \A q \in Procs : Owner(q)' => held'[q] = lockPath' /\ lockPath' # 0
  BY <1>1, <1>3, <1>4 DEF LockInv, Stays
<1>7. \A q \in Procs : Trying(q)' => opened'[q] # 0
  BY <1>3 DEF LockInv, Stays
<1>8. QED  BY <1>2, <1>5, <1>6, <1>7 DEF LockInv

LEMMA MissKeeps ==
  ASSUME LockInv, PcTypes', NEW p \in Procs, MissLock(p), ~Owner(p)', ~Trying(p)',
         \A q \in Procs \ {p} : Stays(q)
  PROVE  LockInv'
<1>1. opened' = [opened EXCEPT ![p] = 0] /\ lockPath' = lockPath /\ held' = held
  BY DEF MissLock
<1>2. LockTypes'  BY <1>1 DEF LockInv, LockTypes
<1>3. \A q \in Procs \ {p} : opened'[q] = opened[q]  BY <1>1 DEF LockInv, LockTypes
<1>4. QED  BY <1>1, <1>2, <1>3 DEF LockInv, Stays

\* The owner removes the file: it was the only one.
LEMMA UnlockKeeps ==
  ASSUME LockInv, PcTypes', NEW p \in Procs, Owner(p), UnlockFile(p),
         ~Owner(p)', ~Trying(p)', \A q \in Procs \ {p} : Stays(q)
  PROVE  LockInv'
<1>1. held' = [held EXCEPT ![p] = 0] /\ lockPath' = 0 /\ opened' = opened
  BY DEF UnlockFile
<1>2. LockTypes'  BY <1>1 DEF LockInv, LockTypes
<1>3. held'[p] = 0 /\ \A q \in Procs \ {p} : held'[q] = held[q]
  BY <1>1 DEF LockInv, LockTypes
<1>4. \A q \in Procs : ~Owner(q)'  BY LockIsExclusive DEF LockExclusive, Stays
<1>5. \A q, r \in Procs : held'[q] # 0 /\ held'[q] = held'[r] => q = r
  BY <1>3 DEF LockInv
<1>6. QED  BY <1>1, <1>2, <1>4, <1>5 DEF LockInv, Stays

LEMMA DropKeeps ==
  ASSUME LockInv, PcTypes', NEW p \in Procs, DropLock(p), ~Owner(p)', ~Trying(p)',
         \A q \in Procs \ {p} : Stays(q)
  PROVE  LockInv'
<1>1. /\ held' = [held EXCEPT ![p] = 0] /\ opened' = [opened EXCEPT ![p] = 0]
      /\ lockPath' = lockPath
  BY DEF DropLock
<1>2. LockTypes'  BY <1>1 DEF LockInv, LockTypes
<1>3. /\ held'[p] = 0
      /\ \A q \in Procs \ {p} : held'[q] = held[q] /\ opened'[q] = opened[q]
  BY <1>1 DEF LockInv, LockTypes
<1>4. \A q, r \in Procs : held'[q] # 0 /\ held'[q] = held'[r] => q = r
  BY <1>3 DEF LockInv
<1>5. QED  BY <1>1, <1>2, <1>3, <1>4 DEF LockInv, Stays

\* The lock is handed on: to the server just started, or to what a server leaves.
LEMMA HandKeeps ==
  ASSUME LockInv, PcTypes', NEW p \in Procs, NEW q \in Procs, p # q, held[p] # 0,
         held' = [held EXCEPT ![q] = held[p], ![p] = 0], UNCHANGED <<lockPath, opened>>,
         ~Owner(p)', ~Trying(p)', ~Trying(q)', Owner(q)' => Owner(p),
         \A r \in Procs \ {p, q} : Stays(r)
  PROVE  LockInv'
<1>1. LockTypes'
  <2>1. held[p] \in Inodes \cup {0}  BY DEF LockInv, LockTypes
  <2>2. [held EXCEPT ![q] = held[p]] \in [Procs -> Inodes \cup {0}]
    BY <2>1 DEF LockInv, LockTypes
  <2>3. held' = [[held EXCEPT ![q] = held[p]] EXCEPT ![p] = 0]  OBVIOUS
  <2>4. held' \in [Procs -> Inodes \cup {0}]  BY <2>2, <2>3
  <2>5. QED  BY <2>4 DEF LockInv, LockTypes
<1>2. held'[p] = 0 /\ held'[q] = held[p] /\ \A r \in Procs \ {p, q} : held'[r] = held[r]
  BY DEF LockInv, LockTypes
<1>3. \A r, t \in Procs : held'[r] # 0 /\ held'[r] = held'[t] => r = t
  <2>1. SUFFICES ASSUME NEW r \in Procs, NEW t \in Procs, held'[r] # 0, held'[r] = held'[t]
                 PROVE  r = t
    OBVIOUS
  <2>2. \A x, y \in Procs : held[x] # 0 /\ held[x] = held[y] => x = y  BY DEF LockInv
  <2>3. r # p /\ t # p  BY <1>2, <2>1
  <2>4. CASE r # q /\ t # q  BY <1>2, <2>1, <2>2, <2>3, <2>4
  <2>5. CASE r = q /\ t # q  BY <1>2, <2>1, <2>2, <2>3, <2>5
  <2>6. CASE r # q /\ t = q  BY <1>2, <2>1, <2>2, <2>3, <2>6
  <2>7. QED  BY <2>4, <2>5, <2>6
<1>4. \A r \in Procs : Owner(r)' => held'[r] = lockPath' /\ lockPath' # 0
  BY <1>2 DEF LockInv, Stays
<1>5. \A r \in Procs : Trying(r)' => opened'[r] # 0
  BY DEF LockInv, Stays
<1>6. QED  BY <1>1, <1>3, <1>4, <1>5 DEF LockInv

-----------------------------------------------------------------------------
(* The steps of a client. *)

FreePcs == ClientPcs \ {"opened", "polling", "locked", "unlinking"}

LEMMA ClientQuiet ==
  ASSUME LockInv, NEW c \in Clients, NEW pc \in FreePcs, Goto(c, pc),
         UNCHANGED <<fileVars, spc>>
  PROVE  LockInv'
<1>1. PcTypes /\ pc \in ClientPcs /\ c \in Procs  BY DEF LockInv, FreePcs, Procs
<1>2. /\ PcTypes' /\ \A q \in Procs \ {c} : Stays(q)
      /\ ~Owner(c)' /\ ~Trying(c)'
  BY <1>1, ClientMoves DEF FreePcs
<1>3. QED  BY <1>1, <1>2, FilesAlone DEF Stays

LEMMA RetryMoves ==
  ASSUME NEW c \in Clients, Retry(c)
  PROVE  \E pc \in FreePcs : Goto(c, pc)
BY DEF Retry, FreePcs, ClientPcs, ClientEnds

\* Steps that leave the files alone and the client neither owner nor trying.
LEMMA ClientQuietSteps ==
  ASSUME LockInv, NEW c \in Clients,
         \/ SeesReady(c) \/ SeesNoServer(c) \/ Reconnect(c) \/ StopsPolling(c) \/ Connect(c)
         \/ ConnectFails(c) \/ SendFds(c) \/ Answered(c) \/ NotAnswered(c) \/ SendTerminate(c)
         \/ SendBuild(c) \/ SendStop(c) \/ Finish(c) \/ LoseServer(c)
  PROVE  LockInv'
<1>1. {"connect", "waiting", "connected", "asked", "session", "closing", "building",
       "stopping", "done", "lost"} \subseteq FreePcs
  BY DEF FreePcs, ClientPcs, ClientEnds
<1>2. UNCHANGED <<fileVars, spc>> /\ \E pc \in FreePcs : Goto(c, pc)
  <2>1. CASE SeesReady(c)  BY <1>1, <2>1 DEF SeesReady, Step, serverVars
  <2>2. CASE SeesNoServer(c)  BY <2>2, RetryMoves DEF SeesNoServer, serverVars
  <2>3. CASE Reconnect(c)  BY <1>1, <2>3 DEF Reconnect, Step, serverVars
  <2>4. CASE StopsPolling(c)  BY <2>4, RetryMoves DEF StopsPolling, serverVars
  <2>5. CASE Connect(c)  BY <1>1, <2>5 DEF Connect, Step
  <2>6. CASE ConnectFails(c)  BY <2>6, RetryMoves DEF ConnectFails, serverVars
  <2>7. CASE SendFds(c)  BY <1>1, <2>7 DEF SendFds, Step, serverVars
  <2>8. CASE Answered(c)  BY <1>1, <2>8 DEF Answered, Step, serverVars
  <2>9. CASE NotAnswered(c)  BY <2>9, RetryMoves DEF NotAnswered, serverVars
  <2>10. CASE SendTerminate(c)  BY <1>1, <2>10 DEF SendTerminate, Send, Step, serverVars
  <2>11. CASE SendBuild(c)  BY <1>1, <2>11 DEF SendBuild, Send, Step, serverVars
  <2>12. CASE SendStop(c)  BY <1>1, <2>12 DEF SendStop, Send, Step, serverVars
  <2>13. CASE Finish(c)  BY <1>1, <2>13 DEF Finish, Close, serverVars
  <2>14. CASE LoseServer(c)
    BY <1>1, <2>14, RetryMoves DEF LoseServer, Close, serverVars
  <2>15. QED  BY <2>1, <2>2, <2>3, <2>4, <2>5, <2>6, <2>7, <2>8, <2>9, <2>10, <2>11, <2>12,
                 <2>13, <2>14
<1>3. QED  BY <1>2, ClientQuiet

LEMMA ClientKeepsLock ==
  ASSUME LockInv, NEW c \in Clients, ClientStep(c) \/ SendStop(c) \/ Killed(c)
  PROVE  LockInv'
<1>1. PcTypes /\ c \in Procs  BY DEF LockInv, Procs
<1>2. /\ {"opened", "polling", "locked", "unlinking", "starting", "reconnect", "waiting",
          "begin", "fatal", "done", "gone"} \subseteq ClientPcs
      /\ {"reconnect", "waiting", "starting", "done", "gone"} \subseteq FreePcs
  BY DEF FreePcs, ClientPcs, ClientEnds
<1>3. CASE ClientOpens(c)
  <2>1. OpenLock(c) /\ spc' = spc /\ \E pc \in {"opened", "polling"} : Goto(c, pc)
    BY <1>3 DEF ClientOpens, Step, serverVars
  <2>2. PcTypes' /\ ~Owner(c)' /\ \A q \in Procs \ {c} : Stays(q)
    BY <1>1, <1>2, <2>1, ClientMoves
  <2>3. QED  BY <1>1, <2>1, <2>2, OpenKeeps
<1>4. CASE ClientLocks(c)
  <2>1. spc' = spc /\ Trying(c)  BY <1>4 DEF ClientLocks, Step, Trying, serverVars
  <2>2. CASE GetsLock(c)
    <3>1. TakeLock(c) /\ \E pc \in {"locked", "unlinking"} : Goto(c, pc)
      BY <1>4, <2>2 DEF ClientLocks, Step
    <3>2. PcTypes' /\ ~Trying(c)' /\ \A q \in Procs \ {c} : Stays(q)
      BY <1>1, <1>2, <2>1, <3>1, ClientMoves
    <3>3. QED  BY <1>1, <2>1, <2>2, <3>1, <3>2, TakeKeeps
  <2>3. CASE ~GetsLock(c)
    <3>1. MissLock(c) /\ \E pc \in {"reconnect", "waiting"} : Goto(c, pc)
      BY <1>4, <2>3 DEF ClientLocks, Step
    <3>2. PcTypes' /\ ~Owner(c)' /\ ~Trying(c)' /\ \A q \in Procs \ {c} : Stays(q)
      BY <1>1, <1>2, <2>1, <3>1, ClientMoves
    <3>3. QED  BY <1>1, <3>1, <3>2, MissKeeps
  <2>4. QED  BY <2>2, <2>3
<1>5. CASE NoServerToKill(c) \/ Killed(c)
  <2>1. DropLock(c) /\ spc' = spc /\ \E pc \in {"done", "gone"} : Goto(c, pc)
    BY <1>5 DEF NoServerToKill, Killed, Step, serverVars
  <2>2. PcTypes' /\ ~Owner(c)' /\ ~Trying(c)' /\ \A q \in Procs \ {c} : Stays(q)
    BY <1>1, <1>2, <2>1, ClientMoves
  <2>3. QED  BY <1>1, <2>1, <2>2, DropKeeps
<1>6. CASE ClientUnlocks(c)
  <2>1. Owner(c) /\ UnlockFile(c) /\ spc' = spc /\ \E pc \in FreePcs : Goto(c, pc)
    BY <1>6, RetryMoves DEF ClientUnlocks, Owner, serverVars
  <2>2. PcTypes' /\ ~Owner(c)' /\ ~Trying(c)' /\ \A q \in Procs \ {c} : Stays(q)
    BY <1>1, <2>1, ClientMoves DEF FreePcs
  <2>3. QED  BY <1>1, <2>1, <2>2, UnlockKeeps
<1>7. CASE StartServer(c)
  <2>1. PICK s \in ServerIds :
          /\ spc[s] = "free" /\ spc' = [spc EXCEPT ![s] = "exec"]
          /\ held' = [held EXCEPT ![s] = held[c], ![c] = 0]
    <3>1. (CHOOSE x \in ServerIds : spc[x] = "free") \in ServerIds
          /\ spc[CHOOSE x \in ServerIds : spc[x] = "free"] = "free"
      BY <1>7 DEF StartServer
    <3>2. QED  BY <1>7, <3>1 DEF StartServer
  <2>2. /\ cpc[c] = "locked" /\ cpc' = [cpc EXCEPT ![c] = "starting"]
        /\ UNCHANGED <<lockPath, opened>>
    BY <1>7 DEF StartServer, Step, Goto
  <2>3. s \in Procs /\ c # s /\ c \notin ServerIds /\ s \notin Clients
    BY ServerAssumption DEF Procs
  <2>4. Owner(c) /\ held[c] # 0  BY <1>1, <2>2 DEF Owner, LockInv
  <2>5. PcTypes'  BY <1>1, <1>2, <2>1, <2>2 DEF PcTypes, ServerPcs
  <2>6. cpc'[c] = "starting" /\ spc'[s] = "exec"  BY <1>1, <2>1, <2>2 DEF PcTypes
  <2>7. ~Owner(c)' /\ ~Trying(c)' /\ ~Trying(s)'
    BY <2>3, <2>6 DEF Owner, Trying
  <2>8. \A q \in Procs \ {c, s} : Stays(q)
    BY <1>1, <2>1, <2>2 DEF Stays, Owner, Trying, PcTypes
  <2>9. QED  BY <1>1, <2>1, <2>2, <2>3, <2>4, <2>5, <2>7, <2>8, HandKeeps
<1>8. QED
  BY <1>3, <1>4, <1>5, <1>6, <1>7, ClientQuietSteps DEF ClientStep

-----------------------------------------------------------------------------
(* The steps of a server. *)

LivePcs == ServerPcs \ {"free", "closed", "opened"}

\* A server that leaves the files alone and had the lock before, or is not to have it.
LEMMA ServerQuiet ==
  ASSUME LockInv, NEW s \in ServerIds, NEW pc \in ServerPcs \ {"opened"},
         spc' = [spc EXCEPT ![s] = pc], UNCHANGED <<fileVars, cpc>>,
         spc[s] \in LivePcs \/ pc \in {"free", "closed"}
  PROVE  LockInv'
<1>1. PcTypes /\ pc \in ServerPcs /\ s \in Procs  BY DEF LockInv, Procs
<1>2. /\ PcTypes' /\ \A q \in Procs \ {s} : Stays(q)
      /\ Owner(s)' => pc \notin {"free", "closed", "opened"}
      /\ ~Trying(s)'
  BY <1>1, ServerMoves
<1>3. Owner(s)' => Owner(s)  BY <1>2 DEF LivePcs, Owner
<1>4. QED  BY <1>1, <1>2, <1>3, FilesAlone DEF Stays

\* The idle thread, and most of the loop, change no counter of a process.
LEMMA NobodyMoves ==
  ASSUME LockInv, UNCHANGED <<fileVars, cpc, spc>>
  PROVE  LockInv'
BY DEF LockInv, LockTypes, PcTypes, Owner, Trying, fileVars

LEMMA ServerQuietSteps ==
  ASSUME LockInv, NEW s \in ServerIds,
         \/ RemoveSocket(s) \/ BindSocket(s) \/ SendReady(s) \/ Hangup(s) \/ Disconnect(s)
         \/ JoinIdle(s) \/ UnlinkSocket(s)
  PROVE  LockInv'
<1>1. /\ {"bind", "cooker", "loop", "waitidle", "unlink", "shutting"}
             \subseteq ServerPcs \ {"opened"}
      /\ {"exec", "bind", "cooker", "loop", "waitidle", "unlink"} \subseteq LivePcs
  BY DEF LivePcs, ServerPcs
<1>2. UNCHANGED <<fileVars, cpc>> /\ spc[s] \in LivePcs
  /\ \E pc \in ServerPcs \ {"opened"} : spc' = [spc EXCEPT ![s] = pc]
  <2>1. CASE RemoveSocket(s)  BY <1>1, <2>1 DEF RemoveSocket, Move, At, clientVars
  <2>2. CASE BindSocket(s)  BY <1>1, <2>2 DEF BindSocket, Move, At, clientVars
  <2>3. CASE SendReady(s)  BY <1>1, <2>3 DEF SendReady, Move, At, clientVars
  <2>4. CASE Hangup(s)  BY <1>1, <2>4 DEF Hangup, InLoop, OnlyLoop, At, clientVars
  <2>5. CASE Disconnect(s)  BY <1>1, <2>5 DEF Disconnect, OnlyLoop, At, clientVars
  <2>6. CASE JoinIdle(s)  BY <1>1, <2>6 DEF JoinIdle, Move, At, clientVars
  <2>7. CASE UnlinkSocket(s)  BY <1>1, <2>7 DEF UnlinkSocket, Move, At, clientVars
  <2>8. QED  BY <2>1, <2>2, <2>3, <2>4, <2>5, <2>6, <2>7
<1>3. QED  BY <1>2, ServerQuiet

LEMMA LoopKeepsLock ==
  ASSUME LockInv, NEW s \in ServerIds,
         \/ Accept(s) \/ RecvFds(s) \/ RunCommand(s) \/ UITimeout(s)
         \/ IdleStep(s) \/ IdleBreaks(s)
  PROVE  LockInv'
<1>1. UNCHANGED <<fileVars, cpc, spc>>
  <2>1. CASE Accept(s)  BY <2>1 DEF Accept, OnlyLoop, clientVars
  <2>2. CASE RecvFds(s)  BY <2>2 DEF RecvFds, OnlyLoop, clientVars
  <2>3. CASE RunCommand(s)  BY <2>3 DEF RunCommand, OnlyLoop, clientVars
  <2>4. CASE UITimeout(s)  BY <2>4 DEF UITimeout, clientVars
  <2>5. CASE IdleStep(s) \/ IdleBreaks(s)
    BY <2>5 DEF IdleStep, IdleBreaks, EndCommand, FireCompleted, FireQueued, Advance, clientVars
  <2>6. QED  BY <2>1, <2>2, <2>3, <2>4, <2>5
<1>2. QED  BY <1>1, NobodyMoves

LEMMA ServerKeepsLock ==
  ASSUME LockInv, NEW s \in ServerIds, ServerStep(s) \/ Crash(s)
  PROVE  LockInv'
<1>1. PcTypes /\ s \in Procs  BY DEF LockInv, Procs
<1>2. {"free", "closed", "opened", "unlinking"} \subseteq ServerPcs  BY DEF ServerPcs
<1>3. Vanish(s) =>
        /\ PcTypes' /\ ~Owner(s)' /\ ~Trying(s)' /\ \A q \in Procs \ {s} : Stays(q)
  BY <1>1, <1>2, ServerMoves DEF Vanish, clientVars
<1>4. CASE StartFails(s) \/ Crash(s)
  BY <1>1, <1>3, <1>4, DropKeeps DEF StartFails, Crash
<1>5. CASE CloseLock(s)
  <2>1. /\ spc[s] = "shutting" /\ spc' = [spc EXCEPT ![s] = "closed"]
        /\ UNCHANGED <<lockPath, opened, cpc>>
    BY <1>5 DEF CloseLock, Move, At, clientVars
  <2>2. /\ PcTypes' /\ ~Owner(s)' /\ ~Trying(s)' /\ \A q \in Procs \ {s} : Stays(q)
    BY <1>1, <1>2, <2>1, ServerMoves
  <2>3. Owner(s) /\ held[s] # 0  BY <1>1, <2>1 DEF Owner, LockInv, ServerPcs
  <2>4. CASE held' = [held EXCEPT ![s] = 0]
    <3>1. LockTypes'  BY <2>1, <2>4 DEF LockInv, LockTypes
    <3>2. held'[s] = 0 /\ \A q \in Procs \ {s} : held'[q] = held[q]
      BY <1>1, <2>4 DEF LockInv, LockTypes
    <3>3. \A q, r \in Procs : held'[q] # 0 /\ held'[q] = held'[r] => q = r
      BY <3>2 DEF LockInv
    <3>4. QED  BY <2>1, <2>2, <3>1, <3>2, <3>3 DEF LockInv, Stays
  <2>5. CASE held' = [held EXCEPT ![s] = 0, !["children"] = held[s]]
    <3>1. "children" \in Procs /\ "children" # s
          /\ "children" \notin Clients /\ "children" \notin ServerIds
      BY ServerAssumption DEF Procs
    <3>2. ~Owner("children")' /\ ~Trying("children")'  BY <3>1 DEF Owner, Trying
    <3>3. held' = [held EXCEPT !["children"] = held[s], ![s] = 0]
      BY <1>1, <2>5, <3>1 DEF LockInv, LockTypes
    <3>4. QED  BY <1>1, <2>1, <2>2, <2>3, <3>1, <3>2, <3>3, HandKeeps
  <2>6. QED  BY <1>5, <2>4, <2>5 DEF CloseLock
<1>6. CASE LastLock(s)
  <2>1. cpc' = cpc  BY <1>6 DEF LastLock, clientVars
  <2>2. CASE OpenLock(s) /\ Move(s, "closed", "opened")
    BY <1>1, <1>2, <2>1, <2>2, ServerMoves, OpenKeeps DEF Move
  <2>3. CASE GetsLock(s) /\ Move(s, "opened", "unlinking") /\ TakeLock(s)
    BY <1>1, <1>2, <2>1, <2>3, ServerMoves, TakeKeeps DEF Move, At, Trying
  <2>4. QED  BY <1>6, <2>2, <2>3 DEF LastLock
<1>7. CASE Exit(s)
  <2>1. Vanish(s)  BY <1>7 DEF Exit
  <2>2. CASE UNCHANGED fileVars  BY <1>2, <2>1, <2>2, ServerQuiet DEF Vanish, clientVars
  <2>3. CASE MissLock(s)  BY <1>1, <1>3, <2>1, <2>3, MissKeeps
  <2>4. CASE At(s, "unlinking") /\ UnlockFile(s)
    <3>1. Owner(s)  BY <2>4 DEF At, Owner, ServerPcs
    <3>2. QED  BY <1>1, <1>3, <2>1, <2>4, <3>1, UnlockKeeps
  <2>5. QED  BY <1>7, <2>2, <2>3, <2>4 DEF Exit
<1>8. QED
  BY <1>4, <1>5, <1>6, <1>7, ServerQuietSteps, LoopKeepsLock DEF ServerStep

LEMMA ChildrenKeepLock == ASSUME LockInv, ChildrenEnd PROVE LockInv'
<1>1. /\ held' = [held EXCEPT !["children"] = 0]
      /\ UNCHANGED <<lockPath, opened, cpc, spc>>
  BY DEF ChildrenEnd, clientVars, serverVars
<1>2. "children" \in Procs /\ "children" \notin Clients /\ "children" \notin ServerIds
  BY ServerAssumption DEF Procs
<1>3. PcTypes' /\ LockTypes'  BY <1>1 DEF LockInv, PcTypes, LockTypes
<1>4. \A q \in Procs \ {"children"} : held'[q] = held[q]
  BY <1>1 DEF LockInv, LockTypes
<1>5. held'["children"] = 0  BY <1>1, <1>2 DEF LockInv, LockTypes
<1>6. \A q, r \in Procs : held'[q] # 0 /\ held'[q] = held'[r] => q = r
  BY <1>4, <1>5 DEF LockInv
<1>7. \A q \in Procs : (Owner(q)' <=> Owner(q)) /\ (Trying(q)' <=> Trying(q))
  BY <1>1 DEF Owner, Trying
<1>8. ~Owner("children")  BY <1>2 DEF Owner
<1>9. QED  BY <1>1, <1>3, <1>4, <1>6, <1>7, <1>8 DEF LockInv

-----------------------------------------------------------------------------

LEMMA LockInit == Init => LockInv
<1>1. SUFFICES ASSUME Init PROVE LockInv  OBVIOUS
<1>2. PcTypes
  <2>1. PICK sc \in Scenarios :
          cpc = [c \in Clients |-> IF c \in sc.clients THEN "begin" ELSE "done"]
    BY <1>1 DEF Init
  <2>2. cpc \in [Clients -> ClientPcs]  BY <2>1 DEF ClientPcs, ClientEnds
  <2>3. spc \in [ServerIds -> ServerPcs]  BY <1>1 DEF Init, ServerPcs
  <2>4. QED  BY <2>2, <2>3 DEF PcTypes
<1>3. LockTypes /\ \A p \in Procs : held[p] = 0  BY <1>1 DEF Init, LockTypes
<1>4. \A p \in Procs : ~Owner(p) /\ ~Trying(p)
  <2>1. \A c \in Clients : cpc[c] \in {"begin", "done"}  BY <1>1 DEF Init
  <2>2. \A s \in ServerIds : spc[s] = "free"  BY <1>1 DEF Init
  <2>3. QED  BY <2>1, <2>2 DEF Owner, Trying
<1>5. QED  BY <1>2, <1>3, <1>4 DEF LockInv

LEMMA LockNext == LockInv /\ [Next]_vars => LockInv'
<1>1. SUFFICES ASSUME LockInv, [Next]_vars PROVE LockInv'  OBVIOUS
<1>2. ASSUME NEW c \in Clients, ClientStep(c) \/ SendStop(c) \/ Killed(c) PROVE LockInv'
  BY <1>1, <1>2, ClientKeepsLock
<1>3. ASSUME NEW s \in ServerIds,
             ServerStep(s) \/ IdleStep(s) \/ IdleBreaks(s) \/ Crash(s)
      PROVE  LockInv'
  BY <1>1, <1>3, ServerKeepsLock, LoopKeepsLock
<1>4. CASE UNCHANGED vars
  BY <1>1, <1>4, NobodyMoves DEF vars, clientVars, serverVars
<1>5. QED  BY <1>1, <1>2, <1>3, <1>4, ChildrenKeepLock DEF Next

\* The inductive invariant of bitbake.lock: the file an owner holds is the one on
\* disk, and no two processes hold a lock on the same file, whoever removes it and
\* creates it again between an open and a flock (lockfile and unlockfile).
THEOREM LockInvariant == Spec => []LockInv
BY LockInit, LockNext, PTL DEF Spec

\* Two processes never own the lock at the same time.
THEOREM OneOwner == Spec => []LockExclusive
BY LockInvariant, LockIsExclusive, PTL

-----------------------------------------------------------------------------
(* TypeOK, in the groups that BBServer's tuples of variables make.  A client that *)
(* goes on has an attempt left, and a server that starts knows its starter.      *)

ConstTypes == timeout \in {"none", "some", "forever"} /\ faults \in Nat
SockTypes == sockPath \in ServerIds \cup {"none", "stale"}

ClientTypes ==
  /\ cpc \in [Clients -> ClientPcs] /\ retries \in [Clients -> Nat]
  /\ \A c \in Clients : cpc[c] \notin ClientEnds => retries[c] \in 1 .. Retries[c]

PipeTypes ==
  /\ ready \subseteq Conns /\ live \subseteq Conns /\ sent \subseteq Conns
  /\ cmd \in [Conns -> Commands]
  /\ reply \in [Conns -> {"none", "ok", "busy"}]
  /\ news \subseteq Conns

StartTypes ==
  /\ spc \in [ServerIds -> ServerPcs] /\ quit \in [ServerIds -> BOOLEAN]
  /\ starter \in [ServerIds -> Conns \cup {None}]
  /\ \A s \in ServerIds : spc[s] \in {"exec", "bind", "cooker"} => starter[s] \in Conns

LoopTypes ==
  /\ backlog \in [ServerIds -> Seq(Conns)]
  /\ newconnections \in [ServerIds -> Seq(Conns)]
  /\ controllersock \in [ServerIds -> Conns \cup {None}]
  /\ haveui \in [ServerIds -> BOOLEAN] /\ hadanyui \in [ServerIds -> BOOLEAN]

JobTypes ==
  /\ stopper \in [ServerIds -> Conns \cup {None}]
  /\ currentAsyncCommand \in [ServerIds -> Conns \cup {None}]
  /\ idlefun \in [ServerIds -> {"none", "registered", "firing"}]
  /\ ui_queue \in [ServerIds -> BOOLEAN]

OtherTypes ==
  ConstTypes /\ SockTypes /\ ClientTypes /\ PipeTypes /\ StartTypes /\ LoopTypes /\ JobTypes

LEMMA TypesTogether == ASSUME LockInv, OtherTypes PROVE TypeOK
BY DEF LockInv, LockTypes, OtherTypes, ConstTypes, SockTypes, ClientTypes, PipeTypes,
       StartTypes, LoopTypes, JobTypes, TypeOK

\* What a step leaves alone keeps its type.
LEMMA UnchangedTypes ==
  ASSUME OtherTypes
  PROVE  /\ Fault \/ NoFault => ConstTypes'
         /\ UNCHANGED constVars => ConstTypes'
         /\ UNCHANGED sockPath => SockTypes'
         /\ UNCHANGED clientVars => ClientTypes'
         /\ UNCHANGED pipeVars => PipeTypes'
         /\ UNCHANGED <<spc, quit, starter>> => StartTypes'
         /\ UNCHANGED loopVars => LoopTypes'
         /\ UNCHANGED jobVars => JobTypes'
         /\ UNCHANGED serverVars => StartTypes' /\ LoopTypes' /\ JobTypes'
<1>1. UNCHANGED constVars => ConstTypes'  BY DEF OtherTypes, ConstTypes, constVars
<1>2. Fault => ConstTypes'  BY DEF OtherTypes, ConstTypes, Fault
<1>3. UNCHANGED sockPath => SockTypes'  BY DEF OtherTypes, SockTypes
<1>4. UNCHANGED clientVars => ClientTypes'  BY DEF OtherTypes, ClientTypes, clientVars
<1>5. UNCHANGED pipeVars => PipeTypes'  BY DEF OtherTypes, PipeTypes, pipeVars
<1>6. UNCHANGED <<spc, quit, starter>> => StartTypes'  BY DEF OtherTypes, StartTypes
<1>7. UNCHANGED loopVars => LoopTypes'  BY DEF OtherTypes, LoopTypes, loopVars
<1>8. UNCHANGED jobVars => JobTypes'  BY DEF OtherTypes, JobTypes, jobVars
<1>9. UNCHANGED serverVars => UNCHANGED <<spc, quit, starter>> /\ UNCHANGED loopVars
                              /\ UNCHANGED jobVars
  BY DEF serverVars
<1>10. QED
  BY <1>1, <1>2, <1>3, <1>4, <1>5, <1>6, <1>7, <1>8, <1>9 DEF NoFault

-----------------------------------------------------------------------------
(* The helpers of the actions. *)

LEMMA ConnTyped ==
  ASSUME ClientTypes, NEW c \in Clients, cpc[c] \notin ClientEnds
  PROVE  conn(c) \in Conns
BY DEF ClientTypes, conn, Conns

LEMMA StepTyped ==
  ASSUME ClientTypes, NEW c \in Clients, NEW pc \in ClientPcs, cpc[c] \notin ClientEnds,
         Goto(c, pc), UNCHANGED retries
  PROVE  ClientTypes'
BY DEF ClientTypes, Goto

LEMMA HangTyped ==
  ASSUME PipeTypes, NEW k, Hang(k), UNCHANGED <<sent, cmd>>
  PROVE  PipeTypes'
BY DEF PipeTypes, Hang

LEMMA RetryTyped ==
  ASSUME ClientTypes, PipeTypes, NEW c \in Clients, cpc[c] \notin ClientEnds, Retry(c)
  PROVE  ClientTypes' /\ PipeTypes'
<1>1. PipeTypes'  BY HangTyped DEF Retry
<1>2. Retries[c] \in Nat /\ retries[c] \in 1 .. Retries[c]
  BY ServerAssumption DEF ClientTypes
<1>3. /\ retries' = [retries EXCEPT ![c] = retries[c] - 1] /\ retries[c] - 1 \in Nat
      /\ cpc' = [cpc EXCEPT ![c] = IF retries[c] = 1 THEN "fatal" ELSE "begin"]
  BY <1>2 DEF Retry, Goto, LastTry
<1>4. cpc' \in [Clients -> ClientPcs]  BY <1>3 DEF ClientTypes, ClientPcs, ClientEnds
<1>5. retries' \in [Clients -> Nat]  BY <1>3 DEF ClientTypes
<1>6. ASSUME NEW d \in Clients, cpc'[d] \notin ClientEnds
      PROVE  retries'[d] \in 1 .. Retries[d]
  <2>1. CASE d = c
    <3>1. retries[c] # 1  BY <1>3, <1>6, <2>1 DEF ClientEnds, ClientTypes
    <3>2. retries'[d] = retries[c] - 1  BY <1>3, <2>1 DEF ClientTypes
    <3>3. QED  BY <1>2, <2>1, <3>1, <3>2
  <2>2. CASE d # c
    <3>1. cpc'[d] = cpc[d] /\ retries'[d] = retries[d]  BY <1>3, <2>2 DEF ClientTypes
    <3>2. QED  BY <1>6, <3>1 DEF ClientTypes
  <2>3. QED  BY <2>1, <2>2
<1>7. QED  BY <1>1, <1>4, <1>5, <1>6 DEF ClientTypes

LEMMA ForgetTyped ==
  ASSUME PipeTypes, NEW ks, Forget(ks), UNCHANGED <<ready, live, reply>>,
         news' = news \/ news' \subseteq news \cup live
  PROVE  PipeTypes'
BY DEF PipeTypes, Forget, Commands

LEMMA ReplyTyped ==
  ASSUME PipeTypes, NEW k, NEW r \in {"none", "ok", "busy"}, Reply(k, r)
  PROVE  PipeTypes'
BY DEF PipeTypes, Reply, Commands

LEMMA DeliverTyped ==
  ASSUME PipeTypes, NEW s, Deliver(s), UNCHANGED <<ready, live, sent, cmd, reply>>
  PROVE  PipeTypes'
BY DEF PipeTypes, Deliver

LEMMA VanishTyped ==
  ASSUME OtherTypes, NEW s \in ServerIds, Vanish(s)
  PROVE  /\ SockTypes' /\ ClientTypes' /\ PipeTypes' /\ StartTypes' /\ LoopTypes'
         /\ JobTypes'
<1>1. SockTypes'  BY DEF OtherTypes, SockTypes, Vanish
<1>2. ClientTypes'  BY UnchangedTypes DEF Vanish
<1>3. PipeTypes'  BY ForgetTyped DEF OtherTypes, Vanish
<1>4. StartTypes'
  <2>1. /\ spc' \in [ServerIds -> ServerPcs] /\ quit' \in [ServerIds -> BOOLEAN]
        /\ starter' \in [ServerIds -> Conns \cup {None}]
    BY DEF OtherTypes, StartTypes, Vanish, ServerPcs
  <2>2. \A r \in ServerIds : spc'[r] \in {"exec", "bind", "cooker"} => starter'[r] \in Conns
    <3>1. spc'[s] = "free"  BY DEF OtherTypes, StartTypes, Vanish
    <3>2. \A r \in ServerIds \ {s} : spc'[r] = spc[r] /\ starter'[r] = starter[r]
      BY DEF OtherTypes, StartTypes, Vanish
    <3>3. QED  BY <3>1, <3>2 DEF OtherTypes, StartTypes
  <2>3. QED  BY <2>1, <2>2 DEF StartTypes
<1>5. LoopTypes'
  <2>1. <<>> \in Seq(Conns)  OBVIOUS
  <2>2. backlog' \in [ServerIds -> Seq(Conns)] /\ newconnections' \in [ServerIds -> Seq(Conns)]
    BY <2>1 DEF OtherTypes, LoopTypes, Vanish
  <2>3. /\ controllersock' \in [ServerIds -> Conns \cup {None}]
        /\ haveui' \in [ServerIds -> BOOLEAN] /\ hadanyui' \in [ServerIds -> BOOLEAN]
    BY DEF OtherTypes, LoopTypes, Vanish
  <2>4. QED  BY <2>2, <2>3 DEF LoopTypes
<1>6. JobTypes'  BY DEF OtherTypes, JobTypes, Vanish
<1>7. QED  BY <1>1, <1>2, <1>3, <1>4, <1>5, <1>6

-----------------------------------------------------------------------------
(* The actions. *)

LEMMA ClientTyped ==
  ASSUME OtherTypes, NEW c \in Clients, ClientStep(c) \/ SendStop(c) \/ Killed(c)
  PROVE  OtherTypes'
<1>1. /\ ConstTypes /\ SockTypes /\ ClientTypes /\ PipeTypes /\ StartTypes /\ LoopTypes
      /\ JobTypes
  BY DEF OtherTypes
<1>2. /\ ClientPcs \ ClientEnds =
           {"begin", "opened", "locked", "starting", "reconnect", "waiting", "polling",
            "unlinking", "connect", "connected", "asked", "session", "closing", "building",
            "stopping"}
      /\ {"done", "gone", "lost"} \subseteq ClientPcs
  BY DEF ClientPcs, ClientEnds
<1> DEFINE Running == cpc[c] \notin ClientEnds
           Goes == \E pc \in ClientPcs : Goto(c, pc) /\ UNCHANGED retries
<1>3. Running /\ Goes => ClientTypes'  BY <1>1, StepTyped
<1>4. CASE ClientOpens(c) \/ ClientLocks(c) \/ NoServerToKill(c) \/ Reconnect(c)
  <2>1. Running /\ Goes
    BY <1>2, <1>4 DEF ClientOpens, ClientLocks, NoServerToKill, Reconnect, Step
  <2>2. UNCHANGED sockPath /\ UNCHANGED constVars /\ UNCHANGED pipeVars /\ UNCHANGED serverVars
    BY <1>4 DEF ClientOpens, ClientLocks, NoServerToKill, Reconnect
  <2>3. QED  BY <1>3, <2>1, <2>2, UnchangedTypes DEF OtherTypes
<1>5. CASE StartServer(c)
  <2>1. Running /\ Goes  BY <1>2, <1>5 DEF StartServer, Step
  <2>2. /\ UNCHANGED sockPath /\ UNCHANGED constVars /\ UNCHANGED pipeVars
        /\ UNCHANGED loopVars /\ UNCHANGED jobVars
    BY <1>5 DEF StartServer
  <2>3. PICK s \in ServerIds : /\ spc' = [spc EXCEPT ![s] = "exec"]
                               /\ starter' = [starter EXCEPT ![s] = conn(c)]
    <3>1. (CHOOSE x \in ServerIds : spc[x] = "free") \in ServerIds  BY <1>5 DEF StartServer
    <3>2. QED  BY <1>5, <3>1 DEF StartServer
  <2>4. conn(c) \in Conns  BY <1>1, <2>1, ConnTyped
  <2>5. StartTypes'
    <3>1. quit' = quit  BY <1>5 DEF StartServer
    <3>2. /\ spc' \in [ServerIds -> ServerPcs] /\ quit' \in [ServerIds -> BOOLEAN]
          /\ starter' \in [ServerIds -> Conns \cup {None}]
      BY <1>1, <2>3, <2>4, <3>1 DEF StartTypes, ServerPcs
    <3>3. starter'[s] = conn(c)
          /\ \A r \in ServerIds \ {s} : spc'[r] = spc[r] /\ starter'[r] = starter[r]
      BY <1>1, <2>3 DEF StartTypes
    <3>4. QED  BY <1>1, <2>4, <3>2, <3>3 DEF StartTypes
  <2>6. QED  BY <1>3, <2>1, <2>2, <2>5, UnchangedTypes DEF OtherTypes
<1>6. CASE SeesReady(c) \/ SendFds(c) \/ Answered(c) \/ SendTerminate(c) \/ SendBuild(c)
           \/ SendStop(c)
  <2>1. Running /\ Goes
    BY <1>2, <1>6 DEF SeesReady, SendFds, Answered, SendTerminate, SendBuild, SendStop, Step
  <2>2. UNCHANGED sockPath /\ UNCHANGED constVars /\ UNCHANGED serverVars
    BY <1>6 DEF SeesReady, SendFds, Answered, SendTerminate, SendBuild, SendStop, Send
  <2>3. conn(c) \in Conns  BY <1>1, <2>1, ConnTyped
  <2>4. PipeTypes'
    <3>1. CASE SeesReady(c)  BY <1>1, <3>1 DEF SeesReady, PipeTypes
    <3>2. CASE SendFds(c)  BY <1>1, <2>3, <3>2 DEF SendFds, PipeTypes, Commands
    <3>3. CASE Answered(c)  BY <1>1, <3>3 DEF Answered, PipeTypes
    <3>4. CASE SendTerminate(c)
      BY <1>1, <3>4 DEF SendTerminate, Send, PipeTypes, Commands
    <3>5. CASE SendBuild(c)  BY <1>1, <3>5 DEF SendBuild, Send, PipeTypes, Commands
    <3>6. CASE SendStop(c)  BY <1>1, <3>6 DEF SendStop, Send, PipeTypes, Commands
    <3>7. QED  BY <1>6, <3>1, <3>2, <3>3, <3>4, <3>5, <3>6
  <2>5. QED  BY <1>3, <2>1, <2>2, <2>4, UnchangedTypes DEF OtherTypes
<1>7. CASE Connect(c)
  <2>1. Running /\ Goes  BY <1>2, <1>7 DEF Connect, Step
  <2>2. /\ UNCHANGED sockPath /\ UNCHANGED constVars /\ UNCHANGED jobVars
        /\ UNCHANGED <<spc, quit, starter>>
    BY <1>7 DEF Connect
  <2>3. conn(c) \in Conns  BY <1>1, <2>1, ConnTyped
  <2>4. PipeTypes'  BY <1>1, <1>7, <2>3 DEF Connect, PipeTypes
  <2>5. LoopTypes'
    <3>1. Append(backlog[sockPath], conn(c)) \in Seq(Conns)
      BY <1>1, <1>7, <2>3 DEF Connect, LoopTypes
    <3>2. QED  BY <1>1, <1>7, <3>1 DEF Connect, LoopTypes
  <2>6. QED  BY <1>3, <2>1, <2>2, <2>4, <2>5, UnchangedTypes DEF OtherTypes
<1>8. CASE SeesNoServer(c) \/ ClientUnlocks(c) \/ StopsPolling(c) \/ ConnectFails(c)
           \/ NotAnswered(c)
  <2>1. Running /\ Retry(c)
    BY <1>2, <1>8 DEF SeesNoServer, ClientUnlocks, StopsPolling, ConnectFails, NotAnswered,
         ClientEnds
  <2>2. UNCHANGED sockPath /\ (Fault \/ NoFault) /\ UNCHANGED serverVars
    BY <1>8 DEF SeesNoServer, ClientUnlocks, StopsPolling, ConnectFails, NotAnswered, NoFault
  <2>3. ClientTypes' /\ PipeTypes'  BY <1>1, <2>1, RetryTyped
  <2>4. QED  BY <2>2, <2>3, UnchangedTypes DEF OtherTypes
<1>9. CASE Finish(c) \/ LoseServer(c) \/ Killed(c)
  <2>1. Running
    BY <1>9 DEF Finish, LoseServer, Killed, ClientEnds
  <2>2. UNCHANGED sockPath /\ (Fault \/ NoFault) /\ UNCHANGED serverVars
    BY <1>9 DEF Finish, LoseServer, Killed, Close, NoFault
  <2>3. CASE LoseServer(c) /\ Retry(c)
    BY <1>1, <2>1, <2>2, <2>3, RetryTyped, UnchangedTypes DEF OtherTypes
  <2>4. CASE Goes /\ Hang(conn(c)) /\ UNCHANGED <<sent, cmd>>
    <3>1. PipeTypes'  BY <1>1, <2>4, HangTyped
    <3>2. QED  BY <1>3, <2>1, <2>2, <2>4, <3>1, UnchangedTypes DEF OtherTypes
  <2>5. QED  BY <1>2, <1>9, <2>3, <2>4 DEF Finish, LoseServer, Killed, Close
<1>10. QED  BY <1>4, <1>5, <1>6, <1>7, <1>8, <1>9 DEF ClientStep

\* A server that has started, or goes on starting.
LEMMA MoveTyped ==
  ASSUME StartTypes, NEW s \in ServerIds, NEW pc \in ServerPcs,
         spc' = [spc EXCEPT ![s] = pc], UNCHANGED <<quit, starter>>,
         pc \in {"exec", "bind", "cooker"} => spc[s] \in {"exec", "bind", "cooker"}
  PROVE  StartTypes'
<1>1. spc' \in [ServerIds -> ServerPcs]  BY DEF StartTypes
<1>2. spc'[s] = pc /\ \A r \in ServerIds \ {s} : spc'[r] = spc[r]  BY DEF StartTypes
<1>3. QED  BY <1>1, <1>2 DEF StartTypes

LEMMA QuitTyped ==
  ASSUME StartTypes, NEW s \in ServerIds, NEW b \in BOOLEAN,
         quit' = [quit EXCEPT ![s] = b], UNCHANGED <<spc, starter>>
  PROVE  StartTypes'
BY DEF StartTypes

LEMMA ServerTyped ==
  ASSUME OtherTypes, NEW s \in ServerIds,
         \/ RemoveSocket(s) \/ BindSocket(s) \/ SendReady(s) \/ StartFails(s) \/ Hangup(s)
         \/ JoinIdle(s) \/ UnlinkSocket(s) \/ CloseLock(s) \/ LastLock(s) \/ Exit(s) \/ Crash(s)
  PROVE  OtherTypes'
<1>1. /\ ConstTypes /\ SockTypes /\ ClientTypes /\ PipeTypes /\ StartTypes /\ LoopTypes
      /\ JobTypes
  BY DEF OtherTypes
<1>2. {"free", "exec", "bind", "cooker", "loop", "waitidle", "unlink", "shutting", "closed",
       "opened", "unlinking"} = ServerPcs
  BY DEF ServerPcs
<1>3. CASE RemoveSocket(s) \/ BindSocket(s)
  <2>1. /\ UNCHANGED constVars /\ UNCHANGED clientVars /\ UNCHANGED pipeVars
        /\ UNCHANGED loopVars /\ UNCHANGED jobVars
    BY <1>3 DEF RemoveSocket, BindSocket
  <2>2. SockTypes'  BY <1>3 DEF RemoveSocket, BindSocket, SockTypes
  <2>3. StartTypes'
    BY <1>1, <1>2, <1>3, MoveTyped DEF RemoveSocket, BindSocket, Move, At
  <2>4. QED  BY <2>1, <2>2, <2>3, UnchangedTypes DEF OtherTypes
<1>4. CASE SendReady(s)
  <2>1. /\ UNCHANGED sockPath /\ UNCHANGED constVars /\ UNCHANGED clientVars
        /\ UNCHANGED loopVars /\ UNCHANGED jobVars
    BY <1>4 DEF SendReady
  <2>2. starter[s] \in Conns  BY <1>1, <1>4 DEF SendReady, Move, At, StartTypes
  <2>3. PipeTypes'  BY <1>1, <1>4, <2>2 DEF SendReady, PipeTypes
  <2>4. StartTypes'
    <3>1. /\ spc' = [spc EXCEPT ![s] = "loop"] /\ quit' = quit
          /\ starter' = [starter EXCEPT ![s] = None]
      BY <1>4 DEF SendReady, Move
    <3>2. spc'[s] = "loop"
          /\ \A r \in ServerIds \ {s} : spc'[r] = spc[r] /\ starter'[r] = starter[r]
      BY <1>1, <3>1 DEF StartTypes
    <3>3. /\ spc' \in [ServerIds -> ServerPcs]
          /\ starter' \in [ServerIds -> Conns \cup {None}]
      BY <1>1, <1>2, <3>1 DEF StartTypes
    <3>4. QED  BY <1>1, <3>1, <3>2, <3>3 DEF StartTypes
  <2>5. QED  BY <2>1, <2>3, <2>4, UnchangedTypes DEF OtherTypes
<1>5. CASE StartFails(s) \/ Exit(s) \/ Crash(s)
  <2>1. Vanish(s) /\ (Fault \/ NoFault)  BY <1>5 DEF StartFails, Exit, Crash, NoFault
  <2>2. QED  BY <1>1, <2>1, VanishTyped, UnchangedTypes DEF OtherTypes
<1>6. CASE Hangup(s)
  <2>1. /\ UNCHANGED sockPath /\ UNCHANGED constVars /\ UNCHANGED clientVars
        /\ UNCHANGED pipeVars /\ UNCHANGED loopVars /\ UNCHANGED jobVars
    BY <1>6 DEF Hangup, OnlyLoop
  <2>2. StartTypes'  BY <1>1, <1>2, <1>6, MoveTyped DEF Hangup, OnlyLoop
  <2>3. QED  BY <2>1, <2>2, UnchangedTypes DEF OtherTypes
<1>7. CASE JoinIdle(s)
  <2>1. /\ UNCHANGED sockPath /\ UNCHANGED constVars /\ UNCHANGED clientVars
        /\ UNCHANGED pipeVars /\ UNCHANGED loopVars
    BY <1>7 DEF JoinIdle
  <2>2. StartTypes'  BY <1>1, <1>2, <1>7, MoveTyped DEF JoinIdle, Move
  <2>3. JobTypes'  BY <1>1, <1>7 DEF JoinIdle, JobTypes
  <2>4. QED  BY <2>1, <2>2, <2>3, UnchangedTypes DEF OtherTypes
<1>8. CASE UnlinkSocket(s)
  <2>1. UNCHANGED constVars /\ UNCHANGED clientVars /\ UNCHANGED jobVars
    BY <1>8 DEF UnlinkSocket
  <2>2. SockTypes'  BY <1>1, <1>8 DEF UnlinkSocket, SockTypes
  <2>3. StartTypes'  BY <1>1, <1>2, <1>8, MoveTyped DEF UnlinkSocket, Move
  <2>4. PipeTypes'
    <3>1. news' = news \/ news' \subseteq news \cup live  BY <1>8 DEF UnlinkSocket, Deliver
    <3>2. QED  BY <1>1, <1>8, <3>1, ForgetTyped DEF UnlinkSocket
  <2>5. LoopTypes'
    <3>1. backlog' = [backlog EXCEPT ![s] = <<>>]
          /\ UNCHANGED <<newconnections, controllersock, haveui, hadanyui>>
      BY <1>8 DEF UnlinkSocket
    <3>2. backlog' \in [ServerIds -> Seq(Conns)]  BY <1>1, <3>1 DEF LoopTypes
    <3>3. QED  BY <1>1, <3>1, <3>2 DEF LoopTypes
  <2>6. QED  BY <2>1, <2>2, <2>3, <2>4, <2>5, UnchangedTypes DEF OtherTypes
<1>9. CASE CloseLock(s) \/ LastLock(s)
  <2>1. /\ UNCHANGED sockPath /\ (Fault \/ NoFault) /\ UNCHANGED clientVars
        /\ UNCHANGED pipeVars /\ UNCHANGED loopVars /\ UNCHANGED jobVars
    BY <1>9 DEF CloseLock, LastLock, NoFault
  <2>2. StartTypes'  BY <1>1, <1>2, <1>9, MoveTyped DEF CloseLock, LastLock, Move
  <2>3. QED  BY <2>1, <2>2, UnchangedTypes DEF OtherTypes
<1>10. QED  BY <1>3, <1>4, <1>5, <1>6, <1>7, <1>8, <1>9

LEMMA AcceptTyped == ASSUME OtherTypes, NEW s \in ServerIds, Accept(s) PROVE OtherTypes'
<1>1. LoopTypes  BY DEF OtherTypes
<1>2. /\ UNCHANGED sockPath /\ UNCHANGED constVars /\ UNCHANGED clientVars
      /\ UNCHANGED pipeVars /\ UNCHANGED <<spc, quit, starter>> /\ UNCHANGED jobVars
      /\ UNCHANGED <<haveui, hadanyui>>
  BY DEF Accept, OnlyLoop
<1>3. backlog[s] \in Seq(Conns) /\ backlog[s] # <<>>  BY <1>1 DEF Accept, LoopTypes
<1>4. Head(backlog[s]) \in Conns /\ Tail(backlog[s]) \in Seq(Conns)  BY <1>3
<1>5. Append(newconnections[s], Head(backlog[s])) \in Seq(Conns)
  BY <1>1, <1>4 DEF LoopTypes
<1>6. backlog' \in [ServerIds -> Seq(Conns)]  BY <1>1, <1>4 DEF Accept, LoopTypes
<1>7. newconnections' \in [ServerIds -> Seq(Conns)]  BY <1>1, <1>5 DEF Accept, LoopTypes
<1>8. controllersock' \in [ServerIds -> Conns \cup {None}]
  BY <1>1, <1>4 DEF Accept, LoopTypes
<1>9. LoopTypes'  BY <1>1, <1>2, <1>6, <1>7, <1>8 DEF LoopTypes
<1>10. QED  BY <1>2, <1>9, UnchangedTypes DEF OtherTypes

LEMMA RunCommandTyped ==
  ASSUME OtherTypes, NEW s \in ServerIds, RunCommand(s) PROVE OtherTypes'
<1>1. PipeTypes /\ StartTypes /\ LoopTypes /\ JobTypes  BY DEF OtherTypes
<1>2. /\ UNCHANGED sockPath /\ UNCHANGED constVars /\ UNCHANGED clientVars
      /\ UNCHANGED loopVars /\ UNCHANGED <<spc, starter>>
  BY DEF RunCommand, OnlyLoop
<1>3. PipeTypes'
  <2>1. \E r \in {"none", "ok", "busy"} : Reply(controllersock[s], r)  BY DEF RunCommand
  <2>2. QED  BY <1>1, <2>1, ReplyTyped
<1>4. StartTypes'
  <2>1. quit' = quit \/ quit' = [quit EXCEPT ![s] = TRUE]  BY DEF RunCommand
  <2>2. QED  BY <1>1, <1>2, <2>1, QuitTyped, UnchangedTypes
<1>5. JobTypes'
  <2>1. controllersock[s] \in Conns \cup {None}  BY <1>1 DEF LoopTypes
  <2>2. /\ currentAsyncCommand' = currentAsyncCommand
           \/ currentAsyncCommand' = [currentAsyncCommand EXCEPT ![s] = controllersock[s]]
        /\ idlefun' = idlefun \/ idlefun' = [idlefun EXCEPT ![s] = "registered"]
        /\ stopper' = stopper \/ stopper' = [stopper EXCEPT ![s] = controllersock[s]]
        /\ ui_queue' = ui_queue
    BY DEF RunCommand, jobVars
  <2>3. QED  BY <1>1, <2>1, <2>2 DEF JobTypes
<1>6. QED  BY <1>2, <1>3, <1>4, <1>5, UnchangedTypes DEF OtherTypes

LEMMA DisconnectTyped ==
  ASSUME OtherTypes, NEW s \in ServerIds, Disconnect(s) PROVE OtherTypes'
<1>1. PipeTypes /\ StartTypes /\ LoopTypes /\ JobTypes  BY DEF OtherTypes
<1>2. /\ UNCHANGED sockPath /\ UNCHANGED constVars /\ UNCHANGED clientVars
      /\ UNCHANGED <<backlog, hadanyui, starter, currentAsyncCommand, idlefun, ui_queue>>
  BY DEF Disconnect, OnlyLoop
<1>3. PipeTypes'  BY <1>1, ForgetTyped DEF Disconnect
<1>4. StartTypes'
  <2>1. spc' = [spc EXCEPT ![s] = "loop"]  BY DEF Disconnect
  <2>2. quit' \in [ServerIds -> BOOLEAN]
    <3>1. \/ quit' = quit
          \/ quit' = [quit EXCEPT ![s] =
                        ToldToQuit(s) \/ (timeout = "none" /\ backlog[s] = <<>>)]
      BY DEF Disconnect
    <3>2. (ToldToQuit(s) \/ (timeout = "none" /\ backlog[s] = <<>>)) \in BOOLEAN
      OBVIOUS
    <3>3. QED  BY <1>1, <3>1, <3>2 DEF StartTypes
  <2>3. spc'[s] = "loop" /\ \A r \in ServerIds \ {s} : spc'[r] = spc[r]
    BY <1>1, <2>1 DEF StartTypes
  <2>4. spc' \in [ServerIds -> ServerPcs]  BY <1>1, <2>1 DEF StartTypes, ServerPcs
  <2>5. QED  BY <1>1, <1>2, <2>2, <2>3, <2>4 DEF StartTypes
<1>5. LoopTypes'
  <2>1. CASE newconnections[s] # <<>> /\ ~ToldToQuit(s)
    <3>1. newconnections[s] \in Seq(Conns)  BY <1>1 DEF LoopTypes
    <3>2. Last(newconnections[s]) \in Conns /\ Front(newconnections[s]) \in Seq(Conns)
      BY <2>1, <3>1 DEF Last, Front
    <3>3. /\ controllersock' = [controllersock EXCEPT ![s] = Last(newconnections[s])]
          /\ newconnections' = [newconnections EXCEPT ![s] = Front(newconnections[s])]
          /\ haveui' = [haveui EXCEPT ![s] = FALSE]
      BY <2>1 DEF Disconnect
    <3>4. newconnections' \in [ServerIds -> Seq(Conns)]  BY <1>1, <3>2, <3>3 DEF LoopTypes
    <3>5. QED  BY <1>1, <1>2, <3>2, <3>3, <3>4 DEF LoopTypes
  <2>2. CASE ~(newconnections[s] # <<>> /\ ~ToldToQuit(s))
    <3>1. /\ controllersock' = [controllersock EXCEPT ![s] = None]
          /\ newconnections' = newconnections
          /\ haveui' = [haveui EXCEPT ![s] = FALSE]
      BY <2>2 DEF Disconnect
    <3>2. QED  BY <1>1, <1>2, <3>1 DEF LoopTypes
  <2>3. QED  BY <2>1, <2>2
<1>6. JobTypes'
  <2>1. stopper' = stopper \/ stopper' = [stopper EXCEPT ![s] = None]
    BY DEF Disconnect, Cleared
  <2>2. QED  BY <1>1, <1>2, <2>1 DEF JobTypes
<1>7. QED  BY <1>2, <1>3, <1>4, <1>5, <1>6, UnchangedTypes DEF OtherTypes

LEMMA LoopTyped ==
  ASSUME OtherTypes, NEW s \in ServerIds,
         RecvFds(s) \/ UITimeout(s) \/ IdleStep(s) \/ IdleBreaks(s)
  PROVE  OtherTypes'
<1>1. PipeTypes /\ StartTypes /\ LoopTypes /\ JobTypes  BY DEF OtherTypes
<1>2. CASE RecvFds(s)
  <2>1. /\ UNCHANGED sockPath /\ UNCHANGED constVars /\ UNCHANGED clientVars
        /\ UNCHANGED pipeVars /\ UNCHANGED <<spc, quit, starter>> /\ UNCHANGED jobVars
    BY <1>2 DEF RecvFds, OnlyLoop
  <2>2. LoopTypes'  BY <1>1, <1>2 DEF RecvFds, LoopTypes
  <2>3. QED  BY <2>1, <2>2, UnchangedTypes DEF OtherTypes
<1>3. CASE UITimeout(s)
  <2>1. /\ UNCHANGED sockPath /\ (Fault \/ NoFault) /\ UNCHANGED clientVars
        /\ UNCHANGED pipeVars /\ UNCHANGED loopVars /\ UNCHANGED jobVars
    BY <1>3 DEF UITimeout
  <2>2. StartTypes'  BY <1>1, <1>3, QuitTyped DEF UITimeout
  <2>3. QED  BY <2>1, <2>2, UnchangedTypes DEF OtherTypes
<1>4. CASE EndCommand(s)
  <2>1. /\ UNCHANGED sockPath /\ UNCHANGED constVars /\ UNCHANGED clientVars
        /\ UNCHANGED pipeVars /\ UNCHANGED <<spc, quit, starter>> /\ UNCHANGED loopVars
    BY <1>4 DEF EndCommand, Advance
  <2>2. JobTypes'  BY <1>1, <1>4 DEF EndCommand, Advance, JobTypes
  <2>3. QED  BY <2>1, <2>2, UnchangedTypes DEF OtherTypes
<1>5. CASE FireCompleted(s)
  <2>1. /\ UNCHANGED sockPath /\ UNCHANGED constVars /\ UNCHANGED clientVars
        /\ UNCHANGED <<spc, quit, starter>> /\ UNCHANGED loopVars
    BY <1>5 DEF FireCompleted, Advance
  <2>2. JobTypes'  BY <1>1, <1>5 DEF FireCompleted, Advance, JobTypes
  <2>3. PipeTypes'
    <3>1. CASE Deliver(s)  BY <1>1, <1>5, <3>1, DeliverTyped DEF FireCompleted
    <3>2. CASE news' = news  BY <1>1, <1>5, <3>2 DEF FireCompleted, PipeTypes
    <3>3. QED  BY <1>5, <3>1, <3>2 DEF FireCompleted
  <2>4. QED  BY <2>1, <2>2, <2>3, UnchangedTypes DEF OtherTypes
<1>6. CASE FireQueued(s)
  <2>1. /\ UNCHANGED sockPath /\ UNCHANGED constVars /\ UNCHANGED clientVars
        /\ UNCHANGED <<spc, quit, starter>> /\ UNCHANGED loopVars
    BY <1>6 DEF FireQueued
  <2>2. JobTypes'  BY <1>1, <1>6 DEF FireQueued, JobTypes
  <2>3. PipeTypes'  BY <1>1, <1>6, DeliverTyped DEF FireQueued
  <2>4. QED  BY <2>1, <2>2, <2>3, UnchangedTypes DEF OtherTypes
<1>7. CASE IdleBreaks(s)
  <2>1. /\ UNCHANGED sockPath /\ (Fault \/ NoFault) /\ UNCHANGED clientVars
        /\ UNCHANGED pipeVars /\ UNCHANGED loopVars
    BY <1>7 DEF IdleBreaks, Advance
  <2>2. StartTypes'  BY <1>1, <1>7, QuitTyped DEF IdleBreaks, Advance
  <2>3. JobTypes'  BY <1>1, <1>7 DEF IdleBreaks, Advance, JobTypes
  <2>4. QED  BY <2>1, <2>2, <2>3, UnchangedTypes DEF OtherTypes
<1>8. QED  BY <1>2, <1>3, <1>4, <1>5, <1>6, <1>7 DEF IdleStep

-----------------------------------------------------------------------------

LEMMA TypesInit == Init => OtherTypes
<1>1. SUFFICES ASSUME Init PROVE OtherTypes  OBVIOUS
<1>2. PICK sc \in Scenarios :
        /\ timeout = sc.timeout /\ faults = sc.faults
        /\ cpc = [c \in Clients |-> IF c \in sc.clients THEN "begin" ELSE "done"]
  BY <1>1 DEF Init
<1>3. ConstTypes /\ SockTypes  BY <1>1, <1>2, ServerAssumption DEF Init, ConstTypes, SockTypes
<1>4. ClientTypes
  <2>1. retries = Retries /\ Retries \in [Clients -> Nat \ {0}]
    BY <1>1, ServerAssumption DEF Init
  <2>2. cpc \in [Clients -> ClientPcs]  BY <1>2 DEF ClientPcs, ClientEnds
  <2>3. \A c \in Clients : retries[c] \in 1 .. Retries[c]  BY <2>1
  <2>4. QED  BY <2>1, <2>2, <2>3 DEF ClientTypes
<1>5. PipeTypes  BY <1>1 DEF Init, PipeTypes, Commands
<1>6. StartTypes  BY <1>1 DEF Init, StartTypes, ServerPcs
<1>7. LoopTypes
  <2>1. <<>> \in Seq(Conns)  OBVIOUS
  <2>2. QED  BY <1>1, <2>1 DEF Init, LoopTypes
<1>8. JobTypes  BY <1>1 DEF Init, JobTypes
<1>9. QED  BY <1>3, <1>4, <1>5, <1>6, <1>7, <1>8 DEF OtherTypes

LEMMA TypesNext == OtherTypes /\ [Next]_vars => OtherTypes'
<1>1. SUFFICES ASSUME OtherTypes, [Next]_vars PROVE OtherTypes'  OBVIOUS
<1>2. ASSUME NEW c \in Clients, ClientStep(c) \/ SendStop(c) \/ Killed(c) PROVE OtherTypes'
  BY <1>1, <1>2, ClientTyped
<1>3. ASSUME NEW s \in ServerIds, ServerStep(s) \/ Crash(s) PROVE OtherTypes'
  BY <1>1, <1>3, ServerTyped, AcceptTyped, RunCommandTyped, DisconnectTyped, LoopTyped
     DEF ServerStep
<1>4. ASSUME NEW s \in ServerIds, IdleStep(s) \/ IdleBreaks(s) PROVE OtherTypes'
  BY <1>1, <1>4, LoopTyped
<1>5. CASE ChildrenEnd
  BY <1>1, <1>5, UnchangedTypes DEF ChildrenEnd, OtherTypes
<1>6. CASE UNCHANGED vars
  BY <1>1, <1>6, UnchangedTypes DEF vars, OtherTypes
<1>7. QED  BY <1>1, <1>2, <1>3, <1>4, <1>5, <1>6 DEF Next

LEMMA OtherTypesCorrect == Spec => []OtherTypes
BY TypesInit, TypesNext, PTL DEF Spec

\* Every variable keeps its type, and no attempt is made beyond the last.
THEOREM TypeCorrect == Spec => []TypeOK
BY LockInvariant, OtherTypesCorrect, TypesTogether, PTL

-----------------------------------------------------------------------------
(* The socket file.  Only a server that owns the lock touches it, and there is one. *)

Serving(s) == spc[s] \in {"cooker", "loop", "waitidle", "unlink"}

LEMMA OnlyServer ==
  ASSUME LockInv, NEW s \in ServerIds, NEW r \in ServerIds, spc[s] \in LivePcs, Serving(r)
  PROVE  r = s
<1>1. Owner(s) /\ Owner(r)  BY DEF Owner, LivePcs, ServerPcs, Serving
<1>2. s \in Procs /\ r \in Procs  BY DEF Procs
<1>3. QED  BY <1>1, <1>2, LockIsExclusive DEF LockExclusive

\* A server that ends leaves the file of another one alone.
LEMMA VanishKeepsSocket ==
  ASSUME PcTypes, SocketStays, NEW s \in ServerIds, Vanish(s)
  PROVE  SocketStays'
<1>1. spc'[s] = "free" /\ \A r \in ServerIds \ {s} : spc'[r] = spc[r]
  BY DEF PcTypes, ServerPcs, Vanish
<1>2. \A r \in ServerIds \ {s} : sockPath = r => sockPath' = r  BY DEF Vanish
<1>3. QED  BY <1>1, <1>2 DEF SocketStays

LEMMA ClientKeepsSocket ==
  ASSUME PcTypes, SocketStays, NEW c \in Clients, ClientStep(c) \/ SendStop(c) \/ Killed(c)
  PROVE  SocketStays'
<1>1. sockPath' = sockPath
  BY DEF ClientStep, ClientOpens, ClientLocks, NoServerToKill, StartServer, SeesReady,
         SeesNoServer, Reconnect, ClientUnlocks, StopsPolling, Connect, ConnectFails, SendFds,
         Answered, NotAnswered, SendTerminate, SendBuild, SendStop, Send, Finish, LoseServer,
         Close, Killed
<1>2. CASE StartServer(c)
  <2>1. \E s \in ServerIds : spc' = [spc EXCEPT ![s] = "exec"]
    <3>1. (CHOOSE x \in ServerIds : spc[x] = "free") \in ServerIds  BY <1>2 DEF StartServer
    <3>2. QED  BY <1>2, <3>1 DEF StartServer
  <2>2. \A r \in ServerIds : Serving(r)' => Serving(r)  BY <2>1 DEF PcTypes, Serving
  <2>3. QED  BY <1>1, <2>2 DEF SocketStays, Serving
<1>3. CASE ~StartServer(c)
  <2>1. spc' = spc
    BY <1>3 DEF ClientStep, ClientOpens, ClientLocks, NoServerToKill, SeesReady,
         SeesNoServer, Reconnect, ClientUnlocks, StopsPolling, Connect, ConnectFails, SendFds,
         Answered, NotAnswered, SendTerminate, SendBuild, SendStop, Send, Finish, LoseServer,
         Close, Killed, serverVars
  <2>2. QED  BY <1>1, <2>1 DEF SocketStays
<1>4. QED  BY <1>2, <1>3

LEMMA ServerKeepsSocket ==
  ASSUME LockInv, SocketStays, NEW s \in ServerIds,
         ServerStep(s) \/ IdleStep(s) \/ IdleBreaks(s) \/ Crash(s)
  PROVE  SocketStays'
<1>1. PcTypes  BY DEF LockInv
<1>2. CASE StartFails(s) \/ Exit(s) \/ Crash(s)
  BY <1>1, <1>2, VanishKeepsSocket DEF StartFails, Exit, Crash
<1>3. CASE RemoveSocket(s) \/ BindSocket(s) \/ UnlinkSocket(s)
  <2>1. spc[s] \in LivePcs
    BY <1>3 DEF RemoveSocket, BindSocket, UnlinkSocket, Move, At, LivePcs, ServerPcs
  <2>2. \A r \in ServerIds \ {s} : ~Serving(r)  BY <2>1, OnlyServer
  <2>3. \A r \in ServerIds \ {s} : spc'[r] = spc[r]
    BY <1>1, <1>3 DEF PcTypes, RemoveSocket, BindSocket, UnlinkSocket, Move
  <2>4. Serving(s)' => sockPath' = s
    BY <1>1, <1>3 DEF PcTypes, RemoveSocket, BindSocket, UnlinkSocket, Move, Serving
  <2>5. QED  BY <2>2, <2>3, <2>4 DEF SocketStays, Serving
<1>4. CASE SendReady(s) \/ Hangup(s) \/ Disconnect(s) \/ JoinIdle(s) \/ CloseLock(s)
           \/ LastLock(s)
  <2>1. sockPath' = sockPath
    BY <1>4 DEF SendReady, Hangup, Disconnect, JoinIdle, CloseLock, LastLock, OnlyLoop
  <2>2. \A r \in ServerIds : Serving(r)' => Serving(r)
    BY <1>1, <1>4 DEF PcTypes, SendReady, Hangup, Disconnect, JoinIdle, CloseLock, LastLock,
         InLoop, At, Move, Serving
  <2>3. QED  BY <2>1, <2>2 DEF SocketStays, Serving
<1>5. CASE Accept(s) \/ RecvFds(s) \/ RunCommand(s) \/ UITimeout(s) \/ IdleStep(s)
           \/ IdleBreaks(s)
  <2>1. UNCHANGED <<spc, sockPath>>
    BY <1>5 DEF Accept, RecvFds, RunCommand, UITimeout, IdleStep, IdleBreaks, EndCommand,
         FireCompleted, FireQueued, Advance, OnlyLoop
  <2>2. QED  BY <2>1 DEF SocketStays
<1>6. QED  BY <1>2, <1>3, <1>4, <1>5 DEF ServerStep

\* bitbake.sock leads to the server that runs, however servers start, end and die.
THEOREM SocketIsOurs == Spec => []SocketStays
<1>1. Init => SocketStays  BY DEF Init, SocketStays
<1>2. LockInv /\ SocketStays /\ [Next]_vars => SocketStays'
  <2>1. SUFFICES ASSUME LockInv, SocketStays, [Next]_vars PROVE SocketStays'  OBVIOUS
  <2>2. PcTypes  BY <2>1 DEF LockInv
  <2>3. CASE ChildrenEnd  BY <2>1, <2>3 DEF ChildrenEnd, serverVars, SocketStays
  <2>4. CASE UNCHANGED vars  BY <2>1, <2>4 DEF vars, serverVars, SocketStays
  <2>5. QED
    BY <2>1, <2>2, <2>3, <2>4, ClientKeepsSocket, ServerKeepsSocket DEF Next
<1>3. QED  BY <1>1, <1>2, LockInvariant, PTL DEF Spec

-----------------------------------------------------------------------------
(* What one client leaves to the next.  With no client at hand nothing is left; a *)
(* server still busy with the last one's command is told to quit.                *)

Mine(s) == IF haveui[s] THEN {None, controllersock[s]} ELSE {None}

HandInv ==
  \A s \in ServerIds :
    /\ ~quit[s] => currentAsyncCommand[s] \in Mine(s)
    /\ stopper[s] \in Mine(s)

LEMMA HandImplies == ASSUME HandInv PROVE CleanHandover /\ StopsOwnBuild
BY DEF HandInv, Mine, CleanHandover, StopsOwnBuild, InLoop

\* The variables HandInv is about, of a server.
OfServer(r) == <<quit[r], haveui[r], controllersock[r], stopper[r], currentAsyncCommand[r]>>

\* It is enough to look at the server that moves.
LEMMA HandStep ==
  ASSUME HandInv, NEW s \in ServerIds, \A r \in ServerIds \ {s} : UNCHANGED OfServer(r),
         ~quit'[s] => currentAsyncCommand'[s] \in Mine(s)', stopper'[s] \in Mine(s)'
  PROVE  HandInv'
<1>1. ASSUME NEW r \in ServerIds \ {s}
      PROVE  (~quit'[r] => currentAsyncCommand'[r] \in Mine(r)') /\ stopper'[r] \in Mine(r)'
  BY <1>1 DEF HandInv, OfServer, Mine
<1>2. QED  BY <1>1 DEF HandInv

LEMMA HandAlone ==
  ASSUME HandInv, UNCHANGED <<quit, haveui, controllersock, stopper, currentAsyncCommand>>
  PROVE  HandInv'
BY DEF HandInv, Mine

LEMMA ClientKeepsHand ==
  ASSUME HandInv, NEW c \in Clients, ClientStep(c) \/ SendStop(c) \/ Killed(c)
  PROVE  HandInv'
<1>1. UNCHANGED <<quit, haveui, controllersock, stopper, currentAsyncCommand>>
  BY DEF ClientStep, ClientOpens, ClientLocks, NoServerToKill, StartServer, SeesReady,
         SeesNoServer, Reconnect, ClientUnlocks, StopsPolling, Connect, ConnectFails, SendFds,
         Answered, NotAnswered, SendTerminate, SendBuild, SendStop, Send, Finish, LoseServer,
         Close, Killed, serverVars, loopVars, jobVars
<1>2. QED  BY <1>1, HandAlone

\* A new client is taken only when the idle thread has cleared.
LEMMA DisconnectKeepsHand ==
  ASSUME OtherTypes, HandInv, NEW s \in ServerIds, Disconnect(s)
  PROVE  HandInv'
<1>1. StartTypes /\ LoopTypes /\ JobTypes  BY DEF OtherTypes
<1>2. haveui' = [haveui EXCEPT ![s] = FALSE] /\ currentAsyncCommand' = currentAsyncCommand
      /\ stopper' = Cleared(s)
  BY DEF Disconnect, OnlyLoop
<1>3. /\ \A r \in ServerIds \ {s} : UNCHANGED OfServer(r)
      /\ ~haveui'[s] /\ (~quit'[s] => ~ToldToQuit(s))
  <2>1. \A r \in ServerIds \ {s} : haveui'[r] = haveui[r] /\ stopper'[r] = stopper[r]
    BY <1>1, <1>2 DEF LoopTypes, JobTypes, Cleared
  <2>2. \A r \in ServerIds \ {s} : quit'[r] = quit[r] /\ controllersock'[r] = controllersock[r]
    BY <1>1 DEF Disconnect, StartTypes, LoopTypes
  <2>3. ~haveui'[s] /\ (~quit'[s] => ~ToldToQuit(s))
    BY <1>1, <1>2 DEF Disconnect, StartTypes, LoopTypes
  <2>4. QED  BY <1>2, <2>1, <2>2, <2>3 DEF OfServer
<1>4. ~quit'[s] => currentAsyncCommand[s] = None
  BY <1>3 DEF ToldToQuit, Idle, HandInv, Mine
<1>5. stopper'[s] = None
  BY <1>1, <1>2 DEF Cleared, HandInv, Mine, JobTypes
<1>6. QED  BY <1>2, <1>3, <1>4, <1>5, HandStep DEF Mine

LEMMA RunCommandKeepsHand ==
  ASSUME OtherTypes, HandInv, NEW s \in ServerIds, RunCommand(s)
  PROVE  HandInv'
<1>1. StartTypes /\ JobTypes  BY DEF OtherTypes
<1>2. haveui[s] /\ ~quit[s] /\ UNCHANGED <<haveui, controllersock>>
  BY DEF RunCommand, InLoop, loopVars
<1>3. /\ quit' = quit \/ quit' = [quit EXCEPT ![s] = TRUE]
      /\ currentAsyncCommand' = currentAsyncCommand
         \/ currentAsyncCommand' = [currentAsyncCommand EXCEPT ![s] = controllersock[s]]
      /\ stopper' = stopper \/ stopper' = [stopper EXCEPT ![s] = controllersock[s]]
  BY DEF RunCommand, jobVars
<1>4. \A r \in ServerIds \ {s} : UNCHANGED OfServer(r)
  BY <1>1, <1>2, <1>3 DEF OfServer, StartTypes, JobTypes
<1>5. currentAsyncCommand'[s] \in {currentAsyncCommand[s], controllersock[s]}
      /\ stopper'[s] \in {stopper[s], controllersock[s]}
  BY <1>1, <1>3 DEF JobTypes
<1>6. currentAsyncCommand'[s] \in Mine(s)' /\ stopper'[s] \in Mine(s)'
  BY <1>2, <1>5 DEF HandInv, Mine
<1>7. QED  BY <1>4, <1>6, HandStep

LEMMA ServerKeepsHand ==
  ASSUME OtherTypes, HandInv, NEW s \in ServerIds,
         ServerStep(s) \/ IdleStep(s) \/ IdleBreaks(s) \/ Crash(s)
  PROVE  HandInv'
<1>1. StartTypes /\ LoopTypes /\ JobTypes  BY DEF OtherTypes
<1>2. CASE StartFails(s) \/ Exit(s) \/ Crash(s)
  <2>1. Vanish(s)  BY <1>2 DEF StartFails, Exit, Crash
  <2>2. \A r \in ServerIds \ {s} : UNCHANGED OfServer(r)
    BY <1>1, <2>1 DEF Vanish, OfServer, StartTypes, LoopTypes, JobTypes
  <2>3. currentAsyncCommand'[s] = None /\ stopper'[s] = None
    BY <1>1, <2>1 DEF Vanish, JobTypes
  <2>4. QED  BY <2>2, <2>3, HandStep DEF Mine
<1>3. CASE \/ RemoveSocket(s) \/ BindSocket(s) \/ SendReady(s) \/ Hangup(s) \/ JoinIdle(s)
           \/ UnlinkSocket(s) \/ CloseLock(s) \/ LastLock(s) \/ FireCompleted(s)
           \/ FireQueued(s)
  <2>1. UNCHANGED <<quit, haveui, controllersock, stopper, currentAsyncCommand>>
    BY <1>3 DEF RemoveSocket, BindSocket, SendReady, Hangup, JoinIdle, UnlinkSocket, CloseLock,
         LastLock, FireCompleted, FireQueued, Advance, OnlyLoop, loopVars, jobVars
  <2>2. QED  BY <2>1, HandAlone
<1>4. CASE Accept(s)
  <2>1. UNCHANGED <<quit, haveui, stopper, currentAsyncCommand>>
    BY <1>4 DEF Accept, OnlyLoop, jobVars
  <2>2. /\ \A r \in ServerIds \ {s} : controllersock'[r] = controllersock[r]
        /\ controllersock[s] = None \/ controllersock'[s] = controllersock[s]
    BY <1>1, <1>4 DEF Accept, LoopTypes
  <2>3. \A r \in ServerIds \ {s} : UNCHANGED OfServer(r)  BY <2>1, <2>2 DEF OfServer
  <2>4. Mine(s) \subseteq Mine(s)'  BY <2>1, <2>2 DEF Mine
  <2>5. QED  BY <2>1, <2>3, <2>4, HandStep DEF HandInv
<1>5. CASE RecvFds(s)
  <2>1. /\ UNCHANGED <<quit, controllersock, stopper, currentAsyncCommand>>
        /\ haveui' = [haveui EXCEPT ![s] = TRUE]
    BY <1>5 DEF RecvFds, jobVars
  <2>2. \A r \in ServerIds \ {s} : UNCHANGED OfServer(r)
    BY <1>1, <2>1 DEF OfServer, LoopTypes
  <2>3. Mine(s) \subseteq Mine(s)'  BY <1>1, <2>1 DEF Mine, LoopTypes
  <2>4. QED  BY <2>1, <2>2, <2>3, HandStep DEF HandInv
<1>6. CASE UITimeout(s) \/ IdleBreaks(s) \/ EndCommand(s)
  <2>1. UNCHANGED <<haveui, controllersock>>
    BY <1>6 DEF UITimeout, IdleBreaks, EndCommand, Advance, loopVars
  <2>2. /\ quit' = quit \/ quit' = [quit EXCEPT ![s] = TRUE]
        /\ stopper' = stopper \/ stopper' = [stopper EXCEPT ![s] = None]
        /\ currentAsyncCommand' = currentAsyncCommand
           \/ currentAsyncCommand' = [currentAsyncCommand EXCEPT ![s] = None]
    BY <1>6 DEF UITimeout, IdleBreaks, EndCommand, jobVars
  <2>3. \A r \in ServerIds \ {s} : UNCHANGED OfServer(r)
    BY <1>1, <2>1, <2>2 DEF OfServer, StartTypes, JobTypes
  <2>4. /\ ~quit'[s] => ~quit[s]
        /\ stopper'[s] \in {stopper[s], None}
        /\ currentAsyncCommand'[s] \in {currentAsyncCommand[s], None}
    BY <1>1, <2>2 DEF StartTypes, JobTypes
  <2>5. Mine(s)' = Mine(s) /\ None \in Mine(s)  BY <2>1 DEF Mine
  <2>6. QED  BY <2>3, <2>4, <2>5, HandStep DEF HandInv
<1>7. QED
  BY <1>2, <1>3, <1>4, <1>5, <1>6, DisconnectKeepsHand, RunCommandKeepsHand
     DEF ServerStep, IdleStep

LEMMA HandInvariant == Spec => []HandInv
<1>1. Init => HandInv  BY DEF Init, HandInv, Mine
<1>2. OtherTypes /\ HandInv /\ [Next]_vars => HandInv'
  <2>1. SUFFICES ASSUME OtherTypes, HandInv, [Next]_vars PROVE HandInv'  OBVIOUS
  <2>2. CASE ChildrenEnd
    BY <2>1, <2>2, HandAlone DEF ChildrenEnd, serverVars, loopVars, jobVars
  <2>3. CASE UNCHANGED vars
    BY <2>1, <2>3, HandAlone DEF vars, serverVars, loopVars, jobVars
  <2>4. QED  BY <2>1, <2>2, <2>3, ClientKeepsHand, ServerKeepsHand DEF Next
<1>3. QED  BY <1>1, <1>2, OtherTypesCorrect, PTL DEF Spec

\* The command of one client never goes on while the server listens to another.
THEOREM HandoverIsClean == Spec => []CleanHandover
BY HandInvariant, HandImplies, PTL

\* A request to stop never outlives the client that made it.
THEOREM StopIsOnesOwn == Spec => []StopsOwnBuild
BY HandInvariant, HandImplies, PTL
=============================================================================
