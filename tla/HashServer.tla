----------------------------- MODULE HashServer -----------------------------
(***************************************************************************)
(* The hash equivalence server (bitbake/lib/hashserv/server.py) on its      *)
(* SQLite tables (sqlite.py), with an optional upstream server.             *)
(*                                                                         *)
(* The calls on the database never suspend, so a request is one atomic     *)
(* step unless it has to ask upstream: then the requests of the other      *)
(* connections, and the backfill worker, run before upstream answers and,  *)
(* once more, before that answer is here.  All hashes are of one method,   *)
(* by which every query selects.                                           *)
(***************************************************************************)
EXTENDS Naturals, Sequences

CONSTANTS
  Conns,             \* connections; one that is dropped is opened again
  Taskhashes, Outhashes, Unihashes,
  Marks,             \* garbage collection marks
  NoMark,            \* the mark of a row stored, and the state, outside a collection
  NoValue,           \* no row, None
  MaxQueue,          \* bounds the backfill queue, which has no limit in the code
  Scenarios          \* records: who sends what (conns, taskhashes, outhashes, unihashes,
                     \* marks); is there an upstream server and what it knows at times
                     \* (has_upstream, upstream); how often administrators, equivalence
                     \* reports and faults interfere (interventions)

Rows == [unihash : Unihashes, gc_mark : Marks \cup {NoMark}]
UpstreamRows == [outhash : Outhashes, unihash : Unihashes]
Found == [taskhash : Taskhashes, outhash : Outhashes, unihash : Unihashes]

ASSUME HashServerAssumption ==
  /\ NoMark \notin Marks /\ NoValue \notin Rows \cup UpstreamRows
  /\ NoValue \notin Taskhashes \cup Outhashes \cup Unihashes
  /\ MaxQueue \in Nat
  /\ Scenarios \subseteq
       [conns : SUBSET Conns, taskhashes : SUBSET Taskhashes, outhashes : SUBSET Outhashes,
        unihashes : SUBSET Unihashes, marks : SUBSET Marks, has_upstream : BOOLEAN,
        upstream : [Taskhashes -> UpstreamRows \cup {NoValue}], interventions : Nat]

VARIABLES
  unihashes,       \* table unihashes_v3: the row of a task hash
  outhashes,       \* table outhashes_v2: pairs <<taskhash, outhash>>
  older,           \* its order by time of creation: <<r, q>> when r came before q
  gc_mark,         \* the mark of the collection under way
  scenario,
  upstream,        \* the row upstream has for a task hash
  conn,            \* what a connection waits for, with the request's arguments and,
                   \* once upstream has answered, what it found
  backfill_queue, unfinished_tasks,
  worker,          \* the same of the backfill worker: the task hash it asks about
  interventions,   \* how many there were
  told,            \* history: what clients were told a task hash's unihash is: the answers
                   \* read from the table, and those of upstream that were stored with it;
                   \* not those passed on although another row was there already
                   \* (server.py:338-340, 347-350, 372-374), nor those of get-stream,
                   \* recorded later if at all (426-429)
  kept             \* history: rows marked or stored since the collection began

outputs == <<outhashes, older>>
tables == <<unihashes, outputs, gc_mark, kept>>
queue == <<backfill_queue, unfinished_tasks, worker>>
remote == <<scenario, upstream>>
vars == <<tables, remote, conn, queue, interventions, told>>

Idle == [pc |-> "idle", taskhash |-> NoValue, outhash |-> NoValue, unihash |-> NoValue,
         answered |-> FALSE, found |-> NoValue]
ConnStates ==
  [pc : {"idle", "get", "full", "outhash", "stream", "report", "wait", "backfill"},
   taskhash : Taskhashes \cup {NoValue}, outhash : Outhashes \cup {NoValue},
   unihash : Unihashes \cup {NoValue}, answered : BOOLEAN, found : Found \cup {NoValue}]
Known(t) == unihashes[t] # NoValue

\* The tables and connections are well formed, and the queue's counter of
\* unfinished tasks is what is queued and being worked on: backfill-wait
\* ends when it is zero (asyncio.Queue, server.py:564, 892).
TypeOK ==
  /\ unihashes \in [Taskhashes -> Rows \cup {NoValue}]
  /\ outhashes \subseteq Taskhashes \X Outhashes /\ older \subseteq outhashes \X outhashes
  /\ gc_mark \in Marks \cup {NoMark} /\ scenario \in Scenarios
  /\ upstream \in [Taskhashes -> UpstreamRows \cup {NoValue}]
  /\ conn \in [Conns -> ConnStates]
  /\ backfill_queue \in Seq(Taskhashes) /\ worker \in ConnStates
  /\ unfinished_tasks = Len(backfill_queue) + (IF worker = Idle THEN 0 ELSE 1)
  /\ interventions \in Nat
  /\ told \in [Taskhashes -> SUBSET Unihashes] /\ kept \subseteq Taskhashes

Init ==
  /\ unihashes = [t \in Taskhashes |-> NoValue] /\ outhashes = {} /\ older = {}
  /\ gc_mark = NoMark /\ kept = {} /\ interventions = 0
  /\ scenario \in Scenarios
  /\ upstream \in {scenario.upstream, [t \in Taskhashes |-> NoValue]}
  /\ conn = [c \in Conns |-> Idle]
  /\ backfill_queue = <<>> /\ unfinished_tasks = 0 /\ worker = Idle
  /\ told = [t \in Taskhashes |-> {}]

-----------------------------------------------------------------------------
(* The tables.                                                             *)

\* Mutant of InsertUnihash: a new row gets no mark.
InsertUnihashUnmarked(t, u) ==
  IF Known(t) THEN unihashes
  ELSE [unihashes EXCEPT ![t] = [unihash |-> u, gc_mark |-> NoMark]]

\* INSERT OR IGNORE: the first unihash of a task hash stays.  A new row gets
\* the mark of the collection under way.
InsertUnihash(t, u) ==
  IF Known(t) THEN unihashes
  ELSE [unihashes EXCEPT ![t] = [unihash |-> u, gc_mark |-> gc_mark]]

Store(t, u) ==
  /\ unihashes' = InsertUnihash(t, u)
  /\ kept' = IF Known(t) \/ gc_mark = NoMark THEN kept ELSE kept \cup {t}
  /\ UNCHANGED gc_mark

\* INSERT OR IGNORE of a row that comes after the rows in before.  That of a
\* report is the youngest; one from upstream keeps its time of creation.
InsertOuthash(row, before) ==
  IF row \in outhashes THEN UNCHANGED outputs
  ELSE /\ outhashes' = outhashes \cup {row}
       /\ older' = older \cup (before \X {row}) \cup ({row} \X (outhashes \ before))
Initials == {S \in SUBSET outhashes : \A p \in older : p[2] \in S => p[1] \in S}

DeleteOutputs(rows) ==
  /\ outhashes' = outhashes \ rows
  /\ older' = {p \in older : p[1] \notin rows /\ p[2] \notin rows}

\* Rows of other task hashes with this output and a unihash; the oldest one.
Equivalents(t, o) == {r \in outhashes : r[2] = o /\ r[1] # t /\ Known(r[1])}

\* Mutant of EquivalentForOuthash: ORDER BY created DESC.
EquivalentForOuthashYoungest(t, o) ==
  {r \in Equivalents(t, o) : \A q \in Equivalents(t, o) : <<r, q>> \notin older}

EquivalentForOuthash(t, o) ==
  {r \in Equivalents(t, o) : \A q \in Equivalents(t, o) : <<q, r>> \notin older}

\* A client is told what the table says.
Tell(t) == told' = [told EXCEPT ![t] = @ \cup {unihashes'[t].unihash}]

\* A client is told what upstream found, which is stored unless another row is
\* there already.
PassOn(found) ==
  /\ Store(found.taskhash, found.unihash)
  /\ IF Known(found.taskhash) THEN UNCHANGED told ELSE Tell(found.taskhash)

Delete(ts) ==
  /\ unihashes' = [t \in Taskhashes |-> IF t \in ts THEN NoValue ELSE unihashes[t]]
  /\ told' = [t \in Taskhashes |-> IF t \in ts THEN {} ELSE told[t]]

-----------------------------------------------------------------------------
(* Requests.  One that finds nothing, without an upstream, changes nothing *)
(* and has no action.                                                      *)

Ready(c) == conn[c] = Idle
Await(c, pc, t, o, u) ==
  conn' = [conn EXCEPT ![c] = [Idle EXCEPT !.pc = pc, !.taskhash = t, !.outhash = o, !.unihash = u]]
Answer(c) == conn' = [conn EXCEPT ![c] = Idle]
AskUpstream(c, pc, t, o, u) ==
  /\ Ready(c) /\ scenario.has_upstream /\ Await(c, pc, t, o, u)
  /\ UNCHANGED <<tables, remote, queue, interventions, told>>

\* Upstream looks a request up in its own table, by task hash or by output.  The
\* answer is under way while others are handled, here and there.
RowUpstream(t) == [taskhash |-> t, outhash |-> upstream[t].outhash, unihash |-> upstream[t].unihash]
Lookup(request) ==
  {RowUpstream(t) : t \in {s \in Taskhashes :
     /\ upstream[s] # NoValue
     /\ IF request.pc \in {"outhash", "report"} THEN upstream[s].outhash = request.outhash
        ELSE s = request.taskhash}}
Replies(request) ==
  {[request EXCEPT !.answered = TRUE, !.found = row] :
     row \in IF Lookup(request) = {} THEN {NoValue} ELSE Lookup(request)}
Asks(request) == request.pc \notin {"idle", "wait"} /\ ~request.answered
UpstreamAnswers(c) ==
  /\ Asks(conn[c]) /\ \E request \in Replies(conn[c]) : conn' = [conn EXCEPT ![c] = request]
  /\ UNCHANGED <<tables, remote, queue, interventions, told>>
Waiting(c, requests) == conn[c].pc \in requests /\ conn[c].answered

\* get, get with all columns, get-outhash and get-stream, of what is known
HasAllColumns(t) == Known(t) /\ \E r \in outhashes : r[1] = t
GetKnown(c, t) ==
  /\ Ready(c) /\ Known(t)
  /\ UNCHANGED <<tables, remote, conn, queue, interventions>> /\ Tell(t)

Get(c, t) == ~Known(t) /\ AskUpstream(c, "get", t, NoValue, NoValue)

\* The client is given upstream's row, whatever the table holds by now.  When
\* upstream has none the handler raises and the connection is dropped.
GetAnswer(c) ==
  LET found == conn[c].found IN
  /\ Waiting(c, {"get"}) /\ Answer(c)
  /\ IF found = NoValue THEN UNCHANGED <<unihashes, kept, gc_mark, told>> ELSE PassOn(found)
  /\ UNCHANGED <<outputs, remote, queue, interventions>>

GetFull(c, t) == ~HasAllColumns(t) /\ AskUpstream(c, "full", t, NoValue, NoValue)

GetOuthash(c, o) ==
  /\ \A r \in outhashes : r[2] = o => ~Known(r[1])
  /\ AskUpstream(c, "outhash", NoValue, o, NoValue)

\* update_unified of what upstream knows of the task hash or of the output
UpdateUnified(found) ==
  /\ PassOn(found)
  /\ \E before \in Initials : InsertOuthash(<<found.taskhash, found.outhash>>, before)
UnifiedAnswer(c) ==
  /\ Waiting(c, {"full", "outhash"}) /\ Answer(c)
  /\ IF conn[c].found = NoValue THEN UNCHANGED <<tables, told>> ELSE UpdateUnified(conn[c].found)
  /\ UNCHANGED <<remote, queue, interventions>>

GetStream(c, t) == ~Known(t) /\ AskUpstream(c, "stream", t, NoValue, NoValue)

\* What upstream knows is passed on at once and recorded later.
StreamAnswer(c) ==
  /\ Waiting(c, {"stream"}) /\ Answer(c)
  /\ \/ conn[c].found = NoValue /\ UNCHANGED queue
     \/ /\ conn[c].found # NoValue /\ Len(backfill_queue) < MaxQueue
        /\ backfill_queue' = Append(backfill_queue, conn[c].taskhash)
        /\ unfinished_tasks' = unfinished_tasks + 1 /\ UNCHANGED worker
  /\ UNCHANGED <<tables, remote, interventions, told>>

\* report: same output as an earlier one, or the first of its kind.  The
\* driver calls every insertion new (the cursor is), so a report that is
\* repeated does the same again.
Report(c, t, o, u) ==
  /\ Ready(c) /\ InsertOuthash(<<t, o>>, outhashes)
  /\ \/ /\ \E r \in EquivalentForOuthash(t, o) : Store(t, unihashes[r[1]].unihash)
        /\ Tell(t) /\ UNCHANGED conn
     \/ /\ Equivalents(t, o) = {} /\ ~scenario.has_upstream
        /\ Store(t, u) /\ Tell(t) /\ UNCHANGED conn
     \/ /\ Equivalents(t, o) = {} /\ scenario.has_upstream
        /\ Await(c, "report", t, o, u) /\ UNCHANGED <<unihashes, gc_mark, kept, told>>
  /\ UNCHANGED <<remote, queue, interventions>>

\* Mutant of ReportAnswer: the client is told what upstream said or what it
\* proposed, without a second look at the table.
ReportAnswerUnread(c) ==
  LET r == conn[c]
      u == IF r.found = NoValue THEN r.unihash ELSE r.found.unihash
  IN /\ Waiting(c, {"report"}) /\ Answer(c) /\ Store(r.taskhash, u)
     /\ told' = [told EXCEPT ![r.taskhash] = @ \cup {u}]
     /\ UNCHANGED <<outputs, remote, queue, interventions>>

ReportAnswer(c) ==
  LET r == conn[c] IN
  /\ Waiting(c, {"report"}) /\ Answer(c)
  /\ Store(r.taskhash, IF r.found = NoValue THEN r.unihash ELSE r.found.unihash)
  /\ Tell(r.taskhash)
  /\ UNCHANGED <<outputs, remote, queue, interventions>>

Intervene ==
  /\ interventions < scenario.interventions /\ interventions' = interventions + 1

EquivReport(c, t, u) ==
  /\ Ready(c) /\ Intervene /\ Store(t, u) /\ Tell(t)
  /\ UNCHANGED <<outputs, remote, conn, queue>>

BackfillWait(c) ==
  /\ Ready(c) /\ scenario.has_upstream /\ unfinished_tasks > 0
  /\ Await(c, "wait", NoValue, NoValue, NoValue)
  /\ UNCHANGED <<tables, remote, queue, interventions, told>>

-----------------------------------------------------------------------------
(* Administration.                                                         *)

\* The conditions of remove and gc-mark: one column of the unihash table
Matching == {{t} : t \in Taskhashes} \cup
            {{t \in Taskhashes : Known(t) /\ unihashes[t].unihash = u} : u \in Unihashes}

\* A task hash is a column of both tables, a unihash and an output of one.
Remove ==
  /\ Intervene
  /\ \/ \E t \in Taskhashes : Delete({t}) /\ kept' = kept \ {t} /\ DeleteOutputs({t} \X Outhashes)
     \/ \E u \in Unihashes :
          LET ts == {t \in Taskhashes : Known(t) /\ unihashes[t].unihash = u} IN
          Delete(ts) /\ kept' = kept \ ts /\ UNCHANGED outputs
     \/ \E o \in Outhashes :
          DeleteOutputs(Taskhashes \X {o}) /\ UNCHANGED <<unihashes, told, kept>>
  /\ UNCHANGED <<gc_mark, remote, conn, queue>>

\* gc-mark and each line of gc-mark-stream: another mark begins another
\* collection; without a condition nothing is marked.
GcMark(mark, ts) ==
  LET marked == {t \in ts : Known(t)} IN
  /\ Intervene /\ gc_mark' = mark
  /\ unihashes' = [t \in Taskhashes |->
       IF t \in marked THEN [unihashes[t] EXCEPT !.gc_mark = mark] ELSE unihashes[t]]
  /\ kept' = (IF mark = gc_mark THEN kept ELSE {}) \cup marked
  /\ UNCHANGED <<outputs, remote, conn, queue, told>>

GcSweep ==
  /\ Intervene /\ gc_mark # NoMark
  /\ Delete({t \in Taskhashes : Known(t) /\ unihashes[t].gc_mark # gc_mark})
  /\ gc_mark' = NoMark /\ kept' = {} /\ UNCHANGED <<outputs, remote, conn, queue>>

\* The age limit is computed with the wrong sign and lies in the future:
\* every unused row is old enough.
CleanUnused ==
  /\ Intervene /\ DeleteOutputs({r \in outhashes : ~Known(r[1])})
  /\ UNCHANGED <<unihashes, gc_mark, kept, remote, conn, queue, told>>

-----------------------------------------------------------------------------
(* The backfill worker.                                                    *)

WorkerTakes ==
  /\ worker = Idle /\ backfill_queue # <<>>
  /\ worker' = [Idle EXCEPT !.pc = "backfill", !.taskhash = Head(backfill_queue)]
  /\ backfill_queue' = Tail(backfill_queue)
  /\ UNCHANGED <<tables, remote, conn, unfinished_tasks, interventions, told>>

UpstreamAnswersWorker ==
  /\ Asks(worker) /\ worker' \in Replies(worker)
  /\ UNCHANGED <<tables, remote, conn, backfill_queue, unfinished_tasks, interventions, told>>

\* task_done: the last one wakes those who wait for the queue
TaskDone ==
  /\ unfinished_tasks' = unfinished_tasks - 1
  /\ conn' = [c \in Conns |-> IF conn[c].pc = "wait" /\ unfinished_tasks' = 0
                              THEN Idle ELSE conn[c]]

\* Mutant of WorkerStores: nothing is done when upstream has no answer, not
\* even task_done.
WorkerStoresOrSkips ==
  /\ worker.answered /\ worker' = Idle
  /\ IF worker.found = NoValue
     THEN UNCHANGED <<unihashes, kept, gc_mark, conn, unfinished_tasks>>
     ELSE Store(worker.found.taskhash, worker.found.unihash) /\ TaskDone
  /\ UNCHANGED <<outputs, remote, backfill_queue, interventions, told>>

WorkerStores ==
  /\ worker.answered /\ worker' = Idle /\ TaskDone
  /\ IF worker.found = NoValue THEN UNCHANGED <<unihashes, kept, gc_mark>>
     ELSE Store(worker.found.taskhash, worker.found.unihash)
  /\ UNCHANGED <<outputs, remote, backfill_queue, interventions, told>>

-----------------------------------------------------------------------------
(* Faults, and the world outside.                                          *)

\* Three reconnections to upstream failed, or it refused the call: the
\* handler raises and the connection is dropped with its request.
UpstreamFails(c) ==
  /\ conn[c].pc \notin {"idle", "wait"} /\ Intervene /\ Answer(c)
  /\ UNCHANGED <<tables, remote, queue, told>>

\* The server stops, is killed, or fails because its worker could not reach
\* upstream.  What was committed is there again when it is restarted.
Restart ==
  /\ Intervene /\ conn' = [c \in Conns |-> Idle]
  /\ backfill_queue' = <<>> /\ unfinished_tasks' = 0 /\ worker' = Idle
  /\ UNCHANGED <<tables, remote, told>>

\* Upstream is the same program: a client of its own may report a row, and its
\* administrator may remove one.
UpstreamChanges(t) ==
  /\ scenario.upstream[t] # NoValue /\ Intervene
  /\ upstream' = [upstream EXCEPT ![t] = IF @ = NoValue THEN scenario.upstream[t] ELSE NoValue]
  /\ UNCHANGED <<tables, scenario, conn, queue, told>>

-----------------------------------------------------------------------------
Requests(c) ==
  \/ \E t \in scenario.taskhashes :
       \/ GetKnown(c, t) \/ Get(c, t) \/ GetFull(c, t) \/ GetStream(c, t)
       \/ \E o \in scenario.outhashes, u \in scenario.unihashes : Report(c, t, o, u)
       \/ \E u \in scenario.unihashes : EquivReport(c, t, u)
  \/ \E o \in scenario.outhashes : GetOuthash(c, o)
  \/ BackfillWait(c)
Answers(c) ==
  UpstreamAnswers(c) \/ GetAnswer(c) \/ UnifiedAnswer(c) \/ StreamAnswer(c) \/ ReportAnswer(c)
Worker == WorkerTakes \/ UpstreamAnswersWorker \/ WorkerStores
Administration ==
  \/ Remove \/ GcSweep \/ CleanUnused
  \/ \E mark \in scenario.marks, ts \in Matching \cup {{}} : GcMark(mark, ts)
Faults ==
  \/ \E c \in scenario.conns : UpstreamFails(c)
  \/ \E t \in Taskhashes : UpstreamChanges(t)
  \/ Restart

Next == (\E c \in scenario.conns : Requests(c) \/ Answers(c)) \/ Worker \/ Administration \/ Faults
Spec == Init /\ [][Next]_vars

\* Upstream answers the worker, or the call fails and the server restarts.
FairSpec == Spec /\ WF_vars(Worker)

-----------------------------------------------------------------------------
(* Properties.                                                             *)

\* Whatever is stored between a request and its answer from upstream, and however
\* old that answer is: all who report a task hash, who find it in the table, or
\* whose lookup brought its row here are told the same unihash, the one in the
\* table, until the row is removed.  A report reads the table once more for it
\* (server.py:508-524).  Lookups whose answer found another row here, and
\* streamed ones, are told what upstream says and may differ (see told).
AnswersAgree ==
  \A t \in Taskhashes : \A u \in told[t] : Known(t) /\ u = unihashes[t].unihash

\* "All unihash entries that match the where clause are marked to be kept.  In
\* addition, any new entries added to the database after this command will
\* be automatically marked" (client.py:306-308): the sweep that ends the
\* collection leaves them as they are, also those that came from upstream.
SweepKeeps ==
  [][gc_mark # NoMark /\ gc_mark' = NoMark
       => \A t \in kept : unihashes'[t] = unihashes[t]]_vars

\* Among reports alone, the unihash of an output is that of the first task
\* hash that produced it: a later one whose first output it is joins that
\* one, not whichever came in between (sqlite.py:290-308).
First(r, rows) == r \in rows /\ \A q \in rows : <<q, r>> \notin older
OldestDecides ==
  ~scenario.has_upstream /\ interventions = 0 =>
    \A r, q \in outhashes :
      /\ First(r, {p \in outhashes : p[1] = r[1]})
      /\ First(q, {p \in outhashes : p[2] = r[2]})
      => unihashes[r[1]].unihash = unihashes[q[1]].unihash

\* A client that waits for the backfill queue is answered once the worker has
\* emptied it, also when upstream has forgotten an entry, or it loses its
\* connection (server.py:564, 885-892).
WaitEnds == \A c \in Conns : conn[c].pc = "wait" ~> conn[c].pc # "wait"
=============================================================================
