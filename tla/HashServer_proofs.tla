-------------------------- MODULE HashServer_proofs --------------------------
(* Proofs about the hash equivalence server, for any number of connections    *)
(* and hashes, whatever upstream knows and forgets, and any number of faults, *)
(* restarts and collections.                                                  *)
EXTENDS HashServer, TLAPS

-----------------------------------------------------------------------------
(* What the tables and the two histories have in common. *)

TableTypes ==
  /\ unihashes \in [Taskhashes -> Rows \cup {NoValue}]
  /\ gc_mark \in Marks \cup {NoMark}
  /\ told \in [Taskhashes -> SUBSET Unihashes] /\ kept \subseteq Taskhashes

\* A row kept in a collection has its mark; outside one there is none.
KeptOK ==
  /\ \A t \in kept : Known(t) /\ unihashes[t].gc_mark = gc_mark
  /\ gc_mark = NoMark => kept = {}

TableInv == TableTypes /\ KeptOK /\ AnswersAgree

\* A connection that waits for upstream's answer has the arguments it needs.
ConnInv ==
  /\ conn \in [Conns -> ConnStates]
  /\ \A c \in Conns :
       /\ conn[c].pc \in {"get", "full", "stream", "report"} => conn[c].taskhash \in Taskhashes
       /\ conn[c].pc = "report" => conn[c].unihash \in Unihashes

RemoteInv ==
  /\ scenario \in Scenarios
  /\ upstream \in [Taskhashes -> UpstreamRows \cup {NoValue}]

QueueInv ==
  /\ backfill_queue \in Seq(Taskhashes) /\ worker \in ConnStates
  /\ unfinished_tasks = Len(backfill_queue) + (IF worker = Idle THEN 0 ELSE 1)

OutputInv ==
  outhashes \subseteq Taskhashes \X Outhashes /\ older \subseteq outhashes \X outhashes

IInv ==
  /\ TableInv /\ ConnInv /\ RemoteInv /\ QueueInv /\ OutputInv /\ interventions \in Nat

LEMMA Invariants == ASSUME IInv PROVE TypeOK /\ AnswersAgree
BY DEF IInv, TableInv, TableTypes, ConnInv, RemoteInv, QueueInv, OutputInv, TypeOK

LEMMA IdleState == Idle \in ConnStates /\ Idle.pc = "idle" /\ Idle.answered = FALSE
BY DEF Idle, ConnStates

LEMMA ScenarioTypes ==
  ASSUME scenario \in Scenarios
  PROVE  /\ scenario.conns \subseteq Conns /\ scenario.taskhashes \subseteq Taskhashes
         /\ scenario.outhashes \subseteq Outhashes /\ scenario.unihashes \subseteq Unihashes
         /\ scenario.marks \subseteq Marks /\ scenario.interventions \in Nat
         /\ scenario.upstream \in [Taskhashes -> UpstreamRows \cup {NoValue}]
BY HashServerAssumption

-----------------------------------------------------------------------------
(* What each way to change the tables keeps. *)

\* An insertion changes nothing that is there, and leaves a row.
LEMMA StoreRow ==
  ASSUME TableTypes, NEW t \in Taskhashes, NEW u \in Unihashes, Store(t, u)
  PROVE  /\ unihashes' \in [Taskhashes -> Rows \cup {NoValue}]
         /\ unihashes'[t] \in Rows
         /\ \A s \in Taskhashes : Known(s) => unihashes'[s] = unihashes[s]
<1>1. CASE Known(t)  BY <1>1 DEF Store, InsertUnihash, TableTypes, Known
<1>2. CASE ~Known(t)
  <2>1. unihashes' = [unihashes EXCEPT ![t] = [unihash |-> u, gc_mark |-> gc_mark]]
    BY <1>2 DEF Store, InsertUnihash
  <2>2. [unihash |-> u, gc_mark |-> gc_mark] \in Rows  BY DEF TableTypes, Rows
  <2>3. QED  BY <1>2, <2>1, <2>2 DEF TableTypes, Known
<1>3. QED  BY <1>1, <1>2

LEMMA StoreKeeps ==
  ASSUME TableInv, NEW t \in Taskhashes, NEW u \in Unihashes, Store(t, u)
  PROVE  /\ KeptOK' /\ kept' \subseteq Taskhashes /\ gc_mark' = gc_mark
         /\ told' = told => TableInv'
         /\ Tell(t) => TableInv'
<1>1. /\ unihashes' \in [Taskhashes -> Rows \cup {NoValue}] /\ unihashes'[t] \in Rows
      /\ \A s \in Taskhashes : Known(s) => unihashes'[s] = unihashes[s]
  BY StoreRow DEF TableInv
<1>2. gc_mark' = gc_mark /\ kept' \subseteq Taskhashes  BY DEF Store, TableInv, TableTypes
<1>3. KeptOK'
  <2>1. CASE Known(t) \/ gc_mark = NoMark
    BY <1>1, <1>2, <2>1 DEF Store, KeptOK, TableInv, TableTypes, Known
  <2>2. CASE ~Known(t) /\ gc_mark # NoMark
    <3>1. /\ unihashes' = [unihashes EXCEPT ![t] = [unihash |-> u, gc_mark |-> gc_mark]]
          /\ kept' = kept \cup {t}
      BY <2>2 DEF Store, InsertUnihash
    <3>2. unihashes'[t].gc_mark = gc_mark  BY <3>1 DEF TableInv, TableTypes
    <3>3. unihashes'[t] # NoValue  BY <1>1, HashServerAssumption
    <3>4. QED
      BY <1>1, <1>2, <2>2, <3>1, <3>2, <3>3 DEF KeptOK, TableInv, TableTypes, Known
  <2>3. QED  BY <2>1, <2>2
<1>4. ASSUME told' = told PROVE TableInv'
  BY <1>1, <1>2, <1>3, <1>4 DEF TableInv, TableTypes, AnswersAgree, Known
<1>5. ASSUME Tell(t) PROVE TableInv'
  <2>1. unihashes'[t].unihash \in Unihashes /\ unihashes'[t] # NoValue
    BY <1>1, HashServerAssumption DEF Rows
  <2>2. told' \in [Taskhashes -> SUBSET Unihashes]
    BY <1>5, <2>1 DEF Tell, TableInv, TableTypes
  <2>3. AnswersAgree'
    BY <1>1, <1>5, <2>1 DEF Tell, TableInv, TableTypes, AnswersAgree, Known
  <2>4. QED  BY <1>1, <1>2, <1>3, <2>2, <2>3 DEF TableInv, TableTypes
<1>6. QED  BY <1>2, <1>3, <1>4, <1>5

LEMMA TablesUnchanged ==
  ASSUME TableInv, UNCHANGED <<unihashes, gc_mark, kept, told>> PROVE TableInv'
BY DEF TableInv, TableTypes, KeptOK, AnswersAgree, Known

\* What upstream found and is not here yet is stored and told, or neither.
LEMMA PassOnKeeps ==
  ASSUME TableInv, NEW found \in Found, PassOn(found) PROVE TableInv'
BY StoreKeeps DEF PassOn, Found

\* Upstream's answer completes the request with a row of its table, or none.
LEMMA RepliesFit ==
  ASSUME RemoteInv, NEW asked \in ConnStates, NEW request \in Replies(asked)
  PROVE  /\ request \in ConnStates /\ request.answered
         /\ \A field \in {"pc", "taskhash", "outhash", "unihash"} : request[field] = asked[field]
<1>1. Lookup(asked) \subseteq Found
  <2>1. ASSUME NEW t \in Taskhashes, upstream[t] # NoValue PROVE RowUpstream(t) \in Found
    <3>1. upstream[t] \in UpstreamRows  BY <2>1 DEF RemoteInv
    <3>2. QED  BY <3>1 DEF RowUpstream, UpstreamRows, Found
  <2>2. QED  BY <2>1 DEF Lookup
<1>2. PICK row \in Found \cup {NoValue} : request = [asked EXCEPT !.answered = TRUE, !.found = row]
  BY <1>1 DEF Replies
<1>3. QED  BY <1>2 DEF ConnStates

LEMMA DeleteKeeps ==
  ASSUME TableInv, NEW ts \in SUBSET Taskhashes, Delete(ts), kept' \subseteq kept \ ts,
         \/ gc_mark' = gc_mark
         \/ gc_mark' = NoMark /\ kept' = {}
  PROVE  TableInv'
<1>1. TableTypes'  BY DEF TableInv, TableTypes, Delete
<1>2. \A t \in Taskhashes \ ts : unihashes'[t] = unihashes[t] /\ told'[t] = told[t]
  BY DEF TableInv, TableTypes, Delete
<1>3. \A t \in ts : told'[t] = {}  BY DEF TableInv, TableTypes, Delete
<1>4. KeptOK'  BY <1>2 DEF TableInv, TableTypes, KeptOK, Known
<1>5. AnswersAgree'  BY <1>2, <1>3 DEF TableInv, TableTypes, AnswersAgree, Known
<1>6. QED  BY <1>1, <1>4, <1>5 DEF TableInv

LEMMA MarkKeeps ==
  ASSUME TableInv, NEW mark \in Marks, NEW ts \in SUBSET Taskhashes, GcMark(mark, ts)
  PROVE  TableInv'
<1> DEFINE marked == {t \in ts : Known(t)}
<1>1. /\ gc_mark' = mark /\ mark # NoMark
      /\ unihashes' = [t \in Taskhashes |->
           IF t \in marked THEN [unihashes[t] EXCEPT !.gc_mark = mark] ELSE unihashes[t]]
      /\ kept' = (IF mark = gc_mark THEN kept ELSE {}) \cup marked
      /\ told' = told
  BY HashServerAssumption DEF GcMark
<1>2. ASSUME NEW t \in marked
      PROVE  /\ unihashes'[t] \in Rows /\ unihashes'[t].gc_mark = mark
             /\ unihashes'[t].unihash = unihashes[t].unihash
  <2>1. unihashes[t] \in Rows  BY DEF TableInv, TableTypes, Known
  <2>2. unihashes'[t] = [unihashes[t] EXCEPT !.gc_mark = mark]  BY <1>1
  <2>3. QED  BY <2>1, <2>2 DEF Rows
<1>3. \A t \in Taskhashes \ marked : unihashes'[t] = unihashes[t]  BY <1>1
<1>4. \A t \in Taskhashes : Known(t) => Known(t)' /\ unihashes'[t].unihash = unihashes[t].unihash
  BY <1>2, <1>3, HashServerAssumption DEF Known
<1>5. unihashes' \in [Taskhashes -> Rows \cup {NoValue}]
  BY <1>1, <1>2, <1>3 DEF TableInv, TableTypes
<1>6. TableTypes'  BY <1>1, <1>5 DEF TableInv, TableTypes
<1>7. KeptOK'
  <2>1. ASSUME NEW t \in kept' PROVE Known(t)' /\ unihashes'[t].gc_mark = gc_mark'
    <3>1. CASE t \in marked  BY <1>1, <1>2, <3>1, HashServerAssumption DEF Known
    <3>2. CASE t \notin marked
      <4>1. t \in kept /\ mark = gc_mark  BY <1>1, <3>2
      <4>2. t \in Taskhashes /\ Known(t) /\ unihashes[t].gc_mark = gc_mark
        BY <4>1 DEF TableInv, TableTypes, KeptOK
      <4>3. QED  BY <1>1, <1>3, <1>4, <3>2, <4>1, <4>2
    <3>3. QED  BY <3>1, <3>2
  <2>2. QED  BY <1>1, <2>1 DEF KeptOK
<1>8. AnswersAgree'  BY <1>1, <1>4 DEF TableInv, TableTypes, AnswersAgree
<1>9. QED  BY <1>6, <1>7, <1>8 DEF TableInv

-----------------------------------------------------------------------------
(* Connections, the queue and the outputs. *)

LEMMA AwaitKeeps ==
  ASSUME ConnInv, NEW c \in Conns,
         NEW pc \in {"get", "full", "outhash", "stream", "report", "wait"},
         NEW t \in Taskhashes \cup {NoValue}, NEW o \in Outhashes \cup {NoValue},
         NEW u \in Unihashes \cup {NoValue}, Await(c, pc, t, o, u),
         pc \in {"get", "full", "stream", "report"} => t \in Taskhashes,
         pc = "report" => u \in Unihashes
  PROVE  ConnInv'
<1> DEFINE asked == [Idle EXCEPT !.pc = pc, !.taskhash = t, !.outhash = o, !.unihash = u]
<1>1. /\ asked \in ConnStates /\ asked.pc = pc /\ asked.taskhash = t /\ asked.unihash = u
  BY DEF ConnStates, Idle
<1>2. conn' = [conn EXCEPT ![c] = asked]  BY DEF Await
<1> HIDE DEF asked
<1>3. conn' \in [Conns -> ConnStates]  BY <1>1, <1>2 DEF ConnInv
<1>4. \A d \in Conns \ {c} : conn'[d] = conn[d]  BY <1>2 DEF ConnInv
<1>5. conn'[c] = asked  BY <1>2 DEF ConnInv
<1>6. QED  BY <1>1, <1>3, <1>4, <1>5 DEF ConnInv

LEMMA UpstreamAnswersKeep ==
  ASSUME ConnInv, RemoteInv, NEW c \in Conns, UpstreamAnswers(c) PROVE ConnInv'
<1>1. PICK request \in Replies(conn[c]) : conn' = [conn EXCEPT ![c] = request]
  BY DEF UpstreamAnswers
<1>2. /\ request \in ConnStates /\ request.pc = conn[c].pc
      /\ request.taskhash = conn[c].taskhash /\ request.unihash = conn[c].unihash
  BY RepliesFit DEF ConnInv
<1>3. conn' \in [Conns -> ConnStates]  BY <1>1, <1>2 DEF ConnInv
<1>4. \A d \in Conns : conn'[d] = IF d = c THEN request ELSE conn[d]  BY <1>1 DEF ConnInv
<1>5. QED  BY <1>2, <1>3, <1>4 DEF ConnInv

LEMMA AnswerKeeps == ASSUME ConnInv, NEW c \in Conns, Answer(c) PROVE ConnInv'
BY IdleState DEF ConnInv, Answer

LEMMA InsertKeeps ==
  ASSUME OutputInv, NEW t \in Taskhashes, NEW o \in Outhashes,
         NEW before \in SUBSET outhashes, InsertOuthash(<<t, o>>, before)
  PROVE  OutputInv'
<1>1. CASE <<t, o>> \in outhashes  BY <1>1 DEF InsertOuthash, outputs, OutputInv
<1>2. CASE <<t, o>> \notin outhashes
  <2> DEFINE row == <<t, o>>
  <2>1. /\ outhashes' = outhashes \cup {row}
        /\ older' = older \cup (before \X {row}) \cup ({row} \X (outhashes \ before))
    BY <1>2 DEF InsertOuthash
  <2>2. row \in Taskhashes \X Outhashes  OBVIOUS
  <2> HIDE DEF row
  <2>3. QED  BY <2>1, <2>2 DEF OutputInv
<1>3. QED  BY <1>1, <1>2

LEMMA DeleteOutputsKeeps ==
  ASSUME OutputInv, NEW rows, DeleteOutputs(rows) PROVE OutputInv'
BY DEF OutputInv, DeleteOutputs

-----------------------------------------------------------------------------
(* The steps. *)

LEMMA RequestKeeps ==
  ASSUME IInv, NEW c \in scenario.conns, Requests(c) PROVE IInv'
<1>1. /\ TableInv /\ ConnInv /\ RemoteInv /\ QueueInv /\ OutputInv /\ interventions \in Nat
      /\ c \in Conns
  BY ScenarioTypes DEF IInv, RemoteInv
<1>2. /\ scenario.taskhashes \subseteq Taskhashes /\ scenario.outhashes \subseteq Outhashes
      /\ scenario.unihashes \subseteq Unihashes
  BY <1>1, ScenarioTypes DEF RemoteInv
<1>3. ASSUME NEW t \in scenario.taskhashes, GetKnown(c, t) PROVE IInv'
  <2>1. UNCHANGED <<unihashes, gc_mark, kept, outhashes, older, scenario, upstream, conn,
                    backfill_queue, unfinished_tasks, worker, interventions>>
    BY <1>3 DEF GetKnown, tables, outputs, remote, queue
  <2>2. t \in Taskhashes /\ Known(t) /\ Tell(t)  BY <1>2, <1>3 DEF GetKnown
  <2>3. unihashes[t].unihash \in Unihashes
    BY <1>1, <2>2 DEF TableInv, TableTypes, Known, Rows
  <2>4. told' = [told EXCEPT ![t] = @ \cup {unihashes[t].unihash}]  BY <2>1, <2>2 DEF Tell
  <2>5. TableTypes'  BY <1>1, <2>1, <2>2, <2>3, <2>4 DEF TableInv, TableTypes
  <2>6. AnswersAgree'
    BY <1>1, <2>1, <2>2, <2>4 DEF TableInv, TableTypes, AnswersAgree, Known
  <2>7. TableInv'  BY <1>1, <2>1, <2>5, <2>6 DEF TableInv, KeptOK, Known
  <2>8. QED  BY <1>1, <2>1, <2>7 DEF IInv, ConnInv, RemoteInv, QueueInv, OutputInv
<1>4. ASSUME NEW pc \in {"get", "full", "outhash", "stream", "wait"},
             NEW t \in Taskhashes \cup {NoValue}, NEW o \in Outhashes \cup {NoValue},
             Await(c, pc, t, o, NoValue),
             pc \in {"get", "full", "stream"} => t \in Taskhashes,
             UNCHANGED <<tables, remote, queue, interventions, told>>
      PROVE  IInv'
  <2>1. ConnInv'  BY <1>1, <1>4, AwaitKeeps
  <2>2. TableInv'  BY <1>1, <1>4, TablesUnchanged DEF tables
  <2>3. QED
    BY <1>1, <1>4, <2>1, <2>2 DEF IInv, RemoteInv, QueueInv, OutputInv, tables, outputs, remote, queue
<1>5. ASSUME NEW t \in scenario.taskhashes, Get(c, t) \/ GetFull(c, t) \/ GetStream(c, t)
      PROVE  IInv'
  BY <1>2, <1>4, <1>5 DEF Get, GetFull, GetStream, AskUpstream
<1>6. ASSUME NEW o \in scenario.outhashes, GetOuthash(c, o) PROVE IInv'
  BY <1>2, <1>4, <1>6 DEF GetOuthash, AskUpstream
<1>7. ASSUME BackfillWait(c) PROVE IInv'
  BY <1>4, <1>7 DEF BackfillWait
<1>8. ASSUME NEW t \in scenario.taskhashes, NEW o \in scenario.outhashes,
             NEW u \in scenario.unihashes, Report(c, t, o, u)
      PROVE  IInv'
  <2>1. t \in Taskhashes /\ o \in Outhashes /\ u \in Unihashes  BY <1>2
  <2>2. OutputInv'
    BY <1>1, <1>8, <2>1, InsertKeeps, outhashes \in SUBSET outhashes DEF Report
  <2>3. UNCHANGED <<remote, queue, interventions>>  BY <1>8 DEF Report
  <2>4. CASE /\ \E r \in EquivalentForOuthash(t, o) : Store(t, unihashes[r[1]].unihash)
             /\ Tell(t) /\ UNCHANGED conn
    <3>1. PICK r \in EquivalentForOuthash(t, o) : Store(t, unihashes[r[1]].unihash)  BY <2>4
    <3>2. r \in outhashes /\ Known(r[1])  BY DEF EquivalentForOuthash, Equivalents
    <3>3. r[1] \in Taskhashes  BY <1>1, <3>2 DEF OutputInv
    <3>4. unihashes[r[1]].unihash \in Unihashes
      BY <1>1, <3>2, <3>3 DEF TableInv, TableTypes, Known, Rows
    <3>5. TableInv'  BY <1>1, <2>1, <2>4, <3>1, <3>4, StoreKeeps
    <3>6. QED
      BY <1>1, <2>2, <2>3, <2>4, <3>5 DEF IInv, ConnInv, RemoteInv, QueueInv, remote, queue
  <2>5. CASE Store(t, u) /\ Tell(t) /\ UNCHANGED conn
    <3>1. TableInv'  BY <1>1, <2>1, <2>5, StoreKeeps
    <3>2. QED
      BY <1>1, <2>2, <2>3, <2>5, <3>1 DEF IInv, ConnInv, RemoteInv, QueueInv, remote, queue
  <2>6. CASE Await(c, "report", t, o, u) /\ UNCHANGED <<unihashes, gc_mark, kept, told>>
    <3>1. TableInv'  BY <1>1, <2>6, TablesUnchanged
    <3>2. ConnInv'  BY <1>1, <2>1, <2>6, AwaitKeeps
    <3>3. QED  BY <1>1, <2>2, <2>3, <3>1, <3>2 DEF IInv, RemoteInv, QueueInv, remote, queue
  <2>7. QED  BY <1>8, <2>4, <2>5, <2>6 DEF Report
<1>9. ASSUME NEW t \in scenario.taskhashes, NEW u \in scenario.unihashes, EquivReport(c, t, u)
      PROVE  IInv'
  <2>1. TableInv'  BY <1>1, <1>2, <1>9, StoreKeeps DEF EquivReport
  <2>2. UNCHANGED <<outputs, remote, conn, queue>> /\ interventions' = interventions + 1
    BY <1>9 DEF EquivReport, Intervene
  <2>3. QED
    BY <1>1, <2>1, <2>2 DEF IInv, ConnInv, RemoteInv, QueueInv, OutputInv, outputs, remote, queue
<1>10. QED  BY <1>3, <1>5, <1>6, <1>7, <1>8, <1>9 DEF Requests

LEMMA AnswersKeep ==
  ASSUME IInv, NEW c \in scenario.conns, Answers(c) PROVE IInv'
<1>1. /\ TableInv /\ ConnInv /\ RemoteInv /\ QueueInv /\ OutputInv /\ interventions \in Nat
      /\ c \in Conns
  BY ScenarioTypes DEF IInv, RemoteInv
<1>2. CASE UpstreamAnswers(c)
  <2>1. UNCHANGED <<tables, remote, queue, interventions, told>>  BY <1>2 DEF UpstreamAnswers
  <2>2. TableInv'  BY <1>1, <2>1, TablesUnchanged DEF tables
  <2>3. ConnInv'  BY <1>1, <1>2, UpstreamAnswersKeep
  <2>4. QED
    BY <1>1, <2>1, <2>2, <2>3 DEF IInv, RemoteInv, QueueInv, OutputInv, tables, outputs, remote, queue
<1>3. conn[c] \in ConnStates /\ conn[c].found \in Found \cup {NoValue}
  BY <1>1 DEF ConnInv, ConnStates
<1>4. CASE GetAnswer(c)
  <2>1. Answer(c) /\ UNCHANGED <<outputs, remote, queue, interventions>>  BY <1>4 DEF GetAnswer
  <2>2. TableInv'
    <3>1. CASE conn[c].found = NoValue  BY <1>1, <1>4, <3>1, TablesUnchanged DEF GetAnswer
    <3>2. CASE conn[c].found # NoValue  BY <1>1, <1>3, <1>4, <3>2, PassOnKeeps DEF GetAnswer
    <3>3. QED  BY <3>1, <3>2
  <2>3. QED
    BY <1>1, <2>1, <2>2, AnswerKeeps DEF IInv, RemoteInv, QueueInv, OutputInv, outputs, remote, queue
<1>5. CASE UnifiedAnswer(c)
  <2> DEFINE found == conn[c].found
  <2>1. Answer(c) /\ UNCHANGED <<remote, queue, interventions>>  BY <1>5 DEF UnifiedAnswer
  <2>2. TableInv' /\ OutputInv'
    <3>1. CASE found = NoValue
      BY <1>1, <1>5, <3>1, TablesUnchanged DEF UnifiedAnswer, tables, outputs, OutputInv
    <3>2. CASE found # NoValue
      <4>1. found \in Found /\ UpdateUnified(found)  BY <1>3, <1>5, <3>2 DEF UnifiedAnswer
      <4>2. found.taskhash \in Taskhashes /\ found.outhash \in Outhashes  BY <4>1 DEF Found
      <4> HIDE DEF found
      <4>3. PICK before \in Initials : InsertOuthash(<<found.taskhash, found.outhash>>, before)
        BY <4>1 DEF UpdateUnified
      <4>4. before \in SUBSET outhashes  BY DEF Initials
      <4>5. OutputInv'  BY <1>1, <4>2, <4>3, <4>4, InsertKeeps
      <4>6. TableInv'  BY <1>1, <4>1, PassOnKeeps DEF UpdateUnified
      <4>7. QED  BY <4>5, <4>6
    <3>3. QED  BY <3>1, <3>2
  <2>3. QED  BY <1>1, <2>1, <2>2, AnswerKeeps DEF IInv, RemoteInv, QueueInv, remote, queue
<1>6. CASE StreamAnswer(c)
  <2>1. conn[c].taskhash \in Taskhashes /\ Answer(c)
    BY <1>1, <1>6 DEF StreamAnswer, Waiting, ConnInv
  <2>2. UNCHANGED <<tables, remote, interventions, told>>  BY <1>6 DEF StreamAnswer
  <2>3. QueueInv'  BY <1>1, <1>6, <2>1 DEF StreamAnswer, QueueInv, queue
  <2>4. TableInv'  BY <1>1, <2>2, TablesUnchanged DEF tables
  <2>5. QED
    BY <1>1, <2>1, <2>2, <2>3, <2>4, AnswerKeeps DEF IInv, RemoteInv, OutputInv, tables, outputs, remote
<1>7. CASE ReportAnswer(c)
  <2> DEFINE r == conn[c]
             u == IF r.found = NoValue THEN r.unihash ELSE r.found.unihash
  <2>1. r.taskhash \in Taskhashes /\ r.unihash \in Unihashes
    BY <1>1, <1>7 DEF ReportAnswer, Waiting, ConnInv
  <2>2. u \in Unihashes  BY <1>3, <2>1 DEF Found
  <2>3. /\ Answer(c) /\ Store(r.taskhash, u) /\ Tell(r.taskhash)
        /\ UNCHANGED <<outputs, remote, queue, interventions>>
    BY <1>7 DEF ReportAnswer
  <2> HIDE DEF r, u
  <2>4. TableInv'  BY <1>1, <2>1, <2>2, <2>3, StoreKeeps
  <2>5. QED
    BY <1>1, <2>3, <2>4, AnswerKeeps DEF IInv, RemoteInv, QueueInv, OutputInv, outputs, remote, queue
<1>8. QED  BY <1>2, <1>4, <1>5, <1>6, <1>7 DEF Answers

LEMMA AdministrationKeeps == ASSUME IInv, Administration PROVE IInv'
<1>1. /\ TableInv /\ ConnInv /\ RemoteInv /\ QueueInv /\ OutputInv /\ interventions \in Nat
      /\ scenario.marks \subseteq Marks
  BY ScenarioTypes DEF IInv, RemoteInv
<1>2. ASSUME TableInv', OutputInv', UNCHANGED <<remote, conn, queue>>, Intervene PROVE IInv'
  BY <1>1, <1>2 DEF IInv, ConnInv, RemoteInv, QueueInv, remote, queue, Intervene
<1>3. CASE Remove
  <2>1. UNCHANGED <<gc_mark, remote, conn, queue>> /\ Intervene  BY <1>3 DEF Remove
  <2>2. ASSUME NEW t \in Taskhashes, Delete({t}), kept' = kept \ {t}, DeleteOutputs({t} \X Outhashes)
        PROVE  IInv'
    BY <1>1, <1>2, <2>1, <2>2, DeleteKeeps, DeleteOutputsKeeps
  <2>3. ASSUME NEW u \in Unihashes,
               Delete({t \in Taskhashes : Known(t) /\ unihashes[t].unihash = u}),
               kept' = kept \ {t \in Taskhashes : Known(t) /\ unihashes[t].unihash = u},
               UNCHANGED outputs
        PROVE  IInv'
    <3> DEFINE ts == {t \in Taskhashes : Known(t) /\ unihashes[t].unihash = u}
    <3>1. ts \in SUBSET Taskhashes /\ Delete(ts) /\ kept' = kept \ ts  BY <2>3
    <3> HIDE DEF ts
    <3>2. TableInv'  BY <1>1, <2>1, <3>1, DeleteKeeps
    <3>3. QED  BY <1>1, <1>2, <2>1, <2>3, <3>2 DEF outputs, OutputInv
  <2>4. ASSUME NEW o \in Outhashes, DeleteOutputs(Taskhashes \X {o}), UNCHANGED <<unihashes, told, kept>>
        PROVE  IInv'
    BY <1>1, <1>2, <2>1, <2>4, TablesUnchanged, DeleteOutputsKeeps
  <2>5. QED  BY <1>3, <2>2, <2>3, <2>4 DEF Remove
<1>4. CASE GcSweep
  <2> DEFINE ts == {t \in Taskhashes : Known(t) /\ unihashes[t].gc_mark # gc_mark}
  <2>1. /\ ts \in SUBSET Taskhashes /\ Delete(ts) /\ kept' = {} /\ gc_mark' = NoMark
        /\ UNCHANGED <<outputs, remote, conn, queue>> /\ Intervene
    BY <1>4 DEF GcSweep
  <2> HIDE DEF ts
  <2>2. TableInv'  BY <1>1, <2>1, DeleteKeeps
  <2>3. QED  BY <1>1, <1>2, <2>1, <2>2 DEF outputs, OutputInv
<1>5. CASE CleanUnused
  BY <1>1, <1>2, <1>5, TablesUnchanged, DeleteOutputsKeeps DEF CleanUnused
<1>6. ASSUME NEW mark \in scenario.marks, NEW ts \in Matching \cup {{}}, GcMark(mark, ts)
      PROVE  IInv'
  <2>1. ts \in SUBSET Taskhashes /\ mark \in Marks  BY <1>1 DEF Matching
  <2>2. TableInv'  BY <1>1, <1>6, <2>1, MarkKeeps
  <2>3. QED  BY <1>1, <1>2, <1>6, <2>2 DEF GcMark, outputs, OutputInv
<1>7. QED  BY <1>3, <1>4, <1>5, <1>6 DEF Administration

LEMMA WorkerKeeps == ASSUME IInv, Worker PROVE IInv'
<1>1. TableInv /\ ConnInv /\ RemoteInv /\ QueueInv /\ OutputInv /\ interventions \in Nat
  BY DEF IInv
<1>2. CASE WorkerTakes
  <2> DEFINE taken == [Idle EXCEPT !.pc = "backfill", !.taskhash = Head(backfill_queue)]
  <2>1. /\ worker = Idle /\ worker' = taken /\ backfill_queue # <<>>
        /\ backfill_queue' = Tail(backfill_queue) /\ unfinished_tasks' = unfinished_tasks
    BY <1>2 DEF WorkerTakes
  <2>2. backfill_queue \in Seq(Taskhashes) /\ unfinished_tasks = Len(backfill_queue)
    BY <1>1, <2>1 DEF QueueInv
  <2>3. /\ Head(backfill_queue) \in Taskhashes /\ Tail(backfill_queue) \in Seq(Taskhashes)
        /\ Len(backfill_queue) = Len(Tail(backfill_queue)) + 1
    BY <2>1, <2>2
  <2>4. taken \in ConnStates /\ taken # Idle  BY <2>3 DEF ConnStates, Idle
  <2>5. QueueInv'  BY <2>1, <2>2, <2>3, <2>4 DEF QueueInv
  <2>6. TableInv'  BY <1>1, <1>2, TablesUnchanged DEF WorkerTakes, tables
  <2>7. QED
    BY <1>1, <1>2, <2>5, <2>6 DEF WorkerTakes, IInv, ConnInv, RemoteInv, OutputInv, tables, outputs, remote
<1>3. CASE UpstreamAnswersWorker
  <2>1. worker' \in ConnStates /\ worker' # Idle /\ worker # Idle
    <3>1. worker \in ConnStates /\ worker' \in Replies(worker) /\ Asks(worker)
      BY <1>1, <1>3 DEF UpstreamAnswersWorker, QueueInv
    <3>2. QED  BY <1>1, <3>1, RepliesFit, IdleState DEF Asks
  <2>2. UNCHANGED <<tables, remote, conn, backfill_queue, unfinished_tasks, interventions, told>>
    BY <1>3 DEF UpstreamAnswersWorker
  <2>3. TableInv'  BY <1>1, <2>2, TablesUnchanged DEF tables
  <2>4. QED
    BY <1>1, <2>1, <2>2, <2>3 DEF IInv, ConnInv, RemoteInv, QueueInv, OutputInv, tables, outputs, remote
<1>4. CASE WorkerStores
  <2>1. /\ worker \in ConnStates /\ worker.answered /\ worker' = Idle /\ TaskDone
        /\ UNCHANGED <<outputs, remote, backfill_queue, interventions, told>>
    BY <1>1, <1>4 DEF WorkerStores, QueueInv
  <2>2. worker # Idle /\ worker.found \in Found \cup {NoValue}
    BY <2>1, IdleState DEF ConnStates
  <2>3. TableInv'
    <3>1. CASE worker.found = NoValue
      BY <1>1, <1>4, <2>1, <3>1, TablesUnchanged DEF WorkerStores
    <3>2. CASE worker.found # NoValue
      BY <1>1, <1>4, <2>1, <2>2, <3>2, StoreKeeps DEF WorkerStores, Found
    <3>3. QED  BY <3>1, <3>2
  <2>4. ConnInv'  BY <1>1, <2>1, IdleState DEF TaskDone, ConnInv
  <2>5. QueueInv'  BY <1>1, <2>1, <2>2, IdleState DEF TaskDone, QueueInv
  <2>6. QED
    BY <1>1, <2>1, <2>3, <2>4, <2>5 DEF IInv, RemoteInv, OutputInv, outputs, remote
<1>5. QED  BY <1>2, <1>3, <1>4 DEF Worker

LEMMA FaultsKeep == ASSUME IInv, Faults PROVE IInv'
<1>1. /\ TableInv /\ ConnInv /\ RemoteInv /\ QueueInv /\ OutputInv /\ interventions \in Nat
      /\ scenario.conns \subseteq Conns
  BY ScenarioTypes DEF IInv, RemoteInv
<1>2. ASSUME NEW c \in scenario.conns, UpstreamFails(c) PROVE IInv'
  <2>1. TableInv' /\ ConnInv'
    BY <1>1, <1>2, TablesUnchanged, AnswerKeeps DEF UpstreamFails, tables
  <2>2. QED
    BY <1>1, <1>2, <2>1
       DEF UpstreamFails, Intervene, IInv, RemoteInv, QueueInv, OutputInv, tables, outputs, remote, queue
<1>3. ASSUME NEW t \in Taskhashes, UpstreamChanges(t) PROVE IInv'
  <2>1. TableInv'  BY <1>1, <1>3, TablesUnchanged DEF UpstreamChanges, tables
  <2>2. RemoteInv'
    <3>1. scenario.upstream \in [Taskhashes -> UpstreamRows \cup {NoValue}]
      BY <1>1, ScenarioTypes DEF RemoteInv
    <3>2. QED  BY <1>1, <1>3, <3>1 DEF UpstreamChanges, RemoteInv
  <2>3. QED
    BY <1>1, <1>3, <2>1, <2>2
       DEF UpstreamChanges, Intervene, IInv, ConnInv, QueueInv, OutputInv, tables, outputs, queue
<1>4. CASE Restart
  <2>1. TableInv'  BY <1>1, <1>4, TablesUnchanged DEF Restart, tables
  <2>2. ConnInv' /\ QueueInv'  BY <1>1, <1>4, IdleState DEF Restart, ConnInv, QueueInv
  <2>3. QED
    BY <1>1, <1>4, <2>1, <2>2 DEF Restart, Intervene, IInv, RemoteInv, OutputInv, tables, outputs, remote
<1>5. QED  BY <1>2, <1>3, <1>4 DEF Faults

LEMMA InitInv == Init => IInv
<1>1. SUFFICES ASSUME Init PROVE IInv  OBVIOUS
<1>2. TableInv
  BY <1>1, HashServerAssumption DEF Init, TableInv, TableTypes, KeptOK, AnswersAgree, Known
<1>3. ConnInv  BY <1>1, IdleState DEF Init, ConnInv
<1>4. RemoteInv  BY <1>1, ScenarioTypes DEF Init, RemoteInv
<1>5. QueueInv /\ OutputInv /\ interventions \in Nat
  BY <1>1, IdleState DEF Init, QueueInv, OutputInv
<1>6. QED  BY <1>2, <1>3, <1>4, <1>5 DEF IInv

LEMMA NextInv == IInv /\ [Next]_vars => IInv'
<1>1. SUFFICES ASSUME IInv, [Next]_vars PROVE IInv'  OBVIOUS
<1>2. CASE UNCHANGED vars
  <2>1. TableInv'  BY <1>1, <1>2, TablesUnchanged DEF vars, tables, IInv
  <2>2. QED
    BY <1>1, <1>2, <2>1
       DEF vars, tables, outputs, remote, queue, IInv, ConnInv, RemoteInv, QueueInv, OutputInv
<1>3. QED
  BY <1>1, <1>2, RequestKeeps, AnswersKeep, AdministrationKeeps, WorkerKeeps, FaultsKeep DEF Next

LEMMA Invariance == Spec => []IInv
BY InitInv, NextInv, PTL DEF Spec

\* The tables and connections stay well formed, and the queue's counter is
\* what is queued and being worked on.
THEOREM TypeCorrect == Spec => []TypeOK
BY Invariance, Invariants, PTL

\* In no interleaving are two clients told different unihashes of one task hash
\* while its row is there, if they reported it, found it in the table, or brought
\* its row here.
THEOREM ClientsAgree == Spec => []AnswersAgree
BY Invariance, Invariants, PTL

\* Only a collection's beginning and its end touch the current mark.
LEMMA MarkStays ==
  ASSUME Next, ~GcSweep,
         ~\E mark \in scenario.marks, ts \in Matching \cup {{}} : GcMark(mark, ts)
  PROVE  gc_mark' = gc_mark
<1>1. ASSUME NEW c \in scenario.conns, Requests(c) PROVE gc_mark' = gc_mark
  BY <1>1 DEF Requests, GetKnown, Get, GetFull, GetStream, GetOuthash, AskUpstream, Report,
              EquivReport, BackfillWait, Store, tables
<1>2. ASSUME NEW c \in scenario.conns, Answers(c) PROVE gc_mark' = gc_mark
  <2>1. CASE UpstreamAnswers(c)  BY <2>1 DEF UpstreamAnswers, tables
  <2>2. CASE GetAnswer(c)  BY <2>2 DEF GetAnswer, PassOn, Store
  <2>3. CASE UnifiedAnswer(c)  BY <2>3 DEF UnifiedAnswer, UpdateUnified, PassOn, Store, tables
  <2>4. CASE StreamAnswer(c)  BY <2>4 DEF StreamAnswer, tables
  <2>5. CASE ReportAnswer(c)  BY <2>5 DEF ReportAnswer, Store
  <2>6. QED  BY <1>2, <2>1, <2>2, <2>3, <2>4, <2>5 DEF Answers
<1>3. ASSUME Worker PROVE gc_mark' = gc_mark
  BY <1>3 DEF Worker, WorkerTakes, UpstreamAnswersWorker, WorkerStores, Store, tables
<1>4. ASSUME Remove \/ CleanUnused PROVE gc_mark' = gc_mark
  BY <1>4 DEF Remove, CleanUnused
<1>5. ASSUME Faults PROVE gc_mark' = gc_mark
  BY <1>5 DEF Faults, UpstreamFails, UpstreamChanges, Restart, tables
<1>6. QED  BY <1>1, <1>2, <1>3, <1>4, <1>5 DEF Next, Administration

\* A sweep spares what was marked or stored since its collection began.
THEOREM SweepSpares == Spec => SweepKeeps
<1> DEFINE Ends == gc_mark # NoMark /\ gc_mark' = NoMark
           Spared == \A t \in kept : unihashes'[t] = unihashes[t]
<1>1. IInv /\ [Next]_vars => [Ends => Spared]_vars
  <2>1. SUFFICES ASSUME IInv, Next, Ends PROVE Spared  OBVIOUS
  <2>3. GcSweep \/ \E mark \in scenario.marks, ts \in Matching \cup {{}} : GcMark(mark, ts)
    BY <2>1, MarkStays
  <2>4. CASE GcSweep
    <3>1. \A t \in kept : t \in Taskhashes /\ unihashes[t].gc_mark = gc_mark
      BY <2>1 DEF IInv, TableInv, TableTypes, KeptOK
    <3>2. QED  BY <2>4, <3>1 DEF GcSweep, Delete
  <2>5. CASE \E mark \in scenario.marks, ts \in Matching \cup {{}} : GcMark(mark, ts)
    BY <2>1, <2>5, ScenarioTypes, HashServerAssumption DEF IInv, RemoteInv, GcMark
  <2>6. QED  BY <2>3, <2>4, <2>5
<1>2. QED  BY <1>1, Invariance, PTL DEF Spec, SweepKeeps, Ends, Spared

-----------------------------------------------------------------------------
(* Reports alone. *)

Alone == ~scenario.has_upstream /\ interventions = 0

\* Without an upstream nothing is ever waited for.
NothingPending ==
  ~scenario.has_upstream =>
    (\A c \in Conns : conn[c] = Idle) /\ worker = Idle /\ backfill_queue = <<>>

\* The rows are in a total order, and a task hash is known when it has a row.
AloneInv ==
  Alone =>
    /\ \A r, q \in outhashes : r = q \/ <<r, q>> \in older \/ <<q, r>> \in older
    /\ \A t \in Taskhashes : Known(t) <=> \E r \in outhashes : r[1] = t
    /\ OldestDecides

LEMMA PendingStays == IInv /\ NothingPending /\ [Next]_vars => NothingPending'
<1>1. SUFFICES ASSUME IInv, NothingPending, [Next]_vars, ~scenario'.has_upstream
               PROVE  (\A c \in Conns : conn'[c] = Idle) /\ worker' = Idle /\ backfill_queue' = <<>>
  BY DEF NothingPending
<1>2. scenario' = scenario
  <2>1. ASSUME NEW c \in scenario.conns, Requests(c) PROVE scenario' = scenario
    BY <2>1 DEF Requests, GetKnown, Get, GetFull, GetStream, GetOuthash, AskUpstream, Report,
                EquivReport, BackfillWait, remote
  <2>2. ASSUME NEW c \in scenario.conns, Answers(c) PROVE scenario' = scenario
    BY <2>2 DEF Answers, UpstreamAnswers, GetAnswer, UnifiedAnswer, StreamAnswer, ReportAnswer, remote
  <2>3. ASSUME Worker \/ Administration \/ Faults PROVE scenario' = scenario
    BY <2>3 DEF Worker, WorkerTakes, UpstreamAnswersWorker, WorkerStores, Administration, Remove, GcSweep, CleanUnused,
                GcMark, Faults, UpstreamFails, UpstreamChanges, Restart, remote
  <2>4. QED  BY <1>1, <2>1, <2>2, <2>3 DEF Next, vars, remote
<1>3. /\ ~scenario.has_upstream /\ \A c \in Conns : conn[c] = Idle
      /\ worker = Idle /\ backfill_queue = <<>> /\ scenario.conns \subseteq Conns
  BY <1>1, <1>2, ScenarioTypes DEF NothingPending, IInv, RemoteInv
<1>4. ASSUME UNCHANGED <<conn, queue>> PROVE (\A c \in Conns : conn'[c] = Idle) /\ worker' = Idle /\ backfill_queue' = <<>>
  BY <1>3, <1>4 DEF queue
<1>5. ASSUME NEW c \in scenario.conns, Requests(c) PROVE UNCHANGED <<conn, queue>>
  BY <1>3, <1>5 DEF Requests, GetKnown, Get, GetFull, GetStream, GetOuthash, AskUpstream, Report,
                    EquivReport, BackfillWait
<1>6. ASSUME NEW c \in scenario.conns, Answers(c) PROVE FALSE
  BY <1>3, <1>6, IdleState
     DEF Answers, UpstreamAnswers, Asks, Waiting, GetAnswer, UnifiedAnswer, StreamAnswer, ReportAnswer
<1>7. ~Worker
  BY <1>3, IdleState DEF Asks, Worker, WorkerTakes, UpstreamAnswersWorker, WorkerStores
<1>8. ASSUME Administration PROVE UNCHANGED <<conn, queue>>
  BY <1>8 DEF Administration, Remove, GcSweep, CleanUnused, GcMark
<1>9. ASSUME Faults
      PROVE  (\A c \in Conns : conn'[c] = Idle) /\ worker' = Idle /\ backfill_queue' = <<>>
  <2>1. \A c \in scenario.conns : ~UpstreamFails(c)  BY <1>3, IdleState DEF UpstreamFails
  <2>2. CASE Restart  BY <2>2 DEF Restart
  <2>3. CASE \E t \in Taskhashes : UpstreamChanges(t)
    BY <1>3, <2>3 DEF UpstreamChanges, queue
  <2>4. QED  BY <1>9, <2>1, <2>2, <2>3 DEF Faults
<1>10. CASE UNCHANGED vars  BY <1>4, <1>10 DEF vars, queue
<1>11. QED  BY <1>1, <1>4, <1>5, <1>6, <1>7, <1>8, <1>9, <1>10 DEF Next

\* A report of a row that is there changes nothing; the first row of a task
\* hash gives it the unihash of the oldest row with the same output.
LEMMA ReportKeepsOrder ==
  ASSUME IInv, AloneInv, Alone, NEW c \in Conns, NEW t \in Taskhashes, NEW o \in Outhashes,
         NEW u \in Unihashes, Report(c, t, o, u)
  PROVE  AloneInv'
<1> DEFINE row == <<t, o>>
<1>1. /\ \A r, q \in outhashes : r = q \/ <<r, q>> \in older \/ <<q, r>> \in older
      /\ \A s \in Taskhashes : Known(s) <=> \E r \in outhashes : r[1] = s
      /\ TableInv /\ OutputInv
  BY DEF AloneInv, IInv
<1>2. \A r, q \in outhashes :
        /\ First(r, {p \in outhashes : p[1] = r[1]}) /\ First(q, {p \in outhashes : p[2] = r[2]})
        => unihashes[r[1]].unihash = unihashes[q[1]].unihash
  BY DEF AloneInv, Alone, OldestDecides
<1>3. UNCHANGED <<scenario, interventions>>  BY DEF Report, remote
<1>4. \E v \in Unihashes : Store(t, v)
  <2>1. CASE \E r \in EquivalentForOuthash(t, o) : Store(t, unihashes[r[1]].unihash)
    <3>1. PICK r \in EquivalentForOuthash(t, o) : Store(t, unihashes[r[1]].unihash)  BY <2>1
    <3>2. r[1] \in Taskhashes /\ Known(r[1])
      BY <1>1 DEF EquivalentForOuthash, Equivalents, OutputInv
    <3>3. unihashes[r[1]].unihash \in Unihashes
      BY <1>1, <3>2 DEF TableInv, TableTypes, Known, Rows
    <3>4. QED  BY <3>1, <3>3
  <2>2. QED  BY <2>1 DEF Report, Alone
<1>5. /\ \A s \in Taskhashes : Known(s) => unihashes'[s] = unihashes[s]
      /\ Known(t)' /\ \A s \in Taskhashes \ {t} : unihashes'[s] = unihashes[s]
  <2>1. PICK v \in Unihashes : Store(t, v)  BY <1>4
  <2>2. unihashes'[t] \in Rows /\ \A s \in Taskhashes : Known(s) => unihashes'[s] = unihashes[s]
    BY <1>1, <2>1, StoreRow DEF TableInv
  <2>3. \A s \in Taskhashes \ {t} : unihashes'[s] = unihashes[s]
    BY <1>1, <2>1 DEF Store, InsertUnihash, TableInv, TableTypes
  <2>4. QED  BY <2>2, <2>3, HashServerAssumption DEF Known
<1>6. CASE row \in outhashes
  <2>1. UNCHANGED <<outhashes, older>>  BY <1>6 DEF Report, InsertOuthash, outputs
  <2>2. \A r \in outhashes : r[1] \in Taskhashes /\ Known(r[1])  BY <1>1 DEF OutputInv
  <2>3. Known(t)  BY <1>6, <2>2
  <2>4. \A s \in Taskhashes : unihashes'[s] = unihashes[s]  BY <1>5, <2>3
  <2>5. OldestDecides'  BY <1>2, <2>1, <2>2, <2>4 DEF OldestDecides, First
  <2>6. QED  BY <1>1, <2>1, <2>4, <2>5 DEF AloneInv, Known
<1>7. CASE row \notin outhashes
  <2>1. outhashes' = outhashes \cup {row} /\ older' = older \cup (outhashes \X {row})
    <3>1. outhashes \ outhashes = {} /\ {row} \X {} = {}  OBVIOUS
    <3>2. QED  BY <1>7, <3>1 DEF Report, InsertOuthash
  <2>2. row[1] = t /\ row[2] = o  OBVIOUS
  <2> HIDE DEF row
  <2>3. \A r \in outhashes : <<r, row>> \in older'  BY <2>1
  <2>4. \A r, q \in outhashes' : r = q \/ <<r, q>> \in older' \/ <<q, r>> \in older'
    BY <1>1, <2>1, <2>3
  <2>5. \A s \in Taskhashes : Known(s)' <=> \E r \in outhashes' : r[1] = s
    BY <1>1, <1>5, <2>1, <2>2 DEF Known
  <2>6. ASSUME NEW r \in outhashes', NEW q \in outhashes',
               First(r, {p \in outhashes : p[1] = r[1]})', First(q, {p \in outhashes : p[2] = r[2]})'
        PROVE  unihashes'[r[1]].unihash = unihashes'[q[1]].unihash
    <3>1. /\ \A p \in outhashes' : p[1] = r[1] => <<p, r>> \notin older'
          /\ q[2] = r[2] /\ \A p \in outhashes' : p[2] = r[2] => <<p, q>> \notin older'
      BY <2>6 DEF First
    <3>2. CASE r = q  BY <3>2
    <3>3. CASE r # row /\ q = row
      BY <2>1, <2>3, <3>1, <3>3
    <3>4. CASE r # row /\ q # row
      <4>1. r \in outhashes /\ q \in outhashes  BY <2>1, <3>4
      <4>2. First(r, {p \in outhashes : p[1] = r[1]}) /\ First(q, {p \in outhashes : p[2] = r[2]})
        BY <2>1, <3>1, <4>1 DEF First
      <4>3. unihashes[r[1]].unihash = unihashes[q[1]].unihash  BY <1>2, <4>1, <4>2
      <4>4. /\ r[1] \in Taskhashes /\ q[1] \in Taskhashes
            /\ Known(r[1]) /\ Known(q[1])
        BY <1>1, <4>1 DEF OutputInv
      <4>5. QED  BY <1>5, <4>3, <4>4
    <3>5. CASE r = row /\ q # row
      <4>1. q \in outhashes /\ q[2] = o  BY <2>1, <2>2, <3>1, <3>5
      <4>2. \A p \in outhashes : p[1] # t  BY <2>1, <2>2, <2>3, <3>1, <3>5
      <4>3. q[1] # t /\ q[1] \in Taskhashes /\ Known(q[1])
        BY <1>1, <4>1, <4>2 DEF OutputInv
      <4>4. q \in Equivalents(t, o)  BY <4>1, <4>3 DEF Equivalents
      <4>5. PICK e \in EquivalentForOuthash(t, o) : Store(t, unihashes[e[1]].unihash)
        BY <4>4 DEF Report
      <4>6. e \in outhashes /\ e[2] = o /\ <<q, e>> \notin older
        BY <4>4 DEF EquivalentForOuthash, Equivalents
      <4>7. <<e, q>> \notin older  BY <2>1, <2>2, <3>1, <3>5, <4>6
      <4>8. e = q  BY <1>1, <4>1, <4>6, <4>7
      <4>9. ~Known(t)  BY <1>1, <4>2
      <4>10. unihashes'[t].unihash = unihashes[q[1]].unihash
        BY <1>1, <4>5, <4>8, <4>9 DEF Store, InsertUnihash, TableInv, TableTypes
      <4>11. QED  BY <1>5, <2>2, <3>5, <4>3, <4>10
    <3>6. QED  BY <3>2, <3>3, <3>4, <3>5
  <2>7. OldestDecides'  BY <2>6 DEF OldestDecides
  <2>8. QED  BY <2>4, <2>5, <2>7 DEF AloneInv
<1>8. QED  BY <1>6, <1>7

LEMMA AloneStays == IInv /\ NothingPending /\ AloneInv /\ [Next]_vars => AloneInv'
<1>1. SUFFICES ASSUME IInv, NothingPending, AloneInv, [Next]_vars, Alone' PROVE AloneInv'
  BY DEF AloneInv
<1>2. ASSUME Intervene PROVE FALSE  BY <1>1, <1>2 DEF IInv, Intervene, Alone
<1>3. ASSUME UNCHANGED <<unihashes, outhashes, older, scenario, interventions>> PROVE AloneInv'
  BY <1>1, <1>3 DEF AloneInv, Alone, Known, OldestDecides, First
<1>4. CASE UNCHANGED vars  BY <1>3, <1>4 DEF vars, tables, outputs, remote
<1>5. ASSUME NEW c \in scenario.conns, Requests(c) PROVE AloneInv'
  <2>1. /\ c \in Conns /\ scenario.taskhashes \subseteq Taskhashes
        /\ scenario.outhashes \subseteq Outhashes /\ scenario.unihashes \subseteq Unihashes
    BY <1>1, ScenarioTypes DEF IInv, RemoteInv
  <2>2. ASSUME NEW t \in scenario.taskhashes, NEW o \in scenario.outhashes,
               NEW u \in scenario.unihashes, Report(c, t, o, u)
        PROVE  AloneInv'
    <3>1. Alone  BY <1>1, <2>2 DEF Report, remote, Alone
    <3>2. QED  BY <1>1, <2>1, <2>2, <3>1, ReportKeepsOrder
  <2>3. ASSUME NEW t \in scenario.taskhashes, NEW u \in scenario.unihashes, EquivReport(c, t, u)
        PROVE  AloneInv'
    BY <1>2, <2>3 DEF EquivReport
  <2>4. ASSUME NEW t \in scenario.taskhashes, GetKnown(c, t) PROVE AloneInv'
    BY <1>3, <2>4 DEF GetKnown, tables, outputs, remote
  <2>5. ASSUME NEW pc, NEW t, NEW o, NEW u, AskUpstream(c, pc, t, o, u) PROVE AloneInv'
    BY <1>3, <2>5 DEF AskUpstream, tables, outputs, remote
  <2>6. ASSUME BackfillWait(c) PROVE AloneInv'
    BY <1>3, <2>6 DEF BackfillWait, tables, outputs, remote
  <2>7. QED
    BY <1>5, <2>2, <2>3, <2>4, <2>5, <2>6 DEF Requests, Get, GetFull, GetStream, GetOuthash
<1>6. ASSUME NEW c \in scenario.conns, Answers(c) PROVE AloneInv'
  <2>1. scenario' = scenario
    BY <1>6 DEF Answers, UpstreamAnswers, GetAnswer, UnifiedAnswer, StreamAnswer, ReportAnswer, remote
  <2>2. conn[c] = Idle
    BY <1>1, <2>1, ScenarioTypes DEF NothingPending, Alone, IInv, RemoteInv
  <2>3. QED
    BY <1>6, <2>2, IdleState
       DEF Answers, UpstreamAnswers, Asks, Waiting, GetAnswer, UnifiedAnswer, StreamAnswer, ReportAnswer
<1>7. ASSUME Worker PROVE AloneInv'
  <2>1. scenario' = scenario  BY <1>7 DEF Worker, WorkerTakes, UpstreamAnswersWorker, WorkerStores, remote
  <2>2. worker = Idle /\ backfill_queue = <<>>
    BY <1>1, <2>1 DEF NothingPending, Alone
  <2>3. QED
    BY <1>7, <2>2, IdleState DEF Asks, Worker, WorkerTakes, UpstreamAnswersWorker, WorkerStores
<1>8. ASSUME Administration \/ Faults PROVE AloneInv'
  BY <1>2, <1>8 DEF Administration, Remove, GcSweep, CleanUnused, GcMark, Faults, UpstreamFails,
                    UpstreamChanges, Restart
<1>9. QED  BY <1>1, <1>4, <1>5, <1>6, <1>7, <1>8 DEF Next

\* Among reports alone, the first task hash with an output decides.
THEOREM FirstReportDecides == Spec => []OldestDecides
<1>1. Init => NothingPending /\ AloneInv
  <2>1. SUFFICES ASSUME Init PROVE NothingPending /\ AloneInv  OBVIOUS
  <2>2. NothingPending  BY <2>1 DEF Init, NothingPending
  <2>3. AloneInv  BY <2>1 DEF Init, AloneInv, Known, OldestDecides
  <2>4. QED  BY <2>2, <2>3
<1>2. AloneInv => OldestDecides  BY DEF AloneInv, Alone, OldestDecides
<1>3. QED  BY <1>1, <1>2, Invariance, PendingStays, AloneStays, PTL DEF Spec
=============================================================================
