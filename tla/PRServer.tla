------------------------------ MODULE PRServer ------------------------------
(***************************************************************************)
(* The PR server (bitbake/lib/prserv): it numbers the packages a build      *)
(* makes, so that one that is built differently gets another revision.  One *)
(* version of a package for one architecture is modelled: every query       *)
(* selects by both.                                                        *)
(*                                                                         *)
(* A request is one step on the SQLite table (db.py), unless there is an    *)
(* upstream server: then serv.py asks that one up to three questions.  What  *)
(* upstream answers is under way while requests of other connections, here   *)
(* and upstream, are handled: each connection has an upstream connection of  *)
(* its own, so one answer may overtake another.  The upstream server has no  *)
(* upstream itself.                                                        *)
(***************************************************************************)
EXTENDS Naturals, Sequences, SequencesExt

CONSTANTS
  Conns,        \* connections; one that is dropped is opened again
  Checksums,    \* what packages are built from
  NoValue,      \* None
  Scenarios     \* records: who asks for what (conns, checksums, histories); is there an
                \* upstream server and what has it given out (has_upstream, upstream); what
                \* an administrator imports (imports); the bound on every number (limit)

Revisions == {v \in Seq(Nat) : Len(v) \in 1..2}       \* "3" and "3.0"
Plain == {v \in Revisions : Len(v) = 1}
Rows == Checksums \X Revisions

ASSUME PRServerAssumption ==
  /\ NoValue \notin Revisions \cup Checksums
  /\ Scenarios \subseteq
       [conns : SUBSET Conns, checksums : SUBSET Checksums, histories : SUBSET BOOLEAN,
        has_upstream : BOOLEAN, upstream : SUBSET (Checksums \X Plain),
        imports : SUBSET Rows, limit : Nat]
  /\ \A s \in Scenarios :
       /\ ~s.has_upstream => s.upstream = {}
       /\ \A r, q \in s.upstream : r[2] = q[2] => r[1] = q[1]

VARIABLES
  table,       \* PRMAIN: pairs of a checksum and a value
  upstream,    \* the same of the upstream server
  conn,        \* what a connection waits for, with the variables of its request, and
               \* what upstream answered
  scenario,
  last,        \* history: the last answer in "no history" mode
  before       \* history: what was in the table when a connection's request came

vars == <<table, upstream, conn, scenario, last, before>>

Idle == [pc |-> "idle", checksum |-> NoValue, history |-> FALSE, value |-> NoValue,
         upstream_max |-> NoValue, answered |-> FALSE, answer |-> NoValue]
ConnStates ==
  [pc : {"idle", "max", "test", "package", "pr", "newmax"}, checksum : Checksums \cup {NoValue},
   history : BOOLEAN, value : Revisions \cup {NoValue}, upstream_max : Plain \cup {NoValue},
   answered : BOOLEAN, answer : Plain \cup {NoValue}]

\* Tables and connections are well formed: the upstream server numbers with
\* plain numbers, and a request waits with what its next step needs.
TypeOK ==
  /\ table \subseteq Rows /\ upstream \subseteq Checksums \X Plain
  /\ scenario \in Scenarios /\ last \in Revisions \cup {NoValue}
  /\ conn \in [Conns -> ConnStates] /\ before \in [Conns -> SUBSET table]
  /\ \A c \in Conns :
       /\ conn[c].pc # "idle" => scenario.has_upstream /\ conn[c].checksum # NoValue
       /\ conn[c].pc = "test" => conn[c].value # NoValue /\ conn[c].upstream_max # NoValue
       /\ conn[c].pc = "newmax" /\ conn[c].answered => conn[c].answer # NoValue

Init ==
  /\ scenario \in Scenarios /\ upstream = scenario.upstream
  /\ table = {} /\ conn = [c \in Conns |-> Idle] /\ last = NoValue
  /\ before = [c \in Conns |-> {}]

-----------------------------------------------------------------------------
(* Revisions.                                                              *)

Increase(v) == [v EXCEPT ![Len(v)] = @ + 1]

\* The first number that differs decides; "1" is neither smaller than "1.0"
\* nor the other way round (_revision_greater_or_equal is true both ways).
Smaller(v, w) ==
  \E i \in DOMAIN v \cap DOMAIN w : v[i] < w[i] /\ \A j \in 1..(i - 1) : v[j] = w[j]
Extends(v, w) == Len(w) <= Len(v) /\ \A i \in DOMAIN w : v[i] = w[i]
Above(v, w) == Smaller(w, v) \/ (v # w /\ Extends(v, w))

\* What max_value > value compares: the texts, "." before the digits.
Numeral[n \in Nat] ==
  IF n < 10 THEN <<n + 1>> ELSE Append(Numeral[n \div 10], (n % 10) + 1)
Text(v) == FlattenSeq([i \in 1..(2 * Len(v) - 1) |->
                         IF i % 2 = 1 THEN Numeral[v[(i + 1) \div 2]] ELSE <<0>>])
TextGreater(v, w) == Above(Text(v), Text(w))

-----------------------------------------------------------------------------
(* Queries.                                                                *)

Values(rows) == {r[2] : r \in rows}
Of(rows, k) == {r \in rows : r[1] = k}

\* Mutant of Maxima: SELECT max(value), as export has it: the greatest text.
MaximaText(vs) == {v \in vs : \A w \in vs : ~TextGreater(w, v)}

\* The greatest and the least value as _extremum_value finds them: rows come in
\* no stated order, and of "1.1", "1", "1.0" in this order the last is kept.
Maxima(vs) == {v \in vs : \E w \in vs : Extends(v, w) /\ \A u \in vs : ~Smaller(w, u)}
Minima(vs) == {v \in vs : \A w \in vs : ~Smaller(w, v)}

MaxValue(rows) == IF rows = {} THEN {NoValue} ELSE Maxima(Values(rows))
FindValue(rows, k, history) ==
  LET values == Values(Of(rows, k)) IN
  IF values = {} THEN {NoValue} ELSE IF history THEN Minima(values) ELSE Maxima(values)

\* Mutant of GetValue: the value of the checksum is increased, not the maximum.
GetValueOwn(rows, k, history) ==
  IF rows = {} THEN {<<0>>}
  ELSE UNION {{IF v = NoValue THEN Increase(m)
               ELSE IF ~history /\ TextGreater(m, v) THEN Increase(v) ELSE v
               : v \in FindValue(rows, k, history)} : m \in MaxValue(rows)}

\* _get_value, for any order of the rows
GetValue(rows, k, history) ==
  IF rows = {} THEN {<<0>>}
  ELSE UNION {{IF v = NoValue \/ (~history /\ TextGreater(m, v)) THEN Increase(m) ELSE v
               : v \in FindValue(rows, k, history)} : m \in MaxValue(rows)}

\* "<base>.y", greater than all there are
NewSubvalue(rows, base) ==
  LET subvalues == {v \in Values(rows) : v # base /\ Extends(v, base)} IN
  IF subvalues = {} THEN {Append(base, 0)} ELSE {Increase(v) : v \in Maxima(subvalues)}

-----------------------------------------------------------------------------
(* Requests.  Lookups and exports change nothing and have no action.       *)

Ready(c) == conn[c] = Idle
Waiting(c, question) == conn[c].pc = question /\ conn[c].answered
Within(v) == \A i \in DOMAIN v : v[i] <= scenario.limit

\* A row is stored once.
StoreValue(k, v) == Within(v) /\ table' = table \cup {<<k, v>>}
Tell(v, history) == last' = IF history THEN last ELSE v
Finish(c) ==
  /\ conn' = [conn EXCEPT ![c] = Idle] /\ before' = [before EXCEPT ![c] = {}]
  /\ UNCHANGED <<upstream, scenario>>
Answer(c, k, v, history) == Finish(c) /\ StoreValue(k, v) /\ Tell(v, history)
AnswerLocally(c, k, history) ==
  \E v \in GetValue(table, k, history) : Answer(c, k, v, history)

\* The next question is on its way to upstream.
Ask(c, request) ==
  /\ conn' = [conn EXCEPT ![c] = [request EXCEPT !.answered = FALSE, !.answer = NoValue]]
  /\ UNCHANGED <<table, upstream, scenario, last>>

\* Upstream says what its table holds now.  Of the answer to test-package only
\* whether there is a number counts.
Replies(request) ==
  IF request.pc \in {"test", "pr"} THEN FindValue(upstream, request.checksum, FALSE)
  ELSE MaxValue(upstream)
UpstreamAnswers(c) ==
  /\ ~Ready(c) /\ ~conn[c].answered
  /\ \E v \in Replies(conn[c]) :
       conn' = [conn EXCEPT ![c] = [conn[c] EXCEPT !.answered = TRUE, !.answer = v]]
  /\ UNCHANGED <<table, upstream, scenario, last, before>>

GetPr(c, k, history) ==
  /\ Ready(c) /\ ~scenario.has_upstream /\ AnswerLocally(c, k, history)

\* With an upstream server the request begins with a question to it; value is
\* what the table says before.
AskMax(c, k, history) ==
  /\ Ready(c) /\ scenario.has_upstream /\ before' = [before EXCEPT ![c] = table]
  /\ \E v \in FindValue(table, k, history) :
       Ask(c, [Idle EXCEPT !.pc = "max", !.checksum = k, !.history = history, !.value = v])

\* upstream_max has come.  A checksum unknown here: is the package known there?
MaxForUnknown(c) ==
  /\ Waiting(c, "max") /\ conn[c].value = NoValue
  /\ Ask(c, [conn[c] EXCEPT !.pc = "package"]) /\ UNCHANGED before

MaxForHistory(c) ==
  /\ Waiting(c, "max") /\ conn[c].value # NoValue /\ conn[c].history
  /\ AnswerLocally(c, conn[c].checksum, TRUE)

\* "No history": at least the maximum of the table, then that of upstream.
Raised(v) == {IF Smaller(v, m) THEN Increase(m) ELSE v : m \in MaxValue(table)}

\* Mutant of BelowUpstream: None is taken for a maximum that is not reached.
BelowUpstreamUnknown(v, m) == m = NoValue \/ Smaller(v, m)

BelowUpstream(v, m) == m # NoValue /\ Smaller(v, m)

MaxForKnown(c) ==
  LET request == conn[c]
      m == conn[c].answer IN
  /\ Waiting(c, "max") /\ request.value # NoValue /\ ~request.history
  /\ \E v \in Raised(request.value) :
       \/ /\ BelowUpstream(v, m) /\ Within(v) /\ UNCHANGED before
          /\ Ask(c, [request EXCEPT !.pc = "test", !.value = v, !.upstream_max = m])
       \/ m # NoValue /\ ~BelowUpstream(v, m) /\ Answer(c, request.checksum, v, FALSE)

\* revision_smaller(value, None) raises: the connection is closed.
MaxOfNothing(c) ==
  /\ Waiting(c, "max") /\ conn[c].answer = NoValue
  /\ conn[c].value # NoValue /\ ~conn[c].history /\ Finish(c) /\ UNCHANGED <<table, last>>

\* The first maximum is taken when upstream knows the checksum, whoever has it.
TestAnswer(c) ==
  LET m == conn[c].upstream_max IN
  /\ Waiting(c, "test")
  /\ Answer(c, conn[c].checksum, IF conn[c].answer = NoValue THEN Append(m, 0) ELSE m, FALSE)

PackageAnswer(c) ==
  /\ Waiting(c, "package")
  /\ \/ conn[c].answer = NoValue /\ AnswerLocally(c, conn[c].checksum, conn[c].history)
     \/ conn[c].answer # NoValue /\ Ask(c, [conn[c] EXCEPT !.pc = "pr"]) /\ UNCHANGED before

PrAnswer(c) ==
  LET v == conn[c].answer IN
  /\ Waiting(c, "pr")
  /\ \/ v # NoValue /\ Answer(c, conn[c].checksum, v, conn[c].history)
     \/ v = NoValue /\ Ask(c, [conn[c] EXCEPT !.pc = "newmax"]) /\ UNCHANGED before

\* upstream_max may be old by now: others may have had an answer since.
NewmaxAnswer(c) ==
  /\ Waiting(c, "newmax")
  /\ \E v \in NewSubvalue(table, conn[c].answer) :
       Answer(c, conn[c].checksum, v, conn[c].history)

\* Administrators import whatever they have; no number is refused.
ImportOne(row) ==
  StoreValue(row[1], row[2]) /\ UNCHANGED <<upstream, conn, scenario, last, before>>

-----------------------------------------------------------------------------
(* What happens elsewhere.                                                 *)

\* Upstream cannot be reached, or the server is restarted: what waits is lost.
UpstreamFails(c) == ~Ready(c) /\ Finish(c) /\ UNCHANGED <<table, last>>

\* Another client of the upstream server, which runs the same code.
UpstreamServes(k, history) ==
  /\ scenario.has_upstream
  /\ \E v \in GetValue(upstream, k, history) :
       Within(v) /\ upstream' = upstream \cup {<<k, v>>}
  /\ UNCHANGED <<table, conn, scenario, last, before>>

Import == \E row \in scenario.imports : ImportOne(row)
Request == \E c \in scenario.conns, k \in scenario.checksums, history \in scenario.histories :
             GetPr(c, k, history) \/ AskMax(c, k, history)
MaxAnswer == \E c \in scenario.conns :
               MaxForUnknown(c) \/ MaxForHistory(c) \/ MaxForKnown(c) \/ MaxOfNothing(c)
LaterAnswer == \E c \in scenario.conns :
                 TestAnswer(c) \/ PackageAnswer(c) \/ PrAnswer(c) \/ NewmaxAnswer(c)
Elsewhere ==
  \/ \E c \in scenario.conns : UpstreamAnswers(c) \/ UpstreamFails(c)
  \/ \E k \in scenario.checksums, history \in scenario.histories : UpstreamServes(k, history)

Next == Import \/ Request \/ MaxAnswer \/ LaterAnswer \/ Elsewhere
Spec == Init /\ [][Next]_vars

-----------------------------------------------------------------------------
(* Properties.                                                             *)

\* Where numbers are kept apart: without an upstream server, and without a table
\* of one that had one (which of "1" and "1.0" is the maximum depends on the order
\* of the rows), or in "history" mode when the package was known upstream first.
\* Elsewhere the code itself takes a number of another checksum (serv.py:115).
Apart ==
  \/ ~scenario.has_upstream /\ Values(scenario.imports) \subseteq Plain
  \/ scenario.histories = {TRUE} /\ scenario.imports = {} /\ scenario.upstream # {}

\* Packages built from different inputs never share a revision, also when one
\* was numbered here and the other upstream, and however old the answers are that
\* this server waited for.  What was imported is taken as it is (db.py:195-197).
NoSharing ==
  Apart => \A r, q \in (table \cup upstream) \ scenario.imports : r[2] = q[2] => r[1] = q[1]

\* db.py:23, "a new higher value": a number the server makes is above all that were
\* in the table when its request came, and so differs from them: who asks after
\* another was answered gets the higher number.  Of two requests that wait for
\* upstream at the same time the later answer may be the lower one (serv.py:154).
\* One from upstream or from an import may be below.
Served(c) == conn[c] # Idle /\ conn'[c] = Idle
NewIsHigher ==
  [][Apart => \A r \in table' \ (table \cup upstream \cup scenario.imports), q \in table :
                (\A c \in Conns : Served(c) => q \in before[c]) => Above(r[2], q[2])]_vars

\* db.py:20, of the "no history" mode: "This means the PR value returned can NOT
\* be decremented."
NeverDecreases ==
  [][(last # NoValue /\ last' # last) => ~Smaller(last', last)]_vars
=============================================================================
