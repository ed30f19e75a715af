--------------------------- MODULE PRServer_proofs ---------------------------
(* Proofs about the PR server, for any number of connections, checksums and   *)
(* numbers, and whatever the upstream server gives out meanwhile.             *)
EXTENDS PRServer, SequenceTheorems, TLAPS

-----------------------------------------------------------------------------
(* Revisions with one and with two parts. *)

Sub == {v \in Revisions : Len(v) = 2}

LEMMA PlainParts ==
  ASSUME NEW v \in Plain
  PROVE  v \in Seq(Nat) /\ Len(v) = 1 /\ DOMAIN v = {1} /\ v[1] \in Nat
<1>1. v \in Seq(Nat) /\ Len(v) = 1 BY DEF Plain, Revisions
<1>2. DOMAIN v = 1..1 BY <1>1
<1>3. v[1] \in Nat BY <1>1
<1>4. 1..1 = {1} OBVIOUS
<1> QED BY <1>1, <1>2, <1>3, <1>4

LEMMA SubParts ==
  ASSUME NEW v \in Sub
  PROVE  v \in Seq(Nat) /\ Len(v) = 2 /\ DOMAIN v = {1, 2} /\ v[1] \in Nat /\ v[2] \in Nat
<1>1. v \in Seq(Nat) /\ Len(v) = 2 BY DEF Sub, Revisions
<1>2. DOMAIN v = 1..2 BY <1>1
<1>3. 1 \in 1..2 /\ 2 \in 1..2 /\ \A i \in 1..2 : i = 1 \/ i = 2 OBVIOUS
<1>4. v[1] \in Nat /\ v[2] \in Nat BY <1>1, <1>3, ElementOfSeq
<1>5. 1..2 = {1, 2} BY <1>3
<1> QED BY <1>1, <1>2, <1>4, <1>5

LEMMA PartsBefore == (1..(1 - 1)) = {} /\ (1..(2 - 1)) = {1}
OBVIOUS

\* A plain number is compared by its only part.
LEMMA PlainNumbers ==
  ASSUME NEW v \in Plain, NEW w \in Plain
  PROVE  /\ Smaller(v, w) <=> v[1] < w[1]
         /\ Extends(v, w) <=> v[1] = w[1]
         /\ v = w <=> v[1] = w[1]
<1>1. DOMAIN v \cap DOMAIN w = {1} BY PlainParts
<1>2. Smaller(v, w) <=> v[1] < w[1] BY <1>1, PartsBefore DEF Smaller
<1>3. Extends(v, w) <=> v[1] = w[1] BY PlainParts DEF Extends
<1>4. v = w <=> v[1] = w[1] BY PlainParts, SeqEqual
<1> QED BY <1>2, <1>3, <1>4

\* "3.4" and "3.7": the second part decides when the first does not.
LEMMA SubNumbers ==
  ASSUME NEW v \in Sub, NEW w \in Sub
  PROVE  /\ Smaller(v, w) <=> v[1] < w[1] \/ (v[1] = w[1] /\ v[2] < w[2])
         /\ Extends(v, w) <=> v[1] = w[1] /\ v[2] = w[2]
<1>1. DOMAIN v \cap DOMAIN w = {1, 2} BY SubParts
<1>2. Smaller(v, w) <=> v[1] < w[1] \/ (v[1] = w[1] /\ v[2] < w[2])
  BY <1>1, PartsBefore DEF Smaller
<1>3. Extends(v, w) <=> v[1] = w[1] /\ v[2] = w[2] BY SubParts DEF Extends
<1> QED BY <1>2, <1>3

\* "3.4" and "3": neither is smaller, and the longer extends the other.
LEMMA SubAndPlain ==
  ASSUME NEW v \in Sub, NEW w \in Plain
  PROVE  /\ Smaller(v, w) <=> v[1] < w[1]
         /\ Smaller(w, v) <=> w[1] < v[1]
         /\ Extends(v, w) <=> v[1] = w[1]
         /\ ~Extends(w, v) /\ v # w
<1>1. DOMAIN v \cap DOMAIN w = {1} /\ DOMAIN w \cap DOMAIN v = {1} BY SubParts, PlainParts
<1>2. Smaller(v, w) <=> v[1] < w[1] BY <1>1, PartsBefore DEF Smaller
<1>3. Smaller(w, v) <=> w[1] < v[1] BY <1>1, PartsBefore DEF Smaller
<1>4. Extends(v, w) <=> v[1] = w[1] BY SubParts, PlainParts DEF Extends
<1>5. Len(v) = 2 /\ Len(w) = 1 BY SubParts, PlainParts
<1>6. ~Extends(w, v) /\ v # w BY <1>5 DEF Extends
<1> QED BY <1>2, <1>3, <1>4, <1>6

LEMMA IncreasedLast ==
  ASSUME NEW v \in Seq(Nat), NEW n \in 1..Len(v), n = Len(v)
  PROVE  /\ Increase(v) \in Seq(Nat) /\ Len(Increase(v)) = n
         /\ Increase(v)[n] = v[n] + 1
         /\ \A j \in 1..n : j # n => Increase(v)[j] = v[j]
<1>1. v[Len(v)] + 1 \in Nat BY ElementOfSeq
<1> QED BY <1>1, ExceptSeq DEF Increase

LEMMA IncreasedOne ==
  ASSUME NEW v \in Seq(Nat), Len(v) = 1
  PROVE  Increase(v) \in Seq(Nat) /\ Len(Increase(v)) = 1 /\ Increase(v)[1] = v[1] + 1
<1>1. 1 \in 1..Len(v) OBVIOUS
<1> QED BY <1>1, IncreasedLast

LEMMA IncreasedTwo ==
  ASSUME NEW v \in Seq(Nat), Len(v) = 2
  PROVE  /\ Increase(v) \in Seq(Nat) /\ Len(Increase(v)) = 2
         /\ Increase(v)[1] = v[1] /\ Increase(v)[2] = v[2] + 1
<1>1. 2 \in 1..Len(v) /\ 1 \in 1..2 /\ 1 # 2 OBVIOUS
<1> QED BY <1>1, IncreasedLast

LEMMA AppendedOne ==
  ASSUME NEW v \in Seq(Nat), Len(v) = 1
  PROVE  Append(v, 0) \in Seq(Nat) /\ Len(Append(v, 0)) = 2 /\ Append(v, 0)[1] = v[1]
<1>1. 1 \in 1..Len(v) OBVIOUS
<1>2. \A i \in 1..Len(v) : Append(v, 0)[i] = v[i] OBVIOUS
<1>3. Append(v, 0) \in Seq(Nat) OBVIOUS
<1>4. Len(Append(v, 0)) = 2 OBVIOUS
<1>5. Append(v, 0)[1] = v[1] BY <1>1, <1>2
<1> QED BY <1>3, <1>4, <1>5

LEMMA PlainIncrease ==
  ASSUME NEW v \in Plain
  PROVE  Increase(v) \in Plain /\ Increase(v)[1] = v[1] + 1
<1>1. v \in Seq(Nat) /\ Len(v) = 1 BY PlainParts
<1>2. Increase(v) \in Seq(Nat) /\ Len(Increase(v)) = 1 /\ Increase(v)[1] = v[1] + 1
  BY <1>1, IncreasedOne
<1> QED BY <1>2 DEF Plain, Revisions

LEMMA SubIncrease ==
  ASSUME NEW v \in Sub
  PROVE  Increase(v) \in Sub /\ Increase(v)[1] = v[1] /\ Increase(v)[2] = v[2] + 1
<1>1. v \in Seq(Nat) /\ Len(v) = 2 BY SubParts
<1>2. /\ Increase(v) \in Seq(Nat) /\ Len(Increase(v)) = 2
      /\ Increase(v)[1] = v[1] /\ Increase(v)[2] = v[2] + 1
  BY <1>1, IncreasedTwo
<1> QED BY <1>2 DEF Sub, Revisions

LEMMA FirstSubvalue ==
  ASSUME NEW v \in Plain
  PROVE  Append(v, 0) \in Sub /\ Append(v, 0)[1] = v[1]
<1>1. v \in Seq(Nat) /\ Len(v) = 1 BY PlainParts
<1>2. Append(v, 0) \in Seq(Nat) /\ Len(Append(v, 0)) = 2 /\ Append(v, 0)[1] = v[1]
  BY <1>1, AppendedOne
<1> QED BY <1>2 DEF Sub, Revisions

LEMMA TwoKinds == Revisions = Plain \cup Sub /\ Plain \cap Sub = {}
<1>1. \A n \in 1..2 : n = 1 \/ n = 2 OBVIOUS
<1>2. \A v \in Revisions : Len(v) = 1 \/ Len(v) = 2 BY <1>1 DEF Revisions
<1>3. Revisions = Plain \cup Sub BY <1>2 DEF Plain, Sub
<1>4. 1 # 2 OBVIOUS
<1>5. Plain \cap Sub = {} BY <1>4 DEF Plain, Sub
<1> QED BY <1>3, <1>5

LEMMA Zero == <<0>> \in Plain /\ <<0>> \in Revisions
<1>1. <<0>> \in Seq(Nat) /\ Len(<<0>>) = 1 /\ 1 \in 1..2 OBVIOUS
<1> QED BY <1>1 DEF Revisions, Plain

LEMMA Increases ==
  ASSUME NEW v \in Revisions
  PROVE  Increase(v) \in Revisions
BY TwoKinds, PlainIncrease, SubIncrease

-----------------------------------------------------------------------------
(* What the queries return. *)

LEMMA FoundIsStored ==
  ASSUME NEW rows \in SUBSET Rows, NEW k, NEW history, NEW v \in FindValue(rows, k, history)
  PROVE  \/ v = NoValue /\ Of(rows, k) = {}
         \/ v \in Revisions /\ v # NoValue /\ <<k, v>> \in rows /\ Of(rows, k) # {}
<1>1. CASE Values(Of(rows, k)) = {}
  BY <1>1 DEF FindValue, Values
<1>2. CASE Values(Of(rows, k)) # {}
  <2>1. v \in Values(Of(rows, k)) BY <1>2 DEF FindValue, Minima, Maxima
  <2>2. PICK r \in Of(rows, k) : v = r[2] BY <2>1 DEF Values
  <2>3. r \in Rows /\ r \in rows /\ r[1] = k BY <2>2 DEF Of
  <2>4. r = <<k, v>> /\ v \in Revisions BY <2>2, <2>3 DEF Rows
  <2> QED BY <2>2, <2>3, <2>4, PRServerAssumption
<1> QED BY <1>1, <1>2

LEMMA MaxIsMaximum ==
  ASSUME NEW rows \in SUBSET Rows, rows # {}, NEW m \in MaxValue(rows)
  PROVE  m \in Maxima(Values(rows)) /\ m \in Values(rows) /\ m \in Revisions /\ m # NoValue
<1>1. m \in Maxima(Values(rows)) /\ m \in Values(rows) BY DEF MaxValue, Maxima
<1>2. m \in Revisions BY <1>1 DEF Values, Rows
<1> QED BY <1>1, <1>2, PRServerAssumption

\* Among plain numbers the maximum is the greatest.
LEMMA PlainMaximum ==
  ASSUME NEW vs \in SUBSET Plain, NEW m \in Maxima(vs)
  PROVE  m \in vs /\ \A u \in vs : u[1] <= m[1]
<1>1. PICK w \in vs : m \in vs /\ Extends(m, w) /\ \A u \in vs : ~Smaller(w, u) BY DEF Maxima
<1>2. m[1] = w[1] BY <1>1, PlainNumbers
<1>3. ASSUME NEW u \in vs PROVE u[1] <= m[1]
  BY <1>1, <1>2, PlainNumbers, PlainParts
<1> QED BY <1>1, <1>3

LEMMA GetValueTypes ==
  ASSUME NEW rows \in SUBSET Rows, NEW k, NEW history, NEW v \in GetValue(rows, k, history)
  PROVE  v \in Revisions
<1>1. CASE rows = {} BY <1>1, Zero DEF GetValue
<1>2. CASE rows # {}
  <2>1. PICK m \in MaxValue(rows), u \in FindValue(rows, k, history) :
          v = IF u = NoValue \/ (~history /\ TextGreater(m, u)) THEN Increase(m) ELSE u
    BY <1>2 DEF GetValue
  <2>2. Increase(m) \in Revisions BY <1>2, MaxIsMaximum, Increases
  <2>3. u # NoValue => u \in Revisions BY FoundIsStored
  <2> QED BY <2>1, <2>2, <2>3
<1> QED BY <1>1, <1>2

\* In a table of plain numbers, a checksum keeps its number or gets one above all.
LEMMA GetValuePlain ==
  ASSUME NEW rows \in SUBSET (Checksums \X Plain), NEW k, NEW history,
         NEW v \in GetValue(rows, k, history)
  PROVE  /\ v \in Plain
         /\ <<k, v>> \in rows \/ \A r \in rows : r[2][1] < v[1]
<1>1. rows \subseteq Rows BY DEF Rows, Plain
<1>2. CASE rows = {} BY <1>2, Zero DEF GetValue
<1>3. CASE rows # {}
  <2>1. PICK m \in MaxValue(rows), u \in FindValue(rows, k, history) :
          v = IF u = NoValue \/ (~history /\ TextGreater(m, u)) THEN Increase(m) ELSE u
    BY <1>3 DEF GetValue
  <2>2. CASE v = u /\ u # NoValue
    <3>1. <<k, v>> \in rows BY <1>1, <2>2, FoundIsStored
    <3> QED BY <3>1
  <2>3. CASE v = Increase(m)
    <3>1. Values(rows) \subseteq Plain BY DEF Values
    <3>2. m \in Plain /\ \A w \in Values(rows) : w[1] <= m[1]
      BY <1>1, <1>3, <3>1, MaxIsMaximum, PlainMaximum
    <3>3. v \in Plain /\ v[1] = m[1] + 1 BY <2>3, <3>2, PlainIncrease
    <3>4. ASSUME NEW r \in rows PROVE r[2][1] < v[1]
      <4>1. r[2] \in Values(rows) BY DEF Values
      <4>2. r[2][1] \in Nat /\ m[1] \in Nat BY <3>1, <3>2, <4>1, PlainParts
      <4> QED BY <3>2, <3>3, <4>1, <4>2
    <3> QED BY <3>3, <3>4
  <2> QED BY <2>1, <2>2, <2>3
<1> QED BY <1>2, <1>3

\* A subvalue of base is above all there are.
LEMMA NewSubvalueIsNew ==
  ASSUME NEW rows \in SUBSET Rows, NEW base \in Plain, NEW v \in NewSubvalue(rows, base)
  PROVE  /\ v \in Sub /\ v[1] = base[1]
         /\ \A w \in Values(rows) \cap Sub : w[1] = base[1] => w[2] < v[2]
<1> DEFINE subvalues == {w \in Values(rows) : w # base /\ Extends(w, base)}
<1>1. Values(rows) \subseteq Revisions BY DEF Values, Rows
<1>2. subvalues \subseteq Sub
  <2> SUFFICES ASSUME NEW w \in subvalues PROVE w \in Sub
    OBVIOUS
  <2>1. w \in Revisions /\ w # base /\ Extends(w, base) BY <1>1
  <2>2. w \notin Plain BY <2>1, PlainNumbers
  <2> QED BY <2>1, <2>2, TwoKinds
<1>3. \A w \in Values(rows) \cap Sub : w[1] = base[1] => w \in subvalues
  BY SubAndPlain
<1>4. CASE subvalues = {}
  <2>1. v = Append(base, 0) BY <1>4 DEF NewSubvalue
  <2> QED BY <1>3, <1>4, <2>1, FirstSubvalue
<1>5. CASE subvalues # {}
  <2>1. PICK m \in Maxima(subvalues) : v = Increase(m) BY <1>5 DEF NewSubvalue
  <2>2. PICK w \in subvalues :
          m \in subvalues /\ Extends(m, w) /\ \A u \in subvalues : ~Smaller(w, u)
    BY <2>1 DEF Maxima
  <2>3. m \in Sub /\ w \in Sub /\ m[1] = w[1] /\ m[2] = w[2] BY <1>2, <2>2, SubNumbers
  <2>4. m[1] = base[1] BY <2>2, <2>3, SubAndPlain
  <2>5. v \in Sub /\ v[1] = base[1] /\ v[2] = m[2] + 1 BY <2>1, <2>3, <2>4, SubIncrease
  <2>6. ASSUME NEW u \in Values(rows) \cap Sub, u[1] = base[1] PROVE u[2] < v[2]
    <3>1. ~Smaller(w, u) /\ u[1] = w[1] BY <1>3, <2>2, <2>3, <2>4, <2>6
    <3>2. ~(w[2] < u[2]) BY <2>3, <3>1, SubNumbers
    <3>3. u[2] \in Nat /\ w[2] \in Nat BY <2>3, SubParts
    <3> QED BY <2>3, <2>5, <3>2, <3>3
  <2> QED BY <2>5, <2>6
<1> QED BY <1>4, <1>5

-----------------------------------------------------------------------------
(* The inductive invariant. *)

StateTypes ==
  /\ table \subseteq Rows /\ upstream \subseteq Checksums \X Plain
  /\ scenario \in Scenarios /\ last \in Revisions \cup {NoValue}
  /\ conn \in [Conns -> ConnStates] /\ before \in [Conns -> SUBSET table]

\* A request that waits has what it needs, and the value it knows was stored.
RequestOK(request) ==
  /\ request.pc = "idle" => request = Idle
  /\ request.pc # "idle" =>
       /\ scenario.has_upstream /\ request.checksum # NoValue
       /\ request.history \in scenario.histories
  /\ request.pc = "test" =>
       request.value # NoValue /\ request.upstream_max # NoValue /\ ~request.history
  /\ request.pc \in {"pr", "newmax"} => upstream # {}
  /\ request.value # NoValue => Of(table, request.checksum) # {}

\* However old it is, what upstream answered is in its table: it is a number of the
\* checksum when that was the question.  It only says "none" when there was none.
AnswerOK(request) ==
  request.answered =>
    /\ request.answer # NoValue =>
         \E u \in upstream :
           u[2] = request.answer /\ (request.pc \in {"test", "pr"} => u[1] = request.checksum)
    /\ request.pc = "newmax" => request.answer # NoValue
    /\ Apart /\ request.pc = "package" => request.answer # NoValue

\* A maximum may be old, but not older than what the request found in the table.
MaxOK(request, rows) ==
  Apart /\ request.pc = "newmax" /\ request.answered =>
    \A q \in rows : q[2][1] <= request.answer[1]

ConnInv ==
  \A c \in Conns : RequestOK(conn[c]) /\ AnswerOK(conn[c]) /\ MaxOK(conn[c], before[c])

UpstreamInv ==
  scenario.upstream \subseteq upstream /\ (~scenario.has_upstream => upstream = {})

\* A number made here is plain when there is no upstream server; otherwise it is
\* upstream's for the same checksum, or a subvalue of one upstream has given out.
Numbered(r) ==
  IF scenario.has_upstream
  THEN \/ r \in upstream
       \/ r[2] \in Sub /\ \E u \in upstream : u[2][1] = r[2][1]
  ELSE r[2] \in Plain
Unique(rows) == \A r, q \in rows : r[2] = q[2] => r[1] = q[1]
TableInv ==
  Apart => (\A r \in table : Numbered(r)) /\ Unique((table \cup upstream) \ scenario.imports)

IInv == StateTypes /\ ConnInv /\ UpstreamInv /\ TableInv

LEMMA Invariants == ASSUME IInv PROVE TypeOK /\ NoSharing
<1>1. TypeOK BY DEF IInv, StateTypes, ConnInv, RequestOK, AnswerOK, TypeOK
<1>2. NoSharing BY DEF IInv, TableInv, Unique, NoSharing
<1> QED BY <1>1, <1>2

LEMMA ScenarioTypes ==
  ASSUME scenario \in Scenarios
  PROVE  /\ scenario.conns \subseteq Conns /\ scenario.checksums \subseteq Checksums
         /\ scenario.histories \subseteq BOOLEAN /\ scenario.has_upstream \in BOOLEAN
         /\ scenario.upstream \subseteq Checksums \X Plain /\ scenario.imports \subseteq Rows
         /\ ~scenario.has_upstream => scenario.upstream = {}
         /\ Unique(scenario.upstream)
BY PRServerAssumption DEF Unique

LEMMA IdleState ==
  /\ Idle \in ConnStates /\ Idle.pc = "idle" /\ Idle.value = NoValue
  /\ Idle.answered = FALSE /\ Idle.answer = NoValue
BY DEF Idle, ConnStates

LEMMA IdleOK == RequestOK(Idle) /\ AnswerOK(Idle) /\ \A rows : MaxOK(Idle, rows)
BY IdleState DEF RequestOK, AnswerOK, MaxOK

LEMMA Start == Init => IInv
<1> SUFFICES ASSUME Init PROVE IInv
  OBVIOUS
<1> USE DEF Init
<1>1. StateTypes BY ScenarioTypes, IdleState DEF StateTypes
<1>2. ConnInv BY IdleOK DEF ConnInv
<1>3. UpstreamInv BY ScenarioTypes DEF UpstreamInv
<1>4. TableInv BY ScenarioTypes DEF TableInv, Unique
<1> QED BY <1>1, <1>2, <1>3, <1>4 DEF IInv

-----------------------------------------------------------------------------
(* The two kinds of steps of a request: it waits, or its answer is stored. *)

LEMMA WaitStep ==
  ASSUME IInv, NEW c \in Conns, NEW request \in ConnStates,
         RequestOK(request), AnswerOK(request), MaxOK(request, before'[c]),
         conn' = [conn EXCEPT ![c] = request], UNCHANGED <<table, upstream, scenario, last>>,
         NEW rows \in SUBSET table, before' = [before EXCEPT ![c] = rows]
  PROVE  IInv'
<1>1. StateTypes' BY DEF IInv, StateTypes
<1>2. ConnInv'
  <2> SUFFICES ASSUME NEW d \in Conns
               PROVE  (RequestOK(conn[d]) /\ AnswerOK(conn[d]) /\ MaxOK(conn[d], before[d]))'
    BY DEF ConnInv
  <2>1. /\ conn'[d] = IF d = c THEN request ELSE conn[d]
        /\ d # c => before'[d] = before[d]
    BY DEF IInv, StateTypes
  <2>2. RequestOK(conn'[d]) /\ AnswerOK(conn'[d]) /\ MaxOK(conn'[d], before'[d])
    BY <2>1 DEF IInv, ConnInv
  <2>3. RequestOK(conn[d])' BY <2>2 DEF RequestOK, Of
  <2>4. AnswerOK(conn[d])' BY <2>2 DEF AnswerOK, Apart
  <2>5. MaxOK(conn[d], before[d])' BY <2>2 DEF MaxOK, Apart
  <2> QED BY <2>3, <2>4, <2>5
<1>3. UpstreamInv' BY DEF IInv, UpstreamInv
<1>4. TableInv' BY DEF IInv, TableInv, Apart, Numbered, Unique
<1> QED BY <1>1, <1>2, <1>3, <1>4 DEF IInv

\* What is stored: a number of the right kind that nobody else has, and above all
\* that was seen unless it was known before.
Fits(r, seen) ==
  /\ r \in Rows
  /\ Apart => /\ Numbered(r)
              /\ \/ r \in scenario.imports
                 \/ \A q \in (table \cup upstream) \ scenario.imports : q[2] = r[2] => q[1] = r[1]
              /\ \/ r \in table \cup upstream \cup scenario.imports
                 \/ \A q \in seen : Above(r[2], q[2])
Higher ==
  Apart => \A r \in table' \ (table \cup upstream \cup scenario.imports), q \in table :
             (\A c \in Conns : Served(c) => q \in before[c]) => Above(r[2], q[2])

\* A row comes into the table, and connections at most become idle.
LEMMA StoreStep ==
  ASSUME IInv, NEW r, NEW seen, Fits(r, seen), table' = table \cup {r},
         UNCHANGED <<upstream, scenario>>, last' \in Revisions \cup {NoValue},
         \/ UNCHANGED <<conn, before>>
         \/ \E c \in Conns :
              conn' = [conn EXCEPT ![c] = Idle] /\ before' = [before EXCEPT ![c] = {}]
  PROVE  IInv'
<1>1. StateTypes' BY IdleState DEF IInv, StateTypes, Fits
<1>2. ConnInv'
  <2> SUFFICES ASSUME NEW d \in Conns
               PROVE  (RequestOK(conn[d]) /\ AnswerOK(conn[d]) /\ MaxOK(conn[d], before[d]))'
    BY DEF ConnInv
  <2>1. (conn'[d] = conn[d] /\ before'[d] = before[d]) \/ conn'[d] = Idle
    BY DEF IInv, StateTypes
  <2>2. RequestOK(conn'[d]) /\ AnswerOK(conn'[d]) /\ MaxOK(conn'[d], before'[d])
    BY <2>1, IdleOK DEF IInv, ConnInv
  <2>3. RequestOK(conn[d])' BY <2>2 DEF RequestOK, Of
  <2>4. AnswerOK(conn[d])' BY <2>2 DEF AnswerOK, Apart
  <2>5. MaxOK(conn[d], before[d])' BY <2>2 DEF MaxOK, Apart
  <2> QED BY <2>3, <2>4, <2>5
<1>3. UpstreamInv' BY DEF IInv, UpstreamInv
<1>4. TableInv'
  <2> SUFFICES ASSUME Apart
               PROVE  /\ \A q \in table' : Numbered(q)'
                      /\ Unique((table' \cup upstream) \ scenario.imports)
    BY DEF TableInv, Apart
  <2>1. \A q \in table' : Numbered(q) BY DEF IInv, TableInv, Fits
  <2>2. \A q \in table' : Numbered(q)' BY <2>1 DEF Numbered
  <2>3. Unique((table' \cup upstream) \ scenario.imports) BY DEF IInv, TableInv, Fits, Unique
  <2> QED BY <2>2, <2>3
<1> QED BY <1>1, <1>2, <1>3, <1>4 DEF IInv

\* A request that was not answered at once has seen what was there when it came.
LEMMA AnswerStep ==
  ASSUME IInv, NEW c \in Conns, NEW k, NEW v, NEW history, NEW seen, Fits(<<k, v>>, seen),
         Answer(c, k, v, history),
         seen = table \/ (conn[c] # Idle /\ seen = before[c])
  PROVE  IInv' /\ Higher
<1>1. v \in Revisions BY DEF Fits, Rows
<1>2. last' \in Revisions \cup {NoValue} BY <1>1 DEF Answer, Tell, IInv, StateTypes
<1>3. /\ table' = table \cup {<<k, v>>} /\ UNCHANGED <<upstream, scenario>>
      /\ conn' = [conn EXCEPT ![c] = Idle] /\ before' = [before EXCEPT ![c] = {}]
  BY DEF Answer, Finish, StoreValue
<1>4. IInv' BY <1>2, <1>3, StoreStep
<1>5. ASSUME Apart, NEW r \in table' \ (table \cup upstream \cup scenario.imports),
             NEW q \in table, \A d \in Conns : Served(d) => q \in before[d]
      PROVE  Above(r[2], q[2])
  <2>1. r = <<k, v>> BY <1>3
  <2>2. conn'[c] = Idle BY <1>3 DEF IInv, StateTypes
  <2>3. q \in seen BY <1>5, <2>2 DEF Served
  <2> QED BY <1>5, <2>1, <2>3 DEF Fits
<1> QED BY <1>4, <1>5 DEF Higher

-----------------------------------------------------------------------------
(* The steps. *)

\* What was known stays with its checksum.
LEMMA KnownFits ==
  ASSUME IInv, NEW k \in Checksums, NEW v \in Revisions, NEW seen,
         <<k, v>> \in table \/ (scenario.has_upstream /\ <<k, v>> \in upstream)
  PROVE  Fits(<<k, v>>, seen)
<1>1. <<k, v>> \in Rows BY DEF Rows
<1>2. Apart => Numbered(<<k, v>>) BY DEF IInv, TableInv, Numbered
<1> QED BY <1>1, <1>2 DEF IInv, TableInv, Fits, Unique

\* Without an upstream server: the number a checksum has, or one above all.
LEMMA LocalFits ==
  ASSUME IInv, NEW k \in Checksums, NEW history, NEW v \in GetValue(table, k, history),
         Apart => ~scenario.has_upstream
  PROVE  Fits(<<k, v>>, table)
<1>1. v \in Revisions BY GetValueTypes DEF IInv, StateTypes
<1>2. CASE Apart
  <2>1. upstream = {} /\ \A r \in table : r[2] \in Plain
    BY <1>2 DEF IInv, UpstreamInv, TableInv, Numbered
  <2>2. table \in SUBSET (Checksums \X Plain) BY <2>1 DEF IInv, StateTypes, Rows
  <2>3. v \in Plain /\ (<<k, v>> \in table \/ \A r \in table : r[2][1] < v[1])
    BY <2>2, GetValuePlain
  <2>4. CASE <<k, v>> \in table BY <1>1, <2>4, KnownFits
  <2>5. CASE \A r \in table : r[2][1] < v[1]
    <3>1. ASSUME NEW r \in table PROVE Above(v, r[2]) /\ r[2] # v
      BY <2>1, <2>3, <2>5, PlainNumbers, PlainParts DEF Above
    <3> QED BY <1>1, <1>2, <2>1, <2>3, <3>1 DEF Fits, Rows, Numbered
  <2> QED BY <2>3, <2>4, <2>5
<1>3. CASE ~Apart BY <1>1, <1>3 DEF Fits, Rows
<1> QED BY <1>2, <1>3

\* In "history" mode a checksum that was stored keeps a number it has.
LEMMA HistoryFits ==
  ASSUME IInv, NEW k \in Checksums, Of(table, k) # {}, NEW v \in GetValue(table, k, TRUE),
         NEW seen
  PROVE  Fits(<<k, v>>, seen)
<1>1. table # {} BY DEF Of
<1>2. PICK m \in MaxValue(table), u \in FindValue(table, k, TRUE) :
        v = IF u = NoValue THEN Increase(m) ELSE u
  BY <1>1 DEF GetValue
<1>3. u = v /\ v \in Revisions /\ <<k, v>> \in table
  BY <1>2, FoundIsStored DEF IInv, StateTypes
<1> QED BY <1>3, KnownFits

\* A subvalue of any number upstream has given out, however long ago, is new; it is
\* above the rows whose first part is not greater than that number.
LEMMA NewmaxFits ==
  ASSUME IInv, NEW k \in Checksums, scenario.has_upstream, NEW u \in upstream,
         NEW v \in NewSubvalue(table, u[2]), NEW seen \in SUBSET table,
         Apart => \A q \in seen : q[2][1] <= u[2][1]
  PROVE  Fits(<<k, v>>, seen)
<1> DEFINE m == u[2]
<1>1. table \in SUBSET Rows /\ m \in Plain BY DEF IInv, StateTypes
<1>2. /\ v \in Sub /\ v[1] = m[1]
      /\ \A w \in Values(table) \cap Sub : w[1] = m[1] => w[2] < v[2]
  BY <1>1, NewSubvalueIsNew
<1>3. <<k, v>> \in Rows BY <1>2, TwoKinds DEF Rows
<1>4. CASE Apart
  <2>1. Numbered(<<k, v>>) BY <1>2 DEF Numbered
  <2>2. ASSUME NEW q \in upstream PROVE q[2] \in Plain /\ q[2] # v
    BY <1>2, SubAndPlain DEF IInv, StateTypes
  <2>3. ASSUME NEW q \in table PROVE q[2] # v
    <3>1. q[2] \in Values(table) BY DEF Values
    <3>2. CASE q \in upstream BY <2>2, <3>2
    <3>3. CASE q[2] \in Sub
      <4>1. q[2] = v => q[2][2] < v[2] BY <1>2, <3>1, <3>3
      <4>2. v[2] \in Nat BY <1>2, SubParts
      <4> QED BY <4>1, <4>2
    <3> QED BY <1>4, <3>2, <3>3 DEF IInv, TableInv, Numbered
  <2>4. ASSUME NEW q \in seen PROVE Above(v, q[2])
    <3>1. q \in table /\ q[2] \in Values(table) /\ q[2][1] <= m[1] BY <1>4 DEF Values
    <3>2. CASE q[2] \in Plain
      <4>1. q[2][1] \in Nat /\ m[1] \in Nat BY <1>1, <3>2, PlainParts
      <4> QED BY <1>2, <3>1, <3>2, <4>1, SubAndPlain DEF Above
    <3>3. CASE q[2] \in Sub
      <4>1. q[2][1] = m[1] => q[2][2] < v[2] BY <1>2, <3>1, <3>3
      <4>2. q[2][1] \in Nat /\ m[1] \in Nat /\ q[2][2] \in Nat /\ v[2] \in Nat
        BY <1>1, <1>2, <3>3, SubParts, PlainParts
      <4> QED BY <1>2, <3>1, <3>3, <4>1, <4>2, SubNumbers DEF Above
    <3> QED BY <2>2, <3>1, <3>2, <3>3, <1>4 DEF IInv, TableInv, Numbered
  <2> QED BY <1>3, <1>4, <2>1, <2>2, <2>3, <2>4 DEF Fits
<1>5. CASE ~Apart BY <1>3, <1>5 DEF Fits
<1> QED BY <1>4, <1>5

\* What is known of a request that waits.
LEMMA RequestTypes ==
  ASSUME IInv, NEW c \in Conns, conn[c].pc # "idle"
  PROVE  /\ conn[c] \in ConnStates /\ RequestOK(conn[c]) /\ AnswerOK(conn[c])
         /\ MaxOK(conn[c], before[c]) /\ conn[c] # Idle /\ conn[c].checksum \in Checksums
         /\ conn[c].history \in BOOLEAN /\ conn[c].value \in Revisions \cup {NoValue}
         /\ conn[c].upstream_max \in Plain \cup {NoValue}
         /\ conn[c].answer \in Plain \cup {NoValue}
         /\ scenario.has_upstream /\ before[c] \in SUBSET table
         /\ Apart => conn[c].history = TRUE /\ upstream # {} /\ scenario.imports = {}
<1>1. /\ conn[c] \in ConnStates /\ RequestOK(conn[c]) /\ AnswerOK(conn[c])
      /\ MaxOK(conn[c], before[c]) /\ before[c] \in SUBSET table
  BY DEF IInv, StateTypes, ConnInv
<1>2. scenario.has_upstream /\ conn[c].history \in scenario.histories BY <1>1 DEF RequestOK
<1>3. Apart => conn[c].history = TRUE /\ upstream # {} /\ scenario.imports = {}
  BY <1>2 DEF IInv, UpstreamInv, Apart
<1>4. conn[c] # Idle BY IdleState
<1> QED BY <1>1, <1>2, <1>3, <1>4 DEF ConnStates, RequestOK

\* Upstream's answer to the question that is asked.
LEMMA UpstreamStep ==
  ASSUME IInv, NEW c \in Conns, UpstreamAnswers(c)
  PROVE  IInv'
<1> DEFINE request == conn[c]
<1>1. request.pc # "idle" BY DEF IInv, ConnInv, RequestOK, UpstreamAnswers, Ready
<1>2. /\ request \in ConnStates /\ RequestOK(request) /\ before[c] \in SUBSET table
      /\ request.checksum \in Checksums
      /\ Apart => upstream # {}
  BY <1>1, RequestTypes
<1>3. PICK v \in Replies(request) :
        conn' = [conn EXCEPT ![c] = [request EXCEPT !.answered = TRUE, !.answer = v]]
  BY DEF UpstreamAnswers
<1>4. upstream \in SUBSET Rows /\ Values(upstream) \subseteq Plain
  BY DEF IInv, StateTypes, Rows, Plain, Values
<1>5. /\ v # NoValue =>
           \E u \in upstream : u[2] = v /\ (request.pc \in {"test", "pr"} => u[1] = request.checksum)
      /\ request.pc \notin {"test", "pr"} /\ upstream # {} =>
           /\ v \in Plain /\ v # NoValue
           /\ \A u \in upstream : u[2][1] <= v[1]
  <2>1. CASE request.pc \in {"test", "pr"}
    <3>1. v \in FindValue(upstream, request.checksum, FALSE) BY <2>1 DEF Replies
    <3>2. v # NoValue => <<request.checksum, v>> \in upstream BY <1>4, <3>1, FoundIsStored
    <3> QED BY <2>1, <3>2
  <2>2. CASE request.pc \notin {"test", "pr"} /\ upstream # {}
    <3>1. v \in MaxValue(upstream) BY <2>2 DEF Replies
    <3>2. v \in Maxima(Values(upstream)) /\ v \in Values(upstream) /\ v # NoValue
      BY <1>4, <2>2, <3>1, MaxIsMaximum
    <3>3. \A w \in Values(upstream) : w[1] <= v[1] BY <1>4, <3>2, PlainMaximum
    <3>4. v \in Plain /\ \A u \in upstream : u[2][1] <= v[1] BY <1>4, <3>2, <3>3 DEF Values
    <3> QED BY <2>2, <3>2, <3>4 DEF Values
  <2>3. CASE request.pc \notin {"test", "pr"} /\ upstream = {}
    <3>1. v = NoValue BY <2>3 DEF Replies, MaxValue
    <3> QED BY <2>3, <3>1
  <2> QED BY <2>1, <2>2, <2>3
<1>6. v \in Plain \cup {NoValue} BY <1>5 DEF IInv, StateTypes
<1> DEFINE next == [request EXCEPT !.answered = TRUE, !.answer = v]
<1>7. /\ next \in ConnStates /\ next.pc = request.pc /\ next.checksum = request.checksum
      /\ next.history = request.history /\ next.value = request.value
      /\ next.upstream_max = request.upstream_max /\ next.answered = TRUE /\ next.answer = v
  BY <1>2, <1>6 DEF ConnStates
<1> HIDE DEF next
<1>8. RequestOK(next) BY <1>1, <1>2, <1>7 DEF RequestOK
<1>9. AnswerOK(next) BY <1>2, <1>5, <1>7 DEF AnswerOK, RequestOK
<1>10. MaxOK(next, before[c])
  <2> SUFFICES ASSUME Apart, next.pc = "newmax", NEW q \in before[c] PROVE q[2][1] <= v[1]
    BY <1>7 DEF MaxOK
  <2>1. request.pc = "newmax" BY <1>7
  <2>2. v \in Plain /\ \A u \in upstream : u[2][1] <= v[1] BY <1>2, <1>5, <2>1
  <2>3. q \in upstream \/ \E u \in upstream : u[2][1] = q[2][1]
    BY <1>1, <1>2, RequestTypes DEF IInv, TableInv, Numbered
  <2> QED BY <2>2, <2>3
<1>11. before' = [before EXCEPT ![c] = before[c]] BY DEF UpstreamAnswers, IInv, StateTypes
<1>12. UNCHANGED <<table, upstream, scenario, last, before>> BY DEF UpstreamAnswers
<1> QED BY <1>2, <1>3, <1>7, <1>8, <1>9, <1>10, <1>11, <1>12, WaitStep DEF next

\* A request goes on waiting for the answer to its next question.
LEMMA AskStep ==
  ASSUME IInv, NEW c \in Conns, NEW request \in ConnStates, RequestOK(request), Ask(c, request),
         NEW rows \in SUBSET table, before' = [before EXCEPT ![c] = rows],
         request.pc # "idle"
  PROVE  IInv'
<1> DEFINE next == [request EXCEPT !.answered = FALSE, !.answer = NoValue]
<1>1. /\ next \in ConnStates /\ next.pc = request.pc /\ next.checksum = request.checksum
      /\ next.history = request.history /\ next.value = request.value
      /\ next.upstream_max = request.upstream_max /\ next.answered = FALSE
  BY DEF ConnStates
<1> HIDE DEF next
<1>2. RequestOK(next) BY <1>1 DEF RequestOK
<1>3. AnswerOK(next) /\ MaxOK(next, before'[c]) BY <1>1 DEF AnswerOK, MaxOK
<1> QED BY <1>1, <1>2, <1>3, WaitStep DEF Ask, next

LEMMA NextQuestion ==
  ASSUME IInv, NEW c \in Conns, conn[c].pc # "idle", NEW pc \in {"package", "pr", "newmax"},
         pc \in {"pr", "newmax"} => upstream # {},
         Ask(c, [conn[c] EXCEPT !.pc = pc]), UNCHANGED before
  PROVE  IInv'
<1> DEFINE request == [conn[c] EXCEPT !.pc = pc]
<1>1. conn[c] \in ConnStates /\ RequestOK(conn[c]) /\ before[c] \in SUBSET table
  BY RequestTypes
<1>2. /\ request \in ConnStates /\ request.pc = pc /\ request.checksum = conn[c].checksum
      /\ request.history = conn[c].history /\ request.value = conn[c].value
      /\ request.upstream_max = conn[c].upstream_max
  BY <1>1 DEF ConnStates
<1>3. RequestOK(request) BY <1>1, <1>2 DEF RequestOK
<1>4. before' = [before EXCEPT ![c] = before[c]] BY DEF IInv, StateTypes
<1> HIDE DEF request
<1> QED BY <1>1, <1>2, <1>3, <1>4, AskStep DEF request

LEMMA Dropped ==
  ASSUME IInv, NEW c \in Conns, Finish(c), UNCHANGED <<table, last>>
  PROVE  IInv'
BY IdleState, IdleOK, WaitStep DEF Finish

LEMMA NothingStored == ASSUME table' = table PROVE Higher
BY DEF Higher

LEMMA ImportStep ==
  ASSUME IInv, NEW row \in scenario.imports, ImportOne(row)
  PROVE  IInv' /\ Higher
<1>1. row \in Rows BY ScenarioTypes DEF IInv, StateTypes
<1>2. row = <<row[1], row[2]>> BY <1>1 DEF Rows
<1>3. Fits(row, table)
  <2>1. CASE Apart
    <3>1. ~scenario.has_upstream /\ Values(scenario.imports) \subseteq Plain
      BY <2>1 DEF Apart
    <3>2. row[2] \in Plain BY <3>1 DEF Values
    <3> QED BY <1>1, <3>1, <3>2 DEF Fits, Numbered
  <2>2. CASE ~Apart BY <1>1, <2>2 DEF Fits
  <2> QED BY <2>1, <2>2
<1>4. table' = table \cup {row} /\ UNCHANGED <<upstream, scenario, conn, last, before>>
  BY <1>2 DEF ImportOne, StoreValue
<1>5. IInv' BY <1>3, <1>4, StoreStep DEF IInv, StateTypes
<1>6. Higher BY <1>4 DEF Higher
<1> QED BY <1>5, <1>6

LEMMA GetPrStep ==
  ASSUME IInv, NEW c \in Conns, NEW k \in Checksums, NEW history, GetPr(c, k, history)
  PROVE  IInv' /\ Higher
<1>1. PICK v \in GetValue(table, k, history) : Answer(c, k, v, history)
  BY DEF GetPr, AnswerLocally
<1>2. Fits(<<k, v>>, table) BY LocalFits DEF GetPr
<1> QED BY <1>1, <1>2, AnswerStep

LEMMA AskMaxStep ==
  ASSUME IInv, NEW c \in Conns, NEW k \in Checksums, NEW history \in scenario.histories,
         AskMax(c, k, history)
  PROVE  IInv'
<1>1. PICK v \in FindValue(table, k, history) :
        Ask(c, [Idle EXCEPT !.pc = "max", !.checksum = k, !.history = history, !.value = v])
  BY DEF AskMax
<1> DEFINE request == [Idle EXCEPT !.pc = "max", !.checksum = k, !.history = history, !.value = v]
<1>2. /\ v \in Revisions \cup {NoValue} /\ (v # NoValue => Of(table, k) # {})
  BY FoundIsStored DEF IInv, StateTypes
<1>3. history \in BOOLEAN BY ScenarioTypes DEF IInv, StateTypes
<1>4. /\ request \in ConnStates /\ request.pc = "max" /\ request.checksum = k
      /\ request.history = history /\ request.value = v
  BY <1>2, <1>3 DEF ConnStates, Idle
<1> HIDE DEF request
<1>5. RequestOK(request) BY <1>2, <1>4, PRServerAssumption DEF RequestOK, AskMax
<1>6. before' = [before EXCEPT ![c] = table] BY DEF AskMax
<1> QED BY <1>1, <1>4, <1>5, <1>6, AskStep DEF request

LEMMA MaxStep ==
  ASSUME IInv, NEW c \in Conns,
         MaxForUnknown(c) \/ MaxForHistory(c) \/ MaxForKnown(c) \/ MaxOfNothing(c)
  PROVE  IInv' /\ Higher
<1>1. conn[c].pc = "max" /\ conn[c].answered
  BY DEF MaxForUnknown, MaxForHistory, MaxForKnown, MaxOfNothing, Waiting
<1>2. /\ RequestOK(conn[c]) /\ conn[c].checksum \in Checksums /\ conn[c] # Idle
      /\ conn[c].answer \in Plain \cup {NoValue} /\ before[c] \in SUBSET table
  BY <1>1, RequestTypes
<1>3. CASE MaxForUnknown(c)
  <2>1. UNCHANGED <<table, before>> BY <1>3 DEF MaxForUnknown, Ask
  <2> QED BY <1>1, <1>3, <2>1, NextQuestion, NothingStored DEF MaxForUnknown
<1>4. CASE MaxForHistory(c)
  <2>1. PICK v \in GetValue(table, conn[c].checksum, TRUE) : Answer(c, conn[c].checksum, v, TRUE)
    BY <1>4 DEF MaxForHistory, AnswerLocally
  <2>2. Of(table, conn[c].checksum) # {} BY <1>2, <1>4 DEF MaxForHistory, RequestOK
  <2>3. Fits(<<conn[c].checksum, v>>, table) BY <1>2, <2>2, HistoryFits
  <2> QED BY <1>2, <2>1, <2>3, AnswerStep
<1>5. CASE MaxForKnown(c)
  <2>1. ~Apart BY <1>1, <1>5, RequestTypes DEF MaxForKnown
  <2>2. conn[c].value \in Revisions /\ conn[c].value # NoValue /\ ~conn[c].history
    BY <1>1, <1>5, RequestTypes DEF MaxForKnown
  <2>3. table # {} BY <1>2, <2>2 DEF RequestOK, Of
  <2> DEFINE m == conn[c].answer
  <2>4. PICK v \in Raised(conn[c].value) :
          \/ /\ BelowUpstream(v, m) /\ UNCHANGED before
             /\ Ask(c, [conn[c] EXCEPT !.pc = "test", !.value = v, !.upstream_max = m])
          \/ Answer(c, conn[c].checksum, v, FALSE)
    BY <1>5 DEF MaxForKnown
  <2>5. v \in Revisions /\ v # NoValue
    <3>1. PICK n \in MaxValue(table) :
            v = IF Smaller(conn[c].value, n) THEN Increase(n) ELSE conn[c].value
      BY <2>4 DEF Raised
    <3>2. Increase(n) \in Revisions BY <2>3, MaxIsMaximum, Increases DEF IInv, StateTypes
    <3> QED BY <2>2, <3>1, <3>2, PRServerAssumption
  <2>6. CASE Answer(c, conn[c].checksum, v, FALSE)
    <3>1. Fits(<<conn[c].checksum, v>>, table) BY <1>2, <2>1, <2>5 DEF Fits, Rows
    <3> QED BY <2>6, <3>1, AnswerStep
  <2>7. CASE /\ BelowUpstream(v, m) /\ UNCHANGED before
             /\ Ask(c, [conn[c] EXCEPT !.pc = "test", !.value = v, !.upstream_max = m])
    <3> DEFINE request == [conn[c] EXCEPT !.pc = "test", !.value = v, !.upstream_max = m]
    <3>1. m \in Plain /\ m # NoValue BY <1>2, <2>7 DEF BelowUpstream
    <3>2. /\ request \in ConnStates /\ request.pc = "test" /\ request.value = v
          /\ request.checksum = conn[c].checksum /\ request.history = conn[c].history
          /\ request.upstream_max = m
      BY <1>1, <2>5, <3>1, RequestTypes DEF ConnStates
    <3> HIDE DEF request
    <3>3. RequestOK(request) BY <1>1, <1>2, <2>2, <3>1, <3>2, <2>5 DEF RequestOK
    <3>4. before' = [before EXCEPT ![c] = before[c]] BY <2>7 DEF IInv, StateTypes
    <3>5. IInv' BY <1>2, <2>7, <3>2, <3>3, <3>4, AskStep DEF request
    <3>6. table' = table BY <2>7 DEF Ask
    <3> QED BY <3>5, <3>6, NothingStored
  <2> QED BY <2>4, <2>6, <2>7
<1>6. CASE MaxOfNothing(c)
  BY <1>6, Dropped, NothingStored DEF MaxOfNothing
<1> QED BY <1>3, <1>4, <1>5, <1>6

LEMMA LaterStep ==
  ASSUME IInv, NEW c \in Conns,
         TestAnswer(c) \/ PackageAnswer(c) \/ PrAnswer(c) \/ NewmaxAnswer(c)
  PROVE  IInv' /\ Higher
<1> DEFINE k == conn[c].checksum
<1>1. conn[c].pc # "idle" /\ conn[c].answered
  BY DEF TestAnswer, PackageAnswer, PrAnswer, NewmaxAnswer, Waiting
<1>2. /\ RequestOK(conn[c]) /\ AnswerOK(conn[c]) /\ MaxOK(conn[c], before[c])
      /\ k \in Checksums /\ scenario.has_upstream /\ conn[c] # Idle
      /\ before[c] \in SUBSET table /\ conn[c].answer \in Plain \cup {NoValue}
      /\ Apart => conn[c].history = TRUE /\ upstream # {}
  BY <1>1, RequestTypes
<1>3. CASE TestAnswer(c)
  <2> DEFINE v == IF conn[c].answer = NoValue THEN Append(conn[c].upstream_max, 0)
                  ELSE conn[c].upstream_max
  <2>1. conn[c].upstream_max \in Plain /\ ~conn[c].history
    BY <1>1, <1>2, <1>3, RequestTypes DEF TestAnswer, Waiting, RequestOK
  <2>2. v \in Revisions BY <2>1, FirstSubvalue, TwoKinds
  <2>3. ~Apart BY <1>2, <2>1
  <2>4. Fits(<<k, v>>, table) BY <1>2, <2>2, <2>3 DEF Fits, Rows
  <2>5. Answer(c, k, v, FALSE) BY <1>3 DEF TestAnswer
  <2> QED BY <2>4, <2>5, AnswerStep
<1>4. CASE PackageAnswer(c)
  <2>1. CASE conn[c].answer = NoValue /\ AnswerLocally(c, k, conn[c].history)
    <3>1. PICK v \in GetValue(table, k, conn[c].history) : Answer(c, k, v, conn[c].history)
      BY <2>1 DEF AnswerLocally
    <3>2. ~Apart BY <1>1, <1>2, <1>4, <2>1 DEF PackageAnswer, Waiting, AnswerOK
    <3>3. Fits(<<k, v>>, table) BY <1>2, <3>2, LocalFits
    <3> QED BY <3>1, <3>3, AnswerStep
  <2>2. CASE conn[c].answer # NoValue /\ Ask(c, [conn[c] EXCEPT !.pc = "pr"]) /\ UNCHANGED before
    <3>1. upstream # {} BY <1>1, <1>2, <2>2 DEF AnswerOK
    <3>2. table' = table BY <2>2 DEF Ask
    <3> QED BY <1>1, <2>2, <3>1, <3>2, NextQuestion, NothingStored
  <2> QED BY <1>4, <2>1, <2>2 DEF PackageAnswer
<1>5. CASE PrAnswer(c)
  <2> DEFINE v == conn[c].answer
  <2>1. CASE v # NoValue /\ Answer(c, k, v, conn[c].history)
    <3>1. PICK u \in upstream : u[2] = v /\ u[1] = k
      BY <1>1, <1>2, <1>5, <2>1 DEF AnswerOK, PrAnswer, Waiting
    <3>2. <<k, v>> \in upstream /\ v \in Revisions
      BY <3>1 DEF IInv, StateTypes, Plain
    <3>3. Fits(<<k, v>>, table) BY <1>2, <3>2, KnownFits
    <3> QED BY <2>1, <3>3, AnswerStep
  <2>2. CASE v = NoValue /\ Ask(c, [conn[c] EXCEPT !.pc = "newmax"]) /\ UNCHANGED before
    <3>1. upstream # {} BY <1>2, <1>5 DEF PrAnswer, Waiting, RequestOK
    <3>2. table' = table BY <2>2 DEF Ask
    <3> QED BY <1>1, <2>2, <3>1, <3>2, NextQuestion, NothingStored
  <2> QED BY <1>5, <2>1, <2>2 DEF PrAnswer
<1>6. CASE NewmaxAnswer(c)
  <2>1. conn[c].pc = "newmax" /\ conn[c].answer # NoValue
    BY <1>2, <1>6 DEF NewmaxAnswer, Waiting, AnswerOK
  <2>2. PICK u \in upstream : u[2] = conn[c].answer BY <1>1, <1>2, <2>1 DEF AnswerOK
  <2>3. PICK v \in NewSubvalue(table, u[2]) : Answer(c, k, v, conn[c].history)
    BY <1>6, <2>2 DEF NewmaxAnswer
  <2>4. Apart => \A q \in before[c] : q[2][1] <= u[2][1]
    BY <1>1, <1>2, <2>1, <2>2 DEF MaxOK
  <2>5. Fits(<<k, v>>, before[c]) BY <1>2, <2>4, NewmaxFits
  <2> QED BY <1>2, <2>3, <2>5, AnswerStep
<1> QED BY <1>3, <1>4, <1>5, <1>6

LEMMA ServeStep ==
  ASSUME IInv, NEW k \in Checksums, NEW history, UpstreamServes(k, history)
  PROVE  IInv' /\ Higher
<1>1. PICK v \in GetValue(upstream, k, history) : upstream' = upstream \cup {<<k, v>>}
  BY DEF UpstreamServes
<1>2. /\ scenario.has_upstream /\ UNCHANGED <<table, conn, scenario, last, before>>
  BY DEF UpstreamServes
<1>3. upstream \in SUBSET (Checksums \X Plain) BY DEF IInv, StateTypes
<1>4. v \in Plain /\ (<<k, v>> \in upstream \/ \A r \in upstream : r[2][1] < v[1])
  BY <1>3, GetValuePlain
<1>5. StateTypes' BY <1>1, <1>2, <1>4 DEF IInv, StateTypes
<1>6. ConnInv'
  <2> SUFFICES ASSUME NEW d \in Conns
               PROVE  (RequestOK(conn[d]) /\ AnswerOK(conn[d]) /\ MaxOK(conn[d], before[d]))'
    BY DEF ConnInv
  <2>1. RequestOK(conn[d]) /\ AnswerOK(conn[d]) /\ MaxOK(conn[d], before[d])
    BY DEF IInv, ConnInv
  <2>2. RequestOK(conn[d])' BY <1>1, <1>2, <2>1 DEF RequestOK, Of
  <2>3. AnswerOK(conn[d])' BY <1>1, <1>2, <2>1 DEF AnswerOK, Apart
  <2>4. MaxOK(conn[d], before[d])' BY <1>2, <2>1 DEF MaxOK, Apart
  <2> QED BY <2>2, <2>3, <2>4
<1>7. UpstreamInv' BY <1>1, <1>2 DEF IInv, UpstreamInv
<1>8. TableInv'
  <2> SUFFICES ASSUME Apart
               PROVE  /\ \A r \in table : Numbered(r)'
                      /\ Unique((table \cup upstream') \ scenario.imports)
    BY <1>2 DEF TableInv, Apart
  <2>1. (\A r \in table : Numbered(r)) /\ Unique((table \cup upstream) \ scenario.imports)
    BY DEF IInv, TableInv
  <2>2. \A r \in table : Numbered(r)' BY <1>1, <1>2, <2>1 DEF Numbered
  <2>3. CASE <<k, v>> \in upstream
    <3>1. upstream' = upstream BY <1>1, <2>3
    <3> QED BY <2>1, <2>2, <3>1
  <2>4. CASE \A r \in upstream : r[2][1] < v[1]
    <3>1. \A r \in upstream : r[2] # v BY <1>3, <1>4, <2>4, PlainParts
    <3>2. \A r \in table : r[2] # v BY <1>2, <1>4, <2>1, <3>1, SubAndPlain DEF Numbered
    <3>3. Unique((table \cup upstream') \ scenario.imports) BY <1>1, <2>1, <3>1, <3>2 DEF Unique
    <3> QED BY <2>2, <3>3
  <2> QED BY <1>4, <2>3, <2>4
<1> QED BY <1>2, <1>5, <1>6, <1>7, <1>8, NothingStored DEF IInv

LEMMA AnyStep == IInv /\ Next => IInv' /\ Higher
<1> SUFFICES ASSUME IInv, Next PROVE IInv' /\ Higher
  OBVIOUS
<1>1. scenario.conns \subseteq Conns /\ scenario.checksums \subseteq Checksums
  BY ScenarioTypes DEF IInv, StateTypes
<1>2. CASE Import BY <1>2, ImportStep DEF Import
<1>3. CASE Request
  <2>1. PICK c \in scenario.conns, k \in scenario.checksums, history \in scenario.histories :
          GetPr(c, k, history) \/ AskMax(c, k, history)
    BY <1>3 DEF Request
  <2>2. CASE GetPr(c, k, history) BY <1>1, <2>2, GetPrStep
  <2>3. CASE AskMax(c, k, history)
    BY <1>1, <2>3, AskMaxStep, NothingStored DEF AskMax, Ask
  <2> QED BY <2>1, <2>2, <2>3
<1>4. CASE MaxAnswer BY <1>1, <1>4, MaxStep DEF MaxAnswer
<1>5. CASE LaterAnswer BY <1>1, <1>5, LaterStep DEF LaterAnswer
<1>6. CASE Elsewhere
  <2>1. CASE \E c \in scenario.conns : UpstreamFails(c)
    BY <1>1, <2>1, Dropped, NothingStored DEF UpstreamFails
  <2>3. CASE \E c \in scenario.conns : UpstreamAnswers(c)
    BY <1>1, <2>3, UpstreamStep, NothingStored DEF UpstreamAnswers
  <2>2. CASE \E k \in scenario.checksums, history \in scenario.histories : UpstreamServes(k, history)
    BY <1>1, <2>2, ServeStep
  <2> QED BY <1>6, <2>1, <2>2, <2>3 DEF Elsewhere
<1> QED BY <1>2, <1>3, <1>4, <1>5, <1>6 DEF Next

LEMMA Stutter == IInv /\ UNCHANGED vars => IInv'
<1> SUFFICES ASSUME IInv, UNCHANGED vars PROVE IInv'
  OBVIOUS
<1> USE DEF vars
<1>1. StateTypes' BY DEF IInv, StateTypes
<1>2. ConnInv' BY DEF IInv, ConnInv, RequestOK, AnswerOK, MaxOK, Apart, Of
<1>3. UpstreamInv' BY DEF IInv, UpstreamInv
<1>4. TableInv' BY DEF IInv, TableInv, Apart, Numbered, Unique
<1> QED BY <1>1, <1>2, <1>3, <1>4 DEF IInv

THEOREM AlwaysInvariant == Spec => []IInv
<1>1. IInv /\ [Next]_vars => IInv' BY AnyStep, Stutter
<1> QED BY Start, <1>1, PTL DEF Spec

-----------------------------------------------------------------------------
(* The theorems. *)

\* Tables and requests keep their types, and a request that goes on has what its
\* next step needs.
THEOREM TypeCorrect == Spec => []TypeOK
<1>1. IInv => TypeOK BY Invariants
<1> QED BY AlwaysInvariant, <1>1, PTL

\* A revision belongs to one checksum, here and upstream, however the requests of
\* both servers' clients interleave and however late upstream's answers come; only
\* what was imported may share its number.
THEOREM RevisionsApart == Spec => []NoSharing
<1>1. IInv => NoSharing BY Invariants
<1> QED BY AlwaysInvariant, <1>1, PTL

\* In the cases of Apart a number the server makes is above all that were in its table
\* when it was asked, however old the answers of upstream are that it is made from.
THEOREM NewRevisionsAbove == Spec => NewIsHigher
<1>1. IInv /\ [Next]_vars =>
        [Apart => \A r \in table' \ (table \cup upstream \cup scenario.imports), q \in table :
                    (\A c \in Conns : Served(c) => q \in before[c]) => Above(r[2], q[2])]_vars
  BY AnyStep DEF Higher
<1> QED BY AlwaysInvariant, <1>1, PTL DEF Spec, NewIsHigher
=============================================================================
