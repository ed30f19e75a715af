----------------------- MODULE BuildSceneQueue_proofs -----------------------
(* build_scenequeue_data passes its own sanity check, and its result is the   *)
(* graph SceneQueue defines, for every acyclic graph of tasks and every order *)
(* of processing.                                                             *)
EXTENDS BuildSceneQueue, TLAPS

-----------------------------------------------------------------------------
(* The smallest closed set. *)

Reach(S) == Meant!ReachStoppingAtSetscene(S)

Closed(R) == \A r \in R \ setscene : depends[r] \subseteq R

LEMMA ReachDefined ==
  ASSUME NEW S
  PROVE  Reach(S) = {t \in Tasks : \A R \in SUBSET Tasks : S \subseteq R /\ Closed(R) => t \in R}
BY DEF Reach, Meant!ReachStoppingAtSetscene, Closed

LEMMA ReachContains ==
  ASSUME NEW S \in SUBSET Tasks
  PROVE  S \subseteq Reach(S) /\ Reach(S) \subseteq Tasks
BY ReachDefined

LEMMA ReachClosed ==
  ASSUME depends \in [Tasks -> SUBSET Tasks], NEW S \in SUBSET Tasks,
         NEW r \in Reach(S) \ setscene, NEW d \in depends[r]
  PROVE  d \in Reach(S)
<1>1. r \in Tasks /\ d \in Tasks  BY ReachDefined
<1>2. ASSUME NEW R \in SUBSET Tasks, S \subseteq R, Closed(R) PROVE d \in R
  <2>1. r \in R  BY <1>2, ReachDefined
  <2>2. QED  BY <1>2, <2>1 DEF Closed
<1>3. QED  BY <1>1, <1>2, ReachDefined

LEMMA ReachSmallest ==
  ASSUME NEW S \in SUBSET Tasks, NEW R \in SUBSET Tasks, S \subseteq R, Closed(R)
  PROVE  Reach(S) \subseteq R
BY ReachDefined

-----------------------------------------------------------------------------
(* The inductive invariant. *)

\* No task is handed a setscene task that does not depend on it.
NothingInvented ==
  \A s \in setscene :
    /\ \A t \in Tasks : s \in sq_revdeps_squash[t] => t \in Reach(depends[s])
    /\ \A t \in DOMAIN endpoints : s \in endpoints[t] => t \in Reach(depends[s])
    /\ \A t \in DOMAIN newendpoints : s \in newendpoints[t] => t \in Reach(depends[s])
    /\ sq_collated_deps[s] \subseteq Reach(depends[s]) \ setscene

\* Where s has arrived: at the tasks it covers, and where it waits to be passed on.
Arrived(s) ==
  sq_collated_deps[s] \cup {t \in Tasks : s \in sq_revdeps_squash[t]}
                      \cup {t \in unprocessed : s \in endpoints[t]}

\* No task on the way is forgotten.
NothingLost ==
  \A s \in setscene :
    /\ depends[s] \subseteq Arrived(s)
    /\ \A r \in sq_collated_deps[s] : depends[r] \subseteq Arrived(s)

\* The setscene tasks apart, what cannot be skipped grows towards the first tasks.
Starts == {t \in Tasks : Revdeps(t) = {}} \cup (targets \ setscene)

UnskippableGrows ==
  /\ Starts \subseteq unskippable /\ unskippable \subseteq Reach(Starts)
  /\ runq_buildable \subseteq {t \in unskippable \ setscene : depends[t] = {}}
  /\ phase \in {"check", "fatal", "done"} =>
       /\ Closed(unskippable)
       /\ runq_buildable = {t \in unskippable \ setscene : depends[t] = {}}

Finished ==
  /\ phase # "chains" => unprocessed = {}
  /\ phase = "done" => \A t \in Tasks \ setscene : sq_revdeps_squash[t] = {}

BuildInv ==
  /\ TypeOK /\ NothingInvented /\ NothingLost /\ UnskippableGrows /\ Finished

-----------------------------------------------------------------------------
(* Types *)

LEMMA InitTyped == Init => TypeOK
<1> SUFFICES ASSUME Init PROVE TypeOK  OBVIOUS
<1> USE BuildAssumption
<1>1. depends \in [Tasks -> SUBSET Tasks] /\ setscene \subseteq Tasks /\ targets \subseteq Tasks
      /\ phase = "chains"
  BY DEF Init
<1>2. /\ sq_revdeps \in [Tasks -> SUBSET Tasks]
      /\ sq_revdeps_squash \in [Tasks -> SUBSET setscene]
      /\ sq_collated_deps \in [setscene -> SUBSET Tasks]
  BY DEF Init, Revdeps
<1>3. /\ DOMAIN endpoints \subseteq Tasks /\ unprocessed \subseteq DOMAIN endpoints
      /\ \A p \in DOMAIN endpoints : endpoints[p] \subseteq setscene
  BY <1>1 DEF Init
<1>4. /\ DOMAIN newendpoints \subseteq Tasks \ setscene
      /\ \A p \in DOMAIN newendpoints : newendpoints[p] \subseteq setscene
  BY DEF Init
<1>5. unskippable \subseteq Tasks /\ runq_buildable \subseteq Tasks  BY <1>1 DEF Init
<1>6. QED  BY <1>1, <1>2, <1>3, <1>4, <1>5 DEF TypeOK

LEMMA ProcessTyped ==
  ASSUME TypeOK, NEW p \in unprocessed, ProcessSetscene(p) \/ ProcessReal(p), UNCHANGED build
  PROVE  /\ sq_revdeps' \in [Tasks -> SUBSET Tasks]
         /\ sq_revdeps_squash' \in [Tasks -> SUBSET setscene]
         /\ sq_collated_deps' \in [setscene -> SUBSET Tasks]
         /\ DOMAIN newendpoints' \subseteq Tasks \ setscene
         /\ \A q \in DOMAIN newendpoints' : newendpoints'[q] \subseteq setscene
<1>1. p \in Tasks /\ Handed(p) \subseteq setscene  BY DEF TypeOK, Handed
<1>2. CASE ProcessSetscene(p)
  BY <1>1, <1>2 DEF TypeOK, ProcessSetscene
<1>3. CASE ProcessReal(p)
  <2>1. sq_revdeps' \in [Tasks -> SUBSET Tasks]  BY <1>3 DEF TypeOK, ProcessReal
  <2>2. sq_revdeps_squash' \in [Tasks -> SUBSET setscene]
    BY <1>1, <1>3 DEF TypeOK, ProcessReal
  <2>3. sq_collated_deps' \in [setscene -> SUBSET Tasks]
    BY <1>1, <1>3 DEF TypeOK, ProcessReal
  <2>4. DOMAIN newendpoints' \subseteq Tasks \ setscene
    BY <1>1, <1>3 DEF TypeOK, ProcessReal
  <2>5. \A q \in DOMAIN newendpoints' : newendpoints'[q] \subseteq setscene
    BY <1>1, <1>3 DEF TypeOK, ProcessReal
  <2>6. QED  BY <2>1, <2>2, <2>3, <2>4, <2>5
<1>4. QED  BY <1>2, <1>3

\* Every variable keeps its type.
THEOREM TypeCorrect == Spec => []TypeOK
<1>1. TypeOK /\ [Next]_vars => TypeOK'
  <2> SUFFICES ASSUME TypeOK, [Next]_vars PROVE TypeOK'
    OBVIOUS
  <2>1. CASE Process
    <3>1. PICK p \in unprocessed :
            /\ ProcessSetscene(p) \/ ProcessReal(p)
            /\ unprocessed' = unprocessed \ {p}
      BY <2>1 DEF Process
    <3>2. UNCHANGED <<build, phase, endpoints, unskippable, runq_buildable>>  BY <2>1 DEF Process
    <3>3. UNCHANGED <<depends, setscene, targets>>  BY <3>2 DEF build
    <3>4. /\ sq_revdeps' \in [Tasks -> SUBSET Tasks]
          /\ sq_revdeps_squash' \in [Tasks -> SUBSET setscene]
          /\ sq_collated_deps' \in [setscene -> SUBSET Tasks]
          /\ DOMAIN newendpoints' \subseteq Tasks \ setscene
          /\ \A q \in DOMAIN newendpoints' : newendpoints'[q] \subseteq setscene
      BY <3>1, <3>2, ProcessTyped
    <3>5. QED  BY <3>1, <3>2, <3>3, <3>4 DEF TypeOK
  <2>2. CASE NextRound  BY <2>2 DEF TypeOK, NextRound, build
  <2>3. CASE ChainsDone \/ SanityCheck
    <3>1. phase' \in {"unskippable", "fatal", "done"}
      BY <2>3, Zenon DEF ChainsDone, SanityCheck
    <3>2. UNCHANGED <<build, chains, unskippable, runq_buildable>>
      BY <2>3 DEF ChainsDone, SanityCheck
    <3>3. QED  BY <3>1, <3>2 DEF TypeOK, build, chains
  <2>4. CASE UnskippablePass
    <3>1. phase' \in {"check", "unskippable"}  BY <2>4, Zenon DEF UnskippablePass
    <3>2. unskippable' \subseteq Tasks /\ runq_buildable' \subseteq Tasks
      BY <2>4 DEF TypeOK, UnskippablePass
    <3>3. UNCHANGED <<build, chains>>  BY <2>4 DEF UnskippablePass
    <3>4. QED  BY <3>1, <3>2, <3>3 DEF TypeOK, build, chains
  <2>5. CASE Terminated \/ UNCHANGED vars
    BY <2>5 DEF TypeOK, Terminated, vars, build, chains
  <2>6. QED  BY <2>1, <2>2, <2>3, <2>4, <2>5 DEF Next, Compute
<1>2. QED  BY <1>1, InitTyped, PTL DEF Spec

-----------------------------------------------------------------------------
(* The invariant is inductive. *)

LEMMA ReachUnchanged ==
  ASSUME UNCHANGED build
  PROVE  /\ \A S : Reach(S)' = Reach(S)
         /\ \A R : Closed(R)' = Closed(R)
BY DEF build, Reach, Closed, Meant!ReachStoppingAtSetscene

LEMMA InitBuilt == Init => BuildInv
<1> SUFFICES ASSUME Init PROVE BuildInv  OBVIOUS
<1>1. TypeOK  BY InitTyped
<1>2. \A s \in setscene : depends[s] \in SUBSET Tasks /\ depends[s] \subseteq Reach(depends[s])
  BY <1>1, ReachContains DEF TypeOK
<1>3. NothingInvented
  <2>1. /\ \A t \in Tasks : sq_revdeps_squash[t] = {}
        /\ \A t \in DOMAIN endpoints : endpoints[t] = {s \in setscene : t \in depends[s]}
        /\ DOMAIN newendpoints = {}
        /\ \A s \in setscene : sq_collated_deps[s] = {}
    BY DEF Init
  <2>2. QED  BY <1>2, <2>1 DEF NothingInvented
<1>4. NothingLost
  <2>1. \A s \in setscene : sq_collated_deps[s] = {}  BY DEF Init
  <2>2. ASSUME NEW s \in setscene, NEW d \in depends[s] PROVE d \in Arrived(s)
    <3>1. d \in unprocessed /\ s \in endpoints[d]  BY <2>2 DEF Init
    <3>2. QED  BY <3>1 DEF Arrived
  <2>3. QED  BY <2>1, <2>2 DEF NothingLost
<1>5. UnskippableGrows
  <2>1. unskippable = Starts /\ runq_buildable = {} /\ phase = "chains"
    BY DEF Init, Starts
  <2>2. Starts \in SUBSET Tasks  BY <1>1 DEF TypeOK, Starts
  <2>3. QED  BY <2>1, <2>2, ReachContains DEF UnskippableGrows
<1>6. Finished  BY DEF Init, Finished
<1>7. QED  BY <1>1, <1>3, <1>4, <1>5, <1>6 DEF BuildInv

\* What a real point hands on goes to what it depends on, within reach.
LEMMA ProcessInventsNothing ==
  ASSUME BuildInv, NEW p \in unprocessed, ProcessSetscene(p) \/ ProcessReal(p),
         UNCHANGED <<build, endpoints>>
  PROVE  NothingInvented'
<1>1. /\ p \in Tasks /\ p \in DOMAIN endpoints /\ Handed(p) \subseteq setscene
      /\ depends \in [Tasks -> SUBSET Tasks]
      /\ sq_revdeps_squash \in [Tasks -> SUBSET setscene]
      /\ sq_collated_deps \in [setscene -> SUBSET Tasks]
  BY DEF BuildInv, TypeOK, Handed
<1>2. UNCHANGED <<depends, setscene>> /\ \A S : Reach(S)' = Reach(S)
  BY ReachUnchanged DEF build
<1>3. ASSUME NEW s \in Handed(p) PROVE p \in Reach(depends[s])
  BY <1>1, <1>3 DEF BuildInv, NothingInvented, Handed
<1>4. CASE ProcessSetscene(p)
  <2>1. UNCHANGED <<sq_collated_deps, newendpoints>>
        /\ sq_revdeps_squash' = [sq_revdeps_squash EXCEPT ![p] = Handed(p)]
    BY <1>4 DEF ProcessSetscene
  <2>2. ASSUME NEW s \in setscene, NEW t \in Tasks, s \in sq_revdeps_squash'[t]
        PROVE  t \in Reach(depends[s])
    BY <1>1, <1>3, <2>1, <2>2 DEF BuildInv, NothingInvented
  <2>3. QED  BY <1>2, <2>1, <2>2 DEF BuildInv, NothingInvented
<1>5. CASE ProcessReal(p)
  <2>1. ASSUME NEW s \in Handed(p), NEW d \in depends[p] PROVE d \in Reach(depends[s])
    <3>1. p \in Reach(depends[s]) \ setscene  BY <1>3, <1>5 DEF ProcessReal
    <3>2. depends[s] \in SUBSET Tasks  BY <1>1 DEF BuildInv, TypeOK
    <3>3. QED  BY <1>1, <2>1, <3>1, <3>2, ReachClosed
  <2>2. ASSUME NEW s \in setscene, NEW t \in Tasks, s \in sq_revdeps_squash'[t]
        PROVE  t \in Reach(depends[s])
    <3>1. s \in sq_revdeps_squash[t] \/ (t \in depends[p] /\ s \in Handed(p))
      BY <1>5, <2>2 DEF ProcessReal
    <3>2. QED  BY <2>1, <3>1 DEF BuildInv, NothingInvented
  <2>3. ASSUME NEW s \in setscene, NEW t \in DOMAIN newendpoints', s \in newendpoints'[t]
        PROVE  t \in Reach(depends[s])
    <3>1. \/ t \in DOMAIN newendpoints /\ s \in newendpoints[t]
          \/ t \in depends[p] /\ s \in endpoints[p]
      BY <1>5, <2>3 DEF ProcessReal
    <3>2. QED  BY <2>1, <3>1 DEF BuildInv, NothingInvented, Handed
  <2>4. ASSUME NEW s \in setscene
        PROVE  sq_collated_deps'[s] \subseteq Reach(depends[s]) \ setscene
    <3>1. p \notin setscene
          /\ sq_collated_deps'[s] =
               sq_collated_deps[s] \cup (IF s \in Handed(p) THEN {p} ELSE {})
      BY <1>5 DEF ProcessReal
    <3>2. QED  BY <1>3, <3>1 DEF BuildInv, NothingInvented
  <2>5. QED  BY <1>2, <2>2, <2>3, <2>4 DEF BuildInv, NothingInvented
<1>6. QED  BY <1>4, <1>5

\* A point that is processed leaves what it was handed where it belongs.
LEMMA ProcessLosesNothing ==
  ASSUME BuildInv, NEW p \in unprocessed, ProcessSetscene(p) \/ ProcessReal(p),
         unprocessed' = unprocessed \ {p}, UNCHANGED <<build, endpoints>>
  PROVE  NothingLost'
<1>1. /\ p \in Tasks /\ Handed(p) \subseteq setscene
      /\ depends \in [Tasks -> SUBSET Tasks]
      /\ sq_revdeps_squash \in [Tasks -> SUBSET setscene]
      /\ sq_collated_deps \in [setscene -> SUBSET Tasks]
      /\ UNCHANGED <<depends, setscene>>
  BY DEF BuildInv, TypeOK, Handed, build
<1>2. CASE ProcessSetscene(p)
  <2>1. ASSUME NEW s \in setscene, NEW t \in Arrived(s) PROVE t \in Arrived(s)'
    BY <1>1, <1>2, <2>1 DEF ProcessSetscene, Arrived, Handed
  <2>2. sq_collated_deps' = sq_collated_deps  BY <1>2 DEF ProcessSetscene
  <2>3. QED  BY <1>1, <2>1, <2>2 DEF BuildInv, NothingLost
<1>3. CASE ProcessReal(p)
  <2>1. /\ \A s \in setscene : sq_collated_deps'[s] =
             sq_collated_deps[s] \cup (IF s \in Handed(p) THEN {p} ELSE {})
        /\ \A d \in Tasks : sq_revdeps_squash'[d] =
             (IF d = p THEN {} ELSE sq_revdeps_squash[d])
               \cup (IF d \in depends[p] THEN Handed(p) ELSE {})
    BY <1>3 DEF ProcessReal
  <2>2. ASSUME NEW s \in setscene, NEW t \in Arrived(s) PROVE t \in Arrived(s)'
    <3>1. CASE t = p
      <4>1. CASE s \in Handed(p)  BY <2>1, <3>1, <4>1 DEF Arrived
      <4>2. CASE s \notin Handed(p)
        BY <2>1, <2>2, <3>1, <4>2 DEF Arrived, Handed
      <4>3. QED  BY <4>1, <4>2
    <3>2. CASE t # p
      BY <2>1, <2>2, <3>2 DEF Arrived
    <3>3. QED  BY <3>1, <3>2
  <2>3. ASSUME NEW s \in Handed(p), NEW d \in depends[p] PROVE d \in Arrived(s)'
    BY <1>1, <2>1, <2>3 DEF Arrived
  <2>4. ASSUME NEW s \in setscene, NEW r \in sq_collated_deps'[s]
        PROVE  depends[r] \subseteq Arrived(s)'
    <3>1. r \in sq_collated_deps[s] \/ (r = p /\ s \in Handed(p))  BY <2>1, <2>4
    <3>2. QED  BY <2>2, <2>3, <3>1 DEF BuildInv, NothingLost
  <2>5. QED  BY <1>1, <2>2, <2>4 DEF BuildInv, NothingLost
<1>4. QED  BY <1>2, <1>3

\* A step that leaves the chains alone.
LEMMA ChainsUntouched ==
  ASSUME BuildInv, UNCHANGED <<build, chains>>
  PROVE  NothingInvented' /\ NothingLost'
<1>1. UNCHANGED <<depends, setscene, sq_revdeps_squash, sq_collated_deps, endpoints,
                  unprocessed, newendpoints>> /\ \A S : Reach(S)' = Reach(S)
  BY ReachUnchanged DEF build, chains
<1>2. \A s : Arrived(s)' = Arrived(s)  BY <1>1 DEF Arrived
<1>3. NothingInvented'  BY <1>1 DEF BuildInv, NothingInvented
<1>4. NothingLost'  BY <1>1, <1>2 DEF BuildInv, NothingLost
<1>5. QED  BY <1>3, <1>4

LEMMA UnskippableUntouched ==
  ASSUME BuildInv, UNCHANGED <<build, unskippable, runq_buildable>>,
         phase' \in {"check", "fatal", "done"} => phase \in {"check", "fatal", "done"}
  PROVE  UnskippableGrows'
<1>1. UNCHANGED <<depends, setscene, targets>>
      /\ (\A S : Reach(S)' = Reach(S)) /\ (\A R : Closed(R)' = Closed(R))
  BY ReachUnchanged DEF build
<1>2. Starts' = Starts  BY <1>1 DEF Starts, Revdeps
<1>3. QED  BY <1>1, <1>2 DEF BuildInv, UnskippableGrows

\* One pass adds what is needed by what is needed; the loop ends when nothing is new.
LEMMA PassGrows ==
  ASSUME BuildInv, UnskippablePass
  PROVE  UnskippableGrows'
<1>1. /\ unskippable' = unskippable \cup UNION {depends[t] : t \in unskippable \ setscene}
      /\ runq_buildable' = runq_buildable \cup {t \in unskippable \ setscene : depends[t] = {}}
      /\ phase' = IF unskippable' = unskippable THEN "check" ELSE "unskippable"
      /\ UNCHANGED build
  BY DEF UnskippablePass
<1>2. UNCHANGED <<depends, setscene, targets>>
      /\ (\A S : Reach(S)' = Reach(S)) /\ (\A R : Closed(R)' = Closed(R))
  BY <1>1, ReachUnchanged DEF build
<1>3. Starts' = Starts  BY <1>2 DEF Starts, Revdeps
<1>4. Starts \in SUBSET Tasks /\ depends \in [Tasks -> SUBSET Tasks]
  BY DEF BuildInv, TypeOK, Starts
<1>5. unskippable' \subseteq Reach(Starts)
  BY <1>1, <1>4, ReachClosed DEF BuildInv, UnskippableGrows
<1>6. runq_buildable' \subseteq {t \in unskippable' \ setscene : depends[t] = {}}
  BY <1>1 DEF BuildInv, UnskippableGrows
<1>7. ASSUME phase' \in {"check", "fatal", "done"}
      PROVE  /\ Closed(unskippable')
             /\ runq_buildable' = {t \in unskippable' \ setscene : depends[t] = {}}
  <2>1. unskippable' = unskippable  BY <1>1, <1>7
  <2>2. Closed(unskippable')  BY <1>1, <2>1 DEF Closed
  <2>3. QED  BY <1>1, <1>6, <2>1, <2>2
<1>8. Starts' \subseteq unskippable'  BY <1>1, <1>3 DEF BuildInv, UnskippableGrows
<1>9. QED
  BY <1>2, <1>3, <1>5, <1>6, <1>7, <1>8 DEF UnskippableGrows, Closed

\* BuildInv is inductive.
THEOREM BuildInvariant == Spec => []BuildInv
<1>1. BuildInv /\ [Next]_vars
        => NothingInvented' /\ NothingLost' /\ UnskippableGrows' /\ Finished'
  <2> SUFFICES ASSUME BuildInv, [Next]_vars
               PROVE  NothingInvented' /\ NothingLost' /\ UnskippableGrows' /\ Finished'
    OBVIOUS
  <2>1. CASE Process
    <3>1. PICK p \in unprocessed :
            /\ ProcessSetscene(p) \/ ProcessReal(p)
            /\ unprocessed' = unprocessed \ {p}
      BY <2>1 DEF Process
    <3>2. phase = "chains" /\ UNCHANGED <<build, phase, endpoints, unskippable, runq_buildable>>
      BY <2>1 DEF Process
    <3>3. NothingInvented' /\ NothingLost'
      BY <3>1, <3>2, ProcessInventsNothing, ProcessLosesNothing
    <3>4. UnskippableGrows'  BY <3>2, UnskippableUntouched
    <3>5. Finished'  BY <3>2 DEF Finished
    <3>6. QED  BY <3>3, <3>4, <3>5
  <2>2. CASE NextRound
    <3>1. /\ phase = "chains" /\ unprocessed = {}
          /\ endpoints' = newendpoints /\ DOMAIN newendpoints' = {}
          /\ UNCHANGED <<build, phase, sq_revdeps_squash, sq_collated_deps, unskippable,
                         runq_buildable>>
      BY <2>2 DEF NextRound
    <3>2. UNCHANGED <<depends, setscene>> /\ \A S : Reach(S)' = Reach(S)
      BY <3>1, ReachUnchanged DEF build
    <3>3. NothingInvented'  BY <3>1, <3>2 DEF BuildInv, NothingInvented
    <3>4. \A s : Arrived(s) \subseteq Arrived(s)'  BY <3>1 DEF Arrived
    <3>5. NothingLost'  BY <3>1, <3>2, <3>4 DEF BuildInv, NothingLost
    <3>6. UnskippableGrows'  BY <3>1, UnskippableUntouched
    <3>7. Finished'  BY <3>1 DEF Finished
    <3>8. QED  BY <3>3, <3>5, <3>6, <3>7
  <2>3. CASE ChainsDone
    <3>1. /\ unprocessed = {} /\ phase' = "unskippable"
          /\ UNCHANGED <<build, chains, unskippable, runq_buildable>>
      BY <2>3 DEF ChainsDone
    <3>2. Finished'  BY <3>1 DEF Finished, chains
    <3>3. QED  BY <3>1, <3>2, ChainsUntouched, UnskippableUntouched
  <2>4. CASE UnskippablePass
    <3>1. phase = "unskippable" /\ phase' \in {"check", "unskippable"}
          /\ UNCHANGED <<build, chains>>
      BY <2>4, Zenon DEF UnskippablePass
    <3>2. Finished'  BY <3>1 DEF BuildInv, Finished, chains
    <3>3. QED  BY <2>4, <3>1, <3>2, ChainsUntouched, PassGrows
  <2>5. CASE SanityCheck
    <3>1. /\ phase = "check" /\ UNCHANGED <<build, chains, unskippable, runq_buildable>>
          /\ phase' = IF \E t \in Tasks \ setscene : sq_revdeps_squash[t] # {}
                      THEN "fatal" ELSE "done"
      BY <2>5 DEF SanityCheck
    <3>2. Finished'  BY <3>1 DEF BuildInv, Finished, chains, build
    <3>3. UnskippableGrows'  BY <3>1, UnskippableUntouched
    <3>4. QED  BY <3>1, <3>2, <3>3, ChainsUntouched
  <2>6. CASE Terminated \/ UNCHANGED vars
    <3>1. UNCHANGED <<build, phase, chains, unskippable, runq_buildable>>
      BY <2>6 DEF Terminated, vars
    <3>2. Finished'  BY <3>1 DEF BuildInv, Finished, chains, build
    <3>3. QED  BY <3>1, <3>2, ChainsUntouched, UnskippableUntouched
  <2>7. QED  BY <2>1, <2>2, <2>3, <2>4, <2>5, <2>6 DEF Next, Compute
<1>2. BuildInv <=> /\ TypeOK /\ NothingInvented /\ NothingLost /\ UnskippableGrows /\ Finished
  BY DEF BuildInv
<1>3. QED  BY <1>1, <1>2, InitBuilt, TypeCorrect, PTL DEF Spec

-----------------------------------------------------------------------------
(* The result. *)

\* When nothing waits to be passed on, where s has arrived is what s reaches.
LEMMA ArrivedIsReach ==
  ASSUME BuildInv, phase = "done", NEW s \in setscene
  PROVE  /\ sq_collated_deps[s] = Reach(depends[s]) \ setscene
         /\ \A t \in setscene : s \in sq_revdeps_squash[t] <=> t \in Reach(depends[s])
<1> DEFINE X == sq_collated_deps[s] \cup {t \in setscene : s \in sq_revdeps_squash[t]}
<1>1. /\ depends[s] \in SUBSET Tasks /\ X \in SUBSET Tasks
      /\ sq_collated_deps[s] \cap setscene = {}
  BY DEF BuildInv, TypeOK, NothingInvented
<1>2. Arrived(s) = X
  BY DEF BuildInv, TypeOK, Finished, Arrived
<1>3. depends[s] \subseteq X /\ Closed(X)
  BY <1>1, <1>2 DEF BuildInv, NothingLost, Closed
<1>4. Reach(depends[s]) \subseteq X  BY <1>1, <1>3, ReachSmallest
<1>5. X \subseteq Reach(depends[s])
  BY DEF BuildInv, TypeOK, NothingInvented
<1>6. QED  BY <1>1, <1>4, <1>5

\* Whatever the order of the dicts and whatever the graph, a build that gets past
\* the sanity check uses the setscene graph that SceneQueue defines.
THEOREM CollapseIsRight == Spec => []ResultIsMeant
<1>1. BuildInv => ResultIsMeant
  <2> SUFFICES ASSUME BuildInv, phase = "done"
               PROVE  /\ \A s \in setscene : sq_revdeps_squash[s] = Meant!SqRevdeps[s]
                      /\ sq_collated_deps = Meant!CoveredTasks
                      /\ unskippable = Meant!Unskippable
                      /\ runq_buildable = {t \in unskippable \ setscene : depends[t] = {}}
    BY DEF ResultIsMeant
  <2>1. ASSUME NEW s \in setscene PROVE sq_revdeps_squash[s] = Meant!SqRevdeps[s]
    <3>1. Meant!SqRevdeps[s] = {u \in setscene : s \in Reach(depends[u])}
      BY <2>1 DEF Meant!SqRevdeps, Reach
    <3>2. sq_revdeps_squash[s] \subseteq setscene  BY <2>1 DEF BuildInv, TypeOK
    <3>3. QED  BY <2>1, <3>1, <3>2, ArrivedIsReach
  <2>2. sq_collated_deps = Meant!CoveredTasks
    <3>1. Meant!CoveredTasks = [s \in setscene |-> Reach(depends[s]) \ setscene]
      BY DEF Meant!CoveredTasks, Reach
    <3>2. sq_collated_deps = [s \in setscene |-> sq_collated_deps[s]]
      BY DEF BuildInv, TypeOK
    <3>3. \A s \in setscene : sq_collated_deps[s] = Reach(depends[s]) \ setscene
      BY ArrivedIsReach
    <3>4. QED  BY <3>1, <3>2, <3>3
  <2>3. unskippable = Meant!Unskippable
    <3>1. Meant!Unskippable = Reach(Starts)
      BY DEF Meant!Unskippable, Meant!CantSkip, Meant!Revdeps, Reach, Starts, Revdeps
    <3>2. Starts \in SUBSET Tasks /\ unskippable \in SUBSET Tasks
      BY DEF BuildInv, TypeOK, Starts
    <3>3. Reach(Starts) \subseteq unskippable
      BY <3>2, ReachSmallest DEF BuildInv, UnskippableGrows
    <3>4. QED  BY <3>1, <3>3 DEF BuildInv, UnskippableGrows
  <2>4. QED  BY <2>1, <2>2, <2>3 DEF BuildInv, UnskippableGrows
<1>2. QED  BY <1>1, BuildInvariant, PTL

-----------------------------------------------------------------------------
(* The sanity check. *)

Waiting == unprocessed \cup DOMAIN newendpoints

\* A real task that still counts as needing another, or was handed something, will
\* be processed: it waits for its turn or for what needs it in its turn.
WillBeProcessed ==
  /\ \A d \in Tasks : \A q \in sq_revdeps[d] :
       /\ q \notin setscene /\ d \in depends[q]
       /\ sq_revdeps[q] # {} \/ q \in Waiting
  /\ \A t \in Tasks \ setscene :
       sq_revdeps_squash[t] # {} => sq_revdeps[t] # {} \/ t \in Waiting
  /\ phase # "chains" => Waiting = {}

Acyclic ==
  \A R \in (SUBSET Tasks) \ {{}} : \E m \in R : \A r \in R : m \notin depends[r]

SanityInv == TypeOK /\ Acyclic /\ WillBeProcessed /\ NeverBadlyWrong

LEMMA InitSane == Init => SanityInv
<1> SUFFICES ASSUME Init PROVE SanityInv  OBVIOUS
<1>1. TypeOK  BY InitTyped
<1>2. Acyclic  BY AcyclicAssumption DEF Init, Acyclic
<1>3. ASSUME NEW d \in Tasks, NEW q \in sq_revdeps[d]
      PROVE  /\ q \notin setscene /\ d \in depends[q]
             /\ sq_revdeps[q] # {} \/ q \in Waiting
  <2>1. q \in Revdeps(d) \ setscene  BY <1>3 DEF Init
  <2>2. q \in Tasks /\ d \in depends[q]  BY <2>1 DEF Revdeps
  <2>3. CASE Revdeps(q) \ setscene # {}  BY <2>2, <2>3 DEF Init
  <2>4. CASE Revdeps(q) = {}
    <3>1. q \in unprocessed  BY <2>1, <2>2, <2>4 DEF Init
    <3>2. QED  BY <2>1, <2>2, <3>1 DEF Waiting
  <2>5. CASE \E s \in setscene : s \in Revdeps(q)
    <3>1. q \in unprocessed  BY <2>2, <2>5 DEF Init, Revdeps
    <3>2. QED  BY <2>1, <2>2, <3>1 DEF Waiting
  <2>6. QED  BY <2>1, <2>2, <2>3, <2>4, <2>5
<1>4. \A t \in Tasks : sq_revdeps_squash[t] = {}  BY DEF Init
<1>5. phase = "chains"  BY DEF Init
<1>6. QED  BY <1>1, <1>2, <1>3, <1>4, <1>5 DEF SanityInv, WillBeProcessed, NeverBadlyWrong

LEMMA ProcessIsSane ==
  ASSUME SanityInv, phase = "chains", NEW p \in unprocessed,
         ProcessSetscene(p) \/ ProcessReal(p),
         unprocessed' = unprocessed \ {p}, UNCHANGED <<build, phase, endpoints>>
  PROVE  WillBeProcessed'
<1>1. /\ p \in Tasks /\ depends \in [Tasks -> SUBSET Tasks]
      /\ sq_revdeps \in [Tasks -> SUBSET Tasks]
      /\ sq_revdeps_squash \in [Tasks -> SUBSET setscene]
      /\ UNCHANGED <<depends, setscene>>
  BY DEF SanityInv, TypeOK, build
<1>2. CASE ProcessSetscene(p)
  <2>1. /\ p \in setscene /\ UNCHANGED <<sq_revdeps, newendpoints>>
        /\ \A t \in Tasks \ {p} : sq_revdeps_squash'[t] = sq_revdeps_squash[t]
    BY <1>1, <1>2 DEF ProcessSetscene
  <2>2. Waiting \ {p} \subseteq Waiting'  BY <2>1 DEF Waiting
  <2>3. ASSUME NEW d \in Tasks, NEW q \in sq_revdeps'[d]
        PROVE  /\ q \notin setscene /\ d \in depends[q]
               /\ sq_revdeps'[q] # {} \/ q \in Waiting'
    BY <2>1, <2>2, <2>3 DEF SanityInv, WillBeProcessed
  <2>4. ASSUME NEW t \in Tasks \ setscene, sq_revdeps_squash'[t] # {}
        PROVE  sq_revdeps'[t] # {} \/ t \in Waiting'
    BY <2>1, <2>2, <2>4 DEF SanityInv, WillBeProcessed
  <2>5. QED  BY <1>1, <2>3, <2>4 DEF SanityInv, WillBeProcessed
<1>3. CASE ProcessReal(p)
  <2>1. /\ p \notin setscene
        /\ \A d \in Tasks : sq_revdeps'[d] = sq_revdeps[d] \ {q \in {p} : d \in depends[p]}
        /\ \A d \in Tasks : sq_revdeps_squash'[d] =
             (IF d = p THEN {} ELSE sq_revdeps_squash[d])
               \cup (IF d \in depends[p] THEN Handed(p) ELSE {})
        /\ \A d \in depends[p] \ setscene : sq_revdeps'[d] = {} => d \in DOMAIN newendpoints'
        /\ DOMAIN newendpoints \subseteq DOMAIN newendpoints'
    BY <1>3 DEF ProcessReal
  <2>2. Waiting \ {p} \subseteq Waiting' /\ DOMAIN newendpoints' \subseteq Waiting'
    BY <2>1 DEF Waiting
  <2>3. p \notin depends[p]
    <3>1. {p} \in (SUBSET Tasks) \ {{}}  BY <1>1
    <3>2. QED  BY <3>1 DEF SanityInv, Acyclic
  <2>4. \A d \in Tasks : p \notin sq_revdeps'[d]
    BY <2>1 DEF SanityInv, WillBeProcessed
  <2>5. ASSUME NEW t \in Tasks \ setscene, t # p, sq_revdeps[t] # {} \/ t \in Waiting
        PROVE  sq_revdeps'[t] # {} \/ t \in Waiting'
    BY <1>1, <2>1, <2>2, <2>5
  <2>6. ASSUME NEW d \in Tasks, NEW q \in sq_revdeps'[d]
        PROVE  /\ q \notin setscene /\ d \in depends[q]
               /\ sq_revdeps'[q] # {} \/ q \in Waiting'
    <3>1. q \in sq_revdeps[d] /\ q # p /\ q \in Tasks  BY <1>1, <2>1, <2>4, <2>6
    <3>2. q \notin setscene /\ d \in depends[q] /\ (sq_revdeps[q] # {} \/ q \in Waiting)
      BY <3>1 DEF SanityInv, WillBeProcessed
    <3>3. QED  BY <2>5, <3>1, <3>2
  <2>7. ASSUME NEW t \in Tasks \ setscene, sq_revdeps_squash'[t] # {}
        PROVE  sq_revdeps'[t] # {} \/ t \in Waiting'
    <3>1. CASE t \in depends[p]  BY <2>1, <2>2, <3>1
    <3>2. CASE t \notin depends[p]
      <4>1. t # p /\ sq_revdeps_squash[t] # {}  BY <2>1, <2>7, <3>2
      <4>2. sq_revdeps[t] # {} \/ t \in Waiting  BY <4>1 DEF SanityInv, WillBeProcessed
      <4>3. QED  BY <2>5, <4>1, <4>2
    <3>3. QED  BY <3>1, <3>2
  <2>8. QED  BY <1>1, <2>6, <2>7 DEF SanityInv, WillBeProcessed
<1>4. QED  BY <1>2, <1>3

\* When nothing waits no task was left out: the last task above them all would
\* have been processed and struck off.
LEMMA NothingLeft ==
  ASSUME SanityInv, Waiting = {}
  PROVE  \A t \in Tasks \ setscene : sq_revdeps_squash[t] = {}
<1> DEFINE R == {t \in Tasks \ setscene : sq_revdeps[t] # {}}
<1>1. CASE R = {}  BY <1>1 DEF SanityInv, WillBeProcessed
<1>2. CASE R # {}
  <2>1. R \in (SUBSET Tasks) \ {{}}  BY <1>2
  <2>2. PICK m \in R : \A r \in R : m \notin depends[r]
    <3> HIDE DEF R
    <3> QED  BY <2>1 DEF SanityInv, Acyclic
  <2>3. PICK q \in sq_revdeps[m] : TRUE  BY <2>2
  <2>4. q \in Tasks /\ q \notin setscene /\ m \in depends[q] /\ sq_revdeps[q] # {}
    BY <2>2, <2>3 DEF SanityInv, TypeOK, WillBeProcessed
  <2>5. QED  BY <2>2, <2>4
<1>3. QED  BY <1>1, <1>2

\* The sanity check of build_scenequeue_data never fails.
THEOREM SanityHolds == Spec => []NeverBadlyWrong
<1>1. SanityInv /\ [Next]_vars => Acyclic' /\ WillBeProcessed' /\ NeverBadlyWrong'
  <2> SUFFICES ASSUME SanityInv, [Next]_vars
               PROVE  Acyclic' /\ WillBeProcessed' /\ phase' # "fatal"
    BY DEF NeverBadlyWrong
  <2>1. UNCHANGED <<depends, setscene>>
    BY DEF Next, Compute, Process, NextRound, ChainsDone, UnskippablePass, SanityCheck,
           Terminated, vars, build
  <2>2. Acyclic'  BY <2>1 DEF SanityInv, Acyclic
  <2>3. CASE Process
    <3>1. PICK p \in unprocessed :
            /\ ProcessSetscene(p) \/ ProcessReal(p)
            /\ unprocessed' = unprocessed \ {p}
      BY <2>3 DEF Process
    <3>2. phase = "chains" /\ UNCHANGED <<build, phase, endpoints>>  BY <2>3 DEF Process
    <3>3. QED  BY <2>2, <3>1, <3>2, ProcessIsSane
  <2>4. CASE NextRound
    <3>1. /\ phase = "chains" /\ UNCHANGED <<phase, sq_revdeps, sq_revdeps_squash>>
          /\ unprocessed = {} /\ unprocessed' = DOMAIN newendpoints
      BY <2>4 DEF NextRound
    <3>2. Waiting \subseteq Waiting'  BY <3>1 DEF Waiting
    <3>3. QED  BY <2>1, <2>2, <3>1, <3>2 DEF SanityInv, WillBeProcessed
  <2>5. CASE ChainsDone
    <3>1. /\ Waiting = {} /\ phase' = "unskippable" /\ UNCHANGED chains
      BY <2>5 DEF ChainsDone, Waiting
    <3>2. QED  BY <2>1, <2>2, <3>1 DEF SanityInv, WillBeProcessed, Waiting, chains
  <2>6. CASE UnskippablePass
    <3>1. phase = "unskippable" /\ phase' \in {"check", "unskippable"} /\ UNCHANGED chains
      BY <2>6, Zenon DEF UnskippablePass
    <3>2. QED  BY <2>1, <2>2, <3>1 DEF SanityInv, WillBeProcessed, Waiting, chains
  <2>7. CASE SanityCheck
    <3>1. Waiting = {}  BY <2>7 DEF SanityInv, WillBeProcessed, SanityCheck
    <3>2. phase = "check" /\ phase' = "done" /\ UNCHANGED chains
      BY <2>7, <3>1, NothingLeft DEF SanityCheck
    <3>3. QED  BY <2>1, <2>2, <3>1, <3>2 DEF SanityInv, WillBeProcessed, Waiting, chains
  <2>8. CASE Terminated \/ UNCHANGED vars
    <3>1. UNCHANGED <<phase, chains>>  BY <2>8 DEF Terminated, vars
    <3>2. QED  BY <2>1, <2>2, <3>1 DEF SanityInv, WillBeProcessed, NeverBadlyWrong, Waiting, chains
  <2>9. QED  BY <2>3, <2>4, <2>5, <2>6, <2>7, <2>8 DEF Next, Compute
<1>2. SanityInv <=> TypeOK /\ Acyclic /\ WillBeProcessed /\ NeverBadlyWrong  BY DEF SanityInv
<1>3. QED  BY <1>1, <1>2, InitSane, TypeCorrect, PTL DEF Spec
=============================================================================
