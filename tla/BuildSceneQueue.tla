--------------------------- MODULE BuildSceneQueue ---------------------------
(***************************************************************************)
(* build_scenequeue_data in bitbake/lib/bb/runqueue.py: how the graph of   *)
(* setscene tasks is computed from the graph of all tasks.  The chains of  *)
(* real tasks are walked in rounds, from the end points of the build and   *)
(* from what the setscene tasks depend on towards the first tasks; a point *)
(* hands the setscene tasks it is needed by to its own dependencies.       *)
(* Within a round the points come in the order of a dict, which is left    *)
(* open here.  The graph is chosen in the initial state.                   *)
(***************************************************************************)
EXTENDS Integers, FiniteSets

CONSTANTS
  Tasks,      \* runtaskentries
  Graphs,     \* the dependencies a build can have, elements of [Tasks -> SUBSET Tasks]
  TargetSets  \* what the user can ask for

ASSUME BuildAssumption ==
  /\ IsFiniteSet(Tasks)
  /\ Graphs \subseteq [Tasks -> SUBSET Tasks]
  /\ TargetSets \subseteq SUBSET Tasks

\* calculate_task_weights has rejected circular dependencies: in every set of tasks
\* there is one that none of them depends on.
ASSUME AcyclicAssumption ==
  \A g \in Graphs : \A R \in (SUBSET Tasks) \ {{}} : \E m \in R : \A r \in R : m \notin g[r]

VARIABLES
  depends, setscene, targets,   \* the build
  phase,
  sq_revdeps,          \* task -> the tasks behind it that were not processed yet
  sq_revdeps_squash,   \* task -> the setscene tasks it was handed
  sq_collated_deps,    \* setscene task -> the real tasks it covers
  endpoints, unprocessed, newendpoints,
  unskippable, runq_buildable

build   == <<depends, setscene, targets>>
chains  == <<sq_revdeps, sq_revdeps_squash, sq_collated_deps, endpoints, unprocessed,
             newendpoints>>
vars    == <<build, phase, chains, unskippable, runq_buildable>>

\* What the results are meant to be.
Meant == INSTANCE SceneQueue
           WITH Depends <- depends, SetsceneTids <- setscene, Targets <- targets

Revdeps(t) == {r \in Tasks : t \in depends[r]}

TypeOK ==
  /\ depends \in [Tasks -> SUBSET Tasks] /\ setscene \subseteq Tasks /\ targets \subseteq Tasks
  /\ phase \in {"chains", "unskippable", "check", "fatal", "done"}
  /\ sq_revdeps \in [Tasks -> SUBSET Tasks]
  /\ sq_revdeps_squash \in [Tasks -> SUBSET setscene]
  /\ sq_collated_deps \in [setscene -> SUBSET Tasks]
  /\ DOMAIN endpoints \subseteq Tasks /\ unprocessed \subseteq DOMAIN endpoints
  /\ \A p \in DOMAIN endpoints : endpoints[p] \subseteq setscene
  /\ DOMAIN newendpoints \subseteq Tasks \ setscene
  /\ \A p \in DOMAIN newendpoints : newendpoints[p] \subseteq setscene
  /\ unskippable \subseteq Tasks /\ runq_buildable \subseteq Tasks

-----------------------------------------------------------------------------
\* Mutant of Init: the setscene tasks are not cut off.
InitUncut ==
  /\ depends \in Graphs /\ setscene \in SUBSET Tasks /\ targets \in TargetSets
  /\ phase = "chains"
  /\ sq_revdeps = [t \in Tasks |-> Revdeps(t)]
  /\ sq_revdeps_squash = [t \in Tasks |-> {}]
  /\ sq_collated_deps = [s \in setscene |-> {}]
  /\ LET starts == {t \in Tasks \ setscene : Revdeps(t) = {}}
                     \cup UNION {depends[s] : s \in setscene}
     IN  /\ endpoints = [t \in starts |-> {s \in setscene : t \in depends[s]}]
         /\ unprocessed = starts
  /\ newendpoints = [t \in {} |-> {}]
  /\ unskippable = {t \in Tasks : Revdeps(t) = {}} \cup (targets \ setscene)
  /\ runq_buildable = {}

\* The chains start at the end points of the build and below the setscene tasks,
\* which are cut off from what they depend on.
Init ==
  /\ depends \in Graphs /\ setscene \in SUBSET Tasks /\ targets \in TargetSets
  /\ phase = "chains"
  /\ sq_revdeps = [t \in Tasks |-> Revdeps(t) \ setscene]
  /\ sq_revdeps_squash = [t \in Tasks |-> {}]
  /\ sq_collated_deps = [s \in setscene |-> {}]
  /\ LET starts == {t \in Tasks \ setscene : Revdeps(t) = {}}
                     \cup UNION {depends[s] : s \in setscene}
     IN  /\ endpoints = [t \in starts |-> {s \in setscene : t \in depends[s]}]
         /\ unprocessed = starts
  /\ newendpoints = [t \in {} |-> {}]
  /\ unskippable = {t \in Tasks : Revdeps(t) = {}} \cup (targets \ setscene)
  /\ runq_buildable = {}

\* Mutant of Handed: only what the round began with.
HandedEarly(p) == endpoints[p]

\* The setscene tasks the point p is needed by.
Handed(p) == endpoints[p] \cup sq_revdeps_squash[p]

\* process_endpoints, a setscene task: the chain ends.
ProcessSetscene(p) ==
  /\ p \in setscene
  /\ sq_revdeps_squash' = [sq_revdeps_squash EXCEPT ![p] = Handed(p)]
  /\ UNCHANGED <<sq_revdeps, sq_collated_deps, newendpoints>>

\* Mutant of ProcessReal: setscene tasks are opened as well.
ProcessRealOpensAll(p) ==
  /\ p \notin setscene
  /\ sq_collated_deps' =
       [s \in setscene |-> sq_collated_deps[s] \cup (IF s \in Handed(p) THEN {p} ELSE {})]
  /\ sq_revdeps' = [d \in Tasks |-> sq_revdeps[d] \ {q \in {p} : d \in depends[p]}]
  /\ sq_revdeps_squash' =
       [d \in Tasks |-> (IF d = p THEN {} ELSE sq_revdeps_squash[d])
                          \cup (IF d \in depends[p] THEN Handed(p) ELSE {})]
  /\ LET opened == {d \in depends[p] : sq_revdeps'[d] = {}}
     IN  newendpoints' = [d \in DOMAIN newendpoints \cup opened |->
                            IF d \in opened THEN endpoints[p] ELSE newendpoints[d]]

\* process_endpoints, a real task: it is covered, and what it depends on comes
\* next when it was the last to need it.
ProcessReal(p) ==
  /\ p \notin setscene
  /\ sq_collated_deps' =
       [s \in setscene |-> sq_collated_deps[s] \cup (IF s \in Handed(p) THEN {p} ELSE {})]
  /\ sq_revdeps' = [d \in Tasks |-> sq_revdeps[d] \ {q \in {p} : d \in depends[p]}]
  /\ sq_revdeps_squash' =
       [d \in Tasks |-> (IF d = p THEN {} ELSE sq_revdeps_squash[d])
                          \cup (IF d \in depends[p] THEN Handed(p) ELSE {})]
  /\ LET opened == {d \in depends[p] \ setscene : sq_revdeps'[d] = {}}
     IN  newendpoints' = [d \in DOMAIN newendpoints \cup opened |->
                            IF d \in opened THEN endpoints[p] ELSE newendpoints[d]]

Process ==
  /\ phase = "chains"
  /\ \E p \in unprocessed :
       /\ ProcessSetscene(p) \/ ProcessReal(p)
       /\ unprocessed' = unprocessed \ {p}
  /\ UNCHANGED <<build, phase, endpoints, unskippable, runq_buildable>>

\* Mutant of NextRound: the new end points are not taken off the list.
NextRoundAgain ==
  /\ phase = "chains" /\ unprocessed = {} /\ DOMAIN newendpoints # {}
  /\ endpoints' = newendpoints /\ unprocessed' = DOMAIN newendpoints
  /\ UNCHANGED <<build, phase, sq_revdeps, sq_revdeps_squash, sq_collated_deps, unskippable,
                 runq_buildable, newendpoints>>

NextRound ==
  /\ phase = "chains" /\ unprocessed = {} /\ DOMAIN newendpoints # {}
  /\ endpoints' = newendpoints /\ unprocessed' = DOMAIN newendpoints
  /\ newendpoints' = [t \in {} |-> {}]
  /\ UNCHANGED <<build, phase, sq_revdeps, sq_revdeps_squash, sq_collated_deps, unskippable,
                 runq_buildable>>

ChainsDone ==
  /\ phase = "chains" /\ unprocessed = {} /\ DOMAIN newendpoints = {}
  /\ phase' = "unskippable"
  /\ UNCHANGED <<build, chains, unskippable, runq_buildable>>

\* One pass of the loop that finds what the build cannot do without.
UnskippablePass ==
  /\ phase = "unskippable"
  /\ unskippable' = unskippable \cup UNION {depends[t] : t \in unskippable \ setscene}
  /\ runq_buildable' = runq_buildable \cup {t \in unskippable \ setscene : depends[t] = {}}
  /\ phase' = IF unskippable' = unskippable THEN "check" ELSE "unskippable"
  /\ UNCHANGED <<build, chains>>

SanityCheck ==
  /\ phase = "check"
  /\ phase' = IF \E t \in Tasks \ setscene : sq_revdeps_squash[t] # {} THEN "fatal" ELSE "done"
  /\ UNCHANGED <<build, chains, unskippable, runq_buildable>>

Terminated == phase \in {"fatal", "done"} /\ UNCHANGED vars

Compute == Process \/ NextRound \/ ChainsDone \/ UnskippablePass \/ SanityCheck

Next == Compute \/ Terminated

Spec == Init /\ [][Next]_vars

\* The function runs on to its end.
FairSpec == Spec /\ WF_vars(Compute)

-----------------------------------------------------------------------------
(* Properties *)

\* Whatever the order of the dicts, the result is the graph SceneQueue defines:
\* who stands behind whom, who covers what, what cannot be skipped and what can
\* start at once.
ResultIsMeant ==
  phase = "done" =>
    /\ \A s \in setscene : sq_revdeps_squash[s] = Meant!SqRevdeps[s]
    /\ sq_collated_deps = Meant!CoveredTasks
    /\ unskippable = Meant!Unskippable
    /\ runq_buildable = {t \in unskippable \ setscene : depends[t] = {}}

\* "Something went badly wrong during scenequeue generation": it never does.
NeverBadlyWrong == phase # "fatal"

\* The rounds end.
Terminates == <>(phase = "done")

=============================================================================
