----------------------------- MODULE SceneQueue -----------------------------
(***************************************************************************)
(* The task graph of a build and what bitbake/lib/bb/runqueue.py derives   *)
(* from it for the setscene tasks (SQData): which setscene tasks another   *)
(* one stands behind, which real tasks a setscene task makes unnecessary,  *)
(* and which tasks the build cannot skip.  The definitions here say what   *)
(* these sets are; module BuildSceneQueue follows the algorithm of         *)
(* build_scenequeue_data that computes them.                               *)
(***************************************************************************)
EXTENDS Integers, FiniteSets

CONSTANTS
  Tasks,         \* the task ids, rqdata.runtaskentries
  Depends,       \* runtaskentries[tid].depends
  SetsceneTids,  \* runq_setscene_tids: the tasks with a setscene variant
  Targets        \* target_tids: the tasks the user asked for

ASSUME GraphAssumption ==
  /\ IsFiniteSet(Tasks)
  /\ Depends \in [Tasks -> SUBSET Tasks]
  /\ SetsceneTids \subseteq Tasks
  /\ Targets \subseteq Tasks

Revdeps == [t \in Tasks |-> {r \in Tasks : t \in Depends[r]}]

\* The smallest set that contains S and, with every task in it that is not a
\* setscene task, what that task depends on.
ReachStoppingAtSetscene(S) ==
  {t \in Tasks : \A R \in SUBSET Tasks :
     S \subseteq R /\ (\A r \in R \ SetsceneTids : Depends[r] \subseteq R) => t \in R}

\* sq_covered_tasks: the real tasks between t and the next setscene tasks.
CoveredTasks ==
  [t \in SetsceneTids |-> ReachStoppingAtSetscene(Depends[t]) \ SetsceneTids]

\* sq_revdeps: the setscene tasks that t's output is for.
SqRevdeps ==
  [t \in SetsceneTids |->
     {s \in SetsceneTids : t \in ReachStoppingAtSetscene(Depends[s])}]

CantSkip == Targets \ SetsceneTids

\* unskippable: what the end points of the build need directly, down to and
\* including the first setscene tasks.
Unskippable ==
  ReachStoppingAtSetscene({t \in Tasks : Revdeps[t] = {}} \cup CantSkip)

\* The walk of scenequeue_updatecounters from the tasks of `new': a real task is
\* done once everything that needs it is done.
DoneFrom(done, new) ==
  {t \in Tasks : \A D \in SUBSET Tasks :
     /\ done \cup new \subseteq D
     /\ \A d \in Tasks \ SetsceneTids :
          Revdeps[d] \cap (new \cup (D \ done)) # {} /\ Revdeps[d] \subseteq D => d \in D
     => t \in D}
=============================================================================
