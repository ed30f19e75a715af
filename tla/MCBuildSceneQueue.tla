-------------------------- MODULE MCBuildSceneQueue --------------------------
(* Every acyclic graph of a few tasks.  Tasks are numbered so that a task       *)
(* depends on smaller ones only.                                                *)
EXTENDS BuildSceneQueue

CONSTANT NumberOfTasks

allTasks == 1..NumberOfTasks

Edges == {e \in allTasks \X allTasks : e[2] < e[1]}

allGraphs == {[t \in allTasks |-> {d \in allTasks : <<t, d>> \in chosen}] : chosen \in SUBSET Edges}

\* One target in the middle of the graph; what nothing depends on is an end point anyway.
oneTarget == {{2}}
=============================================================================
