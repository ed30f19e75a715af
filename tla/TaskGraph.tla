----------------------------- MODULE TaskGraph -----------------------------
(***************************************************************************)
(* What a build promises about its tasks, whoever decides which to run, to  *)
(* fetch or to pass over, and in whatever order results arrive: a task is   *)
(* taken up once, after everything it depends on is done, and ends once.    *)
(* RunQueue implements this.                                                *)
(***************************************************************************)
CONSTANTS Tasks, Depends   \* as in SceneQueue

VARIABLES
  started,   \* the tasks that were taken up
  done,      \* built, covered, or current already
  failed     \* those whose process failed, and those that must not be built

vars == <<started, done, failed>>

Init == started = {} /\ done = {} /\ failed = {}

Ready(t) == t \notin started \cup failed /\ Depends[t] \subseteq done
UnderWay(t) == t \in started \ (done \cup failed)

Start(t)    == Ready(t) /\ started' = started \cup {t} /\ UNCHANGED <<done, failed>>
Skip(t)     == /\ Ready(t) /\ started' = started \cup {t} /\ done' = done \cup {t}
               /\ UNCHANGED failed
Refuse(t)   == Ready(t) /\ failed' = failed \cup {t} /\ UNCHANGED <<started, done>>
Complete(t) == UnderWay(t) /\ done' = done \cup {t} /\ UNCHANGED <<started, failed>>
Fail(t)     == UnderWay(t) /\ failed' = failed \cup {t} /\ UNCHANGED <<started, done>>

Next == \E t \in Tasks : Start(t) \/ Skip(t) \/ Refuse(t) \/ Complete(t) \/ Fail(t)

Spec == Init /\ [][Next]_vars

\* What follows: nothing is both done and failed, and nothing was taken up before
\* what it depends on was done.
Sound ==
  /\ done \subseteq started /\ done \cap failed = {}
  /\ \A t \in started : Depends[t] \subseteq done
=============================================================================
