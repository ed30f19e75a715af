----------------------------- MODULE MCRunQueue -----------------------------
(* Small task graphs for RunQueue. *)
EXTENDS RunQueue

none == {{}}
carryOn == {{}}
commandLines == {{"halt"}, {"setsceneonly"}, {"skipsetscene", "force"}}

\* Two multiconfigs build the same native tool (equal hashes, so the setscene
\* task of the second is deferred behind the first) in one work directory; the
\* second's setscene variant needs pseudo's.  BB_SETSCENE_ENFORCE refuses to build
\* what is not on the list of IgnoreTasks.
twinTasks == {"prepare", "build_a", "native_a", "build_b", "native_b", "pseudo", "image"}
twinDepends == [t \in twinTasks |->
  CASE t = "image"    -> {"native_a", "native_b", "pseudo", "prepare"}
    [] t = "native_a" -> {"build_a"}
    [] t = "native_b" -> {"build_b"}
    [] OTHER          -> {}]
twinSetscene == {"native_a", "native_b", "pseudo"}
twinRank == [t \in twinTasks |-> IF t = "native_b" THEN 1 ELSE 0]
twinHash == [t \in twinSetscene |-> IF t = "pseudo" THEN "p" ELSE "n"]
twinHard == [t \in twinSetscene |-> IF t = "native_b" THEN {"pseudo"} ELSE {}]
twinStamp == [t \in twinTasks |-> IF t = "build_b" THEN "build_a" ELSE t]
twinOptions == {{}, {"halt"}, {"halt", "enforce"}}

\* A library behind an image, for BB_SETSCENE_ENFORCE: the image alone may be
\* built, everything else has to come from the cache.
miniTasks == {"prepare", "lib", "image"}
miniDepends == [t \in miniTasks |->
  CASE t = "image" -> {"lib"}
    [] t = "lib"   -> {"prepare"}
    [] OTHER       -> {}]
miniSetscene == {"lib"}
miniRank == [t \in miniTasks |-> 0]
miniHash == [t \in miniSetscene |-> t]
miniOptions == {{"enforce"}}
miniFree == [t \in miniSetscene |-> {}]
miniStamp == [t \in miniTasks |-> t]

\* A library that an application and a tool are built with; the image also needs
\* its headers directly, which no setscene task can spare it.
sharedTasks == {"headers", "lib", "app_compile", "app", "tool", "image"}
sharedDepends == [t \in sharedTasks |->
  CASE t = "image"       -> {"app", "tool", "headers"}
    [] t = "app"         -> {"app_compile"}
    [] t = "app_compile" -> {"lib"}
    [] t = "tool"        -> {"lib"}
    [] t = "lib"         -> {"headers"}
    [] OTHER             -> {}]
sharedSetscene == {"lib", "app", "tool"}
sharedRank == [t \in sharedTasks |-> 0]
sharedHash == [t \in sharedSetscene |-> t]
sharedFree == [t \in sharedSetscene |-> {}]
sharedStamp == [t \in sharedTasks |-> t]
sharedStamped == {{}, {"headers", "lib"}}
sharedSqStamped == {{}, {"lib"}}
=============================================================================
