---------------------------- MODULE MCHashEquiv ----------------------------
(* A small task graph for HashEquiv. *)
EXTENDS HashEquiv, MCRunQueue

\* An application that two multiconfigs build on top of one library;
\* one of them also needs a file that has nothing to do with the library.
movedTasks == {"lib", "fetch", "compile", "app_a", "app_b", "image"}
movedDepends == [t \in movedTasks |->
  CASE t = "compile" -> {"lib"}
    [] t = "app_a"   -> {"compile", "fetch"}
    [] t = "app_b"   -> {"lib"}
    [] t = "image"   -> {"app_a", "app_b"}
    [] OTHER         -> {}]
movedSetscene == {"lib", "app_a", "app_b"}
movedRank == [t \in movedTasks |-> IF t = "app_b" THEN 1 ELSE 0]
movedHash == [t \in movedSetscene |-> t]
movedHard == [t \in movedSetscene |-> IF t = "app_b" THEN {"lib"} ELSE {}]
movedStamp == [t \in movedTasks |-> t]
movedRecipe == [t \in movedSetscene |-> IF t = "lib" THEN {} ELSE {"app_a", "app_b"}]
movedFound == {{}, {"app_a"}}
=============================================================================
