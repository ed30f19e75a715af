----------------------------- MODULE MCBBServer -----------------------------
(* Two or three commands in one build directory: "a" and "b" build, "k" is   *)
(* bitbake -m.                                                              *)
EXTENDS BBServer

attempts == [c \in Clients |-> IF c = "k" THEN 1 ELSE 2]
inodes == 1 .. 4
scenarios ==
  {[clients |-> {"a", "b"}, timeout |-> "none", faults |-> 1],
   [clients |-> {"a", "k"}, timeout |-> "some", faults |-> 1]}
=============================================================================
