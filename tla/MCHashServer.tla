---------------------------- MODULE MCHashServer ----------------------------
(* order: reports alone, of three task hashes with two outputs.             *)
(* races: two builders and an upstream that knows "a" as "up" at times.      *)
(* collection: one builder and an administrator with two marks.             *)
EXTENDS HashServer

unknown == [t \in Taskhashes |-> NoValue]
known == [unknown EXCEPT !["a"] = [outhash |-> "x", unihash |-> "up"]]

order ==
  [conns |-> {"c"}, taskhashes |-> {"a", "b", "t"}, outhashes |-> {"x", "y"},
   unihashes |-> {"a", "b"}, marks |-> {}, has_upstream |-> FALSE, upstream |-> unknown,
   interventions |-> 0]
races ==
  [conns |-> {"c", "d"}, taskhashes |-> {"a", "b"}, outhashes |-> {"x"},
   unihashes |-> {"b"}, marks |-> {}, has_upstream |-> TRUE, upstream |-> known,
   interventions |-> 1]
collection ==
  [conns |-> {"c"}, taskhashes |-> {"a", "b"}, outhashes |-> {"x"},
   unihashes |-> {"b"}, marks |-> {"m", "n"}, has_upstream |-> TRUE, upstream |-> known,
   interventions |-> 3]
scenarios == {order, races, collection}
=============================================================================
