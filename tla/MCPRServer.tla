----------------------------- MODULE MCPRServer -----------------------------
(* alone: no upstream server, both modes, a table to import, and as many    *)
(* numbers as it takes to reach two digits.                                *)
(* behind: two builders in "history" mode, and a package upstream knows.    *)
(* mixed: any mode, a package upstream may not know.                        *)
EXTENDS PRServer

alone ==
  [conns |-> {"p"}, checksums |-> {"a", "b"}, histories |-> BOOLEAN, has_upstream |-> FALSE,
   upstream |-> {}, imports |-> {<<"c", <<1>>>>, <<"c", <<9>>>>}, limit |-> 11]
behind ==
  [conns |-> {"p", "q"}, checksums |-> {"a", "b", "c"}, histories |-> {TRUE},
   has_upstream |-> TRUE, upstream |-> {<<"a", <<0>>>>}, imports |-> {}, limit |-> 1]
mixed ==
  [conns |-> {"p"}, checksums |-> {"a", "b"}, histories |-> BOOLEAN, has_upstream |-> TRUE,
   upstream |-> {}, imports |-> {}, limit |-> 2]
\* two: two ways of building a package in turn, in "no history" mode.
two == [alone EXCEPT !.histories = {FALSE}, !.imports = {}]
twoBuilds == {two}
scenarios == {alone, behind, mixed}
=============================================================================
