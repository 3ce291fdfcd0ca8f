-------------------------- MODULE MCProjectDirectory --------------------------
(***************************************************************************)
(* Instances of ProjectDirectory for TLC.                                  *)
(***************************************************************************)
EXTENDS ProjectDirectory

CONSTANT lake  \* the name of a project

Described(named, located, sized) ==
  [what |-> lake, named |-> named, located |-> located, sized |-> sized]
Good == Described(TRUE, TRUE, TRUE)
Adrift == Described(TRUE, FALSE, TRUE)
SomeDetails == {Good, Adrift, Described(FALSE, TRUE, TRUE), Described(TRUE, TRUE, FALSE)}
SomeStatuses == Status \cup {"archived"}
================================================================================
