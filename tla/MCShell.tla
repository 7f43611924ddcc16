--------------------------------- MODULE MCShell ---------------------------------
(***************************************************************************)
(* Which of the processes is taken for a program does not matter.          *)
(***************************************************************************)
EXTENDS Shell

Symmetry == Permutations(Child)
==================================================================================
