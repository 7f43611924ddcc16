--------------------------------- MODULE MCTron ---------------------------------
(***************************************************************************)
(* Two small boards: on one the players start an odd number of cells       *)
(* apart, as on the real one, on the other an even number.                 *)
(***************************************************************************)
EXTENDS Tron

MCCanvases == {[width |-> 6, height |-> 5], [width |-> 7, height |-> 5]}
==================================================================================
