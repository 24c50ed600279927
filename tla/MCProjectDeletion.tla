------------------------- MODULE MCProjectDeletion -------------------------
(* A small instance of ProjectDeletion for TLC. *)
EXTENDS ProjectDeletion, TLC

CONSTANTS w1, w2, x1, x2

TwoDayOf == [w \in Writer |-> IF w = w1 THEN 1 ELSE CHOOSE d \in Day : \A e \in Day : e <= d]
=============================================================================
