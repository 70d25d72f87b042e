------------------------------ MODULE MCSchema ------------------------------
(* Two workers that migrate, two keys of which an old writer may have left *)
(* copies.                                                                 *)
EXTENDS Schema

CONSTANTS w1, w2, k1, k2

MCWorkers == {w1, w2}
MCKeys == {k1, k2}
=============================================================================
