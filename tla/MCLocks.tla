------------------------------ MODULE MCLocks ------------------------------
(***************************************************************************)
(* Locks with two next hops and two neighbors.                             *)
(***************************************************************************)
EXTENDS Locks

CONSTANTS h1, h2

hops == {h1, h2}
=============================================================================
