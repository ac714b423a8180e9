------------------------------ MODULE MCFlood -------------------------------
(***************************************************************************)
(* The origin o at a triangle a, b, c, the smallest network with a cycle   *)
(* that does not go through the origin.                                    *)
(***************************************************************************)
EXTENDS Flood

CONSTANTS o, a, b, c

routers == {o, a, b, c}
half == {<<o, a>>, <<a, b>>, <<b, c>>, <<c, a>>}
links == half \cup {<<l[2], l[1]>> : l \in half}
slow == {<<o, a>>, <<a, b>>}
=============================================================================
