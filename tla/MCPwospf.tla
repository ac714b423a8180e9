------------------------------ MODULE MCPwospf ------------------------------
(***************************************************************************)
(* Pwospf on the triangle of the project's virtual topology: this router R *)
(* on a /31 link to A and one to B, and a link between A and B.            *)
(***************************************************************************)
EXTENDS Pwospf

CONSTANTS R, A, B, i1, i2, p1, p2, p3, p4, m31, m24

mcRouters == {R, A, B}
mcNoStatic == <<>>

Link(p, r) == [prefix |-> p, mask |-> m31, rid |-> r]

Route(p, m) == [prefix |-> p, mask |-> m, rid |-> NoRid]

Lsu(r, f, t, list) == [src |-> r, from |-> f, ttl |-> t, ads |-> list]

(***************************************************************************)
(* The line R - A - B: B is known by what A says, its LSUs come through A. *)
(* A advertises two static routes to p4, and may lose its neighbors and    *)
(* the narrower route: the link to R then stays behind (PrunesById).       *)
(***************************************************************************)
lineIfaces == <<i1>>
lineIfPrefix == (i1 :> p1)
linePeer == (i1 :> A)
lineLsus ==
    {Lsu(A, i1, 1, l) : l \in {<<Route(p4, m24), Route(p4, m31), Link(p3, B), Link(p1, R)>>,
                               <<Route(p4, m24), Link(p3, NoRid)>>}}
    \cup {Lsu(B, i1, 2, <<Link(p3, A)>>)}

\* The line with one LSU of each router, for the temporal properties.
calmLsus == {Lsu(A, i1, 1, <<Link(p1, R), Link(p3, B)>>), Lsu(B, i1, 1, <<Link(p3, A)>>)}

noLsus == {}

\* The line where B routes a wider subnet that starts where its link does.
wideLsus == {Lsu(A, i1, 1, <<Link(p3, B)>>), Lsu(B, i1, 1, <<Route(p3, m24)>>)}

(***************************************************************************)
(* The triangle: R, A and B are each other's neighbors, and B routes p4.   *)
(* A advertises its link to B, which B does not, or no longer.             *)
(***************************************************************************)
triIfaces == <<i1, i2>>
triIfPrefix == (i1 :> p1) @@ (i2 :> p2)
triPeer == (i1 :> A) @@ (i2 :> B)
triLsus ==
    {Lsu(A, i1, 2, <<Link(p1, R), Link(p3, B)>>),
     Lsu(B, i2, 1, <<Link(p2, R), Route(p4, m24)>>)}

\* The hypothesis of the theorems about links, of every instance but that one.
ASSUME LinksAgree \/ Lsus = wideLsus
=============================================================================
