---------------------------- MODULE MCForwarding ----------------------------
(***************************************************************************)
(* Forwarding with addresses of two bytes of two bits, three interfaces    *)
(* and two next hops.                                                      *)
(***************************************************************************)
EXTENDS Forwarding

CONSTANTS e0, e1, e2, hA, hB, s1, s2

ifList == <<e0, e1, e2>>
mac == (e0 :> "m0") @@ (e1 :> "m1") @@ (e2 :> "m2")
ip == (e0 :> {1}) @@ (e1 :> {1, 2}) @@ (e2 :> {1, 3})
hops == {hA, hB}
hopMac == (hA :> "mA") @@ (hB :> "mB")
neighbors == {<<hA, e2>>, <<hB, e2>>}

\* Two destinations that share a prefix of one bit.
a == {0, 2, 3}
b == {0, 1}

\* The prefix of a of length n.
Entry(n, h, i) == [mask |-> 0 .. n - 1, prefix |-> (0 .. n - 1) \cap a, hop |-> h, if |-> i]

\* Every order of three nested prefixes and of two, no route, and a route whose next
\* hop is on no neighbor list. The static route puts hA behind another interface
\* than the neighbor lists do.
nested == {Entry(1, hB, e2), Entry(3, hA, e2), Entry(4, hB, e2)}
tables ==
    {<<>>, <<Entry(0, hA, e1), Entry(3, Unset, NoIf)>>}
      \cup {<<Entry(1, hB, e2), Entry(3, hA, e2)>>, <<Entry(3, hA, e2), Entry(1, hB, e2)>>}
      \cup {<<t[1], t[2], t[3]>> : t \in {u \in nested \X nested \X nested :
                                             Cardinality({u[1], u[2], u[3]}) = 3}}

static == <<Entry(0, hA, e1), Entry(1, hB, e2)>>

P(i, m, d, t, e) == [in |-> i, smac |-> m, dst |-> d, ttl |-> t, echo |-> e]

packets ==
    {P(e0, s1, b, 1, TRUE), P(e1, s2, a, 2, TRUE), P(e1, s2, a, 0, TRUE),
     P(e2, s2, ip[e0], 1, TRUE), P(e0, s1, ip[e2], 1, FALSE)}

requests == {[in |-> i, smac |-> s1, tip |-> ip[e1]] : i \in {e0, e1}}
=============================================================================
