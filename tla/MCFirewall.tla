----------------------------- MODULE MCFirewall -----------------------------
(***************************************************************************)
(* Instances of Firewall for TLC: the hosts a1 and a2 behind interface in, *)
(* the hosts b1 and b2 behind interface out, and the router's addresses ra *)
(* on in and rb on out.                                                    *)
(***************************************************************************)
EXTENDS Firewall

CONSTANTS a1, a2, b1, b2, ra, rb, all, nowhere, in, out

own == (ra :> in) @@ (rb :> out)
external == {out}
internal == {in}
route == (a1 :> in) @@ (a2 :> in) @@ (b1 :> out) @@ (b2 :> out) @@ (nowhere :> NoRoute)

P(i, s, d, proto, sport, dport) ==
    [in |-> i, src |-> s, dst |-> d, proto |-> proto, sport |-> sport, dport |-> dport,
     len |-> 40, expired |-> FALSE, echo |-> TRUE]

\* Pings between the hosts, and a TCP connection.
pings ==
    {P(in, a, b, Icmp, 0, 0) : a \in {a1, a2}, b \in {b1, b2}}
        \cup {P(out, b, a, Icmp, 0, 0) : a \in {a1, a2}, b \in {b1, b2}}
tcp == {P(in, a1, b1, 6, 1000, 80), P(out, b1, a1, 6, 80, 1000)}

\* Packets for the router, or that take another way out of handle_ip.
others ==
    {P(out, b1, ra, Icmp, 0, 0), P(out, b1, ra, 17, 7, 7), P(out, b1, ra, 2, 0, 0),
     P(in, a1, ra, Icmp, 0, 0), P(out, b1, rb, 17, 7, 7), P(out, b1, ra, Ospf, 0, 0),
     P(out, b1, all, Ospf, 0, 0), P(in, a1, nowhere, Icmp, 0, 0),
     P(out, b1, b2, Icmp, 0, 0), P(out, b1, a1, 2, 0, 0), P(in, a1, b1, 2, 0, 0),
     P(out, b2, a2, Icmp, 0, 0), P(out, b1, a2, Icmp, 0, 0),
     [P(in, a1, ra, Icmp, 0, 0) EXCEPT !.echo = FALSE],
     [P(in, a1, b1, Icmp, 0, 0) EXCEPT !.expired = TRUE]}

somePings == {p \in pings : a2 \notin {p.src, p.dst}}
everything == somePings \cup tcp \cup others

noRules == {}
someRules == {Connection(b2, a2, 0, 0, 0), Connection(b1, a1, 6, 0, 0)}
=============================================================================
