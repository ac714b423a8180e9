------------------------------ MODULE Delivery ------------------------------
(***************************************************************************)
(* What the ARP subsystem promises the packets it is given, without ARP:   *)
(* a packet is taken once; it is sent at once or waits for its next hop;   *)
(* and everything that waits for a next hop ends together, in one of three *)
(* ways.  (That every packet does end is ArpQueue!EveryPacketEnds.)        *)
(*                                                                         *)
(* The README promises two of the three ways.  The third, Lose, is what    *)
(* arp_req_init adds (ArpQueue!NothingLost).                               *)
(***************************************************************************)
CONSTANTS Hops, Data, Lsus

Packets == Data \cup Lsus

VARIABLES fate,     \* fate[p]: where p is, or how it ended
          waiting   \* waiting[h]: the packets that wait for next hop h

vars == <<fate, waiting>>

Init ==
    /\ fate = [p \in Packets |-> "new"]
    /\ waiting = [h \in Hops |-> {}]

Take(p) ==
    /\ fate[p] = "new"
    /\ fate' = [fate EXCEPT ![p] = "carried"]
    /\ UNCHANGED waiting

Send(p) ==
    /\ fate[p] = "carried"
    /\ fate' = [fate EXCEPT ![p] = "sent"]
    /\ UNCHANGED waiting

Wait(p, h) ==
    /\ fate[p] = "carried"
    /\ fate' = [fate EXCEPT ![p] = "queued"]
    /\ waiting' = [waiting EXCEPT ![h] = @ \cup {p}]

\* All that waits for h ends as its kind does.
End(h, data, lsus) ==
    /\ \A p \in waiting[h] : fate[p] = "queued"
    /\ fate' = [p \in Packets |->
                   IF p \notin waiting[h] THEN fate[p]
                   ELSE IF p \in Data THEN data ELSE lsus]
    /\ waiting' = [waiting EXCEPT ![h] = {}]

SendAll(h) == End(h, "sent", "sent")
GiveUp(h) == End(h, "unreachable", "deleted")
Lose(h) == End(h, "lost", "lost")

Next ==
    \/ \E p \in Packets : Take(p) \/ Send(p)
    \/ \E p \in Packets, h \in Hops : Wait(p, h)
    \/ \E h \in Hops : SendAll(h) \/ GiveUp(h) \/ Lose(h)

Spec == Init /\ [][Next]_vars
=============================================================================
