----------------------------- MODULE Forwarding -----------------------------
(***************************************************************************)
(* The way of a frame through the router: sr_handlepacket, the longest     *)
(* prefix match and create_eth_hdr (sr_router.c), the answers of icmp.c    *)
(* and arp.c, the frames that wait for an ARP reply (buffer.c) and the     *)
(* check at the door, sr_send_packet (sr_vns_comm.c).                      *)
(*                                                                         *)
(* An address or mask is the set of its one bits, where bit 0 is the first *)
(* on the wire: & is \cap, and s_addr is the integer a little endian       *)
(* machine reads.  The verdict of the firewall is a free choice here       *)
(* (module Firewall), and so is the new forwarding table (module Pwospf).  *)
(* PWOSPF packets leave sr_handlepacket without a frame and are left out.  *)
(***************************************************************************)
EXTENDS Integers, Sequences, FiniteSets, SequencesExt, FiniteSetsExt

CONSTANTS Width, Octet, \* bits of an address and of a byte
          IfList,       \* the interfaces, in the order of if_list
          Mac, Ip,      \* Mac[i], Ip[i]: the addresses of interface i
          Hops,         \* the next hops, among them any that is garbage (the
                        \* Unwritten of module TopInfo)
          HopMac,       \* HopMac[h]: the address a station answers for h
          Unset, NoIf,  \* next hop and interface of an entry left unwritten
          Neighbors,    \* <<h, i>>: LSUs go to neighbor h through interface i
          Tables,       \* what fwrd_table may be: the next hop (hop) and the
                        \* interface (if) of an entry are independent
          Static,       \* routing_table
          Packets,      \* the IP packets that may arrive
          Requests,     \* the ARP requests that may arrive
          Junk,         \* a MAC address in memory nobody wrote
          MaxQueue      \* bound: frames that wait for a next hop

Ifaces == Range(IfList)
NoRoute == [hop |-> "none"]

ASSUME ForwardingAssumption ==
    /\ Width \in Nat /\ Octet \in Nat \ {0} /\ MaxQueue \in Nat
    /\ \A i, j \in Ifaces : Mac[i] = Mac[j] \/ Ip[i] = Ip[j] => i = j
    /\ Neighbors \subseteq Hops \X Ifaces
    /\ Unset \notin Hops /\ NoIf \notin Ifaces /\ NoRoute.hop \notin Hops \cup {Unset}
    /\ \A p \in Packets : /\ p.in \in Ifaces /\ p.dst \subseteq 0 .. Width - 1
                          /\ {"dst", "ttl"} \subseteq DOMAIN p /\ p.ttl \in Nat
    /\ \A r \in Requests : r.in \in Ifaces
    /\ \A l \in Tables \cup {Static, IfList} : l \in Seq(Range(l))
    /\ \A t \in Tables \cup {Static} : \A e \in Range(t) :
           <<e.hop, e.if>> \in (Hops \X Ifaces) \cup {<<Unset, NoIf>>}
    /\ \A t \in Tables \cup {Static} : \A e \in Range(t) :
           \E n \in 0 .. Width : e.mask = 0 .. n - 1

VARIABLES ftable,  \* fwrd_table
          cache,   \* the next hops in the ARP cache
          queue,   \* queue[h]: the frames that wait for h, oldest first
          iface_name, \* iface_name[h]: the interface of h's ARP entry; NoIf
                      \* until there is one
          out,     \* the frames the last step put on the wire
          refused, \* and those sr_send_packet refused
          chosen,  \* the route the last step used, and for which packet
          dead     \* the process used a null pointer

vars == <<ftable, cache, queue, iface_name, out, refused, chosen, dead>>

NoChoice == [p |-> "none"]

Init ==
    /\ ftable \in Tables
    /\ cache = {}
    /\ queue = [h \in Hops |-> <<>>]
    /\ iface_name = [h \in Hops |-> NoIf]
    /\ out = {}
    /\ refused = {}
    /\ chosen = NoChoice
    /\ dead = FALSE

(***************************************************************************)
(* The longest prefix match.  Masks are compared as integers.              *)
(***************************************************************************)
\* The powers of two, as a function.
Power2[k \in 0 .. Width + Octet] == IF k = 0 THEN 1 ELSE 2 * Power2[k - 1]

\* The bytes come in the order of the wire, the bits of a byte in the other one.
s_addr(bits) ==
    MapThenSumSet(LAMBDA b : Power2[Octet * (b \div Octet) + (Octet - 1 - (b % Octet))], bits)

Matches(e, dst) == e.mask \cap dst = e.prefix

\* A change of BestMatch: the mask of the best entry so far is not kept.
BestMatchBug(table, dst) ==
    FoldLeft(LAMBDA best, e : IF Matches(e, dst) /\ 0 <= s_addr(e.mask) THEN e ELSE best,
             NoRoute, table)

BestMatch(table, dst) ==
    LET walk(st, e) == IF Matches(e, dst) /\ st.min <= s_addr(e.mask)
                       THEN [min |-> s_addr(e.mask), best |-> e] ELSE st
    IN  FoldLeft(walk, [min |-> 0, best |-> NoRoute], table).best

get_dyn_routing_if(dst) == BestMatch(ftable, dst)
get_static_routing_if(dst) == BestMatch(Static, dst)

RouteTo(dst) ==
    IF get_dyn_routing_if(dst) # NoRoute THEN get_dyn_routing_if(dst)
    ELSE get_static_routing_if(dst)

(***************************************************************************)
(* sr_send_packet refuses a frame whose source is not the address of its   *)
(* interface.                                                              *)
(***************************************************************************)
Accepted(f) == f.if \in Ifaces /\ f.smac = Mac[f.if]

sr_send_packet(frames) ==
    /\ out' = {f \in frames : Accepted(f)}
    /\ refused' = {f \in frames : ~Accepted(f)}

Frame(kind, p, if, smac, dmac) ==
    [kind |-> kind, p |-> p, if |-> if, smac |-> smac, dmac |-> dmac]

\* create_eth_hdr without forward: back to where the packet came from.
Back(kind, p, if) == Frame(kind, p, if, Mac[p.in], p.smac)

(***************************************************************************)
(* sr_handlepacket with an IP packet.                                      *)
(***************************************************************************)
\* handle_icmp answers an echo request, and everything else gets a port
\* unreachable; an ICMP packet shorter than its header gets an IP header back and
\* nothing behind it.
Reply(p) == {IF p.echo THEN "echo reply" ELSE "port unreachable", "bare"}

\* A packet for the router.
Answer(p) ==
    /\ ~dead /\ p.dst \in {Ip[i] : i \in Ifaces}
    /\ \/ \E kind \in Reply(p) : sr_send_packet({Back(kind, p, p.in)})
       \/ sr_send_packet({})   \* the firewall refused it, or it is malformed
    /\ chosen' = NoChoice
    /\ UNCHANGED <<ftable, cache, queue, iface_name, dead>>

Passing(p) == ~dead /\ p.dst \notin {Ip[i] : i \in Ifaces}

\* No route, the firewall refused it, or it is malformed.
Drop(p) ==
    /\ Passing(p)
    /\ sr_send_packet({})
    /\ chosen' = NoChoice
    /\ UNCHANGED <<ftable, cache, queue, iface_name, dead>>

\* The answer is built for the interface it came from, and is handed to the
\* interface of the route.
Expired(p) ==
    /\ Passing(p) /\ RouteTo(p.dst) # NoRoute /\ p.ttl < 1
    /\ sr_send_packet({Back("time exceeded", p, RouteTo(p.dst).if)})
    /\ chosen' = NoChoice
    /\ UNCHANGED <<ftable, cache, queue, iface_name, dead>>

\* Changes of Outgoing: the source address is the one of the interface it came
\* from; the TTL is taken down twice.
OutgoingBug(p, e) ==
    Frame("forward", [p EXCEPT !.ttl = @ - 1], e.if, Mac[p.in], HopMac[e.hop])
OutgoingTwiceBug(p, e) ==
    Frame("forward", [p EXCEPT !.ttl = @ - 2], e.if, Mac[e.if], HopMac[e.hop])

\* update_ip_hdr and create_eth_hdr: the frame for route e, with the source address
\* of the route's interface.
Outgoing(p, e) ==
    Frame("forward", [p EXCEPT !.ttl = @ - 1], e.if, Mac[e.if], HopMac[e.hop])

\* create_entry: the first frame for h fixes the interface, for good.
create_entry(h, i) ==
    iface_name' = [iface_name EXCEPT ![h] = IF @ = NoIf THEN i ELSE @]

\* get_mac_address with a packet.
Wait(p, e) ==
    /\ Len(queue[e.hop]) < MaxQueue
    /\ queue' = [queue EXCEPT ![e.hop] = Append(@, [frame |-> Outgoing(p, e), old |-> p])]
    /\ create_entry(e.hop, e.if)

\* The MAC address is known, and the frame leaves through the route's interface, or
\* it waits for it.
Forward(p) ==
    LET route == RouteTo(p.dst)
    IN  /\ Passing(p) /\ route # NoRoute /\ p.ttl >= 1 /\ route.if # NoIf
        /\ \/ /\ route.hop \in cache
              /\ sr_send_packet({Outgoing(p, route)})
              /\ UNCHANGED <<queue, iface_name>>
           \/ /\ route.hop \notin cache
              /\ Wait(p, route)
              /\ sr_send_packet({})
        /\ chosen' = [p |-> p, via |-> route]
        /\ UNCHANGED <<ftable, cache, dead>>

\* sif is null, and create_eth_hdr reads sif->addr.
NoInterface(p) ==
    /\ Passing(p) /\ RouteTo(p.dst) # NoRoute /\ p.ttl >= 1
    /\ RouteTo(p.dst).if = NoIf
    /\ dead' = TRUE
    /\ sr_send_packet({})
    /\ chosen' = NoChoice
    /\ UNCHANGED <<ftable, cache, queue, iface_name>>

\* get_mac_address with an LSU, which may be the first for its neighbor.
LsuWaits(h, i) ==
    /\ ~dead /\ h \notin cache
    /\ create_entry(h, i)
    /\ sr_send_packet({})
    /\ chosen' = NoChoice
    /\ UNCHANGED <<ftable, cache, queue, dead>>

(***************************************************************************)
(* sr_handlepacket with an ARP packet.                                     *)
(***************************************************************************)
sr_arp_req_not_for_us(r) == r.tip # Ip[r.in]

ArpRequest(r) ==
    /\ ~dead
    /\ sr_send_packet(IF sr_arp_req_not_for_us(r) THEN {}
                      ELSE {Frame("arp reply", r, r.in, Mac[r.in], r.smac)})
    /\ chosen' = NoChoice
    /\ UNCHANGED <<ftable, cache, queue, iface_name, dead>>

\* Neither request nor reply: res_len is the length of an Ethernet header that
\* nobody wrote, and that much is sent.
ArpOther(i) ==
    /\ ~dead
    /\ \E m \in {Junk} \cup {Mac[j] : j \in Ifaces} :
           sr_send_packet({Frame("junk", NoChoice, i, m, Junk)})
    /\ chosen' = NoChoice
    /\ UNCHANGED <<ftable, cache, queue, iface_name, dead>>

ArpReply(h) ==
    /\ ~dead
    /\ cache' = cache \cup {h}
    /\ sr_send_packet({})
    /\ chosen' = NoChoice
    /\ UNCHANGED <<ftable, queue, iface_name, dead>>

CacheExpires(h) ==
    /\ ~dead /\ h \in cache
    /\ cache' = cache \ {h}
    /\ sr_send_packet({})
    /\ chosen' = NoChoice
    /\ UNCHANGED <<ftable, queue, iface_name, dead>>

(***************************************************************************)
(* The end of a wait (module ArpQueue has its steps).                      *)
(***************************************************************************)
\* A change of Leaving: the source address is written when the frame leaves.
LeavingBug(f, i) == [f EXCEPT !.if = i, !.smac = Mac[i]]

\* A frame that waited leaves through interface i of the ARP entry, with the source
\* address of its route.
Leaving(f, i) == [f EXCEPT !.if = i]

send_all_packs(h) ==
    /\ ~dead /\ h \in cache /\ queue[h] # <<>>
    /\ sr_send_packet({Leaving(q.frame, iface_name[h]) : q \in Range(queue[h])})
    /\ queue' = [queue EXCEPT ![h] = <<>>]
    /\ chosen' = NoChoice
    /\ UNCHANGED <<ftable, cache, iface_name, dead>>

\* match is set once, before the walk: after the first interface that differs no
\* interface matches.
get_if_from_mac(mac) == IF Mac[IfList[1]] = mac THEN IfList[1] ELSE NoIf

send_icmp(q) ==
    LET i == get_if_from_mac(Mac[q.old.in])
    IN  Frame("host unreachable", q.old, i, Mac[i], q.old.smac)

Found(q) == get_if_from_mac(Mac[q.old.in]) # NoIf

\* iface is null, and send_icmp reads iface->ip, before the frames after it.
send_all_icmps(h) ==
    LET sent == {k \in DOMAIN queue[h] : \A j \in 1 .. k : Found(queue[h][j])}
    IN  /\ ~dead /\ queue[h] # <<>>
        /\ sr_send_packet({send_icmp(queue[h][k]) : k \in sent})
        /\ dead' = (sent # DOMAIN queue[h])
        /\ queue' = [queue EXCEPT ![h] = <<>>]
        /\ chosen' = NoChoice
        /\ UNCHANGED <<ftable, cache, iface_name>>

Recompute ==
    /\ ~dead
    /\ ftable' \in Tables
    /\ sr_send_packet({})
    /\ chosen' = NoChoice
    /\ UNCHANGED <<cache, queue, iface_name, dead>>

HandleIp(p) ==
    Answer(p) \/ Drop(p) \/ Expired(p) \/ Forward(p) \/ NoInterface(p)

Next ==
    \/ \E p \in Packets : HandleIp(p)
    \/ \E r \in Requests : ArpRequest(r)
    \/ \E i \in Ifaces : ArpOther(i)
    \/ \E h \in Hops : \/ ArpReply(h) \/ CacheExpires(h)
                       \/ send_all_packs(h) \/ send_all_icmps(h)
    \/ \E n \in Neighbors : LsuWaits(n[1], n[2])
    \/ Recompute

Spec == Init /\ [][Next]_vars

(***************************************************************************)
(* Properties.                                                             *)
(***************************************************************************)
Longest(table, dst) ==
    {e \in Range(table) :
        /\ Matches(e, dst)
        /\ \A f \in Range(table) : Matches(f, dst) => Cardinality(f.mask) <= Cardinality(e.mask)}

\* A packet takes a route with the longest prefix of the forwarding table, wherever
\* in the list it is, and a static one only if the table has none.  The code
\* compares masks as integers of the machine's byte order (sr_router.c:601-610).
RouteIsLongestMatch ==
    [][\A p \in Packets :
           chosen' # NoChoice /\ chosen'.p = p =>
               chosen'.via \in IF Longest(ftable, p.dst) # {} THEN Longest(ftable, p.dst)
                               ELSE Longest(Static, p.dst)]_vars

\* Next hop and interface of every route, and of every LSU.
Ways == {<<e.hop, e.if>> : e \in UNION {Range(t) : t \in Tables \cup {Static}}} \cup Neighbors

\* Routes or LSUs to h disagree about the interface.
Disputed(h) == \E i, j \in Ifaces : i # j /\ <<h, i>> \in Ways /\ <<h, j>> \in Ways

\* sr_send_packet refuses a forwarded frame only if some route or neighbor puts its
\* next hop behind another interface: then the interface of the ARP entry, which the
\* first user fixed, need not be the one whose address the frame has (arpq.c:149,
\* arpq.c:195, sr_router.c:261).  Other table changes during the wait do no harm.  A
\* time exceeded is refused only if its route leaves by another interface than it
\* came (sr_router.c:149), junk as nobody wrote it; no other answer is.
WellFormedLeaves ==
    \A f \in refused :
        \/ f.kind = "forward" /\ \E h \in Hops : f.dmac = HopMac[h] /\ Disputed(h)
        \/ f.kind = "time exceeded" /\ f.if # f.p.in
        \/ f.kind = "junk"

\* Every frame on the wire is for the right station. A forwarded one goes through the
\* interface and to the next hop of one and the same route, a longest match of its
\* destination in a table of the router, however long it waited and whichever frame
\* made the ARP entry, with a TTL that did not wrap. An answer goes out of the
\* interface its cause came in by, to the station that sent it; an ARP reply only if
\* that interface has the address (sr_router.c:149-160, buffer.c:102-207,
\* sr_vns_comm.c:642-665).
FramesGoWhereTheyShould ==
    \A f \in out :
        /\ f.kind = "forward" =>
             /\ f.p.ttl >= 0
             /\ \E t \in Tables \cup {Static} : \E e \in Longest(t, f.p.dst) :
                    f.if = e.if /\ f.dmac = HopMac[e.hop]
        /\ f.kind \in {"echo reply", "port unreachable", "bare", "time exceeded",
                      "host unreachable"} =>
             f.if = f.p.in /\ f.dmac = f.p.smac
        /\ f.kind = "arp reply" => f.p.tip = Ip[f.if] /\ f.dmac = f.p.smac

\* A frame that waits is a packet that came in, with a TTL that did not wrap when
\* update_ip_hdr took one off, and no queue is over its bound.
TypeOK ==
    /\ ftable \in Tables
    /\ cache \subseteq Hops
    /\ DOMAIN queue = Hops /\ \A h \in Hops : Len(queue[h]) <= MaxQueue
    /\ DOMAIN iface_name = Hops /\ \A h \in Hops : iface_name[h] \in Ifaces \cup {NoIf}
    /\ \A h \in Hops : \A q \in Range(queue[h]) : q.old \in Packets /\ q.frame.p.ttl >= 0
    /\ \/ chosen = NoChoice
       \/ chosen.p \in Packets /\ chosen.via.hop \in Hops
    /\ dead \in BOOLEAN

(***************************************************************************)
(* What the documentation says.                                            *)
(***************************************************************************)
\* README:30: "If the entry is in the cache, all of the packets in both buffers are
\* sent". A forwarded frame never meets a refusal; it does, where Disputed.
ForwardedPass == \A f \in refused : f.kind # "forward"

\* README:31-33: "If 5 requests are sent with no reply received, a ICMP Host
\* Unreachable is sent for all packets in the packet buffer".
UnreachableSentForAll ==
    [][\A h \in Hops :
           send_all_icmps(h) =>
               \A q \in Range(queue[h]) :
                   \E f \in out' : f.kind = "host unreachable" /\ f.p = q.old]_vars
=============================================================================
