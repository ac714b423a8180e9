------------------------------- MODULE Pwospf -------------------------------
(***************************************************************************)
(* The PWOSPF subsystem of one router: the neighbors of each interface     *)
(* (hello.c), the topology database and the forwarding table (top_info.c), *)
(* and the two threads that share them under the pwospf lock:              *)
(*   - the main thread, which handles HELLOs in one critical section and   *)
(*     an LSU in several (lsu.c), the lock being free between them;        *)
(*   - the pwospf thread, which sends HELLOs and LSUs and removes the      *)
(*     routers that timed out (sr_pwospf.c).                               *)
(* One step is one critical section.  The other routers are the            *)
(* environment: at any time a neighbor's HELLO, or an LSU relayed by a     *)
(* neighbor, may arrive, and packets may be lost.                          *)
(*                                                                         *)
(* One tick is OSPF_DEFAULT_HELLOINT seconds.  Times are kept as the ticks *)
(* that remain, down to the first value at which the code's comparison     *)
(* sees them as over.                                                      *)
(***************************************************************************)
EXTENDS TopInfo

CONSTANTS IfMask,         \* the mask of every interface (IF_MASK)
          Peer,           \* Peer[f]: the router at the other end of f
          StaticRoutes,   \* the static routing table: [prefix, mask], in order
          Lsus,           \* the LSUs that may arrive, but for their numbers:
                          \* [src, ads, from: the interface, ttl]
          SeqSpace,       \* LSU sequence numbers are counted modulo SeqSpace
          NbrLife,        \* OSPF_NEIGHBOR_TIMEOUT, in ticks
          InitLife,       \* TOP_INITIALIZATION, in ticks
          LsuTicks        \* OSPF_DEFAULT_LSUINT, in ticks

IfaceSet == Range(Ifaces)
Remote == Routers \ {Self}

ASSUME PwospfAssumption ==
    /\ Ifaces \in Seq(IfaceSet) /\ NoIface \notin IfaceSet
    /\ Peer \in [IfaceSet -> Remote]
    /\ \A l \in Lsus : /\ l.src \in Remote /\ l.from \in IfaceSet /\ l.ttl \in Nat \ {0}
                       /\ l.ads \in Seq(Range(l.ads))
    \* generate_adv never names the router it is for.
    /\ \A l \in Lsus : \A ad \in Range(l.ads) :
           ad \in [prefix : {ad.prefix}, mask : {ad.mask},
                  rid : (Routers \ {l.src}) \cup {NoRid}]
    \* It names a neighbor on the subnet they share, and the own interfaces are
    \* on different ones.
    /\ \A l \in Lsus : \A ad \in Range(l.ads) :
           ad.rid = Self => \E f \in IfaceSet : ad.prefix = IfPrefix[f]
    /\ \A i, j \in 1 .. Len(Ifaces) : IfPrefix[Ifaces[i]] = IfPrefix[Ifaces[j]] => i = j
    /\ SeqSpace \in Nat \ {0, 1}
    /\ NbrLife \in Nat /\ InitLife \in Nat /\ LsuTicks \in Nat \ {0}

VARIABLES
    net,        \* ospf_subsys->network
    written,    \* the own subnets whose next_hop was written
    ftable,     \* ospf_subsys->fwrd_table
    nbrs,       \* the neighbor array of each interface
    initLeft,   \* init_time - now
    seqSent,    \* last_seq_sent
    beat,       \* pwospf thread: its loop counter i and the call it is at
    main,       \* main thread: the LSU it is handling and where it is
    wire        \* the LSUs and HELLOs the last step put on the wire

vars == <<net, written, ftable, nbrs, initLeft, seqSent, beat, main, wire>>

Idle == [pc |-> "idle"]
Nothing == {}

TypeOK ==
    /\ Range(net.order) \subseteq Routers
    /\ \A r \in Routers :
         /\ Range(net.adj[r]) \subseteq Routers
         /\ \A i \in 1 .. Len(net.subs[r]) :
              net.subs[r][i].rid \in Routers \cup {NoRid}
         /\ net.exp[r] \in 0 .. RouterLife
         /\ net.seq[r] \in 0 .. SeqSpace - 1
    /\ written \subseteq {IfPrefix[f] : f \in IfaceSet}
    /\ \A i \in 1 .. Len(ftable) : ftable[i].hops \in Nat
    /\ \A f \in IfaceSet : \A i \in 1 .. Len(nbrs[f]) :
         nbrs[f][i] \in [id : Remote, life : -1 .. NbrLife]
    /\ initLeft \in -1 .. InitLife
    /\ seqSent \in 0 .. SeqSpace - 1
    /\ beat \in [i : 0 .. LsuTicks, at : {"hello", "sleep", "check", "lsu"}]
    /\ main.pc \in {"idle", "compare", "add", "setseq", "forward"}

(***************************************************************************)
(* pwospf_init: the own router with one subnet per interface, nobody known *)
(* at its other end, and a forwarding table that lists those subnets.      *)
(***************************************************************************)
OwnSubnets ==
    [i \in 1 .. Len(Ifaces) |->
        [prefix |-> IfPrefix[Ifaces[i]], mask |-> IfMask, rid |-> NoRid]]

Init ==
    /\ net = [add_new_router(EmptyNetwork, Self) EXCEPT !.subs[Self] = OwnSubnets]
    /\ written = {IfPrefix[f] : f \in IfaceSet}
    /\ ftable = [i \in 1 .. Len(Ifaces) |->
                    [OwnEntry(OwnSubnets[i], written) EXCEPT !.iface = Ifaces[i]]]
    /\ nbrs = [f \in IfaceSet |-> <<>>]
    /\ initLeft = InitLife
    /\ seqSent = 0
    /\ beat = [i |-> 0, at |-> "hello"]
    /\ main = Idle
    /\ wire = Nothing

InitOver == initLeft < 0

(***************************************************************************)
(* handle_HELLO: the neighbors of every interface are checked, and once    *)
(* TOP_INITIALIZATION is over a silent one takes its subnet and adjacency  *)
(* with it.  st.i is the index of the loop over one interface's array.     *)
(***************************************************************************)
\* The own router keeps the adjacency.
DisconnectBug(n, id) ==
    LET mine == remove_rt_sn_using_id(n, Self, id)
    IN  IF adj_list_contains(n, id)
        THEN remove_rt_adj_using_id(remove_rt_sn_using_id(mine, id, Self), id, Self)
        ELSE mine

Disconnect(n, id) ==
    LET mine == remove_rt_sn_using_id(n, Self, id)
        theirs == remove_rt_sn_using_id(mine, id, Self)
    IN  IF adj_list_contains(n, id)
        THEN remove_rt_adj_using_id(remove_rt_adj_using_id(theirs, id, Self),
                                    Self, id)
        ELSE mine

NeighborRound(st, f) ==
    LET nbr == st.nbrs[f][st.i]
    IN  IF nbr.life >= 0 THEN [st EXCEPT !.i = @ + 1]
        ELSE [st EXCEPT !.nbrs[f] = SwapRemove(@, st.i),
                        !.net = IF InitOver THEN Disconnect(@, nbr.id) ELSE @]

DropSilent(st, f) ==
    FoldLeft(LAMBDA s, nbr : NeighborRound(s, f),
             [st EXCEPT !.i = 1], st.nbrs[f])

\* The part of the loop body for the interface the HELLO came in on.
RefreshOrAdd(list, id) ==
    IF \E i \in 1 .. Len(list) : list[i].id = id
    THEN [i \in 1 .. Len(list) |-> IF list[i].id = id
                                   THEN [list[i] EXCEPT !.life = NbrLife]
                                   ELSE list[i]]
    ELSE Append(list, [id |-> id, life |-> NbrLife])

NameSubnet(n, f, id) ==
    LET k == router_contains_subnet(n, Self, IfPrefix[f])
    IN  IF k # 0 /\ n.subs[Self][k].rid = NoRid /\ n.subs[Self][k].mask = IfMask
        THEN [n EXCEPT !.subs[Self][k].rid = id]
        ELSE n

Greeted(st, f, id) ==
    [st EXCEPT !.nbrs[f] = RefreshOrAdd(@, id), !.net = NameSubnet(@, f, id)]

\* One interface; a HELLO whose mask or interval differs ends the function.
HelloRound(st, g, f, agrees) ==
    IF st.done THEN st
    ELSE IF g # f THEN DropSilent(st, g)
    ELSE IF agrees THEN Greeted(DropSilent(st, f), f, Peer[f])
    ELSE [DropSilent(st, f) EXCEPT !.done = TRUE]

HandleHello(f, agrees) ==
    LET end == FoldLeft(LAMBDA st, g : HelloRound(st, g, f, agrees),
                        [nbrs |-> nbrs, net |-> net, i |-> 1, done |-> FALSE],
                        Ifaces)
    IN  /\ main.pc = "idle"
        /\ nbrs' = end.nbrs
        /\ net' = end.net
        /\ written' = StillWritten(written, net')
        /\ wire' = Nothing
        /\ UNCHANGED <<ftable, initLeft, seqSent, beat, main>>

(***************************************************************************)
(* handle_lsu, one action per critical section.  get_sequence returns      *)
(* last_seq after it unlocked: ReadSequence finds the router and           *)
(* CompareSequence reads the field, with the lock free in between.         *)
(***************************************************************************)
ReadSequence ==
    /\ main.pc = "idle"
    /\ \E l \in Lsus, s \in 0 .. SeqSpace - 1 :
         main' = [pc |-> "compare", src |-> l.src, ads |-> l.ads, from |-> l.from,
                  ttl |-> l.ttl, seq |-> s, found |-> adj_list_contains(net, l.src)]
    /\ wire' = Nothing
    /\ UNCHANGED <<net, written, ftable, nbrs, initLeft, seqSent, beat>>

\* The router was found, and freed before its last_seq is read.
ReadsFreedRouter ==
    main.pc = "compare" /\ main.found /\ ~adj_list_contains(net, main.src)

\* A freed router's field can hold anything: then either outcome is possible.
MayDrop == IF main.found THEN ReadsFreedRouter \/ net.seq[main.src] = main.seq
           ELSE main.seq = 0
MayAccept == IF main.found THEN ReadsFreedRouter \/ net.seq[main.src] # main.seq
             ELSE main.seq # 0

CompareSequence ==
    /\ main.pc = "compare"
    /\ \/ MayDrop /\ main' = Idle
       \/ MayAccept /\ main' = [main EXCEPT !.pc = "add"]
    /\ wire' = Nothing
    /\ UNCHANGED <<net, written, ftable, nbrs, initLeft, seqSent, beat>>

AddToTop ==
    /\ main.pc = "add"
    /\ net' = add_to_top(net, main.src, main.ads, InitOver)
    /\ written' = StillWritten(written, net')
    /\ ftable' = Recompute(net', nbrs, written')
    /\ main' = [main EXCEPT !.pc = "setseq", !.ads = <<>>, !.found = TRUE]
    /\ wire' = Nothing
    /\ UNCHANGED <<nbrs, initLeft, seqSent, beat>>

SetSequence ==
    /\ main.pc = "setseq"
    /\ net' = set_sequence(net, main.src, main.seq)
    /\ main' = [main EXCEPT !.pc = "forward"]
    /\ wire' = Nothing
    /\ UNCHANGED <<written, ftable, nbrs, initLeft, seqSent, beat>>

\* Everybody on a neighbor list.
Recipients ==
    {d \in IfaceSet \X Remote :
        \E i \in 1 .. Len(nbrs[d[1]]) : nbrs[d[1]][i].id = d[2]}

ForwardLsu ==
    LET ttl == main.ttl - 1
        sender == <<main.from, Peer[main.from]>>
    IN  /\ main.pc = "forward"
        /\ wire' = IF ttl > 0
                   THEN {[kind |-> "lsu", src |-> main.src, seq |-> main.seq,
                          ttl |-> ttl, to |-> d] : d \in Recipients \ {sender}}
                   ELSE Nothing
        /\ main' = Idle
        /\ UNCHANGED <<net, written, ftable, nbrs, initLeft, seqSent, beat>>

(***************************************************************************)
(* pwospf_run_thread: LsuTicks times send_HELLO and sleep, then            *)
(* check_top_invalid and send_lsu.                                         *)
(***************************************************************************)
SendHello ==
    /\ beat.at = "hello"
    /\ beat' = [i |-> beat.i + 1, at |-> "sleep"]
    /\ wire' = {[kind |-> "hello", to |-> f] : f \in IfaceSet}
    /\ UNCHANGED <<net, written, ftable, nbrs, initLeft, seqSent, main>>

CheckTopInvalid ==
    /\ beat.at = "check"
    /\ net' = RemoveTimedOut(net)
    /\ written' = StillWritten(written, net')
    /\ ftable' = IF \E r \in Range(net.order) : TimedOut(net, r)
                 THEN Recompute(net', nbrs, written') ELSE ftable
    /\ beat' = [beat EXCEPT !.at = "lsu"]
    /\ wire' = Nothing
    /\ UNCHANGED <<nbrs, initLeft, seqSent, main>>

\* generate_adv: the own subnets, then the static routes with r_id 0.
GenerateAdv ==
    net.subs[Self] \o [i \in 1 .. Len(StaticRoutes) |->
                          [prefix |-> StaticRoutes[i].prefix,
                           mask |-> StaticRoutes[i].mask, rid |-> NoRid]]

NextSeqBug(seq) == seq + 1

NextSeq(seq) == (seq + 1) % SeqSpace

SendLsu ==
    LET seq == NextSeq(seqSent)
    IN  /\ beat.at = "lsu"
        /\ seqSent' = seq
        /\ wire' = {[kind |-> "lsu", src |-> Self, seq |-> seq,
                     ads |-> GenerateAdv, to |-> d] : d \in Recipients}
        /\ beat' = [i |-> 0, at |-> "hello"]
        /\ UNCHANGED <<net, written, ftable, nbrs, initLeft, main>>

(***************************************************************************)
(* Time.  sleep() ends with the tick; a thread that is awake may be slow.  *)
(***************************************************************************)
Later(left, end) == IF left > end THEN left - 1 ELSE end

Tick ==
    /\ net' = [net EXCEPT !.exp = [r \in Routers |-> Later(net.exp[r], 0)]]
    /\ nbrs' = [f \in IfaceSet |-> [i \in 1 .. Len(nbrs[f]) |->
                   [nbrs[f][i] EXCEPT !.life = Later(@, -1)]]]
    /\ initLeft' = Later(initLeft, -1)
    /\ beat' = IF beat.at # "sleep" THEN beat
               ELSE [beat EXCEPT !.at = IF beat.i = LsuTicks THEN "check"
                                        ELSE "hello"]
    /\ wire' = Nothing
    /\ UNCHANGED <<written, ftable, seqSent, main>>

HandlePwospf ==
    \/ \E f \in IfaceSet, agrees \in BOOLEAN : HandleHello(f, agrees)
    \/ ReadSequence

LsuStep == CompareSequence \/ AddToTop \/ SetSequence \/ ForwardLsu

PwospfThread == SendHello \/ CheckTopInvalid \/ SendLsu

Next == HandlePwospf \/ LsuStep \/ PwospfThread \/ Tick

(***************************************************************************)
(* Both threads run and time passes; no packet is ever bound to arrive.    *)
(* The two formulas for the threads are WF_vars(LsuStep) and               *)
(* WF_vars(PwospfThread), with ENABLED and the action reduced to the       *)
(* position of the thread: LsuStep is enabled exactly when main.pc is not  *)
(* "idle", only it changes main.pc then, and likewise for the pwospf       *)
(* thread.  TLC would rebuild the database for each ENABLED.               *)
(***************************************************************************)
MainRuns == []<>(main.pc = "idle") \/ []<><<main'.pc # main.pc>>_vars
PwospfRuns == []<>(beat.at = "sleep") \/ []<><<beat'.at # beat.at>>_vars

Fairness == MainRuns /\ PwospfRuns /\ WF_vars(Tick)

Spec == Init /\ [][Next]_vars
FairSpec == Spec /\ Fairness

(***************************************************************************)
(* Safety of the topology database.                                        *)
(***************************************************************************)
Known == Range(net.order)

NoRepeat(s) == \A i, j \in 1 .. Len(s) : s[i] = s[j] => i = j

\* Every adjacency of a known router is a known router, listed once: when
\* remove_from_topo frees a router after unlinking one adjacency per router,
\* no array is left with a pointer to it (top_info.c:186-235).
AdjacencyKnown ==
    /\ NoRepeat(net.order)
    /\ \A r \in Known : NoRepeat(net.adj[r]) /\ Range(net.adj[r]) \subseteq Known \ {r}

\* What the LSUs of others leave in the own router's array is still a subset
\* of its interfaces' subnets, each once, so update_ftable's assert(iface)
\* (top_info.c:706, 733) never stops the router.
OwnSubnetsLocal ==
    /\ net.order[1] = Self
    /\ \A s \in Range(net.subs[Self]) : get_subnet_if(s.prefix) # NoIface
    /\ NoRepeat([i \in 1 .. Len(net.subs[Self]) |-> net.subs[Self][i].prefix])

\* The links that an LSU names, and those of the own interfaces: who is at their ends.
LinksOf(l) ==
    {[ends |-> {l.src, ad.rid}, prefix |-> ad.prefix, mask |-> ad.mask] :
        ad \in {a \in Range(l.ads) : a.rid # NoRid}}

LsuLinks == UNION {LinksOf(l) : l \in Lsus}

OwnLinks ==
    {[ends |-> {Self, Peer[f]}, prefix |-> IfPrefix[f], mask |-> IfMask] : f \in IfaceSet}

Links == LsuLinks \cup OwnLinks

\* A subnet joins two routers, two routers share one subnet, and nobody advertises
\* the prefix of a link with another mask.  The code never checks it.
LinksAgree ==
    /\ \A a, b \in Links : a.prefix = b.prefix \/ a.ends = b.ends => a = b
    /\ \A l \in Lsus : \A ad \in Range(l.ads) : \A k \in Links :
           k.prefix = ad.prefix => k.mask = ad.mask

\* The graph dijkstra walks and the subnets a LSU carries agree: a router is
\* adjacent exactly to the routers its subnets name, whichever of add_to_top,
\* handle_HELLO and check_top_invalid touched the link last.  The own router
\* names a neighbor on its HELLO, before any LSU makes it adjacent.
AdjacencyMatchesSubnets ==
    \A r \in Known :
        LET named == {s.rid : s \in Range(net.subs[r])} \ {NoRid}
        IN  /\ Range(net.adj[r]) \subseteq named
            /\ r # Self => named \subseteq Range(net.adj[r])

(***************************************************************************)
(* The forwarding table against a definition of distance that owes nothing *)
(* to dijkstra: Reach(n, u)[k] is what u reaches in at most k links.       *)
(***************************************************************************)
Reach(n, u) ==
    LET ball[k \in 0 .. Len(n.order)] ==
            IF k = 0 THEN {u}
            ELSE ball[k - 1] \cup UNION {Range(n.adj[r]) : r \in ball[k - 1]}
    IN  ball

At(n, u, r, k) ==
    /\ k \in 0 .. Len(n.order) /\ r \in Reach(n, u)[k]
    /\ k > 0 => r \notin Reach(n, u)[k - 1]

Reachable(n) == Reach(n, Self)[Len(n.order)]

Holds(n, r, e) == \E s \in Range(n.subs[r]) : s.prefix = e.prefix /\ s.mask = e.mask

OnList(nb, f, id) == \E i \in 1 .. Len(nb[f]) : nb[f][i].id = id

\* An entry e of the table made from database n and neighbor lists nb is for a
\* subnet of a router dest at the distance it says.
\*   - An own subnet goes out over its interface.  Its next hop is the one that
\*     pwospf_init wrote, unless an LSU named the subnet after it had gone: then
\*     somebody is known at its other end, and the next hop is garbage.
\*   - Any other goes to a neighbor one link nearer to dest, over the interface that
\*     lists it.  Only if a neighbor one link nearer is on no list are next hop and
\*     interface zero.
EntrySound(n, nb, e) ==
    \E dest \in Range(n.order) :
        /\ Holds(n, dest, e) /\ At(n, Self, dest, e.hops)
        /\ e.hops = 0 =>
             /\ e.iface \in IfaceSet /\ IfPrefix[e.iface] = e.prefix
             /\ \/ e.via = Self
                \/ /\ e.via = Unwritten
                   /\ \E s \in Range(n.subs[Self]) : s.prefix = e.prefix /\ s.rid # NoRid
        /\ e.hops > 0 =>
             \E hop \in Range(n.adj[Self]) :
                /\ At(n, hop, dest, e.hops - 1)
                /\ IF \E f \in IfaceSet : OnList(nb, f, hop)
                   THEN e.via = hop /\ OnList(nb, e.iface, hop)
                   ELSE e.via = NoRid /\ e.iface = NoIface

EntryNearest(n, e) ==
    \A r \in Range(n.order) : Holds(n, r, e) =>
        \E k \in e.hops .. Len(n.order) : At(n, Self, r, k)

Served(n, ft, r) ==
    \A s \in Range(n.subs[r]) : \E e \in Range(ft) : e.prefix = s.prefix /\ e.mask = s.mask

\* dijkstra and update_ftable have just run: in AddToTop, and in
\* CheckTopInvalid when a router went.
Recomputes ==
    \/ main.pc = "add" /\ main'.pc = "setseq"
    \/ net'.order # net.order

\* Whenever the table is rebuilt, each entry leads over a shortest path as far as its
\* next hop is known: EntrySound says when it is garbage and when it is zero.  No
\* (prefix, mask) has two entries, and if every known router can be reached then
\* every subnet has its entry, for the nearest router (top_info.c:672-964).
TableIsShortestPaths ==
    [][Recomputes =>
         /\ \A e \in Range(ftable') : EntrySound(net', nbrs', e)
         /\ NoRepeat([i \in 1 .. Len(ftable') |-> <<ftable'[i].prefix, ftable'[i].mask>>])
         /\ Range(net'.order) \subseteq Reachable(net') =>
              /\ \A e \in Range(ftable') : EntryNearest(net', e)
              /\ \A r \in Range(net'.order) : Served(net', ftable', r)]_vars

(***************************************************************************)
(* What a step may never do.                                               *)
(***************************************************************************)
\* The state in which pruning goes wrong: the router has a subnet with nobody at its
\* other end that the LSU leaves out, and the LSU has another one with nobody there.
\* remove_rt_sn_using_id(0) may then take the wrong one of the two out, and move a
\* link to where the loop has already been.
PrunesById ==
    /\ \E ad \in Range(main.ads) : ad.rid = NoRid
    /\ \E s \in Range(net.subs[main.src]) : s.rid = NoRid /\ ~Contains(main.ads, s)

\* Once TOP_INITIALIZATION is over, the links an LSU leaves its router with
\* are links it advertised, and a link it no longer advertises is gone at both
\* ends (top_info.c:308-328), unless PrunesById: then the code does not do what the
\* comment at top_info.c:306 says, see UnadvertisedSubnetDeleted.
LsuReplacesLinks ==
    [][main.pc = "add" /\ InitOver /\ main'.pc = "setseq" /\ ~PrunesById =>
         /\ \A s \in Range(net'.subs[main.src]) : s.rid # NoRid => Contains(main.ads, s)
         /\ \A s \in Range(net.subs[main.src]) :
              (\A ad \in Range(main.ads) : ad.prefix # s.prefix /\ ad.rid # s.rid) =>
                  /\ ~Contains(net'.adj[main.src], s.rid)
                  /\ s.rid \in Known => ~Contains(net'.adj[s.rid], main.src)]_vars

\* check_top_invalid removes exactly the routers that timed out, and leaves no
\* adjacency or subnet that names one of them (top_info.c:61-109, 186-215).
TimeoutLeavesNoTrace ==
    [][beat.at = "check" /\ beat'.at = "lsu" =>
         /\ Range(net'.order) = {r \in Known : ~TimedOut(net, r)}
         /\ \A r \in Known \ Range(net'.order), q \in Range(net'.order) :
              /\ ~Contains(net'.adj[q], r)
              /\ \A s \in Range(net'.subs[q]) : s.rid # r]_vars

(***************************************************************************)
(* Liveness.                                                               *)
(***************************************************************************)
\* An LSU sent by r, or that names r, comes in.
HearOf(r) ==
    /\ main.pc = "idle" /\ main'.pc = "compare"
    /\ main'.src = r \/ \E ad \in Range(main'.ads) : ad.rid = r

\* A router nobody sends or advertises any more is forgotten: the duplicate
\* or late LSUs of others cannot keep it (top_info.c:61-109, 402).
SilentRouterForgotten ==
    \A r \in Remote : []<><<HearOf(r)>>_vars \/ <>[](r \notin Known)

(***************************************************************************)
(* What the documentation says.                                            *)
(***************************************************************************)
\* README: "The LSU includes advertisements for each of its subnets' that are
\* known to have a neighbor router connected" (generate_adv, lsu.c:303-340).
LsuListsNeighborSubnets ==
    [][\A w \in wire' : w.kind = "lsu" /\ w.src = Self =>
         \A f \in IfaceSet : nbrs[f] # <<>> =>
             \E ad \in Range(w.ads) : ad.prefix = IfPrefix[f]]_vars

\* top_info.c:306: "check host's subnets. If any don't have a corresponding
\* advertisement, delete."
UnadvertisedSubnetDeleted ==
    [][main.pc = "add" /\ InitOver /\ main'.pc = "setseq" =>
         Range(net'.subs[main.src]) \subseteq Range(main.ads)]_vars

\* top_info.c:391: "Adds subnets received in a LSU from the host router."
AdvertisedSubnetAdded ==
    [][main.pc = "add" /\ ~InitOver /\ main'.pc = "setseq" =>
         \A ad \in Range(main.ads) : \E s \in Range(net'.subs[main.src]) :
             s.prefix = ad.prefix /\ s.mask = ad.mask]_vars

\* top_info.c:395: "Adds the reverse subnet to router identified by the rid in
\* the subnet."
ReverseSubnetAdded ==
    [][main.pc = "add" /\ ~InitOver /\ main'.pc = "setseq" =>
         \A ad \in Range(main.ads) :
             ad.rid # NoRid /\ Contains(net'.subs[main.src], ad) =>
                 Contains(net'.subs[ad.rid], [ad EXCEPT !.rid = main.src])]_vars

\* README: "the shortest path from the host router to each subnet in the
\* topology. These shortest paths are then added to the dynamic forwarding
\* table."  A router that can be reached has its subnets in the new table.
ReachableSubnetsServed ==
    [][Recomputes =>
         \A r \in Range(net'.order) \cap Reachable(net') : Served(net', ftable', r)]_vars

\* README: "we use mutexes to protect and serialize access to these shared
\* resources."  get_sequence reads last_seq after its unlock (top_info.c:977).
NoReadAfterFree == ~ReadsFreedRouter

\* README: "After TOP_INITIALIZATION seconds, subnets and adjacencies are
\* deleted based on the absence of advertisements are HELLO packets."
SilentNeighborDropped ==
    \A f \in IfaceSet :
        []<><<nbrs'[f] # nbrs[f] /\ ~Tick>>_vars \/ <>[](nbrs[f] = <<>>)
=============================================================================
