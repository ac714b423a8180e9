------------------------------- MODULE TopInfo -------------------------------
(***************************************************************************)
(* The topology database of one PWOSPF router (top_info.c): the list of    *)
(* known routers, each with its adjacencies, subnets, expiry and last LSU  *)
(* sequence number, and the functions that change it.  Every operator      *)
(* takes the database and returns the database the C function leaves.      *)
(*                                                                         *)
(* An absolute time is kept as the time that remains until it: "expired <= *)
(* now" is exp <= 0.  A pointer to a struct router is the router's id; the *)
(* C code compares routers by rid only, and the invariant AdjacencyKnown   *)
(* of module Pwospf is what makes an id as good as the pointer.            *)
(* The heap arrays are sequences: their growth (realloc) is not here.      *)
(***************************************************************************)
EXTENDS Integers, Sequences, SequencesExt

CONSTANTS Self,         \* this_router->rid
          Routers,      \* every router id that can occur, Self among them
          NoRid,        \* r_id 0: nobody is known at the other end of a subnet
          Unwritten,    \* a next hop in memory that nobody wrote
          Ifaces,       \* the interfaces of this router, in list order
          NoIface,      \* a zeroed interface name
          IfPrefix,     \* IfPrefix[i]: address & mask of interface i
          RouterLife    \* 3 * OSPF_DEFAULT_LSUINT, in ticks

ASSUME TopInfoAssumption ==
    /\ Self \in Routers /\ NoRid \notin Routers /\ Unwritten \notin Routers \cup {NoRid}
    /\ RouterLife \in Nat \ {0}

(***************************************************************************)
(* An operator whose name ends in Bug is the operator after it with one    *)
(* mistake; nothing here uses it.  It is there to see that a property can  *)
(* tell the two apart.                                                     *)
(***************************************************************************)

(***************************************************************************)
(* Arrays kept packed: the last element moves into the freed slot.         *)
(***************************************************************************)
SwapRemove(s, i) ==
    [j \in 1 .. Len(s) - 1 |-> IF j = i THEN s[Len(s)] ELSE s[j]]

\* Index 0 is "not found".
TakeOut(s, i) == IF i = 0 THEN s ELSE SwapRemove(s, i)

RemoveElement(s, e) == TakeOut(s, SelectInSeq(s, LAMBDA x : x = e))

RemoveSubnetWithId(s, id) == TakeOut(s, SelectInSeq(s, LAMBDA sub : sub.rid = id))

remove_rt_sn_using_id(net, r, id) ==
    [net EXCEPT !.subs[r] = RemoveSubnetWithId(@, id)]

remove_rt_adj_using_idBug(net, r, id) == net

remove_rt_adj_using_id(net, r, id) ==
    [net EXCEPT !.adj[r] = RemoveElement(@, id)]

remove_subnet_from_router(net, r, sub) ==
    [net EXCEPT !.subs[r] = RemoveElement(@, sub),
                !.adj[r] = IF sub.rid = NoRid THEN @
                           ELSE RemoveElement(@, sub.rid)]

adj_list_contains(net, r) == Contains(net.order, r)

\* Position of the first subnet with that prefix, 0 if there is none.
router_contains_subnet(net, r, prefix) ==
    SelectInSeq(net.subs[r], LAMBDA s : s.prefix = prefix)

add_new_route(net, r, sub) == [net EXCEPT !.subs[r] = Append(@, sub)]

add_new_routerBug(net, r) ==
    [net EXCEPT !.order = <<r>> \o @, !.adj[r] = <<>>, !.subs[r] = <<>>,
                !.exp[r] = RouterLife, !.seq[r] = 0]

add_new_router(net, r) ==
    [net EXCEPT !.order = Append(@, r), !.adj[r] = <<>>, !.subs[r] = <<>>,
                !.exp[r] = RouterLife, !.seq[r] = 0]

\* The database without routers; the fields of an unknown router are blank.
EmptyNetwork ==
    [order |-> <<>>, adj |-> [r \in Routers |-> <<>>],
     subs |-> [r \in Routers |-> <<>>], exp |-> [r \in Routers |-> 0],
     seq |-> [r \in Routers |-> 0]]

add_adjacency(net, r, other) ==
    IF Contains(net.adj[r], other) THEN net
    ELSE [net EXCEPT !.adj[r] = Append(@, other)]

(***************************************************************************)
(* The second half of the loop body of add_to_existing_router: the router  *)
(* named by the advertisement, the adjacencies, and the opposite subnet.   *)
(* In the last case the opposite subnet is not in the array, so only the   *)
(* adjacency con -> host goes.                                             *)
(***************************************************************************)
Connect(net, host, ad) ==
    LET con == ad.rid
        opp == [ad EXCEPT !.rid = host]
        known == IF adj_list_contains(net, con) THEN net
                 ELSE add_new_router(net, con)
        linked == add_adjacency(add_adjacency(known, host, con), con, host)
        k == router_contains_subnet(linked, con, ad.prefix)
    IN  IF Contains(linked.subs[con], opp) THEN linked
        ELSE IF k = 0 THEN add_new_route(linked, con, opp)
        ELSE IF linked.subs[con][k].rid = NoRid
             THEN [linked EXCEPT !.subs[con][k].rid = host]
             ELSE remove_subnet_from_router(linked, con, opp)

\* The body of the loop over the advertisements.
AddAdvert(net, host, ad) ==
    LET k == router_contains_subnet(net, host, ad.prefix)
        old == net.subs[host][k]
        keepsBoth == /\ ad.mask # old.mask
                     /\ ad.rid = NoRid \/ old.rid = NoRid
        listed == IF Contains(net.subs[host], ad) THEN net
                  ELSE IF k = 0 \/ keepsBoth THEN add_new_route(net, host, ad)
                  ELSE [net EXCEPT !.subs[host][k].rid = ad.rid]
        conflict == /\ ~Contains(net.subs[host], ad)
                    /\ k # 0 /\ ~keepsBoth /\ old.rid # NoRid
    IN  IF conflict THEN remove_subnet_from_router(net, host, old)
        ELSE IF ad.rid = NoRid THEN listed
        ELSE Connect(listed, host, ad)

add_to_existing_router(net, host, ads) ==
    FoldLeft(LAMBDA n, ad : AddAdvert(n, host, ad),
             [net EXCEPT !.exp[host] = RouterLife], ads)

(***************************************************************************)
(* add_to_top's loop over the host's subnets once the topology has had     *)
(* TOP_INITIALIZATION seconds: st.i is the loop index.  The subnet removed *)
(* is the first with the unadvertised subnet's r_id, and each round either *)
(* advances i or shortens the array, so there are Len(subs[host]) rounds.  *)
(***************************************************************************)
sub_in_adv(ads, sub) == Contains(ads, sub)

\* Only the host's side of the link is cut.
PruneRoundBug(st, host, ads) ==
    LET sub == st.net.subs[host][st.i]
        gone == remove_rt_sn_using_id(st.net, host, sub.rid)
    IN  IF sub_in_adv(ads, sub) THEN [st EXCEPT !.i = @ + 1]
        ELSE [st EXCEPT !.net = remove_rt_adj_using_id(gone, host, sub.rid)]

\* The adjacencies are forgotten.
PruneAdjacencyBug(st, host, ads) ==
    LET sub == st.net.subs[host][st.i]
        gone == remove_rt_sn_using_id(st.net, host, sub.rid)
    IN  IF sub_in_adv(ads, sub) THEN [st EXCEPT !.i = @ + 1]
        ELSE IF adj_list_contains(st.net, sub.rid)
             THEN [st EXCEPT !.net = remove_rt_sn_using_id(gone, sub.rid, host)]
        ELSE [st EXCEPT !.net = gone]

PruneRound(st, host, ads) ==
    LET sub == st.net.subs[host][st.i]
        nbor == sub.rid
        gone == remove_rt_sn_using_id(st.net, host, nbor)
        back == remove_rt_sn_using_id(gone, nbor, host)
        apart == remove_rt_adj_using_id(
                     remove_rt_adj_using_id(back, nbor, host), host, nbor)
    IN  IF sub_in_adv(ads, sub) THEN [st EXCEPT !.i = @ + 1]
        ELSE IF adj_list_contains(st.net, nbor) THEN [st EXCEPT !.net = apart]
        ELSE [st EXCEPT !.net = gone]

Prune(net, host, ads) ==
    FoldLeft(LAMBDA st, s : PruneRound(st, host, ads),
             [net |-> net, i |-> 1], net.subs[host]).net

\* add_to_top up to its call of dijkstra; initOver is time > init_time.
add_to_top(net, host, ads, initOver) ==
    LET known == IF adj_list_contains(net, host) THEN net
                 ELSE add_new_router(net, host)
        added == add_to_existing_router(known, host, ads)
    IN  IF initOver THEN Prune(added, host, ads) ELSE added

\* The connecting routes of the others are left.
remove_from_topoBug(net, rt) ==
    LET apart(n, r) == remove_rt_adj_using_id(n, r, rt)
        cleared == FoldLeft(apart, [net EXCEPT !.subs[rt] = <<>>], net.order)
    IN  [cleared EXCEPT !.order = RemoveFirst(@, rt),
                        !.adj[rt] = <<>>, !.exp[rt] = 0, !.seq[rt] = 0]

remove_from_topo(net, rt) ==
    LET apart(n, r) == remove_rt_adj_using_id(
                           remove_rt_sn_using_id(n, r, rt), r, rt)
        cleared == FoldLeft(apart, [net EXCEPT !.subs[rt] = <<>>], net.order)
    IN  [cleared EXCEPT !.order = RemoveFirst(@, rt),
                        !.adj[rt] = <<>>, !.exp[rt] = 0, !.seq[rt] = 0]

\* A neighbor is left to the HELLO code.
TimedOutBug(net, r) == net.exp[r] <= 0 /\ r # Self /\ ~Contains(net.adj[Self], r)

TimedOut(net, r) == net.exp[r] <= 0 /\ r # Self

\* The walk ends at the first router it frees.
RemoveTimedOutBug(net) ==
    LET i == SelectInSeq(net.order, LAMBDA r : TimedOut(net, r))
    IN  IF i = 0 THEN net ELSE remove_from_topo(net, net.order[i])

\* The loop of check_top_invalid; dijkstra and update_ftable follow in Pwospf.
RemoveTimedOut(net) ==
    FoldLeft(LAMBDA n, r : IF TimedOut(n, r) THEN remove_from_topo(n, r) ELSE n,
             net, net.order)

set_sequence(net, r, s) ==
    IF adj_list_contains(net, r) THEN [net EXCEPT !.seq[r] = s] ELSE net

(***************************************************************************)
(* dijkstra: every link costs 1.  dist -1 is "not reached", prev NoRid is  *)
(* NULL.  The first router of the list wins a tie, and a later one must be *)
(* strictly nearer.                                                        *)
(***************************************************************************)
SmallestUnknown(net, dj) ==
    LET open == {r \in Routers : /\ adj_list_contains(net, r)
                                 /\ ~dj.known[r] /\ dj.dist[r] >= 0}
        nearest == {r \in open : \A q \in open : dj.dist[r] <= dj.dist[q]}
        i == SelectInSeq(net.order, LAMBDA r : r \in nearest)
    IN  IF i = 0 THEN NoRid ELSE net.order[i]

\* A known distance is overwritten by a longer one.
RelaxBug(dj, u, w) ==
    IF ~dj.known[w]
    THEN [dj EXCEPT !.dist[w] = dj.dist[u] + 1, !.prev[w] = u]
    ELSE dj

Relax(dj, u, w) ==
    IF ~dj.known[w] /\ (dj.dist[u] + 1 < dj.dist[w] \/ dj.dist[w] < 0)
    THEN [dj EXCEPT !.dist[w] = dj.dist[u] + 1, !.prev[w] = u]
    ELSE dj

Visit(net, dj) ==
    LET u == SmallestUnknown(net, dj)
    IN  IF u = NoRid THEN dj
        ELSE FoldLeft(LAMBDA d, w : Relax(d, u, w),
                      [dj EXCEPT !.known[u] = TRUE], net.adj[u])

dijkstra(net) ==
    LET start == [known |-> [r \in Routers |-> FALSE],
                  dist |-> [[r \in Routers |-> -1] EXCEPT ![Self] = 0],
                  prev |-> [r \in Routers |-> NoRid]]
    IN  FoldLeft(LAMBDA dj, r : Visit(net, dj), start, net.order)

(***************************************************************************)
(* find_next_hop follows prev from dest to the router whose prev is Self.  *)
(* The result has hops 0 for Self itself and hops -1 when the chain ends   *)
(* in NULL before it meets Self.                                           *)
(***************************************************************************)
find_next_hop(net, dj, dest) ==
    LET back(st, r) == IF dj.prev[st.rid] \in {NoRid, Self} THEN st
                       ELSE [rid |-> dj.prev[st.rid], hops |-> st.hops + 1]
        last == FoldLeft(back, [rid |-> dest, hops |-> 1], net.order)
    IN  IF dest = Self THEN [rid |-> NoRid, hops |-> 0]
        ELSE IF dj.prev[last.rid] = NoRid THEN [rid |-> NoRid, hops |-> -1]
        ELSE last

ftable_contains(ft, prefix, mask) ==
    SelectInSeq(ft, LAMBDA e : e.prefix = prefix /\ e.mask = mask)

\* NoIface is the NULL on which the caller's assert stops the program.
get_subnet_if(prefix) ==
    LET i == SelectInSeq(Ifaces, LAMBDA f : IfPrefix[f] = prefix)
    IN  IF i = 0 THEN NoIface ELSE Ifaces[i]

\* [iface, nbr] of the first interface with neighbor id; zeroed if none has it.
get_if_and_neighbor(nbrs, id) ==
    LET i == SelectInSeq(Ifaces, LAMBDA f : \E j \in 1 .. Len(nbrs[f]) :
                                                nbrs[f][j].id = id)
    IN  IF i = 0 THEN [iface |-> NoIface, nbr |-> NoRid]
        ELSE [iface |-> Ifaces[i], nbr |-> id]

\* The own subnets whose next_hop is the one pwospf_init wrote.  A subnet that went
\* and came back is a copy of an advertisement, whose next_hop handle_lsu never
\* writes; add_to_top and handle_HELLO take nothing out before they add.
StillWritten(written, net) ==
    {p \in written : router_contains_subnet(net, Self, p) # 0}

\* An own subnet is reached directly, over its own interface: via Self stands for the
\* address at its other end, if the next hop was written.
OwnEntry(sub, written) ==
    [prefix |-> sub.prefix, mask |-> sub.mask,
     via |-> IF sub.prefix \in written THEN Self ELSE Unwritten,
     iface |-> get_subnet_if(sub.prefix), hops |-> 0]

\* The first router of the list with the subnet keeps it.
InstallBug(ft, e) ==
    IF ftable_contains(ft, e.prefix, e.mask) = 0 THEN Append(ft, e) ELSE ft

Install(ft, e) ==
    LET k == ftable_contains(ft, e.prefix, e.mask)
    IN  IF k = 0 THEN Append(ft, e)
        ELSE IF ft[k].hops > e.hops \/ e.hops = 0 THEN [ft EXCEPT ![k] = e]
        ELSE ft

(***************************************************************************)
(* update_ftable: the table is rebuilt from the list of routers in list    *)
(* order.  At the first router that cannot be reached the function         *)
(* returns: st.stop.                                                       *)
(***************************************************************************)
RouterEntries(st, net, dj, nbrs, written, dest) ==
    LET hop == find_next_hop(net, dj, dest)
        out == get_if_and_neighbor(nbrs, hop.rid)
        entry(sub) == IF hop.hops = 0 THEN OwnEntry(sub, written)
                      ELSE [prefix |-> sub.prefix, mask |-> sub.mask,
                            via |-> out.nbr, iface |-> out.iface,
                            hops |-> hop.hops]
    IN  IF st.stop \/ hop.hops = -1 THEN [st EXCEPT !.stop = TRUE]
        ELSE [st EXCEPT !.ft = FoldLeft(LAMBDA t, s : Install(t, entry(s)),
                                        @, net.subs[dest])]

update_ftable(net, dj, nbrs, written) ==
    FoldLeft(LAMBDA st, dest : RouterEntries(st, net, dj, nbrs, written, dest),
             [ft |-> <<>>, stop |-> FALSE], net.order).ft

\* dijkstra(sr, this_router); update_ftable(sr);
Recompute(net, nbrs, written) == update_ftable(net, dijkstra(net), nbrs, written)
==============================================================================
