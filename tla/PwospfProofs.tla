---------------------------- MODULE PwospfProofs ----------------------------
(***************************************************************************)
(* AdjacencyKnown, OwnSubnetsLocal, TypeOK and, where links agree,         *)
(* AdjacencyMatchesSubnets and TimeoutLeavesNoTrace, for any number of     *)
(* routers, interfaces and LSUs: every function of top_info.c and hello.c  *)
(* that changes one link keeps them, and so do the loops over              *)
(* advertisements, subnets, neighbors and routers, which are walks of a    *)
(* function over a list (ListFacts).                                       *)
(***************************************************************************)
EXTENDS Pwospf, ListFacts, TLAPS, SequenceTheorems

\* The database is a record of functions, and a graph: AdjacencyKnown of n.
Graph(n) ==
    /\ DOMAIN n = {"order", "adj", "subs", "exp", "seq"}
    /\ n.order \in Seq(Routers)
    /\ n.adj \in [Routers -> Seq(Routers)]
    /\ NoRepeat(n.order)
    /\ \A r \in Range(n.order) :
           NoRepeat(n.adj[r]) /\ Range(n.adj[r]) \subseteq Range(n.order) \ {r}

\* Membership in a sequence, both ways of saying it.
LEMMA RangeIsContains ==
    ASSUME NEW S, NEW s \in Seq(S), NEW e
    PROVE  /\ Range(s) \in SUBSET S
           /\ e \in Range(s) <=> \E i \in 1 .. Len(s) : s[i] = e
           /\ Contains(s, e) <=> e \in Range(s)
<1>1. Range(s) = {s[i] : i \in 1 .. Len(s)}
  BY LenProperties DEF Range
<1>2. \A i \in 1 .. Len(s) : s[i] \in S
  OBVIOUS
<1> QED BY <1>1, <1>2 DEF Contains

\* A packed array without one of its elements: the last one fills the slot.
LEMMA SwapRemoveRemoves ==
    ASSUME NEW S, NEW s \in Seq(S), NEW k \in 1 .. Len(s), NoRepeat(s)
    PROVE  /\ SwapRemove(s, k) \in Seq(S)
           /\ NoRepeat(SwapRemove(s, k))
           /\ Range(SwapRemove(s, k)) = Range(s) \ {s[k]}
<1> DEFINE n == Len(s)
           t == SwapRemove(s, k)
<1>1. n \in Nat /\ n - 1 \in Nat /\ n \in 1 .. n /\ \A i \in 1 .. n : s[i] \in S
  BY LenProperties
<1>2. t = [j \in 1 .. n - 1 |-> IF j = k THEN s[n] ELSE s[j]]
  BY DEF SwapRemove
<1>3. t \in [1 .. n - 1 -> S]
  BY <1>1, <1>2
<1>4. t \in Seq(S) /\ Len(t) = n - 1
  BY <1>1, <1>3
<1>5. \A j \in 1 .. n - 1 : t[j] = IF j = k THEN s[n] ELSE s[j]
  BY <1>2
<1> HIDE DEF t
<1>6. NoRepeat(t)
  <2> SUFFICES ASSUME NEW i \in 1 .. n - 1, NEW j \in 1 .. n - 1, t[i] = t[j]
               PROVE  i = j
    BY <1>4 DEF NoRepeat
  <2>1. i \in 1 .. n /\ j \in 1 .. n /\ i # n /\ j # n
    BY <1>1
  <2> QED BY <1>1, <1>5, <2>1 DEF NoRepeat
<1>7. ASSUME NEW e PROVE e \in Range(t) <=> e \in Range(s) \ {s[k]}
  <2>1. e \in Range(t) <=> \E j \in 1 .. n - 1 : t[j] = e
    BY <1>4, RangeIsContains
  <2>2. e \in Range(s) <=> \E j \in 1 .. n : s[j] = e
    BY RangeIsContains
  <2>3. ASSUME NEW j \in 1 .. n - 1, t[j] = e PROVE e \in Range(s) \ {s[k]}
    <3>1. j \in 1 .. n /\ j # n
      BY <1>1
    <3> QED BY <1>1, <1>5, <2>2, <2>3, <3>1 DEF NoRepeat
  <2>4. ASSUME NEW j \in 1 .. n, s[j] = e, e # s[k] PROVE \E i \in 1 .. n - 1 : t[i] = e
    <3>1. CASE j = n
      <4>1. k # n /\ k \in 1 .. n - 1
        BY <1>1, <2>4, <3>1
      <4> QED BY <1>5, <2>4, <3>1, <4>1
    <3>2. CASE j # n
      <4>1. j \in 1 .. n - 1 /\ j # k
        BY <1>1, <2>4, <3>2
      <4> QED BY <1>5, <2>4, <4>1
    <3> QED BY <3>1, <3>2
  <2> QED BY <2>1, <2>2, <2>3, <2>4
<1> QED BY <1>4, <1>6, <1>7 DEF t

\* Taking an element out of a packed array leaves the others, each once.
LEMMA RemoveElementRemoves ==
    ASSUME NEW S, NEW s \in Seq(S), NEW e, NoRepeat(s)
    PROVE  /\ RemoveElement(s, e) \in Seq(S)
           /\ NoRepeat(RemoveElement(s, e))
           /\ Range(RemoveElement(s, e)) = Range(s) \ {e}
<1> DEFINE I == {i \in 1 .. Len(s) : s[i] = e}
           k == SelectInSeq(s, LAMBDA x : x = e)
<1>1. Len(s) \in Nat
  BY LenProperties
<1>2. k = IF I # {} THEN Min(I) ELSE 0
  BY DEF SelectInSeq
<1>3. RemoveElement(s, e) = IF k = 0 THEN s ELSE SwapRemove(s, k)
  BY DEF RemoveElement, TakeOut
<1> HIDE DEF k
<1>4. CASE I # {}
  <2>1. Min(I) \in I
    <3>1. I \in SUBSET Nat
      BY <1>1
    <3> HIDE DEF I
    <3> QED BY <1>4, <3>1, MinExists
  <2>2. k \in 1 .. Len(s) /\ s[k] = e /\ k # 0
    BY <1>1, <1>2, <1>4, <2>1
  <2> QED BY <1>3, <2>2, SwapRemoveRemoves
<1>5. CASE I = {}
  <2>1. e \notin Range(s)
    BY <1>5, RangeIsContains
  <2>2. RemoveElement(s, e) = s
    BY <1>2, <1>3, <1>5
  <2> QED BY <2>1, <2>2
<1> QED BY <1>4, <1>5

\* A database that differs in subnets, times or numbers only is the same graph.
LEMMA SameGraph ==
    ASSUME NEW n, NEW m, Graph(n), DOMAIN m = DOMAIN n, m.order = n.order, m.adj = n.adj
    PROVE  Graph(m)
  BY DEF Graph

\* The parts of Graph, with known routers as members of the list.
LEMMA GraphShape ==
    ASSUME NEW n, Graph(n)
    PROVE  /\ DOMAIN n = {"order", "adj", "subs", "exp", "seq"}
           /\ n.order \in Seq(Routers) /\ n.adj \in [Routers -> Seq(Routers)]
           /\ Range(n.order) \subseteq Routers
           /\ \A r \in Routers : adj_list_contains(n, r) <=> r \in Range(n.order)
           /\ \A r \in Range(n.order) :
                  /\ n.adj[r] \in Seq(Routers) /\ NoRepeat(n.adj[r])
                  /\ Range(n.adj[r]) \subseteq Range(n.order) \ {r}
<1>1. /\ DOMAIN n = {"order", "adj", "subs", "exp", "seq"}
      /\ n.order \in Seq(Routers) /\ n.adj \in [Routers -> Seq(Routers)]
      /\ \A r \in Range(n.order) :
             NoRepeat(n.adj[r]) /\ Range(n.adj[r]) \subseteq Range(n.order) \ {r}
  BY DEF Graph
<1>2. Range(n.order) \subseteq Routers
  BY <1>1, RangeIsContains
<1>3. \A r \in Routers : adj_list_contains(n, r) <=> r \in Range(n.order)
  BY <1>1, RangeIsContains DEF adj_list_contains
<1> QED BY <1>1, <1>2, <1>3

\* remove_rt_adj_using_id: the adjacency goes, the others stay.
LEMMA UnlinkKeeps ==
    ASSUME NEW n, Graph(n), NEW r \in Range(n.order), NEW id
    PROVE  /\ Graph(remove_rt_adj_using_id(n, r, id))
           /\ remove_rt_adj_using_id(n, r, id).order = n.order
           /\ Range(remove_rt_adj_using_id(n, r, id).adj[r]) = Range(n.adj[r]) \ {id}
           /\ \A q \in Routers \ {r} :
                  remove_rt_adj_using_id(n, r, id).adj[q] = n.adj[q]
<1> DEFINE a == RemoveElement(n.adj[r], id)
           m == remove_rt_adj_using_id(n, r, id)
<1>1. /\ r \in Routers /\ n.adj[r] \in Seq(Routers) /\ NoRepeat(n.adj[r])
      /\ Range(n.adj[r]) \subseteq Range(n.order) \ {r}
      /\ DOMAIN n = {"order", "adj", "subs", "exp", "seq"}
      /\ n.adj \in [Routers -> Seq(Routers)]
  BY GraphShape
<1>2. /\ a \in Seq(Routers) /\ NoRepeat(a) /\ Range(a) = Range(n.adj[r]) \ {id}
  BY <1>1, RemoveElementRemoves
<1>3. /\ DOMAIN m = DOMAIN n /\ m.order = n.order /\ m.adj = [n.adj EXCEPT ![r] = a]
  BY <1>1 DEF remove_rt_adj_using_id
<1> HIDE DEF a, m
<1>4. /\ m.adj \in [Routers -> Seq(Routers)] /\ m.adj[r] = a
      /\ \A q \in Routers \ {r} : m.adj[q] = n.adj[q]
  BY <1>1, <1>2, <1>3
<1>5. \A q \in Range(n.order) :
          NoRepeat(m.adj[q]) /\ Range(m.adj[q]) \subseteq Range(n.order) \ {q}
  BY <1>1, <1>2, <1>4, GraphShape
<1>6. Graph(m)
  BY <1>3, <1>4, <1>5 DEF Graph
<1> QED BY <1>2, <1>3, <1>4, <1>6 DEF m

\* Changes of the subnets leave the graph alone.
LEMMA SubnetsKeep ==
    ASSUME NEW n, Graph(n), NEW r, NEW v
    PROVE  LET m == [n EXCEPT !.subs[r] = v]
           IN  Graph(m) /\ m.order = n.order /\ m.adj = n.adj
<1> DEFINE m == [n EXCEPT !.subs[r] = v]
<1>1. DOMAIN n = {"order", "adj", "subs", "exp", "seq"}
  BY GraphShape
<1>2. DOMAIN m = DOMAIN n /\ m.order = n.order /\ m.adj = n.adj
  BY <1>1
<1> HIDE DEF m
<1> QED BY <1>2, SameGraph DEF m

\* remove_subnet_from_router: a subnet goes, and with it the adjacency it names.
LEMMA RemoveSubnetKeeps ==
    ASSUME NEW n, Graph(n), NEW r \in Range(n.order), NEW sub
    PROVE  /\ Graph(remove_subnet_from_router(n, r, sub))
           /\ remove_subnet_from_router(n, r, sub).order = n.order
<1> DEFINE a == IF sub.rid = NoRid THEN n.adj[r] ELSE RemoveElement(n.adj[r], sub.rid)
           m == remove_subnet_from_router(n, r, sub)
<1>1. /\ r \in Routers /\ n.adj[r] \in Seq(Routers) /\ NoRepeat(n.adj[r])
      /\ Range(n.adj[r]) \subseteq Range(n.order) \ {r}
      /\ DOMAIN n = {"order", "adj", "subs", "exp", "seq"}
      /\ n.adj \in [Routers -> Seq(Routers)]
  BY GraphShape
<1>2. /\ a \in Seq(Routers) /\ NoRepeat(a) /\ Range(a) \subseteq Range(n.adj[r])
  BY <1>1, RemoveElementRemoves
<1>3. /\ DOMAIN m = DOMAIN n /\ m.order = n.order /\ m.adj = [n.adj EXCEPT ![r] = a]
  <2>1. m = [n EXCEPT !.subs[r] = RemoveElement(n.subs[r], sub), !.adj[r] = a]
    BY <1>1, Zenon DEF remove_subnet_from_router
  <2> HIDE DEF m, a
  <2> QED BY <1>1, <2>1
<1> HIDE DEF a, m
<1>4. /\ m.adj \in [Routers -> Seq(Routers)] /\ m.adj[r] = a
      /\ \A q \in Routers \ {r} : m.adj[q] = n.adj[q]
  BY <1>1, <1>2, <1>3
<1>5. \A q \in Range(n.order) :
          NoRepeat(m.adj[q]) /\ Range(m.adj[q]) \subseteq Range(n.order) \ {q}
  BY <1>1, <1>2, <1>4, GraphShape
<1>6. Graph(m)
  BY <1>3, <1>4, <1>5 DEF Graph
<1> QED BY <1>3, <1>6 DEF m

\* add_adjacency of two known routers.
LEMMA AdjacencyKeeps ==
    ASSUME NEW n, Graph(n), NEW r \in Range(n.order), NEW o \in Range(n.order) \ {r}
    PROVE  Graph(add_adjacency(n, r, o)) /\ add_adjacency(n, r, o).order = n.order
<1> DEFINE a == IF Contains(n.adj[r], o) THEN n.adj[r] ELSE Append(n.adj[r], o)
           m == add_adjacency(n, r, o)
<1>1. /\ r \in Routers /\ o \in Routers /\ n.adj[r] \in Seq(Routers) /\ NoRepeat(n.adj[r])
      /\ Range(n.adj[r]) \subseteq Range(n.order) \ {r}
      /\ DOMAIN n = {"order", "adj", "subs", "exp", "seq"}
      /\ n.adj \in [Routers -> Seq(Routers)]
  BY GraphShape
<1>2. a \in Seq(Routers) /\ NoRepeat(a) /\ Range(a) \subseteq Range(n.order) \ {r}
  <2>1. CASE Contains(n.adj[r], o)
    BY <1>1, <2>1
  <2>2. CASE ~Contains(n.adj[r], o)
    <3>1. /\ a \in Seq(Routers) /\ Len(a) = Len(n.adj[r]) + 1 /\ a[Len(n.adj[r]) + 1] = o
          /\ Len(n.adj[r]) \in Nat /\ \A i \in 1 .. Len(n.adj[r]) : a[i] = n.adj[r][i]
      BY <1>1, <2>2
    <3>2. \A i \in 1 .. Len(a) : i \in 1 .. Len(n.adj[r]) \/ i = Len(n.adj[r]) + 1
      BY <3>1
    <3> HIDE DEF a
    <3>3. \A i \in 1 .. Len(n.adj[r]) : n.adj[r][i] # o /\ n.adj[r][i] \in Range(n.order) \ {r}
      BY <1>1, <2>2, RangeIsContains DEF Contains
    <3>4. NoRepeat(a)
      BY <1>1, <3>1, <3>2, <3>3 DEF NoRepeat
    <3>5. Range(a) \subseteq Range(n.order) \ {r}
      <4> SUFFICES ASSUME NEW e \in Range(a) PROVE e \in Range(n.order) \ {r}
        OBVIOUS
      <4>1. PICK i \in 1 .. Len(a) : a[i] = e
        BY <3>1, RangeIsContains
      <4> QED BY <3>1, <3>2, <3>3, <4>1
    <3> QED BY <3>1, <3>4, <3>5
  <2> QED BY <2>1, <2>2
<1>3. DOMAIN m = DOMAIN n /\ m.order = n.order /\ m.adj = [n.adj EXCEPT ![r] = a]
  <2>1. CASE Contains(n.adj[r], o)
    <3>1. m = n /\ a = n.adj[r]
      BY <2>1 DEF add_adjacency
    <3> HIDE DEF m, a
    <3> QED BY <1>1, <3>1
  <2>2. CASE ~Contains(n.adj[r], o)
    <3>1. m = [n EXCEPT !.adj[r] = a]
      BY <2>2, Zenon DEF add_adjacency
    <3> HIDE DEF m, a
    <3> QED BY <1>1, <3>1
  <2> QED BY <2>1, <2>2
<1> HIDE DEF a, m
<1>4. /\ m.adj \in [Routers -> Seq(Routers)] /\ m.adj[r] = a
      /\ \A q \in Routers \ {r} : m.adj[q] = n.adj[q]
  BY <1>1, <1>2, <1>3
<1>5. \A q \in Range(n.order) :
          NoRepeat(m.adj[q]) /\ Range(m.adj[q]) \subseteq Range(n.order) \ {q}
  BY <1>1, <1>2, <1>4, GraphShape
<1>6. Graph(m)
  BY <1>3, <1>4, <1>5 DEF Graph
<1> QED BY <1>3, <1>6 DEF m

\* add_new_router: at the end of the list, adjacent to nobody.
LEMMA NewRouterKeeps ==
    ASSUME NEW n, Graph(n), NEW r \in Routers, r \notin Range(n.order)
    PROVE  /\ Graph(add_new_router(n, r))
           /\ Range(add_new_router(n, r).order) = Range(n.order) \cup {r}
<1> DEFINE m == add_new_router(n, r)
           o == Append(n.order, r)
<1>1. /\ DOMAIN n = {"order", "adj", "subs", "exp", "seq"}
      /\ n.order \in Seq(Routers) /\ n.adj \in [Routers -> Seq(Routers)]
      /\ Range(n.order) \subseteq Routers /\ NoRepeat(n.order)
      /\ \A q \in Range(n.order) :
             NoRepeat(n.adj[q]) /\ Range(n.adj[q]) \subseteq Range(n.order) \ {q}
  BY GraphShape DEF Graph
<1>2. /\ DOMAIN m = DOMAIN n /\ m.order = o /\ m.adj = [n.adj EXCEPT ![r] = <<>>]
  BY <1>1 DEF add_new_router
<1>3. /\ o \in Seq(Routers) /\ Len(o) = Len(n.order) + 1 /\ o[Len(n.order) + 1] = r
      /\ Len(n.order) \in Nat /\ \A i \in 1 .. Len(n.order) : o[i] = n.order[i]
  BY <1>1
<1>4. \A i \in 1 .. Len(o) : i \in 1 .. Len(n.order) \/ i = Len(n.order) + 1
  BY <1>3
<1> HIDE DEF o, m
<1>5. \A i \in 1 .. Len(n.order) : n.order[i] # r
  BY <1>1, RangeIsContains
<1>6. NoRepeat(o)
  BY <1>1, <1>3, <1>4, <1>5 DEF NoRepeat
<1>7. Range(o) = Range(n.order) \cup {r}
  <2>1. \A e : e \in Range(o) <=> \E i \in 1 .. Len(o) : o[i] = e
    BY <1>3, RangeIsContains
  <2>2. \A e : e \in Range(n.order) <=> \E i \in 1 .. Len(n.order) : n.order[i] = e
    BY <1>1, RangeIsContains
  <2>3. \A e : e \in Range(o) => e \in Range(n.order) \cup {r}
    BY <1>3, <1>4, <2>1, <2>2
  <2>4. \A e : e \in Range(n.order) => e \in Range(o)
    BY <1>3, <2>1, <2>2
  <2>5. r \in Range(o)
    BY <1>3, <2>1
  <2> QED BY <2>3, <2>4, <2>5
<1>8. m.adj \in [Routers -> Seq(Routers)] /\ m.adj[r] = <<>>
      /\ \A q \in Range(n.order) : m.adj[q] = n.adj[q]
  BY <1>1, <1>2
<1>9. NoRepeat(<<>>) /\ Range(<<>>) = {}
  BY DEF NoRepeat, Range
<1>10. \A q \in Range(o) : NoRepeat(m.adj[q]) /\ Range(m.adj[q]) \subseteq Range(o) \ {q}
  BY <1>1, <1>7, <1>8, <1>9
<1> QED BY <1>1, <1>2, <1>3, <1>6, <1>7, <1>8, <1>10 DEF Graph, m

\* remove_rt_sn_using_id changes subnets only.
LEMMA SubnetGoneKeeps ==
    ASSUME NEW n, Graph(n), NEW r, NEW id
    PROVE  /\ Graph(remove_rt_sn_using_id(n, r, id))
           /\ remove_rt_sn_using_id(n, r, id).order = n.order
  BY SubnetsKeep DEF remove_rt_sn_using_id

\* A link cut at both ends, as handle_HELLO, add_to_top and
\* remove_from_topo do it: subnets first, then the two adjacencies.
LEMMA CutKeeps ==
    ASSUME NEW n, Graph(n), NEW r \in Range(n.order), NEW o \in Range(n.order)
    PROVE  LET m == remove_rt_adj_using_id(remove_rt_adj_using_id(
                        remove_rt_sn_using_id(remove_rt_sn_using_id(n, r, o), o, r),
                        o, r), r, o)
           IN  /\ Graph(m) /\ m.order = n.order
               /\ o \notin Range(m.adj[r]) /\ r \notin Range(m.adj[o])
<1> DEFINE mine == remove_rt_sn_using_id(n, r, o)
           theirs == remove_rt_sn_using_id(mine, o, r)
           half == remove_rt_adj_using_id(theirs, o, r)
           m == remove_rt_adj_using_id(half, r, o)
<1>1. Graph(mine) /\ mine.order = n.order
  BY SubnetGoneKeeps
<1> HIDE DEF mine
<1>2. Graph(theirs) /\ theirs.order = n.order
  BY <1>1, SubnetGoneKeeps
<1> HIDE DEF theirs
<1>3. /\ Graph(half) /\ half.order = n.order /\ r \notin Range(half.adj[o])
  <2>1. Graph(theirs) /\ o \in Range(theirs.order)
    BY <1>2
  <2>2. ASSUME NEW id
        PROVE  /\ Graph(remove_rt_adj_using_id(theirs, o, id))
               /\ remove_rt_adj_using_id(theirs, o, id).order = theirs.order
               /\ Range(remove_rt_adj_using_id(theirs, o, id).adj[o])
                      = Range(theirs.adj[o]) \ {id}
               /\ \A q \in Routers \ {o} :
                      remove_rt_adj_using_id(theirs, o, id).adj[q] = theirs.adj[q]
    BY <2>1, UnlinkKeeps
  <2>3. /\ Graph(half) /\ half.order = theirs.order
        /\ Range(half.adj[o]) = Range(theirs.adj[o]) \ {r}
        /\ \A q \in Routers \ {o} : half.adj[q] = theirs.adj[q]
    BY <2>2
  <2> QED BY <1>2, <2>3
<1> HIDE DEF half
<1>4. /\ Graph(m) /\ m.order = n.order /\ o \notin Range(m.adj[r])
      /\ \A q \in Routers \ {r} : m.adj[q] = half.adj[q]
  <2>1. Graph(half) /\ r \in Range(half.order)
    BY <1>3
  <2>2. /\ Graph(m) /\ m.order = half.order
        /\ Range(m.adj[r]) = Range(half.adj[r]) \ {o}
        /\ \A q \in Routers \ {r} : m.adj[q] = half.adj[q]
    BY <2>1, UnlinkKeeps
  <2> QED BY <1>3, <2>2
<1> HIDE DEF m
<1>5. o \in Routers
  BY GraphShape
<1>6. r \notin Range(m.adj[o])
  BY <1>3, <1>4, <1>5
<1> QED BY <1>4, <1>6 DEF m, half, theirs, mine

\* The graph is the invariant AdjacencyKnown, and holds at the start.
THEOREM GraphIsAdjacencyKnown == (Graph(net) => AdjacencyKnown) /\ (Init => Graph(net))
<1>1. Graph(net) => AdjacencyKnown
  BY DEF Graph, AdjacencyKnown, Known
<1>2. ASSUME Init PROVE Graph(net)
  <2>1. Graph(EmptyNetwork) /\ Self \notin Range(EmptyNetwork.order)
    <3>1. <<>> \in Seq(Routers) /\ NoRepeat(<<>>) /\ Range(<<>>) = {}
      BY DEF NoRepeat, Range
    <3> QED BY <3>1 DEF Graph, EmptyNetwork
  <2>2. Graph(add_new_router(EmptyNetwork, Self))
    BY <2>1, NewRouterKeeps, TopInfoAssumption
  <2>3. net = [add_new_router(EmptyNetwork, Self) EXCEPT !.subs[Self] = OwnSubnets]
    BY <1>2 DEF Init
  <2> QED BY <2>2, <2>3, SubnetsKeep
<1> QED BY <1>1, <1>2

\* handle_HELLO's removal of one silent neighbor (hello.c:67-77).
THEOREM DisconnectKeepsGraph ==
    ASSUME NEW n, Graph(n), Self \in Range(n.order), NEW id
    PROVE  Graph(Disconnect(n, id)) /\ Disconnect(n, id).order = n.order
<1>1. n.order \in Seq(Routers)
  BY GraphShape
<1>2. CASE adj_list_contains(n, id)
  <2>1. id \in Range(n.order)
    BY <1>1, <1>2, RangeIsContains DEF adj_list_contains
  <2> QED BY <1>2, <2>1, CutKeeps DEF Disconnect
<1>3. CASE ~adj_list_contains(n, id)
  BY <1>3, SubnetGoneKeeps DEF Disconnect
<1> QED BY <1>2, <1>3

\* One round of the pruning in add_to_top (top_info.c:311-327).
THEOREM PruneRoundKeepsGraph ==
    ASSUME NEW st, DOMAIN st = {"net", "i"}, Graph(st.net), NEW ads,
           NEW host \in Range(st.net.order)
    PROVE  /\ Graph(PruneRound(st, host, ads).net)
           /\ PruneRound(st, host, ads).net.order = st.net.order
<1> DEFINE sub == st.net.subs[host][st.i]
           nbor == sub.rid
<1>1. st.net.order \in Seq(Routers)
  BY GraphShape
<1>2. CASE sub_in_adv(ads, sub)
  BY <1>2 DEF PruneRound
<1>3. CASE ~sub_in_adv(ads, sub) /\ adj_list_contains(st.net, nbor)
  <2>1. nbor \in Range(st.net.order)
    BY <1>1, <1>3, RangeIsContains DEF adj_list_contains
  <2> DEFINE m == remove_rt_adj_using_id(remove_rt_adj_using_id(
                      remove_rt_sn_using_id(remove_rt_sn_using_id(st.net, host, nbor), nbor, host),
                      nbor, host), host, nbor)
  <2>2. Graph(m) /\ m.order = st.net.order
    BY <2>1, CutKeeps
  <2>3. PruneRound(st, host, ads) = [st EXCEPT !.net = m]
    BY <1>3, Zenon DEF PruneRound
  <2> HIDE DEF m
  <2> QED BY <2>2, <2>3
<1>4. CASE ~sub_in_adv(ads, sub) /\ ~adj_list_contains(st.net, nbor)
  <2> DEFINE m == remove_rt_sn_using_id(st.net, host, nbor)
  <2>1. Graph(m) /\ m.order = st.net.order
    BY SubnetGoneKeeps
  <2>2. PruneRound(st, host, ads) = [st EXCEPT !.net = m]
    BY <1>4, Zenon DEF PruneRound
  <2> HIDE DEF m
  <2> QED BY <2>1, <2>2
<1> QED BY <1>2, <1>3, <1>4

\* The second half of the loop body of add_to_existing_router, for a router
\* that names another one.
LEMMA ConnectKeeps ==
    ASSUME NEW n, Graph(n), NEW host \in Range(n.order), NEW ad,
           ad.rid \in Routers \ {host}
    PROVE  /\ Graph(Connect(n, host, ad))
           /\ Range(Connect(n, host, ad).order) = Range(n.order) \cup {ad.rid}
<1> DEFINE con == ad.rid
           opp == [ad EXCEPT !.rid = host]
           known == IF adj_list_contains(n, con) THEN n ELSE add_new_router(n, con)
           there == add_adjacency(known, host, con)
           linked == add_adjacency(there, con, host)
           k == router_contains_subnet(linked, con, ad.prefix)
           R == Range(n.order) \cup {con}
<1>1. n.order \in Seq(Routers)
  BY GraphShape
<1>2. Graph(known) /\ Range(known.order) = R
  <2>1. CASE adj_list_contains(n, con)
    <3>1. con \in Range(n.order)
      BY <1>1, <2>1, RangeIsContains DEF adj_list_contains
    <3> QED BY <2>1, <3>1
  <2>2. CASE ~adj_list_contains(n, con)
    <3>1. con \notin Range(n.order)
      BY <1>1, <2>2, RangeIsContains DEF adj_list_contains
    <3> QED BY <2>2, <3>1, NewRouterKeeps
  <2> QED BY <2>1, <2>2
<1> HIDE DEF known
<1>3. Graph(there) /\ Range(there.order) = R
  <2>1. host \in Range(known.order) /\ con \in Range(known.order) \ {host}
    BY <1>2
  <2>2. Graph(there) /\ there.order = known.order
    BY <1>2, <2>1, AdjacencyKeeps
  <2> QED BY <1>2, <2>2
<1> HIDE DEF there
<1>4. Graph(linked) /\ Range(linked.order) = R
  <2>1. con \in Range(there.order) /\ host \in Range(there.order) \ {con}
    BY <1>3
  <2>2. Graph(linked) /\ linked.order = there.order
    BY <1>3, <2>1, AdjacencyKeeps
  <2> QED BY <1>3, <2>2
<1> HIDE DEF linked
<1>5. con \in Range(linked.order)
  BY <1>4
<1> DEFINE m == Connect(n, host, ad)
<1>6. m = IF Contains(linked.subs[con], opp) THEN linked
          ELSE IF k = 0 THEN add_new_route(linked, con, opp)
          ELSE IF linked.subs[con][k].rid = NoRid
               THEN [linked EXCEPT !.subs[con][k].rid = host]
               ELSE remove_subnet_from_router(linked, con, opp)
  BY Zenon DEF Connect, linked, there, known
<1> HIDE DEF m, k, opp
<1>7. CASE m = linked
  BY <1>4, <1>7 DEF m
<1>8. CASE m = add_new_route(linked, con, opp)
  <2>1. Graph(m) /\ m.order = linked.order
    BY <1>4, <1>8, SubnetsKeep DEF add_new_route
  <2> QED BY <1>4, <2>1 DEF m
<1>9. CASE m = [linked EXCEPT !.subs[con][k].rid = host]
  <2>1. DOMAIN linked = {"order", "adj", "subs", "exp", "seq"}
    BY <1>4, GraphShape
  <2>2. DOMAIN m = DOMAIN linked /\ m.order = linked.order /\ m.adj = linked.adj
    BY <1>9, <2>1
  <2>3. Graph(m)
    BY <1>4, <2>2, SameGraph
  <2> QED BY <1>4, <2>2, <2>3 DEF m
<1>10. CASE m = remove_subnet_from_router(linked, con, opp)
  <2>1. Graph(m) /\ m.order = linked.order
    BY <1>4, <1>5, <1>10, RemoveSubnetKeeps
  <2> QED BY <1>4, <2>1 DEF m
<1> QED BY <1>6, <1>7, <1>8, <1>9, <1>10, Zenon

\* One advertisement of an LSU (top_info.c:405-499), whatever it contradicts: the
\* host is known and does not name itself.
THEOREM AdvertKeepsGraph ==
    ASSUME NEW n, Graph(n), NEW host \in Range(n.order), NEW ad,
           ad.rid \in (Routers \ {host}) \cup {NoRid}
    PROVE  /\ Graph(AddAdvert(n, host, ad))
           /\ Range(n.order) \subseteq Range(AddAdvert(n, host, ad).order)
<1> DEFINE k == router_contains_subnet(n, host, ad.prefix)
           old == n.subs[host][k]
           keepsBoth == /\ ad.mask # old.mask
                        /\ ad.rid = NoRid \/ old.rid = NoRid
           listed == IF Contains(n.subs[host], ad) THEN n
                     ELSE IF k = 0 \/ keepsBoth THEN add_new_route(n, host, ad)
                     ELSE [n EXCEPT !.subs[host][k].rid = ad.rid]
           m == AddAdvert(n, host, ad)
<1>1. \/ m = remove_subnet_from_router(n, host, old)
      \/ ad.rid = NoRid /\ m = listed
      \/ ad.rid # NoRid /\ m = Connect(listed, host, ad)
  BY Zenon DEF AddAdvert
<1>2. \/ listed = n
      \/ listed = add_new_route(n, host, ad)
      \/ listed = [n EXCEPT !.subs[host][k].rid = ad.rid]
  BY Zenon
<1> HIDE DEF k, old, listed, m
<1>3. Graph(listed) /\ listed.order = n.order
  <2>1. DOMAIN n = {"order", "adj", "subs", "exp", "seq"}
    BY GraphShape
  <2>2. DOMAIN listed = DOMAIN n /\ listed.order = n.order /\ listed.adj = n.adj
    BY <1>2, <2>1 DEF add_new_route
  <2> QED BY <2>2, SameGraph
<1>4. CASE m = remove_subnet_from_router(n, host, old)
  BY <1>4, RemoveSubnetKeeps DEF m
<1>5. CASE m = listed
  BY <1>3, <1>5 DEF m
<1>6. CASE ad.rid # NoRid /\ m = Connect(listed, host, ad)
  <2>1. host \in Range(listed.order) /\ ad.rid \in Routers \ {host}
    BY <1>3, <1>6
  <2>2. Graph(m) /\ Range(m.order) = Range(listed.order) \cup {ad.rid}
    BY <1>3, <1>6, <2>1, ConnectKeeps
  <2> QED BY <1>3, <2>2 DEF m
<1> QED BY <1>1, <1>4, <1>5, <1>6

\* The round of remove_from_topo for one other router (top_info.c:186-215): it
\* keeps its other adjacencies and has none to the router about to be freed,
\* since there was at most one.
THEOREM UnlinkLeavesNoPointer ==
    ASSUME NEW n, Graph(n), NEW r \in Range(n.order), NEW rt
    PROVE  LET m == remove_rt_adj_using_id(remove_rt_sn_using_id(n, r, rt), r, rt)
           IN  /\ Graph(m) /\ m.order = n.order
               /\ Range(m.adj[r]) = Range(n.adj[r]) \ {rt}
<1> DEFINE g == remove_rt_sn_using_id(n, r, rt)
           m == remove_rt_adj_using_id(g, r, rt)
<1>1. Graph(g) /\ g.order = n.order
  BY SubnetGoneKeeps
<1>2. g.adj = n.adj
  BY GraphShape DEF remove_rt_sn_using_id
<1> HIDE DEF g
<1>3. r \in Range(g.order)
  BY <1>1
<1>4. ASSUME NEW id
      PROVE  /\ Graph(remove_rt_adj_using_id(g, r, id))
             /\ remove_rt_adj_using_id(g, r, id).order = g.order
             /\ Range(remove_rt_adj_using_id(g, r, id).adj[r]) = Range(g.adj[r]) \ {id}
  BY <1>1, <1>3, UnlinkKeeps
<1>5. Graph(m) /\ m.order = g.order /\ Range(m.adj[r]) = Range(g.adj[r]) \ {rt}
  BY <1>4
<1> HIDE DEF m
<1> QED BY <1>1, <1>2, <1>5 DEF m, g

(***************************************************************************)
(* The types of the database, and the functions that keep them.            *)
(***************************************************************************)
PrefixSet == {IfPrefix[f] : f \in IfaceSet} \cup UNION {{ad.prefix : ad \in Range(l.ads)} : l \in Lsus}
MaskSet == {IfMask} \cup UNION {{ad.mask : ad \in Range(l.ads)} : l \in Lsus}
Subnets == [prefix : PrefixSet, mask : MaskSet, rid : Routers \cup {NoRid}]

Networks ==
    [order : Seq(Routers), adj : [Routers -> Seq(Routers)],
     subs : [Routers -> Seq(Subnets)], exp : [Routers -> 0 .. RouterLife],
     seq : [Routers -> 0 .. SeqSpace - 1]]

\* A packed array without an element is an array, whatever the index.
LEMMA SwapRemoveTyped ==
    ASSUME NEW S, NEW s \in Seq(S), NEW i
    PROVE  SwapRemove(s, i) \in Seq(S)
<1> DEFINE n == Len(s)
           t == SwapRemove(s, i)
<1>1. n \in Nat /\ \A j \in 1 .. n : s[j] \in S
  BY LenProperties
<1>2. t = [j \in 1 .. n - 1 |-> IF j = i THEN s[n] ELSE s[j]]
  BY DEF SwapRemove
<1> HIDE DEF t, n
<1>3. CASE n = 0
  <2>1. 1 .. n - 1 = {}
    BY <1>3
  <2>2. t \in [1 .. 0 -> S]
    BY <1>2, <1>3
  <2> QED BY <2>2 DEF t
<1>4. CASE n > 0
  <2>1. n - 1 \in Nat /\ n \in 1 .. n /\ 1 .. n - 1 \subseteq 1 .. n
    BY <1>1, <1>4
  <2>2. \A j \in 1 .. n - 1 : (IF j = i THEN s[n] ELSE s[j]) \in S
    BY <1>1, <2>1
  <2>3. t \in [1 .. n - 1 -> S]
    BY <1>2, <2>2
  <2> QED BY <2>1, <2>3 DEF t
<1> QED BY <1>1, <1>3, <1>4

\* The same for the index of a search, 0 if nothing is found.
LEMMA TakeOutTyped ==
    ASSUME NEW S, NEW s \in Seq(S), NEW i
    PROVE  TakeOut(s, i) \in Seq(S)
  BY SwapRemoveTyped DEF TakeOut

\* Changing one array of subnets.
LEMMA SubsTyped ==
    ASSUME NEW n \in Networks, NEW r \in Routers, NEW v \in Seq(Subnets)
    PROVE  [n EXCEPT !.subs[r] = v] \in Networks
  BY DEF Networks

\* Changing one array of adjacencies.
LEMMA AdjTyped ==
    ASSUME NEW n \in Networks, NEW r \in Routers, NEW v \in Seq(Routers)
    PROVE  [n EXCEPT !.adj[r] = v] \in Networks
  BY DEF Networks

\* remove_rt_sn_using_id
LEMMA SubnetGoneTyped ==
    ASSUME NEW n \in Networks, NEW r \in Routers, NEW id
    PROVE  remove_rt_sn_using_id(n, r, id) \in Networks
<1>1. n.subs[r] \in Seq(Subnets)
  BY DEF Networks
<1>2. RemoveSubnetWithId(n.subs[r], id) \in Seq(Subnets)
  BY <1>1, TakeOutTyped DEF RemoveSubnetWithId
<1>3. [n EXCEPT !.subs[r] = RemoveSubnetWithId(n.subs[r], id)] \in Networks
  BY <1>2, SubsTyped
<1>4. remove_rt_sn_using_id(n, r, id) = [n EXCEPT !.subs[r] = RemoveSubnetWithId(n.subs[r], id)]
  BY Zenon DEF remove_rt_sn_using_id
<1> QED BY <1>3, <1>4

\* remove_rt_adj_using_id
LEMMA UnlinkTyped ==
    ASSUME NEW n \in Networks, NEW r \in Routers, NEW id
    PROVE  remove_rt_adj_using_id(n, r, id) \in Networks
<1>1. n.adj[r] \in Seq(Routers)
  BY DEF Networks
<1>2. RemoveElement(n.adj[r], id) \in Seq(Routers)
  BY <1>1, TakeOutTyped DEF RemoveElement
<1>3. [n EXCEPT !.adj[r] = RemoveElement(n.adj[r], id)] \in Networks
  BY <1>2, AdjTyped
<1>4. remove_rt_adj_using_id(n, r, id) = [n EXCEPT !.adj[r] = RemoveElement(n.adj[r], id)]
  BY Zenon DEF remove_rt_adj_using_id
<1> QED BY <1>3, <1>4

\* remove_subnet_from_router
LEMMA RemoveSubnetTyped ==
    ASSUME NEW n \in Networks, NEW r \in Routers, NEW sub
    PROVE  remove_subnet_from_router(n, r, sub) \in Networks
<1> DEFINE v == RemoveElement(n.subs[r], sub)
           a == IF sub.rid = NoRid THEN n.adj[r] ELSE RemoveElement(n.adj[r], sub.rid)
<1>1. n.subs[r] \in Seq(Subnets) /\ n.adj[r] \in Seq(Routers)
  BY DEF Networks
<1>2. v \in Seq(Subnets) /\ RemoveElement(n.adj[r], sub.rid) \in Seq(Routers)
  BY <1>1, TakeOutTyped DEF RemoveElement
<1>3. a \in Seq(Routers)
  BY <1>1, <1>2
<1>4. remove_subnet_from_router(n, r, sub) = [n EXCEPT !.subs[r] = v, !.adj[r] = a]
  BY Zenon DEF remove_subnet_from_router
<1> HIDE DEF v, a
<1>5. [n EXCEPT !.subs[r] = v] \in Networks
  BY <1>2, SubsTyped
<1>6. [[n EXCEPT !.subs[r] = v] EXCEPT !.adj[r] = a] \in Networks
  BY <1>3, <1>5, AdjTyped
<1>7. [[n EXCEPT !.subs[r] = v] EXCEPT !.adj[r] = a] = [n EXCEPT !.subs[r] = v, !.adj[r] = a]
  BY DEF Networks
<1> QED BY <1>4, <1>6, <1>7

\* add_adjacency
LEMMA AdjacencyTyped ==
    ASSUME NEW n \in Networks, NEW r \in Routers, NEW o \in Routers
    PROVE  add_adjacency(n, r, o) \in Networks
<1>1. Append(n.adj[r], o) \in Seq(Routers)
  BY DEF Networks
<1>2. [n EXCEPT !.adj[r] = Append(n.adj[r], o)] \in Networks
  BY <1>1, AdjTyped
<1>3. add_adjacency(n, r, o) \in {n, [n EXCEPT !.adj[r] = Append(n.adj[r], o)]}
  BY Zenon DEF add_adjacency
<1> QED BY <1>2, <1>3

\* add_new_router
LEMMA NewRouterTyped ==
    ASSUME NEW n \in Networks, NEW r \in Routers
    PROVE  add_new_router(n, r) \in Networks
<1>1. /\ Append(n.order, r) \in Seq(Routers) /\ <<>> \in Seq(Routers) /\ <<>> \in Seq(Subnets)
      /\ RouterLife \in 0 .. RouterLife /\ 0 \in 0 .. SeqSpace - 1
  BY TopInfoAssumption, PwospfAssumption DEF Networks
<1>2. add_new_router(n, r) =
        [n EXCEPT !.order = Append(n.order, r), !.adj[r] = <<>>, !.subs[r] = <<>>,
                  !.exp[r] = RouterLife, !.seq[r] = 0]
  BY Zenon DEF add_new_router
<1> DEFINE o == Append(n.order, r)
           m == [n EXCEPT !.order = o, !.adj[r] = <<>>, !.subs[r] = <<>>,
                          !.exp[r] = RouterLife, !.seq[r] = 0]
<1> HIDE DEF o
<1>3. /\ m.order = o /\ m.adj = [n.adj EXCEPT ![r] = <<>>]
      /\ m.subs = [n.subs EXCEPT ![r] = <<>>] /\ m.exp = [n.exp EXCEPT ![r] = RouterLife]
      /\ m.seq = [n.seq EXCEPT ![r] = 0]
      /\ m = [order |-> m.order, adj |-> m.adj, subs |-> m.subs, exp |-> m.exp, seq |-> m.seq]
  <2>1. /\ DOMAIN n = {"order", "adj", "subs", "exp", "seq"}
        /\ n = [x \in {"order", "adj", "subs", "exp", "seq"} |-> n[x]]
    BY DEF Networks
  <2>2. m.order = o /\ m.adj = [n.adj EXCEPT ![r] = <<>>]
    BY <2>1
  <2>3. m.subs = [n.subs EXCEPT ![r] = <<>>] /\ m.exp = [n.exp EXCEPT ![r] = RouterLife]
    BY <2>1
  <2>4. m.seq = [n.seq EXCEPT ![r] = 0]
    BY <2>1
  <2>5. m = [x \in {"order", "adj", "subs", "exp", "seq"} |-> m[x]]
    BY <2>1
  <2> HIDE DEF m
  <2>6. m = [order |-> m.order, adj |-> m.adj, subs |-> m.subs, exp |-> m.exp, seq |-> m.seq]
    BY <2>5
  <2> QED BY <2>2, <2>3, <2>4, <2>6
<1> HIDE DEF m
<1>4. /\ m.adj \in [Routers -> Seq(Routers)] /\ m.subs \in [Routers -> Seq(Subnets)]
      /\ m.exp \in [Routers -> 0 .. RouterLife] /\ m.seq \in [Routers -> 0 .. SeqSpace - 1]
  <2>1. /\ n.adj \in [Routers -> Seq(Routers)] /\ n.subs \in [Routers -> Seq(Subnets)]
        /\ n.exp \in [Routers -> 0 .. RouterLife] /\ n.seq \in [Routers -> 0 .. SeqSpace - 1]
    BY DEF Networks
  <2>2. m.adj \in [Routers -> Seq(Routers)]
    BY <1>1, <1>3, <2>1
  <2>3. m.subs \in [Routers -> Seq(Subnets)]
    BY <1>1, <1>3, <2>1
  <2>4. m.exp \in [Routers -> 0 .. RouterLife]
    BY <1>1, <1>3, <2>1
  <2>5. m.seq \in [Routers -> 0 .. SeqSpace - 1]
    BY <1>1, <1>3, <2>1
  <2> QED BY <2>2, <2>3, <2>4, <2>5
<1>5. m \in Networks
  BY <1>1, <1>3, <1>4 DEF Networks, o
<1> QED BY <1>2, <1>5 DEF m, o

\* add_new_route
LEMMA NewRouteTyped ==
    ASSUME NEW n \in Networks, NEW r \in Routers, NEW sub \in Subnets
    PROVE  add_new_route(n, r, sub) \in Networks
<1>1. Append(n.subs[r], sub) \in Seq(Subnets)
  BY DEF Networks
<1>2. [n EXCEPT !.subs[r] = Append(n.subs[r], sub)] \in Networks
  BY <1>1, SubsTyped
<1>3. add_new_route(n, r, sub) = [n EXCEPT !.subs[r] = Append(n.subs[r], sub)]
  BY Zenon DEF add_new_route
<1> QED BY <1>2, <1>3

\* A subnet gets the name of the router at its other end.
LEMMA NamedTyped ==
    ASSUME NEW n \in Networks, NEW r \in Routers, NEW k, NEW id \in Routers \cup {NoRid}
    PROVE  [n EXCEPT !.subs[r][k].rid = id] \in Networks
<1> DEFINE s == n.subs[r]
           v == [s EXCEPT ![k].rid = id]
<1>1. s \in Seq(Subnets)
  BY DEF Networks
<1>2. v \in Seq(Subnets)
  <2>1. Len(s) \in Nat /\ s \in [1 .. Len(s) -> Subnets]
    BY <1>1
  <2>2. ASSUME NEW x \in Subnets PROVE [x EXCEPT !.rid = id] \in Subnets
    BY DEF Subnets
  <2> HIDE DEF s
  <2>3. v = [j \in 1 .. Len(s) |-> IF j = k THEN [s[j] EXCEPT !.rid = id] ELSE s[j]]
    BY <2>1
  <2>4. v \in [1 .. Len(s) -> Subnets]
    BY <2>1, <2>2, <2>3
  <2> HIDE DEF v
  <2> QED BY <2>1, <2>4
<1>3. [n EXCEPT !.subs[r][k].rid = id] = [n EXCEPT !.subs[r] = v]
  BY DEF Networks
<1> HIDE DEF v
<1> QED BY <1>2, <1>3, SubsTyped

(***************************************************************************)
(* The own router's array of subnets, and the functions that keep it a     *)
(* subset of the interfaces' subnets: OwnSubnetsLocal.                     *)
(***************************************************************************)
Local(s) ==
    /\ \A i \in 1 .. Len(s) : \E f \in IfaceSet : s[i].prefix = IfPrefix[f]
    /\ \A i, j \in 1 .. Len(s) : s[i].prefix = s[j].prefix => i = j

\* The own router is the first of the list and has subnets of its interfaces only.
Own(n) == Len(n.order) > 0 /\ n.order[1] = Self /\ Local(n.subs[Self])

\* An array without one of its subnets.
LEMMA LocalTakeOut ==
    ASSUME NEW s \in Seq(Subnets), Local(s), NEW i
    PROVE  Local(TakeOut(s, i))
<1> DEFINE n == Len(s)
           t == SwapRemove(s, i)
<1>1. n \in Nat
  OBVIOUS
<1>2. t = [j \in 1 .. n - 1 |-> IF j = i THEN s[n] ELSE s[j]]
  BY DEF SwapRemove
<1> HIDE DEF t
<1>3. t \in Seq(Subnets)
  BY SwapRemoveTyped DEF t
<1>4. DOMAIN t = 1 .. n - 1 /\ DOMAIN t = 1 .. Len(t) /\ Len(t) \in Nat
  <2>1. DOMAIN t = 1 .. Len(t) /\ Len(t) \in Nat
    BY <1>3
  <2>2. DOMAIN t = 1 .. n - 1
    BY <1>2
  <2> QED BY <2>1, <2>2
<1>5. \A j \in 1 .. Len(t) : j \in 1 .. n - 1
  BY <1>4
<1>6. ASSUME NEW j \in 1 .. Len(t)
      PROVE  LET q == IF j = i THEN n ELSE j IN q \in 1 .. n /\ t[j] = s[q]
  <2>1. j \in 1 .. n - 1 /\ j \in 1 .. n /\ n \in 1 .. n
    BY <1>1, <1>5
  <2> QED BY <1>2, <2>1
<1>7. \A j \in 1 .. Len(t) : \E f \in IfaceSet : t[j].prefix = IfPrefix[f]
  BY <1>6 DEF Local
<1>8. ASSUME NEW j \in 1 .. Len(t), NEW k \in 1 .. Len(t), t[j].prefix = t[k].prefix
      PROVE  j = k
  <2> DEFINE p == IF j = i THEN n ELSE j
             q == IF k = i THEN n ELSE k
  <2>1. p \in 1 .. n /\ q \in 1 .. n /\ s[p].prefix = s[q].prefix
    BY <1>6, <1>8
  <2>2. p = q
    BY <2>1 DEF Local
  <2>3. j \in 1 .. n - 1 /\ k \in 1 .. n - 1
    BY <1>5
  <2> QED BY <1>1, <2>2, <2>3
<1>9. Local(t)
  BY <1>7, <1>8 DEF Local
<1> QED BY <1>9 DEF TakeOut, t

\* An array with one more subnet of an interface.
LEMMA LocalAppend ==
    ASSUME NEW s \in Seq(Subnets), Local(s), NEW sub \in Subnets,
           NEW f \in IfaceSet, sub.prefix = IfPrefix[f],
           \A i \in 1 .. Len(s) : s[i].prefix # sub.prefix
    PROVE  Local(Append(s, sub))
<1> DEFINE n == Len(s)
           t == Append(s, sub)
<1>1. /\ n \in Nat /\ Len(t) = n + 1 /\ t[n + 1] = sub
      /\ \A i \in 1 .. n : t[i] = s[i]
  OBVIOUS
<1> HIDE DEF t
<1>2. \A i \in 1 .. n + 1 : i = n + 1 \/ i \in 1 .. n
  BY <1>1
<1>3. ASSUME NEW i \in 1 .. n + 1 PROVE \E g \in IfaceSet : t[i].prefix = IfPrefix[g]
  BY <1>1, <1>2 DEF Local
<1>4. ASSUME NEW i \in 1 .. n + 1, NEW j \in 1 .. n + 1, t[i].prefix = t[j].prefix PROVE i = j
  <2>1. CASE i \in 1 .. n /\ j \in 1 .. n
    BY <1>1, <1>4, <2>1 DEF Local
  <2>2. CASE i = n + 1 \/ j = n + 1
    BY <1>1, <1>2, <1>4, <2>2
  <2> QED BY <1>2, <2>1, <2>2
<1> QED BY <1>1, <1>3, <1>4 DEF Local, t

\* An array in which a subnet gets another name.
LEMMA LocalNamed ==
    ASSUME NEW s \in Seq(Subnets), Local(s), NEW k, NEW id
    PROVE  Local([s EXCEPT ![k].rid = id])
<1> DEFINE t == [s EXCEPT ![k].rid = id]
<1>1. Len(s) \in Nat /\ DOMAIN s = 1 .. Len(s) /\ \A j \in 1 .. Len(s) : s[j] \in Subnets
  OBVIOUS
<1>2. t = [j \in 1 .. Len(s) |-> IF j = k THEN [s[j] EXCEPT !.rid = id] ELSE s[j]]
  BY <1>1
<1> HIDE DEF t
<1>3. Len(t) = Len(s)
  BY <1>1, <1>2
<1>4. ASSUME NEW j \in 1 .. Len(s) PROVE t[j].prefix = s[j].prefix
  <2>1. s[j] \in Subnets
    BY <1>1
  <2>2. [s[j] EXCEPT !.rid = id].prefix = s[j].prefix
    BY <2>1 DEF Subnets
  <2> QED BY <1>2, <2>2
<1>5. Local(t)
  BY <1>3, <1>4 DEF Local
<1> QED BY <1>5 DEF t

\* Changing one array of subnets.
LEMMA SubsOwn ==
    ASSUME NEW n \in Networks, Own(n), NEW r \in Routers, NEW v, r = Self => Local(v)
    PROVE  Own([n EXCEPT !.subs[r] = v])
<1> DEFINE m == [n EXCEPT !.subs[r] = v]
<1>1. Self \in Routers
  BY TopInfoAssumption
<1>2. m.order = n.order /\ m.subs = [n.subs EXCEPT ![r] = v] /\ n.subs \in [Routers -> Seq(Subnets)]
  BY DEF Networks
<1> HIDE DEF m
<1>3. m.subs[Self] = IF r = Self THEN v ELSE n.subs[Self]
  BY <1>1, <1>2
<1>4. Own(m)
  BY <1>2, <1>3 DEF Own
<1> QED BY <1>4 DEF m

\* Changing something else.
LEMMA SameOwn ==
    ASSUME NEW n, Own(n), NEW m, m.order = n.order, m.subs = n.subs
    PROVE  Own(m)
  BY DEF Own

\* Changing one array of adjacencies.
LEMMA AdjOwn ==
    ASSUME NEW n \in Networks, Own(n), NEW r, NEW v
    PROVE  Own([n EXCEPT !.adj[r] = v])
<1> DEFINE m == [n EXCEPT !.adj[r] = v]
<1>1. m.order = n.order /\ m.subs = n.subs
  BY DEF Networks
<1> HIDE DEF m
<1>2. Own(m)
  BY <1>1, SameOwn
<1> QED BY <1>2 DEF m

\* remove_rt_sn_using_id
LEMMA SubnetGoneOwn ==
    ASSUME NEW n \in Networks, Own(n), NEW r \in Routers, NEW id
    PROVE  Own(remove_rt_sn_using_id(n, r, id))
<1> DEFINE v == RemoveSubnetWithId(n.subs[r], id)
<1>1. n.subs[r] \in Seq(Subnets)
  BY DEF Networks
<1>2. r = Self => Local(v)
  BY <1>1, LocalTakeOut DEF RemoveSubnetWithId, Own
<1> HIDE DEF v
<1>3. Own([n EXCEPT !.subs[r] = v])
  BY <1>2, SubsOwn
<1>4. remove_rt_sn_using_id(n, r, id) = [n EXCEPT !.subs[r] = v]
  BY Zenon DEF remove_rt_sn_using_id, v
<1> QED BY <1>3, <1>4

\* remove_rt_adj_using_id
LEMMA UnlinkOwn ==
    ASSUME NEW n \in Networks, Own(n), NEW r, NEW id
    PROVE  Own(remove_rt_adj_using_id(n, r, id))
<1>1. remove_rt_adj_using_id(n, r, id) = [n EXCEPT !.adj[r] = RemoveElement(n.adj[r], id)]
  BY Zenon DEF remove_rt_adj_using_id
<1> QED BY <1>1, AdjOwn

\* remove_subnet_from_router
LEMMA RemoveSubnetOwn ==
    ASSUME NEW n \in Networks, Own(n), NEW r \in Routers, NEW sub
    PROVE  Own(remove_subnet_from_router(n, r, sub))
<1> DEFINE v == RemoveElement(n.subs[r], sub)
           a == IF sub.rid = NoRid THEN n.adj[r] ELSE RemoveElement(n.adj[r], sub.rid)
<1>1. n.subs[r] \in Seq(Subnets)
  BY DEF Networks
<1>2. r = Self => Local(v)
  BY <1>1, LocalTakeOut DEF RemoveElement, Own
<1>3. remove_subnet_from_router(n, r, sub) = [n EXCEPT !.subs[r] = v, !.adj[r] = a]
  BY Zenon DEF remove_subnet_from_router
<1>4. v \in Seq(Subnets)
  BY <1>1, TakeOutTyped DEF RemoveElement
<1> HIDE DEF v, a
<1>5. [n EXCEPT !.subs[r] = v] \in Networks /\ Own([n EXCEPT !.subs[r] = v])
  BY <1>2, <1>4, SubsOwn, SubsTyped
<1>6. Own([[n EXCEPT !.subs[r] = v] EXCEPT !.adj[r] = a])
  BY <1>5, AdjOwn
<1>7. [[n EXCEPT !.subs[r] = v] EXCEPT !.adj[r] = a] = [n EXCEPT !.subs[r] = v, !.adj[r] = a]
  BY DEF Networks
<1> QED BY <1>3, <1>6, <1>7

\* add_adjacency
LEMMA AdjacencyOwn ==
    ASSUME NEW n \in Networks, Own(n), NEW r, NEW o
    PROVE  Own(add_adjacency(n, r, o))
<1>1. add_adjacency(n, r, o) \in {n, [n EXCEPT !.adj[r] = Append(n.adj[r], o)]}
  BY Zenon DEF add_adjacency
<1>2. Own([n EXCEPT !.adj[r] = Append(n.adj[r], o)])
  BY AdjOwn
<1> QED BY <1>1, <1>2

\* add_new_router, for another router.
LEMMA NewRouterOwn ==
    ASSUME NEW n \in Networks, Own(n), NEW r \in Remote
    PROVE  Own(add_new_router(n, r))
<1> DEFINE o == Append(n.order, r)
           m == [n EXCEPT !.order = o, !.adj[r] = <<>>, !.subs[r] = <<>>,
                          !.exp[r] = RouterLife, !.seq[r] = 0]
<1>0. Self \in Routers /\ r \in Routers /\ r # Self
  BY TopInfoAssumption DEF Remote
<1>1. add_new_router(n, r) = m
  BY Zenon DEF add_new_router
<1>2. n.order \in Seq(Routers) /\ Len(n.order) \in Nat /\ Len(n.order) > 0 /\ n.order[1] = Self
  BY DEF Networks, Own
<1>3. Len(o) > 0 /\ o[1] = Self
  BY <1>2
<1> HIDE DEF o
<1>4. /\ DOMAIN n = {"order", "adj", "subs", "exp", "seq"}
      /\ n.subs \in [Routers -> Seq(Subnets)]
  BY DEF Networks
<1>5. m.order = o
  BY <1>4
<1>6. m.subs = [n.subs EXCEPT ![r] = <<>>]
  BY <1>4
<1> HIDE DEF m
<1>7. m.subs[Self] = n.subs[Self]
  BY <1>0, <1>4, <1>6
<1>8. Own(m)
  BY <1>3, <1>5, <1>7 DEF Own
<1> QED BY <1>1, <1>8

\* A subnet gets the name of the router at its other end.
LEMMA NamedOwn ==
    ASSUME NEW n \in Networks, Own(n), NEW r \in Routers, NEW k, NEW id
    PROVE  Own([n EXCEPT !.subs[r][k].rid = id])
<1> DEFINE v == [n.subs[r] EXCEPT ![k].rid = id]
<1>1. n.subs[r] \in Seq(Subnets)
  BY DEF Networks
<1>2. r = Self => Local(v)
  BY <1>1, LocalNamed DEF Own
<1>3. [n EXCEPT !.subs[r][k].rid = id] = [n EXCEPT !.subs[r] = v]
  BY DEF Networks
<1> HIDE DEF v
<1> QED BY <1>2, <1>3, SubsOwn

\* What router_contains_subnet does not find is not there.
LEMMA NoSubnet ==
    ASSUME NEW n \in Networks, NEW r \in Routers, NEW prefix,
           router_contains_subnet(n, r, prefix) = 0
    PROVE  \A i \in 1 .. Len(n.subs[r]) : n.subs[r][i].prefix # prefix
<1> DEFINE s == n.subs[r]
           I == {i \in 1 .. Len(s) : s[i].prefix = prefix}
<1>1. Len(s) \in Nat
  BY DEF Networks
<1>2. router_contains_subnet(n, r, prefix) = IF I # {} THEN Min(I) ELSE 0
  BY DEF router_contains_subnet, SelectInSeq
<1>3. I \in SUBSET Nat /\ 0 \notin I
  BY <1>1
<1>4. I = {}
  <2> HIDE DEF I
  <2> QED BY <1>2, <1>3, MinExists
<1> QED BY <1>4

\* The second half of the loop body of add_to_existing_router. The own router is
\* only named on the subnet of one of its interfaces.
LEMMA ConnectOwn ==
    ASSUME NEW n \in Networks, Own(n), NEW host \in Routers, NEW ad \in Subnets, ad.rid \in Routers,
           ad.rid = Self => \E f \in IfaceSet : ad.prefix = IfPrefix[f]
    PROVE  Own(Connect(n, host, ad))
<1> DEFINE con == ad.rid
           opp == [ad EXCEPT !.rid = host]
           known == IF adj_list_contains(n, con) THEN n ELSE add_new_router(n, con)
           there == add_adjacency(known, host, con)
           linked == add_adjacency(there, con, host)
           k == router_contains_subnet(linked, con, ad.prefix)
           m == Connect(n, host, ad)
<1>1. known \in Networks /\ Own(known)
  <2>1. CASE adj_list_contains(n, con)
    BY <2>1
  <2>2. CASE ~adj_list_contains(n, con)
    <3>1. con # Self
      <4>1. n.order \in Seq(Routers) /\ 1 \in 1 .. Len(n.order) /\ n.order[1] = Self
        BY DEF Own, Networks
      <4>2. Contains(n.order, Self)
        BY <4>1 DEF Contains
      <4> QED BY <2>2, <4>2 DEF adj_list_contains
    <3>2. con \in Remote
      BY <3>1 DEF Remote
    <3> QED BY <2>2, <3>2, NewRouterTyped, NewRouterOwn
  <2> QED BY <2>1, <2>2
<1>2. opp \in Subnets /\ opp.prefix = ad.prefix
  BY DEF Subnets
<1> HIDE DEF known, opp
<1>3. there \in Networks /\ Own(there)
  BY <1>1, AdjacencyTyped, AdjacencyOwn
<1> HIDE DEF there
<1>4. linked \in Networks /\ Own(linked)
  BY <1>3, AdjacencyTyped, AdjacencyOwn
<1> HIDE DEF linked
<1>5. \/ m = linked
      \/ k = 0 /\ m = add_new_route(linked, con, opp)
      \/ m = [linked EXCEPT !.subs[con][k].rid = host]
      \/ m = remove_subnet_from_router(linked, con, opp)
  BY Zenon DEF Connect, linked, there, known, opp
<1>6. ASSUME k = 0 PROVE Own(add_new_route(linked, con, opp))
  <2> DEFINE v == Append(linked.subs[con], opp)
  <2>1. linked.subs[con] \in Seq(Subnets)
    BY <1>4 DEF Networks
  <2>2. \A i \in 1 .. Len(linked.subs[con]) : linked.subs[con][i].prefix # opp.prefix
    BY <1>2, <1>4, <1>6, NoSubnet
  <2>3. con = Self => Local(v)
    BY <1>2, <1>4, <2>1, <2>2, LocalAppend DEF Own
  <2>4. add_new_route(linked, con, opp) = [linked EXCEPT !.subs[con] = v]
    BY Zenon DEF add_new_route
  <2> HIDE DEF v
  <2> QED BY <1>4, <2>3, <2>4, SubsOwn
<1> HIDE DEF k, m
<1>7. Own([linked EXCEPT !.subs[con][k].rid = host])
  BY <1>4, NamedOwn
<1>8. Own(remove_subnet_from_router(linked, con, opp))
  BY <1>4, RemoveSubnetOwn
<1> QED BY <1>4, <1>5, <1>6, <1>7, <1>8 DEF m

\* One advertisement of another router.
LEMMA AdvertOwn ==
    ASSUME NEW n \in Networks, Own(n), NEW host \in Remote, NEW ad \in Subnets,
           ad.rid = Self => \E f \in IfaceSet : ad.prefix = IfPrefix[f]
    PROVE  Own(AddAdvert(n, host, ad))
<1> DEFINE k == router_contains_subnet(n, host, ad.prefix)
           old == n.subs[host][k]
           keepsBoth == /\ ad.mask # old.mask
                        /\ ad.rid = NoRid \/ old.rid = NoRid
           listed == IF Contains(n.subs[host], ad) THEN n
                     ELSE IF k = 0 \/ keepsBoth THEN add_new_route(n, host, ad)
                     ELSE [n EXCEPT !.subs[host][k].rid = ad.rid]
           m == AddAdvert(n, host, ad)
<1>0. ad.rid \in Routers \cup {NoRid} /\ host \in Routers /\ host # Self
  BY DEF Subnets, Remote
<1>1. \/ m = remove_subnet_from_router(n, host, old)
      \/ ad.rid = NoRid /\ m = listed
      \/ ad.rid # NoRid /\ m = Connect(listed, host, ad)
  BY Zenon DEF AddAdvert
<1>2. \/ listed = n
      \/ listed = add_new_route(n, host, ad)
      \/ listed = [n EXCEPT !.subs[host][k].rid = ad.rid]
  BY Zenon
<1> HIDE DEF k, old, listed, m
<1>3. add_new_route(n, host, ad) \in Networks /\ Own(add_new_route(n, host, ad))
  <2>1. add_new_route(n, host, ad) = [n EXCEPT !.subs[host] = Append(n.subs[host], ad)]
    BY Zenon DEF add_new_route
  <2>2. Own([n EXCEPT !.subs[host] = Append(n.subs[host], ad)])
    BY <1>0, SubsOwn
  <2> QED BY <1>0, <2>1, <2>2, NewRouteTyped
<1>4. /\ [n EXCEPT !.subs[host][k].rid = ad.rid] \in Networks
      /\ Own([n EXCEPT !.subs[host][k].rid = ad.rid])
  BY <1>0, NamedTyped, NamedOwn
<1>5. listed \in Networks /\ Own(listed)
  BY <1>2, <1>3, <1>4
<1>6. Own(remove_subnet_from_router(n, host, old))
  BY <1>0, RemoveSubnetOwn
<1>7. ad.rid # NoRid => Own(Connect(listed, host, ad))
  BY <1>0, <1>5, ConnectOwn
<1> QED BY <1>1, <1>5, <1>6, <1>7 DEF m

(***************************************************************************)
(* The links of the topology, and what the subnets of a router say of      *)
(* them: AdjacencyMatchesSubnets.                                          *)
(***************************************************************************)
\* A subnet of router r: if it names a router it is the link to it.
Fits(r, sub) ==
    /\ sub.rid # NoRid =>
           /\ sub.rid # r
           /\ [ends |-> {r, sub.rid}, prefix |-> sub.prefix, mask |-> sub.mask] \in Links
    /\ \A k \in Links : k.prefix = sub.prefix => k.mask = sub.mask

\* The subnets of router r: no router is named twice.
Joined(r, s) ==
    /\ \A i \in 1 .. Len(s) : Fits(r, s[i])
    /\ \A i, j \in 1 .. Len(s) : s[i].rid = s[j].rid /\ s[i].rid # NoRid => i = j

Named(s) == {s[i].rid : i \in 1 .. Len(s)} \ {NoRid}

\* The adjacencies of r are the routers that its subnets name; the own router may
\* name more.
Tied(n, r) ==
    /\ Joined(r, n.subs[r])
    /\ Range(n.adj[r]) \subseteq Named(n.subs[r])
    /\ r # Self => Named(n.subs[r]) \subseteq Range(n.adj[r])

AllTied(n) == \A r \in Range(n.order) : Tied(n, r)

\* What LinksAgree means for the database.
Linked(n) == LinksAgree => AllTied(n)

\* The names of an array of subnets.
LEMMA NamedIs ==
    ASSUME NEW s, NEW e
    PROVE  e \in Named(s) <=> e # NoRid /\ \E i \in 1 .. Len(s) : s[i].rid = e
  BY DEF Named

\* An array without one of its subnets names one router less.
LEMMA TakeOutJoined ==
    ASSUME NEW r, NEW s \in Seq(Subnets), Joined(r, s), NEW i \in 1 .. Len(s)
    PROVE  /\ Joined(r, TakeOut(s, i))
           /\ Named(TakeOut(s, i)) = Named(s) \ {s[i].rid}
<1> DEFINE n == Len(s)
           t == SwapRemove(s, i)
<1>1. n \in Nat /\ n - 1 \in Nat /\ i \in 1 .. n /\ n \in 1 .. n /\ i # 0
  OBVIOUS
<1>2. t = [j \in 1 .. n - 1 |-> IF j = i THEN s[n] ELSE s[j]]
  BY DEF SwapRemove
<1>3. TakeOut(s, i) = t
  BY <1>1 DEF TakeOut
<1> HIDE DEF t
<1>4. Len(t) = n - 1
  <2>1. t \in Seq(Subnets)
    BY SwapRemoveTyped DEF t
  <2>2. DOMAIN t = 1 .. Len(t) /\ Len(t) \in Nat
    BY <2>1
  <2>3. DOMAIN t = 1 .. n - 1
    BY <1>2
  <2> QED BY <1>1, <2>2, <2>3
<1> HIDE DEF n
<1> DEFINE From(j) == IF j = i THEN n ELSE j
<1>5. ASSUME NEW j \in 1 .. n - 1 PROVE From(j) \in 1 .. n /\ From(j) # i /\ t[j] = s[From(j)]
  <2>1. j \in 1 .. n /\ j # n
    BY <1>1
  <2> QED BY <1>1, <1>2, <2>1
<1>6. ASSUME NEW j \in 1 .. n - 1, NEW k \in 1 .. n - 1, From(j) = From(k) PROVE j = k
  <2>1. j # n /\ k # n
    BY <1>1
  <2> QED BY <1>6, <2>1
<1>7. ASSUME NEW q \in 1 .. n, q # i PROVE \E j \in 1 .. n - 1 : From(j) = q
  <2>1. CASE q = n
    <3>1. i \in 1 .. n - 1 /\ From(i) = q
      BY <1>1, <1>7, <2>1
    <3> QED BY <3>1
  <2>2. CASE q # n
    <3>1. q \in 1 .. n - 1 /\ From(q) = q
      BY <1>1, <1>7, <2>2
    <3> QED BY <3>1
  <2> QED BY <2>1, <2>2
<1> HIDE DEF From
<1>8. \A j, k \in 1 .. n : s[j].rid = s[k].rid /\ s[j].rid # NoRid => j = k
  BY DEF Joined, n
<1>9. Joined(r, t)
  <2>1. \A j \in 1 .. n : Fits(r, s[j])
    BY DEF Joined, n
  <2>2. \A j \in 1 .. n - 1 : Fits(r, t[j])
    BY <1>5, <2>1
  <2>3. ASSUME NEW j \in 1 .. n - 1, NEW k \in 1 .. n - 1, t[j].rid = t[k].rid, t[j].rid # NoRid
        PROVE  j = k
    <3>1. From(j) = From(k)
      BY <1>5, <1>8, <2>3
    <3> QED BY <1>6, <3>1
  <2> QED BY <1>4, <2>2, <2>3 DEF Joined
<1>10. ASSUME NEW e PROVE e \in Named(t) <=> e \in Named(s) /\ e # s[i].rid
  <2>1. e \in Named(t) <=> e # NoRid /\ \E j \in 1 .. n - 1 : t[j].rid = e
    BY <1>4, NamedIs
  <2>2. e \in Named(s) <=> e # NoRid /\ \E j \in 1 .. n : s[j].rid = e
    BY NamedIs DEF n
  <2>3. ASSUME NEW j \in 1 .. n - 1, t[j].rid = e, e # NoRid
        PROVE  e # s[i].rid /\ \E q \in 1 .. n : s[q].rid = e
    BY <1>1, <1>5, <1>8, <2>3
  <2>4. ASSUME NEW q \in 1 .. n, s[q].rid = e, e # s[i].rid
        PROVE  \E j \in 1 .. n - 1 : t[j].rid = e
    <3>1. q # i
      BY <2>4
    <3>2. PICK j \in 1 .. n - 1 : From(j) = q
      BY <1>7, <3>1
    <3> QED BY <1>5, <2>4, <3>2
  <2> QED BY <2>1, <2>2, <2>3, <2>4
<1> QED BY <1>3, <1>9, <1>10

\* remove_rt_sn_using_id takes the one subnet out that names the router.
LEMMA WithIdJoined ==
    ASSUME NEW r, NEW s \in Seq(Subnets), Joined(r, s), NEW id
    PROVE  /\ Joined(r, RemoveSubnetWithId(s, id))
           /\ Named(RemoveSubnetWithId(s, id)) = Named(s) \ {id}
<1> DEFINE I == {i \in 1 .. Len(s) : s[i].rid = id}
           k == SelectInSeq(s, LAMBDA sub : sub.rid = id)
<1>1. Len(s) \in Nat
  OBVIOUS
<1>2. k = IF I # {} THEN Min(I) ELSE 0
  BY DEF SelectInSeq
<1>3. RemoveSubnetWithId(s, id) = TakeOut(s, k)
  BY DEF RemoveSubnetWithId
<1> HIDE DEF k
<1>4. CASE I # {}
  <2>1. I \in SUBSET Nat
    BY <1>1
  <2>2. Min(I) \in I
    BY <1>4, <2>1, MinExists
  <2>3. k \in 1 .. Len(s) /\ s[k].rid = id
    BY <1>2, <1>4, <2>2
  <2> QED BY <1>3, <2>3, TakeOutJoined
<1>5. CASE I = {}
  <2>1. TakeOut(s, k) = s
    BY <1>2, <1>5 DEF TakeOut
  <2>2. id \notin Named(s)
    BY <1>5 DEF Named
  <2> QED BY <1>3, <2>1, <2>2
<1> QED BY <1>4, <1>5

\* An array with one more subnet.
LEMMA AppendJoined ==
    ASSUME NEW r, NEW s \in Seq(Subnets), Joined(r, s), NEW sub \in Subnets,
           Fits(r, sub), sub.rid \notin Named(s)
    PROVE  /\ Joined(r, Append(s, sub))
           /\ Named(Append(s, sub)) = Named(s) \cup ({sub.rid} \ {NoRid})
<1> DEFINE n == Len(s)
           t == Append(s, sub)
<1>1. /\ n \in Nat /\ Len(t) = n + 1 /\ t[n + 1] = sub /\ n + 1 \in 1 .. n + 1
      /\ \A i \in 1 .. n : t[i] = s[i] /\ i \in 1 .. n + 1
      /\ \A i \in 1 .. n + 1 : i \in 1 .. n \/ i = n + 1
  OBVIOUS
<1>2. /\ \A i \in 1 .. n : Fits(r, s[i])
      /\ \A i, j \in 1 .. n : s[i].rid = s[j].rid /\ s[i].rid # NoRid => i = j
  BY DEF Joined
<1>3. \A i \in 1 .. n : s[i].rid = sub.rid => sub.rid = NoRid
  BY DEF Named
<1> HIDE DEF t
<1>4. Joined(r, t)
  <2>1. \A i \in 1 .. n + 1 : Fits(r, t[i])
    BY <1>1, <1>2
  <2>2. ASSUME NEW i \in 1 .. n + 1, NEW j \in 1 .. n + 1, t[i].rid = t[j].rid, t[i].rid # NoRid
        PROVE  i = j
    BY <1>1, <1>2, <1>3, <2>2
  <2> QED BY <1>1, <2>1, <2>2 DEF Joined
<1>5. ASSUME NEW e PROVE e \in Named(t) <=> e \in Named(s) \/ (e = sub.rid /\ e # NoRid)
  <2>1. e \in Named(t) <=> e # NoRid /\ \E i \in 1 .. n + 1 : t[i].rid = e
    BY <1>1, NamedIs
  <2>2. e \in Named(s) <=> e # NoRid /\ \E i \in 1 .. n : s[i].rid = e
    BY NamedIs
  <2>3. (\E i \in 1 .. n + 1 : t[i].rid = e) <=> (\E i \in 1 .. n : s[i].rid = e) \/ sub.rid = e
    BY <1>1
  <2> QED BY <2>1, <2>2, <2>3
<1> QED BY <1>4, <1>5 DEF t

\* An array in which a subnet without a name gets one.
Put(s, k, sub) == [s EXCEPT ![k] = sub]

\* Then it names one router more.
LEMMA NamingJoined ==
    ASSUME NEW r, NEW s \in Seq(Subnets), Joined(r, s), NEW k \in 1 .. Len(s), s[k].rid = NoRid,
           NEW sub, Fits(r, sub), sub.rid \in Routers, sub.rid \notin Named(s)
    PROVE  Joined(r, Put(s, k, sub)) /\ Named(Put(s, k, sub)) = Named(s) \cup {sub.rid}
<1> DEFINE n == Len(s)
           id == sub.rid
           t == Put(s, k, sub)
<1>1. n \in Nat /\ DOMAIN s = 1 .. n
  OBVIOUS
<1>2. t = [j \in 1 .. n |-> IF j = k THEN sub ELSE s[j]]
  BY <1>1 DEF Put
<1> HIDE DEF t
<1>3. Len(t) = n
  BY <1>1, <1>2
<1>4. t[k] = sub /\ \A j \in 1 .. n : j # k => t[j] = s[j]
  BY <1>2
<1>5. /\ \A i \in 1 .. n : Fits(r, s[i])
      /\ \A i, j \in 1 .. n : s[i].rid = s[j].rid /\ s[i].rid # NoRid => i = j
  BY DEF Joined
<1>6. id # NoRid /\ \A i \in 1 .. n : s[i].rid # id
  BY TopInfoAssumption DEF Named
<1>7. Joined(r, t)
  <2>1. \A i \in 1 .. n : Fits(r, t[i])
    BY <1>4, <1>5
  <2>2. ASSUME NEW i \in 1 .. n, NEW j \in 1 .. n, t[i].rid = t[j].rid, t[i].rid # NoRid
        PROVE  i = j
    BY <1>4, <1>5, <1>6, <2>2
  <2> QED BY <1>3, <2>1, <2>2 DEF Joined
<1>8. ASSUME NEW e PROVE e \in Named(t) <=> e \in Named(s) \/ e = id
  <2>1. e \in Named(t) <=> e # NoRid /\ \E i \in 1 .. n : t[i].rid = e
    BY <1>3, NamedIs
  <2>2. e \in Named(s) <=> e # NoRid /\ \E i \in 1 .. n : s[i].rid = e
    BY NamedIs
  <2>3. ASSUME NEW i \in 1 .. n, t[i].rid = e PROVE e = id \/ \E j \in 1 .. n : s[j].rid = e
    BY <1>4, <2>3
  <2>4. ASSUME NEW i \in 1 .. n, s[i].rid = e, e # NoRid PROVE \E j \in 1 .. n : t[j].rid = e
    BY <1>4, <2>4
  <2> QED BY <1>4, <1>6, <2>1, <2>2, <2>3, <2>4
<1> QED BY <1>7, <1>8 DEF t

\* A link that is not in the array: neither end of it is, but for an unnamed subnet.
LEMMA LinkIsNew ==
    ASSUME LinksAgree, NEW r, NEW s \in Seq(Subnets), Joined(r, s),
           NEW sub \in Subnets, sub.rid # NoRid, Fits(r, sub), ~Contains(s, sub)
    PROVE  /\ sub.rid \notin Named(s)
           /\ \A i \in 1 .. Len(s) : s[i].prefix = sub.prefix =>
                  s[i].rid = NoRid /\ s[i].mask = sub.mask
<1> DEFINE a == [ends |-> {r, sub.rid}, prefix |-> sub.prefix, mask |-> sub.mask]
<1>1. a \in Links /\ sub.rid # r
  BY DEF Fits
<1>2. ASSUME NEW i \in 1 .. Len(s), s[i].rid # NoRid,
             s[i].prefix = sub.prefix \/ s[i].rid = sub.rid
      PROVE  FALSE
  <2> DEFINE b == [ends |-> {r, s[i].rid}, prefix |-> s[i].prefix, mask |-> s[i].mask]
  <2>1. b \in Links /\ s[i].rid # r /\ s[i] \in Subnets
    BY <1>2 DEF Joined, Fits
  <2>2. a.prefix = b.prefix \/ a.ends = b.ends
    BY <1>2
  <2>3. a = b
    <3> HIDE DEF a, b
    <3> QED BY <1>1, <2>1, <2>2 DEF LinksAgree
  <2>4. {r, sub.rid} = {r, s[i].rid} /\ s[i].prefix = sub.prefix /\ s[i].mask = sub.mask
    BY <2>3
  <2>5. s[i].rid = sub.rid
    BY <1>1, <2>1, <2>4
  <2>6. s[i] = sub
    BY <2>1, <2>4, <2>5 DEF Subnets
  <2> QED BY <2>6 DEF Contains
<1>3. sub.rid \notin Named(s)
  BY <1>2 DEF Named
<1>4. ASSUME NEW i \in 1 .. Len(s), s[i].prefix = sub.prefix
      PROVE  s[i].rid = NoRid /\ s[i].mask = sub.mask
  <2>1. s[i].rid = NoRid
    BY <1>2, <1>4
  <2>2. a.prefix = s[i].prefix /\ a.mask = sub.mask
    BY <1>4
  <2>3. a.mask = s[i].mask
    <3> HIDE DEF a
    <3> QED BY <1>1, <2>2 DEF Joined, Fits
  <2> QED BY <2>1, <2>2, <2>3
<1> QED BY <1>3, <1>4

\* remove_subnet_from_router's half for the subnets.
LEMMA ElementJoined ==
    ASSUME NEW r, NEW s \in Seq(Subnets), Joined(r, s), NEW k \in 1 .. Len(s)
    PROVE  /\ Joined(r, RemoveElement(s, s[k]))
           /\ Named(RemoveElement(s, s[k])) = Named(s) \ {s[k].rid}
<1> DEFINE e == s[k]
           I == {i \in 1 .. Len(s) : s[i] = e}
           j == SelectInSeq(s, LAMBDA x : x = e)
<1>1. I \in SUBSET Nat /\ k \in I
  OBVIOUS
<1>2. j = IF I # {} THEN Min(I) ELSE 0
  BY DEF SelectInSeq
<1>3. RemoveElement(s, e) = TakeOut(s, j)
  BY DEF RemoveElement
<1> HIDE DEF j
<1>4. Min(I) \in I
  <2> HIDE DEF I
  <2> QED BY <1>1, MinExists
<1>5. j \in 1 .. Len(s) /\ s[j] = e
  BY <1>1, <1>2, <1>4
<1>6. /\ Joined(r, TakeOut(s, j))
      /\ Named(TakeOut(s, j)) = Named(s) \ {s[j].rid}
  BY <1>5, TakeOutJoined
<1> QED BY <1>3, <1>5, <1>6

\* What router_contains_subnet finds.
LEMMA FoundSubnet ==
    ASSUME NEW n \in Networks, NEW r \in Routers, NEW prefix,
           router_contains_subnet(n, r, prefix) # 0
    PROVE  /\ router_contains_subnet(n, r, prefix) \in 1 .. Len(n.subs[r])
           /\ n.subs[r][router_contains_subnet(n, r, prefix)].prefix = prefix
<1> DEFINE s == n.subs[r]
           I == {i \in 1 .. Len(s) : s[i].prefix = prefix}
           k == router_contains_subnet(n, r, prefix)
<1>1. Len(s) \in Nat
  BY DEF Networks
<1>2. k = IF I # {} THEN Min(I) ELSE 0
  BY DEF router_contains_subnet, SelectInSeq
<1>3. I \in SUBSET Nat
  BY <1>1
<1>4. k \in I
  <2> HIDE DEF I, k
  <2>1. I # {}
    BY <1>2 DEF k
  <2> QED BY <1>2, <1>3, <2>1, MinExists
<1> QED BY <1>4

\* A router whose subnets and adjacencies are as they were.
LEMMA SameTied ==
    ASSUME NEW n, NEW m, NEW q, Tied(n, q), m.subs[q] = n.subs[q], m.adj[q] = n.adj[q]
    PROVE  Tied(m, q)
  BY DEF Tied

\* What becomes of router q when router r loses or gets id.
Here(q, r, id) == IF q = r THEN {id} ELSE {}

\* remove_rt_sn_using_id
LEMMA SubnetGoneNames ==
    ASSUME NEW n \in Networks, NEW r \in Routers, NEW id, NEW q \in Routers,
           Joined(q, n.subs[q])
    PROVE  /\ Joined(q, remove_rt_sn_using_id(n, r, id).subs[q])
           /\ Named(remove_rt_sn_using_id(n, r, id).subs[q]) =
                  Named(n.subs[q]) \ Here(q, r, id)
           /\ remove_rt_sn_using_id(n, r, id).adj = n.adj
<1> DEFINE v == RemoveSubnetWithId(n.subs[r], id)
           m == remove_rt_sn_using_id(n, r, id)
<1>1. m = [n EXCEPT !.subs[r] = v]
  BY Zenon DEF remove_rt_sn_using_id
<1>2. /\ DOMAIN n = {"order", "adj", "subs", "exp", "seq"}
      /\ n.subs \in [Routers -> Seq(Subnets)] /\ n.subs[q] \in Seq(Subnets)
  BY DEF Networks
<1>3. q = r => Joined(q, v) /\ Named(v) = Named(n.subs[q]) \ {id}
  BY <1>2, WithIdJoined
<1> HIDE DEF v, m
<1>4. m.adj = n.adj /\ m.subs = [n.subs EXCEPT ![r] = v]
  BY <1>1, <1>2
<1>5. CASE q = r
  <2>1. m.subs[q] = v /\ Here(q, r, id) = {id}
    BY <1>2, <1>4, <1>5 DEF Here
  <2> QED BY <1>3, <1>4, <1>5, <2>1 DEF m
<1>6. CASE q # r
  <2>1. m.subs[q] = n.subs[q] /\ Here(q, r, id) = {}
    BY <1>2, <1>4, <1>6 DEF Here
  <2> QED BY <1>4, <2>1 DEF m
<1> QED BY <1>5, <1>6

\* remove_rt_adj_using_id
LEMMA UnlinkLinks ==
    ASSUME NEW n, Graph(n), NEW r \in Range(n.order), NEW id, NEW q \in Routers
    PROVE  /\ remove_rt_adj_using_id(n, r, id).subs = n.subs
           /\ Range(remove_rt_adj_using_id(n, r, id).adj[q]) =
                  Range(n.adj[q]) \ Here(q, r, id)
<1> DEFINE m == remove_rt_adj_using_id(n, r, id)
<1>1. m = [n EXCEPT !.adj[r] = RemoveElement(n.adj[r], id)]
  BY Zenon DEF remove_rt_adj_using_id
<1>2. m.subs = n.subs
  BY <1>1, GraphShape
<1>3. /\ Range(m.adj[r]) = Range(n.adj[r]) \ {id}
      /\ \A p \in Routers \ {r} : m.adj[p] = n.adj[p]
  BY UnlinkKeeps
<1> HIDE DEF m
<1>4. Range(m.adj[q]) = Range(n.adj[q]) \ Here(q, r, id)
  BY <1>3 DEF Here
<1> QED BY <1>2, <1>4 DEF m

\* Both ends of a link go: in PruneRound and in Disconnect.
Cut(n, r, o) ==
    remove_rt_adj_using_id(remove_rt_adj_using_id(
        remove_rt_sn_using_id(remove_rt_sn_using_id(n, r, o), o, r), o, r), r, o)

\* Then every router is as consistent as it was.
LEMMA CutTied ==
    ASSUME NEW n \in Networks, Graph(n), NEW r \in Range(n.order), NEW o \in Range(n.order),
           NEW q \in Range(n.order), Tied(n, q)
    PROVE  Tied(Cut(n, r, o), q)
<1> DEFINE a == remove_rt_sn_using_id(n, r, o)
           b == remove_rt_sn_using_id(a, o, r)
           c == remove_rt_adj_using_id(b, o, r)
           d == remove_rt_adj_using_id(c, r, o)
<1>1. r \in Routers /\ o \in Routers /\ q \in Routers /\ Joined(q, n.subs[q])
  BY GraphShape DEF Tied
<1>2. /\ Joined(q, a.subs[q])
      /\ Named(a.subs[q]) = Named(n.subs[q]) \ Here(q, r, o)
      /\ a.adj = n.adj
  BY <1>1, SubnetGoneNames
<1>3. a \in Networks /\ Graph(a) /\ a.order = n.order
  BY <1>1, SubnetGoneTyped, SubnetGoneKeeps
<1> HIDE DEF a
<1>4. /\ Joined(q, b.subs[q])
      /\ Named(b.subs[q]) = Named(a.subs[q]) \ Here(q, o, r)
      /\ b.adj = a.adj
  BY <1>1, <1>2, <1>3, SubnetGoneNames
<1>5. Graph(b) /\ b.order = a.order
  BY <1>3, SubnetGoneKeeps
<1> HIDE DEF b
<1>6. o \in Range(b.order)
  BY <1>3, <1>5
<1>7. c.subs = b.subs /\ Range(c.adj[q]) = Range(b.adj[q]) \ Here(q, o, r)
  <2> HIDE DEF c
  <2>1. b = b /\ q \in Routers
    BY <1>1
  <2>2. ASSUME NEW id
        PROVE  /\ remove_rt_adj_using_id(b, o, id).subs = b.subs
               /\ Range(remove_rt_adj_using_id(b, o, id).adj[q]) =
                      Range(b.adj[q]) \ Here(q, o, id)
    BY <1>5, <1>6, <2>1, UnlinkLinks
  <2>3. c.subs = b.subs /\ Range(c.adj[q]) = Range(b.adj[q]) \ Here(q, o, r)
    BY <2>2 DEF c
  <2> QED BY <2>3
<1>8. Graph(c) /\ c.order = b.order
  BY <1>5, <1>6, UnlinkKeeps
<1> HIDE DEF c
<1>9. r \in Range(c.order)
  BY <1>3, <1>5, <1>8
<1>10. d.subs = c.subs /\ Range(d.adj[q]) = Range(c.adj[q]) \ Here(q, r, o)
  BY <1>1, <1>8, <1>9, UnlinkLinks
<1>11. Cut(n, r, o) = d
  BY Zenon DEF Cut, a, b, c
<1> HIDE DEF d
<1>12. /\ Range(n.adj[q]) \subseteq Named(n.subs[q])
      /\ q # Self => Named(n.subs[q]) \subseteq Range(n.adj[q])
  BY DEF Tied
<1>13. /\ Joined(q, d.subs[q])
      /\ Named(d.subs[q]) = (Named(n.subs[q]) \ Here(q, r, o)) \ Here(q, o, r)
      /\ Range(d.adj[q]) = (Range(n.adj[q]) \ Here(q, o, r)) \ Here(q, r, o)
  BY <1>2, <1>4, <1>7, <1>10
<1>14. Tied(d, q)
  BY <1>12, <1>13 DEF Tied
<1> QED BY <1>11, <1>14

\* A link whose other end is not in the database.
LEMMA HalfTied ==
    ASSUME NEW n \in Networks, NEW r \in Routers, NEW id, NEW q \in Routers, Tied(n, q),
           q = r => id \notin Range(n.adj[q])
    PROVE  Tied(remove_rt_sn_using_id(n, r, id), q)
<1> DEFINE m == remove_rt_sn_using_id(n, r, id)
<1>1. /\ Joined(q, m.subs[q])
      /\ Named(m.subs[q]) = Named(n.subs[q]) \ Here(q, r, id)
      /\ m.adj = n.adj
  BY SubnetGoneNames DEF Tied
<1> HIDE DEF m
<1>2. Tied(m, q)
  BY <1>1 DEF Tied, Here
<1> QED BY <1>2 DEF m

\* add_adjacency
LEMMA LinkLinks ==
    ASSUME NEW n \in Networks, NEW r \in Routers, NEW o \in Routers, NEW q \in Routers
    PROVE  /\ add_adjacency(n, r, o).subs = n.subs
           /\ Range(add_adjacency(n, r, o).adj[q]) = Range(n.adj[q]) \cup Here(q, r, o)
<1> DEFINE s == n.adj[r]
           v == Append(s, o)
           m == add_adjacency(n, r, o)
<1>1. /\ DOMAIN n = {"order", "adj", "subs", "exp", "seq"}
      /\ n.adj \in [Routers -> Seq(Routers)] /\ s \in Seq(Routers)
  BY DEF Networks
<1> HIDE DEF s
<1>2. CASE Contains(s, o)
  <2>1. m = n
    BY <1>2, Zenon DEF add_adjacency, s
  <2>2. o \in Range(s)
    BY <1>1, <1>2, RangeIsContains
  <2> HIDE DEF m
  <2>3. m.subs = n.subs /\ Range(m.adj[q]) = Range(n.adj[q]) \cup Here(q, r, o)
    BY <2>1, <2>2 DEF Here, s
  <2> QED BY <2>3 DEF m
<1>3. CASE ~Contains(s, o)
  <2>1. m = [n EXCEPT !.adj[r] = v]
    BY <1>3, Zenon DEF add_adjacency, s
  <2>2. Range(v) = Range(s) \cup {o}
    <3>1. v \in Seq(Routers) /\ Len(v) = Len(s) + 1 /\ Len(s) \in Nat /\ v[Len(s) + 1] = o
          /\ \A i \in 1 .. Len(s) : v[i] = s[i]
      BY <1>1
    <3> HIDE DEF v
    <3>2. \A e : e \in Range(v) <=> \E i \in 1 .. Len(v) : v[i] = e
      BY <3>1, RangeIsContains
    <3>3. \A e : e \in Range(s) <=> \E i \in 1 .. Len(s) : s[i] = e
      BY <1>1, RangeIsContains
    <3>4. \A i \in 1 .. Len(v) : i \in 1 .. Len(s) \/ i = Len(s) + 1
      BY <3>1
    <3>5. Len(s) + 1 \in 1 .. Len(v) /\ \A i \in 1 .. Len(s) : i \in 1 .. Len(v)
      BY <3>1
    <3>6. ASSUME NEW e PROVE e \in Range(v) <=> e \in Range(s) \/ e = o
      BY <3>1, <3>2, <3>3, <3>4, <3>5
    <3> QED BY <3>6
  <2> HIDE DEF m, v
  <2>3. m.subs = n.subs /\ m.adj = [n.adj EXCEPT ![r] = v]
    BY <1>1, <2>1
  <2>4. q = r => m.adj[q] = v
    BY <1>1, <2>3
  <2>5. q # r => m.adj[q] = n.adj[q]
    BY <1>1, <2>3
  <2>6. Range(m.adj[q]) = Range(n.adj[q]) \cup Here(q, r, o)
    BY <2>2, <2>4, <2>5 DEF Here, s
  <2> QED BY <2>3, <2>6 DEF m
<1> QED BY <1>2, <1>3

\* add_new_router: the new one has nothing, the others are as they were.
LEMMA NewRouterTied ==
    ASSUME NEW n \in Networks, NEW r \in Routers, NEW q \in Routers
    PROVE  /\ q # r => /\ add_new_router(n, r).subs[q] = n.subs[q]
                       /\ add_new_router(n, r).adj[q] = n.adj[q]
           /\ q = r => Tied(add_new_router(n, r), q)
<1> DEFINE o == Append(n.order, r)
           m == add_new_router(n, r)
<1>1. /\ DOMAIN n = {"order", "adj", "subs", "exp", "seq"}
      /\ n.adj \in [Routers -> Seq(Routers)] /\ n.subs \in [Routers -> Seq(Subnets)]
  BY DEF Networks
<1>2. m = [n EXCEPT !.order = o, !.adj[r] = <<>>, !.subs[r] = <<>>,
                    !.exp[r] = RouterLife, !.seq[r] = 0]
  BY Zenon DEF add_new_router
<1> HIDE DEF m, o
<1>3. m.adj = [n.adj EXCEPT ![r] = <<>>]
  BY <1>1, <1>2
<1>4. m.subs = [n.subs EXCEPT ![r] = <<>>]
  BY <1>1, <1>2
<1>5. q # r => m.subs[q] = n.subs[q] /\ m.adj[q] = n.adj[q]
  BY <1>1, <1>3, <1>4
<1>6. ASSUME q = r PROVE Tied(m, q)
  <2>1. m.subs[q] = <<>> /\ m.adj[q] = <<>>
    BY <1>1, <1>3, <1>4, <1>6
  <2>2. Len(<<>>) = 0 /\ 1 .. 0 = {}
    OBVIOUS
  <2>3. Joined(q, <<>>)
    BY <2>2 DEF Joined
  <2>4. Named(<<>>) = {}
    BY <2>2 DEF Named
  <2>5. Range(<<>>) = {}
    BY DEF Range
  <2> QED BY <2>1, <2>3, <2>4, <2>5 DEF Tied
<1> QED BY <1>5, <1>6 DEF m

\* The opposite subnet: Connect, once the two routers are adjacent.
Opposite(n, con, opp) ==
    LET k == router_contains_subnet(n, con, opp.prefix)
    IN  IF Contains(n.subs[con], opp) THEN n
        ELSE IF k = 0 THEN add_new_route(n, con, opp)
        ELSE IF n.subs[con][k].rid = NoRid THEN [n EXCEPT !.subs[con][k].rid = opp.rid]
        ELSE remove_subnet_from_router(n, con, opp)

\* The opposite router has the subnet then, named for the host.
LEMMA OppositeNames ==
    ASSUME LinksAgree, NEW n \in Networks, NEW con \in Routers, NEW opp \in Subnets,
           opp.rid \in Routers, Joined(con, n.subs[con]), Fits(con, opp), NEW q \in Routers
    PROVE  /\ Opposite(n, con, opp).adj = n.adj
           /\ q # con => Opposite(n, con, opp).subs[q] = n.subs[q]
           /\ q = con => /\ Joined(con, Opposite(n, con, opp).subs[q])
                         /\ Named(Opposite(n, con, opp).subs[q]) =
                                Named(n.subs[q]) \cup {opp.rid}
<1> DEFINE s == n.subs[con]
           k == router_contains_subnet(n, con, opp.prefix)
           m == Opposite(n, con, opp)
           id == opp.rid
           a == Append(s, opp)
           b == [s EXCEPT ![k].rid = id]
<1>1. /\ DOMAIN n = {"order", "adj", "subs", "exp", "seq"}
      /\ n.subs \in [Routers -> Seq(Subnets)] /\ s \in Seq(Subnets)
      /\ id # NoRid
  BY TopInfoAssumption DEF Networks
<1>2. m = IF Contains(s, opp) THEN n
          ELSE IF k = 0 THEN add_new_route(n, con, opp)
          ELSE IF s[k].rid = NoRid THEN [n EXCEPT !.subs[con][k].rid = id]
          ELSE remove_subnet_from_router(n, con, opp)
  BY Zenon DEF Opposite
<1>3. k # 0 => k \in 1 .. Len(s) /\ s[k].prefix = opp.prefix
  BY FoundSubnet
<1>4. Joined(con, s)
  OBVIOUS
<1> HIDE DEF m, s, k
<1>5. CASE Contains(s, opp)
  <2>1. m = n
    BY <1>2, <1>5
  <2>2. id \in Named(s)
    BY <1>1, <1>5 DEF Named, Contains
  <2>3. m.adj = n.adj /\ m.subs = n.subs /\ Named(s) = Named(s) \cup {id}
    BY <2>1, <2>2
  <2> QED BY <1>4, <2>3 DEF s, m
<1>6. CASE ~Contains(s, opp)
  <2>1. /\ id \notin Named(s)
        /\ \A i \in 1 .. Len(s) : s[i].prefix = opp.prefix => s[i].rid = NoRid /\ s[i].mask = opp.mask
    BY <1>1, <1>4, <1>6, LinkIsNew
  <2>2. CASE k = 0
    <3>1. Joined(con, a) /\ Named(a) = Named(s) \cup {id}
      BY <1>1, <1>4, <2>1, AppendJoined
    <3> HIDE DEF a
    <3>2. m = [n EXCEPT !.subs[con] = a]
      BY <1>2, <1>6, <2>2, Zenon DEF add_new_route, s, a
    <3>3. m.adj = n.adj /\ m.subs = [n.subs EXCEPT ![con] = a]
      BY <1>1, <3>2
    <3>4. (q # con => m.subs[q] = n.subs[q]) /\ (q = con => m.subs[q] = a)
      BY <1>1, <3>3
    <3> QED BY <3>1, <3>3, <3>4 DEF s, m
  <2>3. CASE k # 0
    <3>1. k \in 1 .. Len(s) /\ s[k].rid = NoRid /\ s[k] \in Subnets
      BY <1>1, <1>3, <2>1, <2>3
    <3>2. [s[k] EXCEPT !.rid = id] = opp
      <4>1. s[k].prefix = opp.prefix /\ s[k].mask = opp.mask
        BY <1>3, <2>1, <2>3
      <4> QED BY <3>1, <4>1 DEF Subnets
    <3>3. b = Put(s, k, opp)
      <4>1. b = [s EXCEPT ![k] = [s[k] EXCEPT !.rid = id]]
        BY Zenon
      <4> QED BY <3>2, <4>1 DEF Put
    <3> HIDE DEF b
    <3>4. Joined(con, b) /\ Named(b) = Named(s) \cup {id}
      BY <1>1, <1>4, <2>1, <3>1, <3>3, NamingJoined
    <3>5. m = [n EXCEPT !.subs[con][k].rid = id]
      BY <1>2, <1>6, <2>3, <3>1, Zenon
    <3>6. m.adj = n.adj /\ m.subs = [n.subs EXCEPT ![con] = b]
      BY <1>1, <3>5 DEF s, b
    <3>7. (q # con => m.subs[q] = n.subs[q]) /\ (q = con => m.subs[q] = b)
      BY <1>1, <3>6
    <3> QED BY <3>4, <3>6, <3>7 DEF s, m
  <2> QED BY <2>2, <2>3
<1> QED BY <1>5, <1>6

\* Every known router but one is consistent.
AllTiedBut(n, r) == \A q \in Range(n.order) \ {r} : Tied(n, q)

\* A router that has just been given a subnet to id, and is not adjacent to it yet.
Ready(n, r, id) ==
    /\ Joined(r, n.subs[r]) /\ id \in Named(n.subs[r])
    /\ Range(n.adj[r]) \subseteq Named(n.subs[r])
    /\ r # Self => Named(n.subs[r]) \subseteq Range(n.adj[r]) \cup {id}

\* Connect closes the gap, at both ends.
LEMMA ConnectTied ==
    ASSUME LinksAgree, NEW n \in Networks, Graph(n), NEW host \in Range(n.order),
           NEW ad \in Subnets, ad.rid \in Routers \ {host}, Fits(host, ad),
           Ready(n, host, ad.rid), AllTiedBut(n, host)
    PROVE  AllTied(Connect(n, host, ad))
<1> DEFINE con == ad.rid
           opp == [ad EXCEPT !.rid = host]
           known == IF adj_list_contains(n, con) THEN n ELSE add_new_router(n, con)
           there == add_adjacency(known, host, con)
           linked == add_adjacency(there, con, host)
           m == Connect(n, host, ad)
           R == Range(n.order) \cup {con}
<1>1. /\ host \in Routers /\ con \in Routers /\ con # host /\ Range(n.order) \subseteq Routers
      /\ adj_list_contains(n, con) <=> con \in Range(n.order)
  BY GraphShape
<1>2. /\ opp \in Subnets /\ opp.rid = host /\ opp.prefix = ad.prefix /\ opp.mask = ad.mask
  BY <1>1 DEF Subnets
<1>3. Fits(con, opp)
  <2>1. {host, con} = {con, host}
    OBVIOUS
  <2> HIDE DEF opp
  <2> QED BY <1>1, <1>2, <2>1, TopInfoAssumption DEF Fits
<1>4. m = Opposite(linked, con, opp)
  <2>1. m = LET k == router_contains_subnet(linked, con, ad.prefix)
            IN  IF Contains(linked.subs[con], opp) THEN linked
                ELSE IF k = 0 THEN add_new_route(linked, con, opp)
                ELSE IF linked.subs[con][k].rid = NoRid
                     THEN [linked EXCEPT !.subs[con][k].rid = host]
                     ELSE remove_subnet_from_router(linked, con, opp)
    BY Zenon DEF Connect
  <2> HIDE DEF linked, opp, con, m
  <2> QED BY <1>2, <2>1, Zenon DEF Opposite
<1>5. known \in Networks
  BY <1>1, NewRouterTyped
<1>6. known.subs[host] = n.subs[host] /\ known.adj[host] = n.adj[host]
  BY <1>1, NewRouterTied
<1>7. ASSUME NEW q \in R, q # host PROVE Tied(known, q)
  <2>1. CASE q \in Range(n.order) /\ con \in Range(n.order)
    BY <1>1, <1>7, <2>1 DEF AllTiedBut
  <2>2. CASE con \notin Range(n.order)
    <3>1. known = add_new_router(n, con)
      BY <1>1, <2>2
    <3>2. CASE q = con
      BY <1>1, <3>1, <3>2, NewRouterTied
    <3>3. CASE q # con
      <4>1. Tied(n, q) /\ q \in Routers
        BY <1>1, <1>7, <3>3 DEF AllTiedBut
      <4>2. known.subs[q] = n.subs[q] /\ known.adj[q] = n.adj[q]
        BY <1>1, <3>1, <3>3, <4>1, NewRouterTied
      <4> HIDE DEF known
      <4> QED BY <4>1, <4>2, SameTied
    <3> QED BY <3>2, <3>3
  <2> QED BY <1>7, <2>1, <2>2
<1> HIDE DEF known
<1>8. there \in Networks /\ there.subs = known.subs
  BY <1>1, <1>5, AdjacencyTyped, LinkLinks
<1>9. ASSUME NEW q \in Routers
      PROVE  Range(there.adj[q]) = Range(known.adj[q]) \cup Here(q, host, con)
  BY <1>1, <1>5, LinkLinks
<1> HIDE DEF there
<1>10. linked \in Networks /\ linked.subs = known.subs
  BY <1>1, <1>8, AdjacencyTyped, LinkLinks
<1>11. ASSUME NEW q \in Routers
       PROVE  Range(linked.adj[q]) = Range(known.adj[q]) \cup Here(q, host, con) \cup Here(q, con, host)
  <2>1. Range(linked.adj[q]) = Range(there.adj[q]) \cup Here(q, con, host)
    BY <1>1, <1>8, LinkLinks
  <2> QED BY <1>9, <2>1
<1> HIDE DEF linked, opp, m
<1>12. Tied(known, con)
  BY <1>1, <1>7
<1>13. Joined(con, linked.subs[con])
  BY <1>10, <1>12 DEF Tied
<1>14. ASSUME NEW q \in Routers
       PROVE  /\ m.adj = linked.adj
              /\ q # con => m.subs[q] = linked.subs[q]
              /\ q = con => /\ Joined(con, m.subs[q])
                            /\ Named(m.subs[q]) = Named(linked.subs[q]) \cup {host}
  BY <1>1, <1>2, <1>3, <1>4, <1>10, <1>13, OppositeNames
<1>15. Range(m.order) = R
  BY ConnectKeeps DEF m
<1>16. ASSUME NEW q \in R PROVE Tied(m, q)
  <2>1. q \in Routers
    BY <1>1
  <2>2. /\ Range(m.adj[q]) = Range(known.adj[q]) \cup Here(q, host, con) \cup Here(q, con, host)
        /\ q # con => m.subs[q] = known.subs[q]
        /\ q = con => /\ Joined(con, m.subs[q])
                      /\ Named(m.subs[q]) = Named(known.subs[q]) \cup {host}
    BY <1>10, <1>11, <1>14, <2>1
  <2>3. CASE q = host
    <3>1. m.subs[q] = n.subs[q] /\ Range(m.adj[q]) = Range(n.adj[q]) \cup {con}
      BY <1>1, <1>6, <2>2, <2>3 DEF Here
    <3>2. Ready(n, q, con)
      BY <2>3
    <3> QED BY <3>1, <3>2 DEF Tied, Ready
  <2>4. CASE q = con
    <3>1. /\ Joined(q, m.subs[q]) /\ Named(m.subs[q]) = Named(known.subs[q]) \cup {host}
          /\ Range(m.adj[q]) = Range(known.adj[q]) \cup {host}
      BY <1>1, <2>2, <2>4 DEF Here
    <3>2. Tied(known, q)
      BY <1>12, <2>4
    <3> QED BY <3>1, <3>2 DEF Tied
  <2>5. CASE q # host /\ q # con
    <3>1. m.subs[q] = known.subs[q] /\ Range(m.adj[q]) = Range(known.adj[q])
      BY <2>2, <2>5 DEF Here
    <3>2. Tied(known, q)
      BY <1>7, <2>5
    <3> QED BY <3>1, <3>2 DEF Tied
  <2> QED BY <2>3, <2>4, <2>5
<1> QED BY <1>15, <1>16 DEF AllTied, m

\* One array of subnets is replaced.
WithSubs(n, r, v) == [n EXCEPT !.subs[r] = v]

\* The adjacencies and the other arrays stay.
LEMMA SubsAt ==
    ASSUME NEW n \in Networks, NEW r \in Routers, NEW v, NEW q \in Routers
    PROVE  /\ WithSubs(n, r, v).adj = n.adj /\ WithSubs(n, r, v).order = n.order
           /\ q = r => WithSubs(n, r, v).subs[q] = v
           /\ q # r => WithSubs(n, r, v).subs[q] = n.subs[q]
<1> DEFINE m == WithSubs(n, r, v)
<1>1. DOMAIN n = {"order", "adj", "subs", "exp", "seq"} /\ n.subs \in [Routers -> Seq(Subnets)]
  BY DEF Networks
<1>2. m.adj = n.adj /\ m.order = n.order /\ m.subs = [n.subs EXCEPT ![r] = v]
  BY <1>1 DEF WithSubs
<1> HIDE DEF m
<1>3. (q = r => m.subs[q] = v) /\ (q # r => m.subs[q] = n.subs[q])
  BY <1>1, <1>2
<1> QED BY <1>2, <1>3 DEF m

\* remove_subnet_from_router takes a subnet and the adjacency it names.
LEMMA ConflictTied ==
    ASSUME NEW n \in Networks, Graph(n), NEW r \in Range(n.order),
           NEW k \in 1 .. Len(n.subs[r]), n.subs[r][k].rid # NoRid,
           NEW q \in Range(n.order), Tied(n, q)
    PROVE  Tied(remove_subnet_from_router(n, r, n.subs[r][k]), q)
<1> DEFINE s == n.subs[r]
           old == s[k]
           id == old.rid
           v == RemoveElement(s, old)
           a == RemoveElement(n.adj[r], id)
           m == remove_subnet_from_router(n, r, old)
<1>1. /\ r \in Routers /\ q \in Routers /\ n.adj[r] \in Seq(Routers) /\ NoRepeat(n.adj[r])
      /\ DOMAIN n = {"order", "adj", "subs", "exp", "seq"}
      /\ n.adj \in [Routers -> Seq(Routers)]
      /\ n.subs \in [Routers -> Seq(Subnets)] /\ s \in Seq(Subnets)
  BY GraphShape DEF Networks
<1>2. q = r => Joined(q, v) /\ Named(v) = Named(s) \ {id}
  BY <1>1, ElementJoined DEF Tied
<1>3. Range(a) = Range(n.adj[r]) \ {id}
  BY <1>1, RemoveElementRemoves
<1>4. m = [n EXCEPT !.subs[r] = v, !.adj[r] = a]
  BY Zenon DEF remove_subnet_from_router
<1> HIDE DEF s, old, v, a, m
<1>5. m.subs = [n.subs EXCEPT ![r] = v]
  BY <1>1, <1>4
<1>6. m.adj = [n.adj EXCEPT ![r] = a]
  BY <1>1, <1>4
<1>7. CASE q = r
  <2>1. m.subs[q] = v /\ m.adj[q] = a
    BY <1>1, <1>5, <1>6, <1>7
  <2>2. /\ Range(n.adj[q]) \subseteq Named(s)
        /\ q # Self => Named(s) \subseteq Range(n.adj[q])
    BY <1>7 DEF Tied, s
  <2>3. Tied(m, q)
    BY <1>2, <1>3, <1>7, <2>1, <2>2 DEF Tied
  <2> QED BY <2>3 DEF m, old, s
<1>8. CASE q # r
  <2>1. m.subs[q] = n.subs[q] /\ m.adj[q] = n.adj[q]
    BY <1>1, <1>5, <1>6, <1>8
  <2>2. Tied(m, q)
    BY <2>1, SameTied
  <2> QED BY <2>2 DEF m, old, s
<1> QED BY <1>7, <1>8

\* The first half of the loop body, when there is no conflict.
Listed(n, host, ad, m) ==
    \/ Contains(n.subs[host], ad) /\ m = n
    \/ ~Contains(n.subs[host], ad) /\ m = add_new_route(n, host, ad)
    \/ \E k \in 1 .. Len(n.subs[host]) :
         /\ ~Contains(n.subs[host], ad) /\ ad.rid # NoRid
         /\ n.subs[host][k].prefix = ad.prefix
         /\ m = [n EXCEPT !.subs[host][k].rid = ad.rid]

\* The advertised subnet is in the host's array then.
LEMMA ListedNames ==
    ASSUME LinksAgree, NEW n \in Networks, NEW host \in Routers, Joined(host, n.subs[host]),
           NEW ad \in Subnets, Fits(host, ad), NEW m,
           Listed(n, host, ad, m),
           NEW q \in Routers
    PROVE  /\ m \in Networks /\ m.adj = n.adj
           /\ q # host => m.subs[q] = n.subs[q]
           /\ q = host => /\ Joined(q, m.subs[q])
                          /\ Named(m.subs[q]) = Named(n.subs[q]) \cup ({ad.rid} \ {NoRid})
<1> DEFINE s == n.subs[host]
<1>1. s \in Seq(Subnets) /\ DOMAIN n = {"order", "adj", "subs", "exp", "seq"}
      /\ n.subs \in [Routers -> Seq(Subnets)] /\ NoRid \notin Routers
      /\ ad.rid \in Routers \cup {NoRid}
  BY TopInfoAssumption DEF Networks, Subnets
<1> HIDE DEF s
<1>2. Joined(host, s)
  BY DEF s
<1>3. CASE Contains(s, ad)
  <2>3. m = n
    BY <1>3 DEF Listed, s
  <2>1. ad.rid # NoRid => ad.rid \in Named(s)
    BY <1>3 DEF Contains, Named
  <2>2. Named(s) = Named(s) \cup ({ad.rid} \ {NoRid})
    BY <2>1
  <2> QED BY <1>2, <2>2, <2>3 DEF s
<1>4. CASE ~Contains(s, ad)
  <2>1. ad.rid \notin Named(s)
    <3>1. CASE ad.rid = NoRid
      BY <3>1 DEF Named
    <3>2. CASE ad.rid # NoRid
      BY <1>1, <1>2, <1>4, <3>2, LinkIsNew
    <3> QED BY <3>1, <3>2
  <2>2. CASE m = add_new_route(n, host, ad)
    <3> DEFINE a == Append(s, ad)
    <3>1. Joined(host, a) /\ Named(a) = Named(s) \cup ({ad.rid} \ {NoRid})
      BY <1>1, <1>2, <2>1, AppendJoined
    <3> HIDE DEF a
    <3>2. m = WithSubs(n, host, a)
      BY <2>2, Zenon DEF add_new_route, WithSubs, s, a
    <3>3. m \in Networks
      BY <2>2, NewRouteTyped
    <3>4. /\ m.adj = n.adj
          /\ q # host => m.subs[q] = n.subs[q]
          /\ q = host => m.subs[q] = a
      BY <3>2, SubsAt
    <3> QED BY <3>1, <3>3, <3>4 DEF s
  <2>3. ASSUME NEW k \in 1 .. Len(s), ad.rid # NoRid, s[k].prefix = ad.prefix,
               m = [n EXCEPT !.subs[host][k].rid = ad.rid]
        PROVE  /\ m \in Networks /\ m.adj = n.adj
               /\ q # host => m.subs[q] = n.subs[q]
               /\ q = host => /\ Joined(q, m.subs[q])
                              /\ Named(m.subs[q]) = Named(n.subs[q]) \cup ({ad.rid} \ {NoRid})
    <3> DEFINE b == [s EXCEPT ![k].rid = ad.rid]
    <3>1. s[k].rid = NoRid /\ s[k].mask = ad.mask /\ s[k] \in Subnets
      <4>1. \A i \in 1 .. Len(s) : s[i].prefix = ad.prefix => s[i].rid = NoRid /\ s[i].mask = ad.mask
        <5>1. ad.rid # NoRid /\ ~Contains(s, ad)
          BY <1>4, <2>3
        <5> QED BY <1>1, <1>2, <5>1, LinkIsNew
      <4>2. s[k] \in Subnets
        BY <1>1
      <4> QED BY <2>3, <4>1, <4>2
    <3>2. [s[k] EXCEPT !.rid = ad.rid] = ad
      BY <2>3, <3>1 DEF Subnets
    <3>3. b = Put(s, k, ad)
      <4>1. b = [s EXCEPT ![k] = [s[k] EXCEPT !.rid = ad.rid]]
        BY Zenon
      <4> QED BY <3>2, <4>1 DEF Put
    <3>4. m = WithSubs(n, host, b)
      BY <2>3, Zenon DEF WithSubs, s
    <3>5. m \in Networks
      BY <1>1, <2>3, NamedTyped
    <3> HIDE DEF b
    <3>6. Joined(host, b) /\ Named(b) = Named(s) \cup {ad.rid}
      <4>1. ad.rid \in Routers
        BY <1>1, <2>3
      <4> QED BY <1>1, <1>2, <2>1, <3>1, <3>3, <4>1, NamingJoined
    <3>7. /\ m.adj = n.adj
          /\ q # host => m.subs[q] = n.subs[q]
          /\ q = host => m.subs[q] = b
      BY <3>4, SubsAt
    <3>8. {ad.rid} \ {NoRid} = {ad.rid}
      BY <2>3
    <3> QED BY <3>5, <3>6, <3>7, <3>8 DEF s
  <2> QED BY <1>4, <2>2, <2>3 DEF s, Listed
<1> QED BY <1>3, <1>4 DEF s

\* One advertisement: the host and the router it names stay consistent.
LEMMA AdvertTied ==
    ASSUME LinksAgree, NEW n \in Networks, Graph(n), NEW host \in Range(n.order), AllTied(n),
           NEW ad \in Subnets, ad.rid # host, Fits(host, ad)
    PROVE  AllTied(AddAdvert(n, host, ad))
<1> DEFINE s == n.subs[host]
           k == router_contains_subnet(n, host, ad.prefix)
           old == s[k]
           keepsBoth == /\ ad.mask # old.mask
                        /\ ad.rid = NoRid \/ old.rid = NoRid
           listed == IF Contains(s, ad) THEN n
                     ELSE IF k = 0 \/ keepsBoth THEN add_new_route(n, host, ad)
                     ELSE [n EXCEPT !.subs[host][k].rid = ad.rid]
           conflict == /\ ~Contains(s, ad)
                       /\ k # 0 /\ ~keepsBoth /\ old.rid # NoRid
           m == AddAdvert(n, host, ad)
<1>1. m = IF conflict THEN remove_subnet_from_router(n, host, old)
          ELSE IF ad.rid = NoRid THEN listed
          ELSE Connect(listed, host, ad)
  BY Zenon DEF AddAdvert
<1>2. /\ host \in Routers /\ s \in Seq(Subnets) /\ ad.rid \in Routers \cup {NoRid}
      /\ Range(n.order) \subseteq Routers
      /\ DOMAIN n = {"order", "adj", "subs", "exp", "seq"}
  BY GraphShape DEF Networks, Subnets
<1>3. k # 0 => k \in 1 .. Len(s) /\ old.prefix = ad.prefix
  BY <1>2, FoundSubnet
<1>4. \A q \in Range(n.order) : Tied(n, q)
  BY DEF AllTied
<1> HIDE DEF k, m
<1>5. CASE conflict
  <2>1. k \in 1 .. Len(n.subs[host]) /\ n.subs[host][k].rid # NoRid
    BY <1>3, <1>5
  <2>2. m = remove_subnet_from_router(n, host, n.subs[host][k])
    BY <1>1, <1>5
  <2>3. m.order = n.order
    BY <2>2, RemoveSubnetKeeps
  <2>4. ASSUME NEW q \in Range(n.order) PROVE Tied(m, q)
    BY <1>4, <2>1, <2>2, ConflictTied
  <2> QED BY <2>3, <2>4 DEF AllTied, m
<1>6. CASE ~conflict
  <2>1. Listed(n, host, ad, listed)
    <3>1. CASE Contains(s, ad)
      BY <3>1 DEF Listed
    <3>2. CASE ~Contains(s, ad) /\ (k = 0 \/ keepsBoth)
      <4>1. listed = add_new_route(n, host, ad)
        BY <3>2
      <4> HIDE DEF listed
      <4> QED BY <3>2, <4>1 DEF Listed
    <3>3. CASE ~Contains(s, ad) /\ k # 0 /\ ~keepsBoth
      <4>1. old.rid = NoRid /\ old.mask = ad.mask
        BY <1>6, <3>3
      <4>2. k \in 1 .. Len(s) /\ old.prefix = ad.prefix /\ old \in Subnets
        BY <1>2, <1>3, <3>3
      <4>3. ad.rid # NoRid
        <5>1. ASSUME ad.rid = NoRid PROVE ad = old
          <6> HIDE DEF old
          <6> QED BY <4>1, <4>2, <5>1 DEF Subnets
        <5> QED BY <3>3, <4>2, <5>1 DEF Contains
      <4>4. listed = [n EXCEPT !.subs[host][k].rid = ad.rid]
        BY <3>3
      <4> HIDE DEF listed
      <4> QED BY <3>3, <4>2, <4>3, <4>4 DEF Listed
    <3> QED BY <3>1, <3>2, <3>3
  <2>2. listed.order = n.order /\ DOMAIN listed = DOMAIN n
    BY <1>2 DEF add_new_route
  <2> HIDE DEF listed, conflict
  <2>3. Joined(host, n.subs[host])
    BY <1>4 DEF Tied
  <2>4. ASSUME NEW q \in Routers
        PROVE  /\ listed \in Networks /\ listed.adj = n.adj
               /\ q # host => listed.subs[q] = n.subs[q]
               /\ q = host => /\ Joined(q, listed.subs[q])
                              /\ Named(listed.subs[q]) = Named(n.subs[q]) \cup ({ad.rid} \ {NoRid})
    BY <1>2, <2>1, <2>3, ListedNames
  <2>5. listed \in Networks /\ Graph(listed)
    BY <1>2, <2>2, <2>4, SameGraph
  <2>6. ASSUME NEW q \in Range(n.order), q # host PROVE Tied(listed, q)
    <3>1. listed.subs[q] = n.subs[q] /\ listed.adj[q] = n.adj[q]
      BY <1>2, <2>4, <2>6
    <3> QED BY <1>4, <3>1, SameTied
  <2>7. /\ Joined(host, listed.subs[host]) /\ listed.adj[host] = n.adj[host]
        /\ Named(listed.subs[host]) = Named(n.subs[host]) \cup ({ad.rid} \ {NoRid})
    BY <1>2, <2>4
  <2>8. Tied(n, host)
    BY <1>4
  <2>9. CASE ad.rid = NoRid
    <3>1. m = listed
      BY <1>1, <1>6, <2>9
    <3>2. Tied(listed, host)
      BY <2>7, <2>8, <2>9 DEF Tied
    <3>3. AllTied(listed)
      BY <2>2, <2>6, <3>2 DEF AllTied
    <3> QED BY <3>1, <3>3 DEF m
  <2>10. CASE ad.rid # NoRid
    <3>1. m = Connect(listed, host, ad)
      BY <1>1, <1>6, <2>10
    <3>2. Ready(listed, host, ad.rid)
      BY <2>7, <2>8, <2>10 DEF Ready, Tied
    <3>3. AllTiedBut(listed, host)
      BY <2>2, <2>6 DEF AllTiedBut
    <3>4. host \in Range(listed.order) /\ ad.rid \in Routers \ {host}
      BY <1>2, <2>2, <2>10
    <3>5. AllTied(Connect(listed, host, ad))
      BY <2>5, <3>2, <3>3, <3>4, ConnectTied
    <3> QED BY <3>1, <3>5 DEF m
  <2> QED BY <2>9, <2>10
<1> QED BY <1>5, <1>6

\* A database whose links are as they were.
LEMMA LinkedSame ==
    ASSUME NEW n, NEW m, Linked(n), m.order = n.order, m.subs = n.subs, m.adj = n.adj
    PROVE  Linked(m)
  BY DEF Linked, AllTied, Tied

\* One advertisement of a known router.
LEMMA AdvertLinked ==
    ASSUME NEW n \in Networks, Graph(n), Linked(n), NEW host \in Range(n.order),
           NEW ad \in Subnets, ad.rid # host, LinksAgree => Fits(host, ad)
    PROVE  Linked(AddAdvert(n, host, ad))
<1>1. ASSUME LinksAgree PROVE AllTied(AddAdvert(n, host, ad))
  BY <1>1, AdvertTied DEF Linked
<1> QED BY <1>1 DEF Linked

\* A router of the list that is new.
LEMMA NewRouterLinked ==
    ASSUME NEW n \in Networks, Graph(n), Linked(n), NEW r \in Routers, r \notin Range(n.order)
    PROVE  Linked(add_new_router(n, r))
<1> DEFINE m == add_new_router(n, r)
<1>1. Range(m.order) = Range(n.order) \cup {r} /\ Range(n.order) \subseteq Routers
  BY NewRouterKeeps, GraphShape
<1>2. ASSUME LinksAgree, NEW q \in Range(m.order) PROVE Tied(m, q)
  <2>1. CASE q = r
    BY <2>1, NewRouterTied
  <2>2. CASE q # r
    <3>1. q \in Routers /\ Tied(n, q)
      BY <1>1, <1>2, <2>2 DEF Linked, AllTied
    <3>2. m.subs[q] = n.subs[q] /\ m.adj[q] = n.adj[q]
      BY <2>2, <3>1, NewRouterTied
    <3> HIDE DEF m
    <3> QED BY <3>1, <3>2, SameTied
  <2> QED BY <2>1, <2>2
<1> QED BY <1>2 DEF Linked, AllTied

\* A link cut at both ends.
LEMMA CutLinked ==
    ASSUME NEW n \in Networks, Graph(n), Linked(n), NEW r \in Range(n.order),
           NEW o \in Range(n.order)
    PROVE  Linked(Cut(n, r, o))
<1>1. Cut(n, r, o).order = n.order
  BY CutKeeps, Zenon DEF Cut
<1>2. ASSUME LinksAgree, NEW q \in Range(n.order) PROVE Tied(Cut(n, r, o), q)
  BY <1>2, CutTied DEF Linked, AllTied
<1> QED BY <1>1, <1>2 DEF Linked, AllTied

\* A link whose other end is unknown.
LEMMA HalfLinked ==
    ASSUME NEW n \in Networks, Graph(n), Linked(n), NEW r \in Range(n.order),
           NEW id, id \notin Range(n.order)
    PROVE  Linked(remove_rt_sn_using_id(n, r, id))
<1> DEFINE m == remove_rt_sn_using_id(n, r, id)
<1>1. /\ m.order = n.order /\ Range(n.order) \subseteq Routers
      /\ \A q \in Range(n.order) : id \notin Range(n.adj[q])
  BY SubnetGoneKeeps, GraphShape
<1>2. ASSUME LinksAgree, NEW q \in Range(n.order) PROVE Tied(m, q)
  BY <1>1, <1>2, HalfTied DEF Linked, AllTied
<1> HIDE DEF m
<1>3. Linked(m)
  BY <1>1, <1>2 DEF Linked, AllTied
<1> QED BY <1>3 DEF m

\* One round of the pruning, whatever its index.
LEMMA PruneRoundLinked ==
    ASSUME NEW st, DOMAIN st = {"net", "i"}, st.net \in Networks, Graph(st.net), Linked(st.net),
           NEW ads, NEW host \in Range(st.net.order)
    PROVE  Linked(PruneRound(st, host, ads).net)
<1> DEFINE n == st.net
           sub == n.subs[host][st.i]
           nbor == sub.rid
           gone == remove_rt_sn_using_id(n, host, nbor)
           m == PruneRound(st, host, ads)
<1>1. \/ m = [st EXCEPT !.i = @ + 1]
      \/ adj_list_contains(n, nbor) /\ m = [st EXCEPT !.net = Cut(n, host, nbor)]
      \/ ~adj_list_contains(n, nbor) /\ m = [st EXCEPT !.net = gone]
  BY Zenon DEF PruneRound, Cut
<1> HIDE DEF sub, nbor, m
<1>2. adj_list_contains(n, nbor) <=> nbor \in Range(n.order)
  BY GraphShape, RangeIsContains DEF adj_list_contains
<1>3. nbor \in Range(n.order) => Linked(Cut(n, host, nbor))
  BY CutLinked
<1>4. nbor \notin Range(n.order) => Linked(gone)
  BY HalfLinked
<1> HIDE DEF gone
<1>5. Linked(m.net)
  <2>1. CASE m = [st EXCEPT !.i = @ + 1]
    <3>1. m.net = n
      BY <2>1
    <3> QED BY <3>1
  <2>2. CASE adj_list_contains(n, nbor) /\ m = [st EXCEPT !.net = Cut(n, host, nbor)]
    <3>1. m.net = Cut(n, host, nbor)
      BY <2>2
    <3> QED BY <1>2, <1>3, <2>2, <3>1
  <2>3. CASE ~adj_list_contains(n, nbor) /\ m = [st EXCEPT !.net = gone]
    <3>1. m.net = gone
      BY <2>3
    <3> QED BY <1>2, <1>4, <2>3, <3>1
  <2> QED BY <1>1, <2>1, <2>2, <2>3
<1> QED BY <1>5 DEF m

\* A silent neighbor.
LEMMA DisconnectLinked ==
    ASSUME NEW n \in Networks, Graph(n), Linked(n), Self \in Range(n.order), NEW id
    PROVE  Linked(Disconnect(n, id))
<1>1. adj_list_contains(n, id) <=> id \in Range(n.order)
  BY GraphShape, RangeIsContains DEF adj_list_contains
<1>2. Disconnect(n, id) = IF adj_list_contains(n, id) THEN Cut(n, Self, id)
                          ELSE remove_rt_sn_using_id(n, Self, id)
  BY Zenon DEF Disconnect, Cut
<1>3. id \in Range(n.order) => Linked(Cut(n, Self, id))
  BY CutLinked
<1>4. id \notin Range(n.order) => Linked(remove_rt_sn_using_id(n, Self, id))
  BY HalfLinked
<1> QED BY <1>1, <1>2, <1>3, <1>4

\* Nobody has the prefix of an interface with another mask.
LEMMA OwnLink ==
    ASSUME LinksAgree, NEW f \in IfaceSet
    PROVE  /\ [ends |-> {Self, Peer[f]}, prefix |-> IfPrefix[f], mask |-> IfMask] \in Links
           /\ \A k \in Links : k.prefix = IfPrefix[f] => k.mask = IfMask
<1> DEFINE a == [ends |-> {Self, Peer[f]}, prefix |-> IfPrefix[f], mask |-> IfMask]
<1>1. a \in Links
  BY DEF Links, OwnLinks
<1>2. a.prefix = IfPrefix[f] /\ a.mask = IfMask
  OBVIOUS
<1> HIDE DEF a
<1>3. \A k \in Links : k.prefix = IfPrefix[f] => k.mask = IfMask
  BY <1>1, <1>2 DEF LinksAgree
<1> QED BY <1>1, <1>3 DEF a

\* The subnet of the interface is named for the neighbor that said HELLO.
LEMMA NameLinked ==
    ASSUME NEW n \in Networks, Graph(n), Own(n), Linked(n), Self \in Range(n.order),
           NEW f \in IfaceSet
    PROVE  Linked(NameSubnet(n, f, Peer[f]))
<1> DEFINE s == n.subs[Self]
           id == Peer[f]
           k == router_contains_subnet(n, Self, IfPrefix[f])
           sub == [s[k] EXCEPT !.rid = id]
           v == [s EXCEPT ![k].rid = id]
           m == NameSubnet(n, f, id)
<1>1. /\ Self \in Routers /\ s \in Seq(Subnets) /\ id \in Routers \ {Self} /\ id # NoRid
      /\ Range(n.order) \subseteq Routers
      /\ DOMAIN n = {"order", "adj", "subs", "exp", "seq"}
  BY TopInfoAssumption, PwospfAssumption, GraphShape DEF Networks, Remote
<1>2. \/ m = n
      \/ /\ k # 0 /\ s[k].rid = NoRid /\ s[k].mask = IfMask
         /\ m = [n EXCEPT !.subs[Self][k].rid = id]
  BY Zenon DEF NameSubnet
<1>3. k # 0 => k \in 1 .. Len(s) /\ s[k].prefix = IfPrefix[f]
  BY <1>1, FoundSubnet
<1>4. Local(s)
  BY DEF Own
<1> HIDE DEF k, m, s, id
<1>5. CASE m = n
  BY <1>5 DEF m, id
<1>6. ASSUME k # 0, s[k].rid = NoRid, s[k].mask = IfMask,
             m = [n EXCEPT !.subs[Self][k].rid = id]
      PROVE  Linked(m)
  <2>1. k \in 1 .. Len(s) /\ s[k] \in Subnets /\ s[k].prefix = IfPrefix[f]
    BY <1>1, <1>3, <1>6
  <2>2. /\ sub.rid = id /\ sub.prefix = IfPrefix[f] /\ sub.mask = IfMask /\ sub \in Subnets
    BY <1>1, <1>6, <2>1 DEF Subnets
  <2>3. v = Put(s, k, sub)
    BY Zenon DEF Put
  <2>4. m = WithSubs(n, Self, v)
    BY <1>6, Zenon DEF WithSubs, s
  <2> HIDE DEF v, sub
  <2>5. m.order = n.order
    BY <1>1, <2>4, SubsAt
  <2>6. ASSUME NEW q \in Routers
        PROVE  /\ m.adj = n.adj
               /\ q = Self => m.subs[q] = v
               /\ q # Self => m.subs[q] = n.subs[q]
    BY <1>1, <2>4, SubsAt
  <2>7. ASSUME LinksAgree, NEW q \in Range(n.order) PROVE Tied(m, q)
    <3>1. Tied(n, q) /\ q \in Routers
      BY <1>1, <2>7 DEF Linked, AllTied
    <3>2. CASE q # Self
      <4>1. m.subs[q] = n.subs[q] /\ m.adj[q] = n.adj[q]
        BY <2>6, <3>1, <3>2
      <4> QED BY <3>1, <4>1, SameTied
    <3>3. CASE q = Self
      <4>1. Joined(Self, s) /\ Range(n.adj[Self]) \subseteq Named(s)
        BY <3>1, <3>3 DEF Tied, s
      <4>2. Fits(Self, sub)
        <5>1. /\ [ends |-> {Self, Peer[f]}, prefix |-> IfPrefix[f], mask |-> IfMask] \in Links
              /\ \A l \in Links : l.prefix = IfPrefix[f] => l.mask = IfMask
          BY <2>7, OwnLink
        <5> QED BY <1>1, <2>2, <5>1 DEF Fits, id
      <4>3. ~Contains(s, sub)
        BY <1>1, <1>4, <1>6, <2>1, <2>2 DEF Contains, Local
      <4>4. sub.rid \notin Named(s)
        BY <1>1, <2>2, <2>7, <4>1, <4>2, <4>3, LinkIsNew
      <4>5. Joined(Self, v) /\ Named(v) = Named(s) \cup {id}
        BY <1>1, <1>6, <2>1, <2>2, <2>3, <4>1, <4>2, <4>4, NamingJoined
      <4>6. m.subs[q] = v /\ m.adj[q] = n.adj[q]
        BY <1>1, <2>6, <3>3
      <4> QED BY <3>3, <4>1, <4>5, <4>6 DEF Tied
    <3> QED BY <3>2, <3>3
  <2> QED BY <2>5, <2>7 DEF Linked, AllTied
<1> QED BY <1>2, <1>5, <1>6 DEF m, id

\* The database of pwospf_init: one unnamed subnet for each interface.
LEMMA OwnJoined ==
    ASSUME LinksAgree
    PROVE  Joined(Self, OwnSubnets) /\ Named(OwnSubnets) = {}
<1>1. Len(Ifaces) \in Nat /\ \A i \in 1 .. Len(Ifaces) : Ifaces[i] \in IfaceSet
  BY PwospfAssumption
<1>2. /\ Len(OwnSubnets) = Len(Ifaces)
      /\ \A i \in 1 .. Len(Ifaces) :
             OwnSubnets[i] = [prefix |-> IfPrefix[Ifaces[i]], mask |-> IfMask, rid |-> NoRid]
  BY <1>1 DEF OwnSubnets
<1>3. ASSUME NEW i \in 1 .. Len(Ifaces) PROVE Fits(Self, OwnSubnets[i]) /\ OwnSubnets[i].rid = NoRid
  <2> DEFINE sub == OwnSubnets[i]
  <2>1. sub.prefix = IfPrefix[Ifaces[i]] /\ sub.mask = IfMask /\ sub.rid = NoRid
    <3>1. sub = [prefix |-> IfPrefix[Ifaces[i]], mask |-> IfMask, rid |-> NoRid]
      BY <1>2
    <3> HIDE DEF sub
    <3> QED BY <3>1
  <2>2. \A k \in Links : k.prefix = IfPrefix[Ifaces[i]] => k.mask = IfMask
    BY <1>1, OwnLink
  <2> HIDE DEF sub
  <2>3. Fits(Self, sub)
    BY <2>1, <2>2 DEF Fits
  <2> QED BY <2>1, <2>3 DEF sub
<1>4. Joined(Self, OwnSubnets)
  BY <1>2, <1>3 DEF Joined
<1>5. Named(OwnSubnets) = {}
  BY <1>2, <1>3 DEF Named
<1> QED BY <1>4, <1>5

\* The databases of the own router in which the routers R, at least, are known.
Databases(R) ==
    {n \in Networks : Graph(n) /\ Own(n) /\ Linked(n) /\ R \subseteq Range(n.order)}

(***************************************************************************)
(* An LSU: add_to_existing_router and the pruning after it.                *)
(***************************************************************************)
\* The advertisements of a router: it does not name itself, and the own router
\* only on the subnet they share; each is a link when links agree.
AdsOf(host) ==
    {ad \in [prefix : PrefixSet, mask : MaskSet, rid : (Routers \ {host}) \cup {NoRid}] :
        /\ ad.rid = Self => \E f \in IfaceSet : ad.prefix = IfPrefix[f]
        /\ LinksAgree => Fits(host, ad)}

\* The second half of the loop body.
LEMMA ConnectTyped ==
    ASSUME NEW n \in Networks, NEW host \in Routers, NEW ad \in Subnets, ad.rid \in Routers
    PROVE  Connect(n, host, ad) \in Networks
<1> DEFINE con == ad.rid
           opp == [ad EXCEPT !.rid = host]
           known == IF adj_list_contains(n, con) THEN n ELSE add_new_router(n, con)
           there == add_adjacency(known, host, con)
           linked == add_adjacency(there, con, host)
           k == router_contains_subnet(linked, con, ad.prefix)
           m == Connect(n, host, ad)
<1>1. known \in Networks
  BY NewRouterTyped
<1>2. opp \in Subnets
  BY DEF Subnets
<1> HIDE DEF known, opp
<1>3. there \in Networks
  BY <1>1, AdjacencyTyped
<1> HIDE DEF there
<1>4. linked \in Networks
  BY <1>3, AdjacencyTyped
<1> HIDE DEF linked
<1>5. \/ m = linked
      \/ m = add_new_route(linked, con, opp)
      \/ m = [linked EXCEPT !.subs[con][k].rid = host]
      \/ m = remove_subnet_from_router(linked, con, opp)
  BY Zenon DEF Connect, linked, there, known, opp
<1> HIDE DEF k, m
<1>6. add_new_route(linked, con, opp) \in Networks
  BY <1>2, <1>4, NewRouteTyped
<1>7. [linked EXCEPT !.subs[con][k].rid = host] \in Networks
  BY <1>4, NamedTyped
<1>8. remove_subnet_from_router(linked, con, opp) \in Networks
  BY <1>4, RemoveSubnetTyped
<1> QED BY <1>4, <1>5, <1>6, <1>7, <1>8 DEF m

\* One advertisement.
LEMMA AdvertTyped ==
    ASSUME NEW n \in Networks, NEW host \in Routers, NEW ad \in Subnets
    PROVE  AddAdvert(n, host, ad) \in Networks
<1> DEFINE k == router_contains_subnet(n, host, ad.prefix)
           old == n.subs[host][k]
           keepsBoth == /\ ad.mask # old.mask
                        /\ ad.rid = NoRid \/ old.rid = NoRid
           listed == IF Contains(n.subs[host], ad) THEN n
                     ELSE IF k = 0 \/ keepsBoth THEN add_new_route(n, host, ad)
                     ELSE [n EXCEPT !.subs[host][k].rid = ad.rid]
           m == AddAdvert(n, host, ad)
<1>0. ad.rid \in Routers \cup {NoRid}
  BY DEF Subnets
<1>1. \/ m = remove_subnet_from_router(n, host, old)
      \/ ad.rid = NoRid /\ m = listed
      \/ ad.rid # NoRid /\ m = Connect(listed, host, ad)
  BY Zenon DEF AddAdvert
<1>2. \/ listed = n
      \/ listed = add_new_route(n, host, ad)
      \/ listed = [n EXCEPT !.subs[host][k].rid = ad.rid]
  BY Zenon
<1> HIDE DEF k, old, listed, m
<1>3. add_new_route(n, host, ad) \in Networks
  BY NewRouteTyped
<1>4. [n EXCEPT !.subs[host][k].rid = ad.rid] \in Networks
  BY <1>0, NamedTyped
<1>5. listed \in Networks
  BY <1>2, <1>3, <1>4
<1>6. remove_subnet_from_router(n, host, old) \in Networks
  BY RemoveSubnetTyped
<1>7. ad.rid # NoRid => Connect(listed, host, ad) \in Networks
  BY <1>0, <1>5, ConnectTyped
<1> QED BY <1>1, <1>5, <1>6, <1>7 DEF m

\* One advertisement of a known router, in the set of databases.
LEMMA AdvertIn ==
    ASSUME NEW R \in SUBSET Routers, NEW host \in R \ {Self}, NEW n \in Databases(R),
           NEW ad \in AdsOf(host)
    PROVE  AddAdvert(n, host, ad) \in Databases(R)
<1>1. /\ ad \in Subnets /\ ad.rid \in (Routers \ {host}) \cup {NoRid}
      /\ ad.rid = Self => \E f \in IfaceSet : ad.prefix = IfPrefix[f]
      /\ LinksAgree => Fits(host, ad)
  BY DEF AdsOf, Subnets
<1>2. /\ n \in Networks /\ Graph(n) /\ Own(n) /\ Linked(n) /\ R \subseteq Range(n.order)
      /\ host \in Range(n.order) /\ host \in Remote
  BY DEF Databases, Remote
<1>3. AddAdvert(n, host, ad) \in Networks
  BY <1>1, <1>2, AdvertTyped
<1>4. /\ Graph(AddAdvert(n, host, ad))
      /\ Range(n.order) \subseteq Range(AddAdvert(n, host, ad).order)
  BY <1>1, <1>2, AdvertKeepsGraph
<1>5. Own(AddAdvert(n, host, ad))
  BY <1>1, <1>2, AdvertOwn
<1>6. Linked(AddAdvert(n, host, ad))
  <2>1. ad.rid # host
    BY <1>1, <1>2, TopInfoAssumption DEF Remote
  <2> QED BY <1>1, <1>2, <2>1, AdvertLinked
<1> QED BY <1>2, <1>3, <1>4, <1>5, <1>6 DEF Databases

\* The loop over the advertisements.
LEMMA AdvertsIn ==
    ASSUME NEW R \in SUBSET Routers, NEW host \in R \ {Self}, NEW n \in Databases(R),
           NEW ads \in Seq(AdsOf(host))
    PROVE  add_to_existing_router(n, host, ads) \in Databases(R)
<1> DEFINE N == Len(ads)
           T == Databases(R)
           base == [n EXCEPT !.exp[host] = RouterLife]
           Step(h, s) == IF s = {} THEN base
                         ELSE AddAdvert(h[s \ {Max(s)}], host, ads[Max(s)])
           F == [p \in T \X (1 .. N) |-> AddAdvert(p[1], host, ads[p[2]])]
           h == CHOOSE g : g = [s \in SUBSET DOMAIN ads |-> Step(g, s)]
<1>1. N \in Nat /\ DOMAIN ads = 1 .. N /\ \A k \in 1 .. N : ads[k] \in AdsOf(host)
  OBVIOUS
<1>2. add_to_existing_router(n, host, ads) = h[DOMAIN ads]
  BY Zenon DEF add_to_existing_router, FoldLeft, MapThenFoldSet
<1>3. base \in T
  <2>1. n \in Networks /\ Graph(n) /\ Own(n) /\ Linked(n) /\ R \subseteq Range(n.order)
    BY DEF Databases
  <2>2. base \in Networks
    <3>1. RouterLife \in 0 .. RouterLife
      BY TopInfoAssumption
    <3> QED BY <2>1, <3>1 DEF Networks
  <2>3. /\ DOMAIN base = DOMAIN n /\ base.order = n.order /\ base.adj = n.adj
        /\ base.subs = n.subs
    BY <2>1, GraphShape
  <2> HIDE DEF base
  <2>4. Graph(base) /\ Own(base) /\ Linked(base)
    BY <2>1, <2>3, SameGraph, SameOwn, LinkedSame
  <2> QED BY <2>1, <2>2, <2>3, <2>4 DEF Databases
<1>4. \A t \in T, k \in 1 .. N : AddAdvert(t, host, ads[k]) \in T
  BY <1>1, AdvertIn
<1>5. F \in [T \X (1 .. N) -> T] /\ \A t \in T, k \in 1 .. N : F[<<t, k>>] = AddAdvert(t, host, ads[k])
  BY <1>4
<1> HIDE DEF N, T, base, F
<1>6. PICK g : IsWalkIn(F, base, T, N, g)
  BY <1>1, <1>3, <1>5, WalkIsIn
<1>7. g = [s \in SUBSET DOMAIN ads |-> Step(g, s)]
  <2>1. \A s \in SUBSET (1 .. N) : g[s] = Step(g, s)
    BY <1>5, <1>6 DEF IsWalkIn
  <2>2. g = [s \in SUBSET (1 .. N) |-> g[s]]
    BY <1>6 DEF IsWalkIn
  <2> HIDE DEF Step
  <2> QED BY <1>1, <2>1, <2>2
<1>8. h = [s \in SUBSET DOMAIN ads |-> Step(h, s)]
  BY <1>7, Zenon
<1> HIDE DEF h
<1>9. ASSUME NEW s \in SUBSET (1 .. N)
      PROVE  /\ s = {} => h[s] \in T
             /\ s # {} /\ Max(s) \in 1 .. N /\ h[s \ {Max(s)}] \in T => h[s] \in T
  BY <1>1, <1>3, <1>4, <1>8
<1>10. h[1 .. N] \in T
  BY <1>1, <1>9, WalkEnds
<1> QED BY <1>1, <1>2, <1>10 DEF T

\* One round of the pruning, in the set of databases.
LEMMA PruneRoundIn ==
    ASSUME NEW R \in SUBSET Routers, NEW host \in R, NEW ads,
           NEW st \in [net : Databases(R), i : Nat]
    PROVE  PruneRound(st, host, ads) \in [net : Databases(R), i : Nat]
<1> DEFINE n == st.net
           sub == n.subs[host][st.i]
           nbor == sub.rid
           gone == remove_rt_sn_using_id(n, host, nbor)
           back == remove_rt_sn_using_id(gone, nbor, host)
           apart == remove_rt_adj_using_id(
                        remove_rt_adj_using_id(back, nbor, host), host, nbor)
           m == PruneRound(st, host, ads)
<1>1. /\ DOMAIN st = {"net", "i"} /\ n \in Databases(R) /\ st.i \in Nat
      /\ n \in Networks /\ Graph(n) /\ Own(n) /\ Linked(n) /\ R \subseteq Range(n.order)
      /\ host \in Range(n.order) /\ host \in Routers
  BY DEF Databases
<1>2. \/ m = [st EXCEPT !.i = @ + 1]
      \/ adj_list_contains(n, nbor) /\ m = [st EXCEPT !.net = apart]
      \/ m = [st EXCEPT !.net = gone]
  BY Zenon DEF PruneRound
<1> HIDE DEF sub, nbor
<1>3. gone \in Networks /\ Own(gone)
  BY <1>1, SubnetGoneTyped, SubnetGoneOwn
<1>4. adj_list_contains(n, nbor) => apart \in Networks /\ Own(apart)
  <2> SUFFICES ASSUME adj_list_contains(n, nbor) PROVE apart \in Networks /\ Own(apart)
    OBVIOUS
  <2>1. nbor \in Routers
    BY <1>1, GraphShape, RangeIsContains DEF adj_list_contains
  <2> HIDE DEF gone
  <2>2. back \in Networks /\ Own(back)
    BY <1>3, <2>1, SubnetGoneTyped, SubnetGoneOwn
  <2> HIDE DEF back
  <2>3. /\ remove_rt_adj_using_id(back, nbor, host) \in Networks
        /\ Own(remove_rt_adj_using_id(back, nbor, host))
    BY <2>1, <2>2, UnlinkTyped, UnlinkOwn
  <2> QED BY <1>1, <2>3, UnlinkTyped, UnlinkOwn
<1>5. Graph(m.net) /\ m.net.order = n.order /\ Linked(m.net)
  BY <1>1, PruneRoundKeepsGraph, PruneRoundLinked
<1>6. m.net \in Networks /\ Own(m.net) /\ m.i \in Nat /\ m = [net |-> m.net, i |-> m.i]
  <2> HIDE DEF gone, apart, m
  <2>1. CASE m = [st EXCEPT !.i = @ + 1]
    BY <1>1, <2>1
  <2>2. CASE adj_list_contains(n, nbor) /\ m = [st EXCEPT !.net = apart]
    BY <1>1, <1>4, <2>2
  <2>3. CASE m = [st EXCEPT !.net = gone]
    BY <1>1, <1>3, <2>3
  <2> QED BY <1>2, <2>1, <2>2, <2>3
<1> HIDE DEF m, n
<1>7. m.net \in Databases(R)
  BY <1>1, <1>5, <1>6 DEF Databases
<1> QED BY <1>6, <1>7 DEF m

\* The pruning of one router.
LEMMA PruneIn ==
    ASSUME NEW R \in SUBSET Routers, NEW host \in R, NEW n \in Databases(R), NEW ads
    PROVE  Prune(n, host, ads) \in Databases(R)
<1> DEFINE seq == n.subs[host]
           N == Len(seq)
           T == [net : Databases(R), i : Nat]
           base == [net |-> n, i |-> 1]
           Step(h, s) == IF s = {} THEN base
                         ELSE PruneRound(h[s \ {Max(s)}], host, ads)
           F == [p \in T \X (1 .. N) |-> PruneRound(p[1], host, ads)]
           h == CHOOSE g : g = [s \in SUBSET DOMAIN seq |-> Step(g, s)]
<1>1. seq \in Seq(Subnets)
  BY DEF Databases, Networks
<1>2. Prune(n, host, ads) = h[DOMAIN seq].net
  BY Zenon DEF Prune, FoldLeft, MapThenFoldSet
<1> HIDE DEF seq
<1>3. N \in Nat /\ DOMAIN seq = 1 .. N
  BY <1>1
<1>4. base \in T
  OBVIOUS
<1>5. \A t \in T : PruneRound(t, host, ads) \in T
  BY PruneRoundIn
<1>6. F \in [T \X (1 .. N) -> T] /\ \A t \in T, k \in 1 .. N : F[<<t, k>>] = PruneRound(t, host, ads)
  BY <1>5
<1> HIDE DEF N, T, base, F
<1>7. PICK g : IsWalkIn(F, base, T, N, g)
  BY <1>3, <1>4, <1>6, WalkIsIn
<1>8. g = [s \in SUBSET DOMAIN seq |-> Step(g, s)]
  <2>1. \A s \in SUBSET (1 .. N) : g[s] = Step(g, s)
    BY <1>6, <1>7 DEF IsWalkIn
  <2>2. g = [s \in SUBSET (1 .. N) |-> g[s]]
    BY <1>7 DEF IsWalkIn
  <2> HIDE DEF Step
  <2> QED BY <1>3, <2>1, <2>2
<1>9. h = [s \in SUBSET DOMAIN seq |-> Step(h, s)]
  BY <1>8, Zenon
<1> HIDE DEF h
<1>10. ASSUME NEW s \in SUBSET (1 .. N)
       PROVE  /\ s = {} => h[s] \in T
              /\ s # {} /\ Max(s) \in 1 .. N /\ h[s \ {Max(s)}] \in T => h[s] \in T
  BY <1>3, <1>4, <1>5, <1>9
<1>11. h[1 .. N] \in T
  BY <1>3, <1>10, WalkEnds
<1> QED BY <1>2, <1>3, <1>11 DEF T

\* add_to_top: the host of the LSU is known afterwards, and whoever was.
LEMMA AddToTopIn ==
    ASSUME NEW n \in Databases({Self}), NEW host \in Remote, NEW ads \in Seq(AdsOf(host)),
           NEW over \in BOOLEAN
    PROVE  add_to_top(n, host, ads, over) \in Databases({Self, host})
<1> DEFINE R == {Self, host}
           known == IF adj_list_contains(n, host) THEN n ELSE add_new_router(n, host)
           added == add_to_existing_router(known, host, ads)
<1>1. R \in SUBSET Routers /\ host \in R \ {Self} /\ host \in Routers
  BY TopInfoAssumption DEF Remote
<1>2. n \in Networks /\ Graph(n) /\ Own(n) /\ Linked(n) /\ Self \in Range(n.order)
  BY DEF Databases
<1>3. known \in Databases(R)
  <2>1. CASE adj_list_contains(n, host)
    <3>1. host \in Range(n.order)
      BY <1>1, <1>2, <2>1, GraphShape
    <3> QED BY <1>2, <2>1, <3>1 DEF Databases
  <2>2. CASE ~adj_list_contains(n, host)
    <3>1. host \notin Range(n.order)
      BY <1>1, <1>2, <2>2, GraphShape
    <3>2. /\ Graph(add_new_router(n, host))
          /\ Range(add_new_router(n, host).order) = Range(n.order) \cup {host}
      BY <1>1, <1>2, <3>1, NewRouterKeeps
    <3>3. add_new_router(n, host) \in Networks /\ Own(add_new_router(n, host))
      BY <1>1, <1>2, NewRouterTyped, NewRouterOwn
    <3>4. Linked(add_new_router(n, host))
      BY <1>1, <1>2, <3>1, NewRouterLinked
    <3> QED BY <1>2, <2>2, <3>2, <3>3, <3>4 DEF Databases
  <2> QED BY <2>1, <2>2
<1> HIDE DEF known
<1>4. added \in Databases(R)
  BY <1>1, <1>3, AdvertsIn
<1>5. add_to_top(n, host, ads, over) = IF over THEN Prune(added, host, ads) ELSE added
  BY Zenon DEF add_to_top, known
<1> HIDE DEF added
<1>6. Prune(added, host, ads) \in Databases(R)
  BY <1>1, <1>4, PruneIn
<1> HIDE DEF R
<1> QED BY <1>4, <1>5, <1>6 DEF R

(***************************************************************************)
(* A HELLO: the neighbors of every interface, and the links of the silent. *)
(***************************************************************************)
Nbrs == [id : Remote, life : -1 .. NbrLife]

\* The state of the loops in handle_HELLO.
Hellos == [nbrs : [IfaceSet -> Seq(Nbrs)], net : Databases({Self}), i : Nat, done : BOOLEAN]

\* The removal of one silent neighbor.
LEMMA DisconnectIn ==
    ASSUME NEW n \in Databases({Self}), NEW id
    PROVE  Disconnect(n, id) \in Databases({Self})
<1> DEFINE mine == remove_rt_sn_using_id(n, Self, id)
           theirs == remove_rt_sn_using_id(mine, id, Self)
           half == remove_rt_adj_using_id(theirs, id, Self)
           m == Disconnect(n, id)
<1>1. /\ n \in Networks /\ Graph(n) /\ Own(n) /\ Linked(n)
      /\ Self \in Range(n.order) /\ Self \in Routers
  BY TopInfoAssumption DEF Databases
<1>2. Graph(m) /\ m.order = n.order /\ Linked(m)
  BY <1>1, DisconnectKeepsGraph, DisconnectLinked
<1>3. m = IF adj_list_contains(n, id) THEN remove_rt_adj_using_id(half, Self, id) ELSE mine
  BY Zenon DEF Disconnect
<1>4. mine \in Networks /\ Own(mine)
  BY <1>1, SubnetGoneTyped, SubnetGoneOwn
<1> HIDE DEF mine, m
<1>5. ASSUME adj_list_contains(n, id)
      PROVE  /\ remove_rt_adj_using_id(half, Self, id) \in Networks
             /\ Own(remove_rt_adj_using_id(half, Self, id))
  <2>1. id \in Routers
    BY <1>1, <1>5, GraphShape, RangeIsContains DEF adj_list_contains
  <2>2. theirs \in Networks /\ Own(theirs)
    BY <1>4, <2>1, SubnetGoneTyped, SubnetGoneOwn
  <2> HIDE DEF theirs
  <2>3. half \in Networks /\ Own(half)
    BY <2>1, <2>2, UnlinkTyped, UnlinkOwn
  <2> QED BY <1>1, <2>3, UnlinkTyped, UnlinkOwn
<1>6. m \in Networks /\ Own(m)
  BY <1>3, <1>4, <1>5
<1> QED BY <1>1, <1>2, <1>6 DEF Databases, m

\* One neighbor of one interface.
LEMMA NeighborRoundIn ==
    ASSUME NEW st \in Hellos, NEW f \in IfaceSet
    PROVE  NeighborRound(st, f) \in Hellos
<1> DEFINE nbr == st.nbrs[f][st.i]
           v == SwapRemove(st.nbrs[f], st.i)
           n == IF InitOver THEN Disconnect(st.net, nbr.id) ELSE st.net
           m == NeighborRound(st, f)
<1>1. /\ DOMAIN st = {"nbrs", "net", "i", "done"}
      /\ st.nbrs \in [IfaceSet -> Seq(Nbrs)] /\ st.net \in Databases({Self})
      /\ st.i \in Nat /\ st.done \in BOOLEAN
  BY DEF Hellos
<1>2. \/ m = [st EXCEPT !.i = @ + 1]
      \/ m = [st EXCEPT !.nbrs[f] = v, !.net = n]
  BY Zenon DEF NeighborRound
<1>3. v \in Seq(Nbrs)
  BY <1>1, SwapRemoveTyped
<1>4. n \in Databases({Self})
  BY <1>1, DisconnectIn
<1> HIDE DEF nbr, v, n, m
<1>5. CASE m = [st EXCEPT !.i = @ + 1]
  BY <1>1, <1>5 DEF m, Hellos
<1>6. CASE m = [st EXCEPT !.nbrs[f] = v, !.net = n]
  <2>1. [st EXCEPT !.nbrs[f] = v] \in Hellos
    BY <1>1, <1>3 DEF Hellos
  <2>2. [[st EXCEPT !.nbrs[f] = v] EXCEPT !.net = n] \in Hellos
    BY <1>4, <2>1 DEF Hellos
  <2>3. [[st EXCEPT !.nbrs[f] = v] EXCEPT !.net = n] = [st EXCEPT !.nbrs[f] = v, !.net = n]
    BY <1>1
  <2> QED BY <1>6, <2>2, <2>3 DEF m
<1> QED BY <1>2, <1>5, <1>6

\* The neighbors of one interface.
LEMMA DropSilentIn ==
    ASSUME NEW st \in Hellos, NEW f \in IfaceSet
    PROVE  DropSilent(st, f) \in Hellos
<1> DEFINE seq == st.nbrs[f]
           N == Len(seq)
           T == Hellos
           base == [st EXCEPT !.i = 1]
           Step(h, s) == IF s = {} THEN base ELSE NeighborRound(h[s \ {Max(s)}], f)
           F == [p \in T \X (1 .. N) |-> NeighborRound(p[1], f)]
           h == CHOOSE g : g = [s \in SUBSET DOMAIN seq |-> Step(g, s)]
<1>1. seq \in Seq(Nbrs)
  BY DEF Hellos
<1>2. DropSilent(st, f) = h[DOMAIN seq]
  BY Zenon DEF DropSilent, FoldLeft, MapThenFoldSet
<1> HIDE DEF seq
<1>3. N \in Nat /\ DOMAIN seq = 1 .. N
  BY <1>1
<1>4. base \in T
  BY DEF Hellos
<1>5. \A t \in T : NeighborRound(t, f) \in T
  BY NeighborRoundIn
<1>6. F \in [T \X (1 .. N) -> T] /\ \A t \in T, k \in 1 .. N : F[<<t, k>>] = NeighborRound(t, f)
  BY <1>5
<1> HIDE DEF N, T, base, F
<1>7. PICK g : IsWalkIn(F, base, T, N, g)
  BY <1>3, <1>4, <1>6, WalkIsIn
<1>8. g = [s \in SUBSET DOMAIN seq |-> Step(g, s)]
  <2>1. \A s \in SUBSET (1 .. N) : g[s] = Step(g, s)
    BY <1>6, <1>7 DEF IsWalkIn
  <2>2. g = [s \in SUBSET (1 .. N) |-> g[s]]
    BY <1>7 DEF IsWalkIn
  <2> HIDE DEF Step
  <2> QED BY <1>3, <2>1, <2>2
<1>9. h = [s \in SUBSET DOMAIN seq |-> Step(h, s)]
  BY <1>8, Zenon
<1> HIDE DEF h
<1>10. ASSUME NEW s \in SUBSET (1 .. N)
       PROVE  /\ s = {} => h[s] \in T
              /\ s # {} /\ Max(s) \in 1 .. N /\ h[s \ {Max(s)}] \in T => h[s] \in T
  BY <1>3, <1>4, <1>5, <1>9
<1>11. h[1 .. N] \in T
  BY <1>3, <1>10, WalkEnds
<1> QED BY <1>2, <1>3, <1>11 DEF T

\* The interface the HELLO came in on: its list and its subnet.
LEMMA GreetedIn ==
    ASSUME NEW st \in Hellos, NEW f \in IfaceSet
    PROVE  Greeted(st, f, Peer[f]) \in Hellos
<1> DEFINE id == Peer[f]
           list == st.nbrs[f]
           v == RefreshOrAdd(list, id)
           n == st.net
           m == NameSubnet(n, f, id)
<1>1. /\ DOMAIN st = {"nbrs", "net", "i", "done"}
      /\ st.nbrs \in [IfaceSet -> Seq(Nbrs)] /\ st.net \in Databases({Self})
      /\ list \in Seq(Nbrs) /\ NbrLife \in -1 .. NbrLife /\ id \in Remote
  BY PwospfAssumption DEF Hellos
<1>2. v \in Seq(Nbrs)
  <2> DEFINE a == Append(list, [id |-> id, life |-> NbrLife])
             b == [i \in 1 .. Len(list) |-> IF list[i].id = id
                       THEN [list[i] EXCEPT !.life = NbrLife] ELSE list[i]]
  <2>1. v \in {a, b}
    BY Zenon DEF RefreshOrAdd
  <2>2. [id |-> id, life |-> NbrLife] \in Nbrs
    BY <1>1 DEF Nbrs
  <2>3. a \in Seq(Nbrs)
    BY <1>1, <2>2
  <2>4. Len(list) \in Nat /\ \A i \in 1 .. Len(list) : list[i] \in Nbrs
    BY <1>1
  <2>5. ASSUME NEW x \in Nbrs PROVE [x EXCEPT !.life = NbrLife] \in Nbrs
    BY <1>1 DEF Nbrs
  <2> HIDE DEF list
  <2>6. \A i \in 1 .. Len(list) : b[i] \in Nbrs
    BY <2>4, <2>5
  <2>7. b \in [1 .. Len(list) -> Nbrs]
    BY <2>6
  <2> HIDE DEF b
  <2>8. b \in Seq(Nbrs)
    BY <2>4, <2>7
  <2> QED BY <2>1, <2>3, <2>8
<1>3. m \in Databases({Self})
  <2> DEFINE k == router_contains_subnet(n, Self, IfPrefix[f])
             named == [n EXCEPT !.subs[Self][k].rid = id]
  <2>1. m = n \/ m = named
    BY Zenon DEF NameSubnet
  <2>2. /\ n \in Networks /\ Graph(n) /\ Own(n) /\ Linked(n) /\ Self \in Range(n.order)
        /\ Self \in Routers /\ id \in Routers
    BY <1>1, TopInfoAssumption DEF Databases, Remote
  <2> HIDE DEF k, n, m
  <2>3. named \in Networks /\ Own(named)
    BY <2>2, NamedTyped, NamedOwn
  <2>4. DOMAIN named = DOMAIN n /\ named.order = n.order /\ named.adj = n.adj
    BY <2>2, GraphShape
  <2>5. Graph(named)
    BY <2>2, <2>4, SameGraph
  <2>6. Linked(m)
    BY <2>2, NameLinked DEF m
  <2>7. m \in Databases({Self})
    BY <2>1, <2>2, <2>3, <2>4, <2>5, <2>6 DEF Databases
  <2> QED BY <2>7
<1>4. Greeted(st, f, id) = [st EXCEPT !.nbrs[f] = v, !.net = m]
  BY Zenon DEF Greeted
<1> HIDE DEF v, m
<1>5. [st EXCEPT !.nbrs[f] = v] \in Hellos
  BY <1>1, <1>2 DEF Hellos
<1>6. [[st EXCEPT !.nbrs[f] = v] EXCEPT !.net = m] \in Hellos
  BY <1>3, <1>5 DEF Hellos
<1>7. [[st EXCEPT !.nbrs[f] = v] EXCEPT !.net = m] = [st EXCEPT !.nbrs[f] = v, !.net = m]
  BY <1>1
<1> QED BY <1>4, <1>6, <1>7

\* One interface.
LEMMA HelloRoundIn ==
    ASSUME NEW st \in Hellos, NEW g \in IfaceSet, NEW f \in IfaceSet, NEW agrees \in BOOLEAN
    PROVE  HelloRound(st, g, f, agrees) \in Hellos
<1> DEFINE d == DropSilent(st, f)
<1>1. Peer[f] \in Remote
  BY PwospfAssumption
<1>2. d \in Hellos /\ DropSilent(st, g) \in Hellos
  BY DropSilentIn
<1>3. HelloRound(st, g, f, agrees) \in
        {st, DropSilent(st, g), Greeted(d, f, Peer[f]), [d EXCEPT !.done = TRUE]}
  BY Zenon DEF HelloRound
<1> HIDE DEF d
<1>4. Greeted(d, f, Peer[f]) \in Hellos
  BY <1>1, <1>2, GreetedIn
<1>5. [d EXCEPT !.done = TRUE] \in Hellos
  BY <1>2 DEF Hellos
<1> QED BY <1>2, <1>3, <1>4, <1>5

\* The walk of HandleHello over the interfaces.
HelloWalk(st, f, agrees) == FoldLeft(LAMBDA t, g : HelloRound(t, g, f, agrees), st, Ifaces)

\* Every interface.
LEMMA HelloIn ==
    ASSUME NEW st \in Hellos, NEW f \in IfaceSet, NEW agrees \in BOOLEAN
    PROVE  HelloWalk(st, f, agrees) \in Hellos
<1> DEFINE seq == Ifaces
           N == Len(seq)
           T == Hellos
           Step(h, s) == IF s = {} THEN st
                         ELSE HelloRound(h[s \ {Max(s)}], seq[Max(s)], f, agrees)
           F == [p \in T \X (1 .. N) |-> HelloRound(p[1], seq[p[2]], f, agrees)]
           h == CHOOSE g : g = [s \in SUBSET DOMAIN seq |-> Step(g, s)]
<1>1. seq \in Seq(IfaceSet)
  BY PwospfAssumption
<1>2. HelloWalk(st, f, agrees) = h[DOMAIN seq]
  BY Zenon DEF HelloWalk, FoldLeft, MapThenFoldSet
<1> HIDE DEF seq
<1>3. N \in Nat /\ DOMAIN seq = 1 .. N /\ \A k \in 1 .. N : seq[k] \in IfaceSet
  BY <1>1
<1>4. st \in T
  OBVIOUS
<1>5. \A t \in T, k \in 1 .. N : HelloRound(t, seq[k], f, agrees) \in T
  BY <1>3, HelloRoundIn
<1>6. /\ F \in [T \X (1 .. N) -> T]
      /\ \A t \in T, k \in 1 .. N : F[<<t, k>>] = HelloRound(t, seq[k], f, agrees)
  BY <1>5
<1> HIDE DEF N, T, F
<1>7. PICK g : IsWalkIn(F, st, T, N, g)
  BY <1>3, <1>4, <1>6, WalkIsIn
<1>8. g = [s \in SUBSET DOMAIN seq |-> Step(g, s)]
  <2>1. \A s \in SUBSET (1 .. N) : g[s] = Step(g, s)
    BY <1>6, <1>7 DEF IsWalkIn
  <2>2. g = [s \in SUBSET (1 .. N) |-> g[s]]
    BY <1>7 DEF IsWalkIn
  <2> HIDE DEF Step
  <2> QED BY <1>3, <2>1, <2>2
<1>9. h = [s \in SUBSET DOMAIN seq |-> Step(h, s)]
  BY <1>8, Zenon
<1> HIDE DEF h
<1>10. ASSUME NEW s \in SUBSET (1 .. N)
       PROVE  /\ s = {} => h[s] \in T
              /\ s # {} /\ Max(s) \in 1 .. N /\ h[s \ {Max(s)}] \in T => h[s] \in T
  BY <1>3, <1>4, <1>5, <1>9
<1>11. h[1 .. N] \in T
  BY <1>3, <1>10, WalkEnds
<1> QED BY <1>2, <1>3, <1>11 DEF T

(***************************************************************************)
(* remove_from_topo and check_top_invalid.                                 *)
(***************************************************************************)
\* A list without the entry at one position.
LEMMA RemoveAtRemoves ==
    ASSUME NEW S, NEW s \in Seq(S), NEW k \in 1 .. Len(s), NoRepeat(s)
    PROVE  /\ RemoveAt(s, k) \in Seq(S)
           /\ NoRepeat(RemoveAt(s, k))
           /\ Range(RemoveAt(s, k)) = Range(s) \ {s[k]}
           /\ k # 1 => Len(RemoveAt(s, k)) > 0 /\ RemoveAt(s, k)[1] = s[1]
<1> DEFINE n == Len(s)
           a == SubSeq(s, 1, k - 1)
           b == SubSeq(s, k + 1, n)
           t == RemoveAt(s, k)
<1>1. n \in Nat /\ k \in Int /\ k - 1 \in Int /\ k + 1 \in Int /\ \A i \in 1 .. n : s[i] \in S
  BY LenProperties
<1>2. \A i \in 1 .. k - 1 : s[i] \in S
  BY <1>1
<1>3. \A i \in k + 1 .. n : s[i] \in S
  BY <1>1
<1>4. /\ a \in Seq(S) /\ Len(a) = IF 1 <= k - 1 THEN (k - 1) - 1 + 1 ELSE 0
      /\ \A i \in 1 .. (k - 1) - 1 + 1 : a[i] = s[1 + i - 1]
  BY <1>1, <1>2, SubSeqProperties
<1>5. /\ b \in Seq(S) /\ Len(b) = IF k + 1 <= n THEN n - (k + 1) + 1 ELSE 0
      /\ \A i \in 1 .. n - (k + 1) + 1 : b[i] = s[(k + 1) + i - 1]
  BY <1>1, <1>3, SubSeqProperties
<1> HIDE DEF a, b
<1>6. Len(a) = k - 1 /\ \A i \in 1 .. k - 1 : a[i] = s[i]
  BY <1>1, <1>4
<1>7. Len(b) = n - k /\ \A i \in 1 .. n - k : b[i] = s[k + i]
  <2>1. n - (k + 1) + 1 = n - k /\ \A i \in Int : (k + 1) + i - 1 = k + i
    BY <1>1
  <2>0. k + 1 <= n \/ n = k
    BY <1>1
  <2>2. Len(b) = n - k
    <3>1. Len(b) = IF k + 1 <= n THEN n - (k + 1) + 1 ELSE 0
      BY <1>5
    <3>2. CASE k + 1 <= n
      BY <2>1, <3>1, <3>2
    <3>3. CASE n = k
      BY <1>1, <3>1, <3>3
    <3> QED BY <2>0, <3>2, <3>3
  <2>3. \A i \in 1 .. n - k : b[i] = s[(k + 1) + i - 1]
    BY <1>5, <2>1
  <2>4. ASSUME NEW i \in 1 .. n - k PROVE b[i] = s[k + i]
    BY <2>1, <2>3
  <2> QED BY <2>2, <2>4
<1>8. t = a \o b
  BY Zenon DEF RemoveAt, a, b
<1> HIDE DEF t
<1>9. t \in Seq(S) /\ Len(t) = n - 1
  <2>1. t \in Seq(S) /\ Len(t) = Len(a) + Len(b)
    BY <1>4, <1>5, <1>8, ConcatProperties
  <2> QED BY <1>1, <1>6, <1>7, <2>1
<1>10. \A j \in 1 .. n - 1 : t[j] = IF j < k THEN s[j] ELSE s[j + 1]
  <2>1. \A i \in 1 .. Len(a) + Len(b) : t[i] = IF i <= Len(a) THEN a[i] ELSE b[i - Len(a)]
    BY <1>4, <1>5, <1>8, ConcatProperties
  <2>2. TAKE j \in 1 .. n - 1
  <2>3. t[j] = IF j <= k - 1 THEN a[j] ELSE b[j - (k - 1)]
    BY <1>1, <1>6, <1>7, <2>1
  <2>4. CASE j < k
    BY <1>1, <1>6, <2>3, <2>4
  <2>5. CASE ~(j < k)
    <3>1. j - (k - 1) \in 1 .. n - k /\ k + (j - (k - 1)) = j + 1
      BY <1>1, <2>5
    <3> QED BY <1>1, <1>7, <2>3, <2>5, <3>1
  <2> QED BY <2>4, <2>5
<1>11. NoRepeat(t)
  <2> SUFFICES ASSUME NEW i \in 1 .. n - 1, NEW j \in 1 .. n - 1, t[i] = t[j] PROVE i = j
    BY <1>9 DEF NoRepeat
  <2> DEFINE p == IF i < k THEN i ELSE i + 1
             q == IF j < k THEN j ELSE j + 1
  <2>1. p \in 1 .. n /\ q \in 1 .. n
    BY <1>1
  <2>2. s[p] = s[q]
    BY <1>10
  <2>3. p = q
    BY <2>1, <2>2 DEF NoRepeat
  <2> QED BY <1>1, <2>3
<1>12. ASSUME NEW e PROVE e \in Range(t) <=> e \in Range(s) \ {s[k]}
  <2>1. e \in Range(t) <=> \E j \in 1 .. n - 1 : t[j] = e
    BY <1>9, RangeIsContains
  <2>2. e \in Range(s) <=> \E j \in 1 .. n : s[j] = e
    BY RangeIsContains
  <2>3. ASSUME NEW j \in 1 .. n - 1, t[j] = e PROVE e \in Range(s) \ {s[k]}
    <3> DEFINE p == IF j < k THEN j ELSE j + 1
    <3>1. p \in 1 .. n /\ p # k
      BY <1>1
    <3>2. s[p] = e
      BY <1>10, <2>3
    <3>3. s[p] # s[k]
      BY <3>1 DEF NoRepeat
    <3> QED BY <2>2, <3>1, <3>2, <3>3
  <2>4. ASSUME NEW j \in 1 .. n, s[j] = e, e # s[k] PROVE \E i \in 1 .. n - 1 : t[i] = e
    <3>1. CASE j < k
      <4>1. j \in 1 .. n - 1
        BY <1>1, <3>1
      <4> QED BY <1>10, <2>4, <3>1, <4>1
    <3>2. CASE ~(j < k)
      <4>1. j # k
        BY <2>4
      <4>2. j - 1 \in 1 .. n - 1 /\ ~(j - 1 < k) /\ (j - 1) + 1 = j
        BY <1>1, <3>2, <4>1
      <4> QED BY <1>10, <2>4, <4>2
    <3> QED BY <3>1, <3>2
  <2> QED BY <2>1, <2>2, <2>3, <2>4
<1>13. k # 1 => Len(t) > 0 /\ t[1] = s[1]
  BY <1>1, <1>9, <1>10
<1> QED BY <1>9, <1>11, <1>12, <1>13 DEF t

\* A list without one of its entries.
LEMMA RemoveFirstRemoves ==
    ASSUME NEW S, NEW s \in Seq(S), NEW e, NoRepeat(s)
    PROVE  /\ RemoveFirst(s, e) \in Seq(S)
           /\ NoRepeat(RemoveFirst(s, e))
           /\ Range(RemoveFirst(s, e)) = Range(s) \ {e}
           /\ Len(s) > 0 /\ s[1] # e =>
                  Len(RemoveFirst(s, e)) > 0 /\ RemoveFirst(s, e)[1] = s[1]
<1> DEFINE I == {i \in 1 .. Len(s) : s[i] = e}
           k == SelectInSeq(s, LAMBDA x : x = e)
<1>1. Len(s) \in Nat
  BY LenProperties
<1>2. k = IF I # {} THEN Min(I) ELSE 0
  BY DEF SelectInSeq
<1>3. RemoveFirst(s, e) = IF \E i \in 1 .. Len(s) : s[i] = e THEN RemoveAt(s, k) ELSE s
  BY Zenon DEF RemoveFirst
<1> HIDE DEF k
<1>4. CASE I # {}
  <2>1. Min(I) \in I
    <3>1. I \in SUBSET Nat
      BY <1>1
    <3> HIDE DEF I
    <3> QED BY <1>4, <3>1, MinExists
  <2>2. k \in 1 .. Len(s) /\ s[k] = e
    BY <1>1, <1>2, <1>4, <2>1
  <2> QED BY <1>3, <2>2, RemoveAtRemoves
<1>5. CASE I = {}
  <2>1. e \notin Range(s)
    BY <1>5, RangeIsContains
  <2>2. RemoveFirst(s, e) = s
    BY <1>3, <1>5
  <2> QED BY <2>1, <2>2
<1> QED BY <1>4, <1>5

\* What remove_from_topo does to one router of the list.
Apart(n, r, rt) == remove_rt_adj_using_id(remove_rt_sn_using_id(n, r, rt), r, rt)

\* One router of the list: it has no adjacency to rt any more.
LEMMA ApartIn ==
    ASSUME NEW n \in Networks, Graph(n), Own(n), NEW r \in Range(n.order), NEW rt
    PROVE  /\ Apart(n, r, rt) \in Networks /\ Own(Apart(n, r, rt))
           /\ Graph(Apart(n, r, rt)) /\ Apart(n, r, rt).order = n.order
           /\ rt \notin Range(Apart(n, r, rt).adj[r])
<1> DEFINE g == remove_rt_sn_using_id(n, r, rt)
           m == remove_rt_adj_using_id(g, r, rt)
<1>1. r \in Routers
  BY GraphShape
<1>2. g \in Networks /\ Own(g)
  BY <1>1, SubnetGoneTyped, SubnetGoneOwn
<1>3. Graph(m) /\ m.order = n.order /\ rt \notin Range(m.adj[r])
  BY UnlinkLeavesNoPointer
<1> HIDE DEF g
<1>4. m \in Networks /\ Own(m)
  BY <1>1, <1>2, UnlinkTyped, UnlinkOwn
<1>5. Apart(n, r, rt) = m
  BY Zenon DEF Apart, g
<1> QED BY <1>3, <1>4, <1>5

\* The others keep their adjacencies.
LEMMA ApartOthers ==
    ASSUME NEW n \in Networks, NEW r \in Routers, NEW rt, NEW q \in Routers \ {r}
    PROVE  Apart(n, r, rt).adj[q] = n.adj[q]
<1> DEFINE g == remove_rt_sn_using_id(n, r, rt)
           m == remove_rt_adj_using_id(g, r, rt)
<1>1. g.adj = n.adj /\ DOMAIN g = {"order", "adj", "subs", "exp", "seq"}
  BY DEF remove_rt_sn_using_id, Networks
<1>2. m = [g EXCEPT !.adj[r] = RemoveElement(g.adj[r], rt)]
  BY Zenon DEF remove_rt_adj_using_id
<1>3. Apart(n, r, rt) = m
  BY Zenon DEF Apart
<1> HIDE DEF g, m
<1>4. m.adj = [g.adj EXCEPT ![r] = RemoveElement(g.adj[r], rt)]
  BY <1>1, <1>2
<1>5. n.adj \in [Routers -> Seq(Routers)]
  BY DEF Networks
<1> QED BY <1>1, <1>3, <1>4, <1>5

\* Every router of the list stays consistent.
LEMMA ApartTied ==
    ASSUME NEW n \in Networks, Graph(n), NEW r \in Range(n.order), NEW rt,
           NEW q \in Range(n.order)
    PROVE  /\ Tied(n, q) =>
                /\ Tied(Apart(n, r, rt), q)
                /\ Named(Apart(n, r, rt).subs[q]) = Named(n.subs[q]) \ Here(q, r, rt)
           /\ Apart(n, r, rt).exp = n.exp
<1> DEFINE g == remove_rt_sn_using_id(n, r, rt)
           m == remove_rt_adj_using_id(g, r, rt)
<1>1. r \in Routers /\ q \in Routers
  BY GraphShape
<1>2. Graph(g) /\ g.order = n.order
  BY SubnetGoneKeeps
<1>3. ASSUME Tied(n, q)
      PROVE  /\ Joined(q, g.subs[q])
             /\ Named(g.subs[q]) = Named(n.subs[q]) \ Here(q, r, rt)
             /\ g.adj = n.adj
  BY <1>1, <1>3, SubnetGoneNames DEF Tied
<1>4. g.exp = n.exp /\ DOMAIN g = {"order", "adj", "subs", "exp", "seq"}
  <2>1. DOMAIN n = {"order", "adj", "subs", "exp", "seq"}
    BY GraphShape
  <2>2. g = [n EXCEPT !.subs[r] = RemoveSubnetWithId(n.subs[r], rt)]
    BY Zenon DEF remove_rt_sn_using_id
  <2> HIDE DEF g
  <2> QED BY <2>1, <2>2
<1> HIDE DEF g
<1>5. m.subs = g.subs /\ Range(m.adj[q]) = Range(g.adj[q]) \ Here(q, r, rt)
  BY <1>1, <1>2, UnlinkLinks
<1>6. Apart(n, r, rt) = m
  BY Zenon DEF Apart, g
<1>7. m.exp = g.exp
  BY <1>4 DEF remove_rt_adj_using_id
<1> HIDE DEF m
<1>8. Tied(n, q) => Tied(m, q) /\ Named(m.subs[q]) = Named(n.subs[q]) \ Here(q, r, rt)
  BY <1>3, <1>5 DEF Tied
<1> QED BY <1>4, <1>6, <1>7, <1>8

\* remove_from_topo's walk over the list.
Cleared(n, rt) ==
    FoldLeft(LAMBDA m, r : Apart(m, r, rt), [n EXCEPT !.subs[rt] = <<>>], n.order)

\* The routers that the subnets of the others name: no more than before.
Fewer(n, m, rt) ==
    \A q \in Range(n.order) \ {rt} : Named(m.subs[q]) \subseteq Named(n.subs[q])

\* None of them names rt.
Nameless(n, m, rt) == \A q \in Range(n.order) \ {rt} : rt \notin Named(m.subs[q])

\* After the walk no router is adjacent to rt, or has a subnet that names it.
LEMMA ClearedIn ==
    ASSUME NEW n \in Networks, Graph(n), Own(n), NEW rt \in Remote
    PROVE  /\ Cleared(n, rt) \in Networks /\ Graph(Cleared(n, rt)) /\ Own(Cleared(n, rt))
           /\ Cleared(n, rt).order = n.order
           /\ Cleared(n, rt).exp = n.exp
           /\ AllTied(n) => /\ AllTiedBut(Cleared(n, rt), rt)
                            /\ Fewer(n, Cleared(n, rt), rt) /\ Nameless(n, Cleared(n, rt), rt)
           /\ \A r \in Range(n.order) : rt \notin Range(Cleared(n, rt).adj[r])
<1> DEFINE seq == n.order
           N == Len(seq)
           Sound(m) == m.exp = n.exp /\ (AllTied(n) => AllTiedBut(m, rt) /\ Fewer(n, m, rt))
           T == {m \in Networks : Graph(m) /\ Own(m) /\ m.order = seq /\ Sound(m)}
           base == [n EXCEPT !.subs[rt] = <<>>]
           Step(h, s) == IF s = {} THEN base ELSE Apart(h[s \ {Max(s)}], seq[Max(s)], rt)
           F == [p \in T \X (1 .. N) |-> Apart(p[1], seq[p[2]], rt)]
           h == CHOOSE g : g = [s \in SUBSET DOMAIN seq |-> Step(g, s)]
<1>1. seq \in Seq(Routers) /\ NoRepeat(seq)
  BY DEF Graph
<1>2. Cleared(n, rt) = h[DOMAIN seq]
  BY Zenon DEF Cleared, FoldLeft, MapThenFoldSet
<1>3. /\ N \in Nat /\ DOMAIN seq = 1 .. N /\ \A k \in 1 .. N : seq[k] \in Routers
      /\ \A r \in Range(seq) : \E k \in 1 .. N : seq[k] = r
      /\ \A k \in 1 .. N : seq[k] \in Range(seq)
  BY <1>1, RangeIsContains
<1>4. base \in T
  <2>1. <<>> \in Seq(Subnets)
    OBVIOUS
  <2>2. base \in Networks /\ Own(base)
    BY <2>1, SubsTyped, SubsOwn DEF Remote
  <2>3. DOMAIN base = DOMAIN n /\ base.order = n.order /\ base.adj = n.adj
    BY GraphShape
  <2>4. Graph(base)
    BY <2>3, SameGraph
  <2>5. ASSUME AllTied(n), NEW q \in Range(seq) \ {rt}
        PROVE  Tied(base, q) /\ base.subs[q] = n.subs[q]
    <3>1. Tied(n, q) /\ q \in Routers /\ rt \in Routers
      BY <1>1, <2>5, RangeIsContains DEF AllTied, Remote
    <3>2. base = WithSubs(n, rt, <<>>)
      BY DEF WithSubs
    <3> HIDE DEF base
    <3>3. base.subs[q] = n.subs[q] /\ base.adj[q] = n.adj[q]
      BY <2>5, <3>1, <3>2, SubsAt
    <3> QED BY <3>1, <3>3, SameTied
  <2>6. base.exp = n.exp
    BY GraphShape
  <2> HIDE DEF base
  <2>7. Sound(base)
    BY <2>3, <2>5, <2>6 DEF AllTiedBut, Fewer
  <2> QED BY <2>2, <2>3, <2>4, <2>7
<1>5. \A t \in T, k \in 1 .. N : Apart(t, seq[k], rt) \in T
  <2>1. TAKE t \in T, k \in 1 .. N
  <2>2. /\ t \in Networks /\ Graph(t) /\ Own(t) /\ t.order = seq /\ seq[k] \in Range(t.order)
        /\ Sound(t)
    BY <1>3
  <2> DEFINE r == seq[k]
             a == Apart(t, r, rt)
  <2>3. a \in Networks /\ Graph(a) /\ Own(a) /\ a.order = t.order
    <3>1. t \in Networks /\ Graph(t) /\ Own(t) /\ r \in Range(t.order)
      BY <2>2
    <3> HIDE DEF seq, N, T, r
    <3> QED BY ONLY <3>1, ApartIn
  <2>4. a \in Networks /\ Graph(a) /\ Own(a) /\ a.order = seq
    BY <2>2, <2>3
  <2>5. ASSUME AllTied(n), NEW q \in Range(seq) \ {rt}
        PROVE  /\ Tied(a, q) /\ Named(a.subs[q]) \subseteq Named(n.subs[q])
               /\ q = r => rt \notin Named(a.subs[q])
    <3>1. /\ t \in Networks /\ Graph(t) /\ r \in Range(t.order)
          /\ q \in Range(t.order) /\ Tied(t, q) /\ Named(t.subs[q]) \subseteq Named(n.subs[q])
      BY <2>2, <2>5 DEF AllTiedBut, Fewer
    <3> HIDE DEF seq, N, T, r
    <3>2. Tied(a, q) /\ Named(a.subs[q]) = Named(t.subs[q]) \ Here(q, r, rt)
      BY ONLY <3>1, ApartTied
    <3> QED BY <3>1, <3>2 DEF Here
  <2>6. a.exp = t.exp
    <3>1. t \in Networks /\ Graph(t) /\ r \in Range(t.order)
      BY <2>2
    <3> HIDE DEF seq, N, T, r
    <3> QED BY ONLY <3>1, ApartTied
  <2> HIDE DEF a
  <2>7. Sound(a)
    BY <2>2, <2>4, <2>5, <2>6 DEF AllTiedBut, Fewer
  <2>8. a \in T
    BY <2>4, <2>7
  <2> QED BY <2>8 DEF a
<1>6. /\ F \in [T \X (1 .. N) -> T]
      /\ \A t \in T, k \in 1 .. N : F[<<t, k>>] = Apart(t, seq[k], rt)
  BY <1>5
<1>7. \A t \in T, k \in 1 .. N :
          /\ rt \notin Range(Apart(t, seq[k], rt).adj[seq[k]])
          /\ \A q \in Routers \ {seq[k]} : Apart(t, seq[k], rt).adj[q] = t.adj[q]
          /\ AllTied(n) => \A q \in Range(seq) \ {rt} :
                 Named(Apart(t, seq[k], rt).subs[q]) = Named(t.subs[q]) \ Here(q, seq[k], rt)
  <2>1. TAKE t \in T, k \in 1 .. N
  <2>2. t \in Networks /\ Graph(t) /\ Own(t) /\ seq[k] \in Range(t.order)
    BY <1>3
  <2>3. rt \notin Range(Apart(t, seq[k], rt).adj[seq[k]])
    BY <2>2, ApartIn
  <2>4. seq[k] \in Routers
    BY <1>3
  <2>5. \A q \in Routers \ {seq[k]} : Apart(t, seq[k], rt).adj[q] = t.adj[q]
    BY <2>2, <2>4, ApartOthers
  <2>6. ASSUME AllTied(n), NEW q \in Range(seq) \ {rt}
        PROVE  Named(Apart(t, seq[k], rt).subs[q]) = Named(t.subs[q]) \ Here(q, seq[k], rt)
    <3> DEFINE r == seq[k]
    <3>1. /\ t \in Networks /\ Graph(t) /\ r \in Range(t.order)
          /\ q \in Range(t.order) /\ Tied(t, q)
      BY <2>2, <2>6 DEF AllTiedBut
    <3> HIDE DEF seq, N, T, r
    <3>2. Named(Apart(t, r, rt).subs[q]) = Named(t.subs[q]) \ Here(q, r, rt)
      BY ONLY <3>1, ApartTied
    <3> QED BY <3>2 DEF r
  <2> QED BY <2>3, <2>5, <2>6
<1> HIDE DEF seq, N, T, base, F
<1>8. PICK g : IsWalkIn(F, base, T, N, g)
  BY <1>3, <1>4, <1>6, WalkIsIn
<1>9. g = [s \in SUBSET DOMAIN seq |-> Step(g, s)]
  <2>1. \A s \in SUBSET (1 .. N) : g[s] = Step(g, s)
    BY <1>6, <1>8 DEF IsWalkIn
  <2>2. g = [s \in SUBSET (1 .. N) |-> g[s]]
    BY <1>8 DEF IsWalkIn
  <2> HIDE DEF Step
  <2> QED BY <1>3, <2>1, <2>2
<1>10. h = [s \in SUBSET DOMAIN seq |-> Step(h, s)]
  BY <1>9, Zenon
<1> HIDE DEF h
<1> DEFINE G == {k \in 0 .. N : /\ h[1 .. k] \in T
                                /\ \A i \in 1 .. k : rt \notin Range(h[1 .. k].adj[seq[i]])
                                /\ AllTied(n) => \A i \in 1 .. k : seq[i] # rt =>
                                       rt \notin Named(h[1 .. k].subs[seq[i]])}
<1>11. 0 \in G
  <2>1. 1 .. 0 = {} /\ {} \in SUBSET (1 .. N) /\ 0 \in 0 .. N
    BY <1>3
  <2>2. h[{}] = base
    BY <1>3, <1>10, <2>1
  <2> QED BY <1>4, <2>1, <2>2
<1>12. ASSUME NEW k \in 0 .. N - 1, k \in G PROVE k + 1 \in G
  <2> DEFINE t == h[1 .. k]
  <2>1. /\ k + 1 \in 1 .. N /\ k + 1 \in Nat /\ k + 1 > 0 /\ (k + 1) - 1 = k
        /\ 1 .. k + 1 \in SUBSET (1 .. N)
    BY <1>3
  <2>2. Max(1 .. k + 1) = k + 1 /\ (1 .. k + 1) \ {k + 1} = 1 .. k /\ 1 .. k + 1 # {}
    BY <2>1, FirstPositions
  <2>3. h[1 .. k + 1] = Apart(t, seq[k + 1], rt)
    BY <1>3, <1>10, <2>1, <2>2
  <2>4. /\ t \in T /\ \A i \in 1 .. k : rt \notin Range(t.adj[seq[i]])
        /\ AllTied(n) => \A i \in 1 .. k : seq[i] # rt => rt \notin Named(t.subs[seq[i]])
    BY <1>12
  <2> HIDE DEF t
  <2>5. h[1 .. k + 1] \in T
    BY <1>5, <2>1, <2>3, <2>4
  <2>6. ASSUME NEW i \in 1 .. k + 1 PROVE rt \notin Range(h[1 .. k + 1].adj[seq[i]])
    <3>1. CASE seq[i] = seq[k + 1]
      BY <1>7, <2>1, <2>3, <2>4, <3>1
    <3>2. CASE seq[i] # seq[k + 1]
      <4>1. i \in 1 .. k /\ i \in 1 .. N
        BY <2>1, <3>2
      <4>2. seq[i] \in Routers \ {seq[k + 1]}
        BY <1>3, <3>2, <4>1
      <4>3. h[1 .. k + 1].adj[seq[i]] = t.adj[seq[i]]
        BY <1>7, <2>1, <2>3, <2>4, <4>2
      <4> QED BY <2>4, <4>1, <4>3
    <3> QED BY <3>1, <3>2
  <2>7. k + 1 \in 0 .. N
    BY <2>1
  <2>8. ASSUME AllTied(n), NEW i \in 1 .. k + 1, seq[i] # rt
        PROVE  rt \notin Named(h[1 .. k + 1].subs[seq[i]])
    <3>1. seq[i] \in Range(seq) \ {rt}
      BY <1>3, <2>1, <2>8
    <3> DEFINE q == seq[i]
    <3>2. Named(h[1 .. k + 1].subs[q]) = Named(t.subs[q]) \ Here(q, seq[k + 1], rt)
      <4> HIDE DEF q
      <4>1. /\ t \in T /\ k + 1 \in 1 .. N /\ q \in Range(seq) \ {rt} /\ AllTied(n)
            /\ h[1 .. k + 1] = Apart(t, seq[k + 1], rt)
        BY <2>1, <2>3, <2>4, <2>8, <3>1 DEF q
      <4> QED BY ONLY <1>7, <4>1
    <3>3. CASE seq[i] = seq[k + 1]
      BY <3>2, <3>3 DEF Here
    <3>4. CASE seq[i] # seq[k + 1]
      <4>1. i \in 1 .. k
        BY <2>1, <3>4
      <4> QED BY <2>4, <2>8, <3>2, <4>1
    <3> QED BY <3>3, <3>4
  <2> QED BY <2>5, <2>6, <2>7, <2>8
<1>13. N \in G
  <2> HIDE DEF G
  <2> QED BY <1>3, <1>11, <1>12, UpTo
<1>14. /\ h[1 .. N] \in T /\ \A i \in 1 .. N : rt \notin Range(h[1 .. N].adj[seq[i]])
       /\ AllTied(n) => \A i \in 1 .. N : seq[i] # rt => rt \notin Named(h[1 .. N].subs[seq[i]])
  BY <1>13
<1>15. \A r \in Range(seq) : rt \notin Range(h[1 .. N].adj[r])
  BY <1>3, <1>14
<1>16. AllTied(n) => Nameless(n, h[1 .. N], rt)
  BY <1>3, <1>14 DEF Nameless, seq
<1> QED BY <1>2, <1>3, <1>14, <1>15, <1>16 DEF T, seq

\* A router other than the own one is freed: no pointer to it is left.
LEMMA RemoveFromTopoIn ==
    ASSUME NEW n \in Databases({Self}), NEW rt \in Remote
    PROVE  /\ remove_from_topo(n, rt) \in Databases({Self})
           /\ Range(remove_from_topo(n, rt).order) = Range(n.order) \ {rt}
           /\ \A q \in Routers \ {rt} : remove_from_topo(n, rt).exp[q] = n.exp[q]
           /\ LinksAgree => /\ Fewer(n, remove_from_topo(n, rt), rt)
                            /\ Nameless(n, remove_from_topo(n, rt), rt)
<1> DEFINE c == Cleared(n, rt)
           o == RemoveFirst(c.order, rt)
           m == remove_from_topo(n, rt)
<1>1. /\ n \in Networks /\ Graph(n) /\ Own(n) /\ Linked(n) /\ Self \in Range(n.order)
      /\ rt \in Routers /\ rt # Self /\ Self \in Routers
  BY TopInfoAssumption DEF Databases, Remote
<1>2. /\ c \in Networks /\ Graph(c) /\ Own(c) /\ c.order = n.order
      /\ \A r \in Range(n.order) : rt \notin Range(c.adj[r])
      /\ c.exp = n.exp
      /\ AllTied(n) => AllTiedBut(c, rt) /\ Fewer(n, c, rt) /\ Nameless(n, c, rt)
  BY <1>1, ClearedIn
<1>3. m = [c EXCEPT !.order = o, !.adj[rt] = <<>>, !.exp[rt] = 0, !.seq[rt] = 0]
  BY Zenon DEF remove_from_topo, Cleared, Apart
<1> HIDE DEF c, m
<1>4. /\ DOMAIN c = {"order", "adj", "subs", "exp", "seq"}
      /\ c.order \in Seq(Routers) /\ c.adj \in [Routers -> Seq(Routers)]
      /\ NoRepeat(c.order) /\ Range(c.order) \subseteq Routers
      /\ \A r \in Range(c.order) :
             NoRepeat(c.adj[r]) /\ Range(c.adj[r]) \subseteq Range(c.order) \ {r}
  BY <1>2, GraphShape DEF Graph
<1>5. /\ o \in Seq(Routers) /\ NoRepeat(o) /\ Range(o) = Range(n.order) \ {rt}
      /\ Len(o) > 0 /\ o[1] = Self
  <2>1. /\ Len(c.order) > 0 /\ c.order[1] # rt /\ c.order[1] = Self
    BY <1>1, <1>2 DEF Own
  <2> QED BY <1>2, <1>4, <2>1, RemoveFirstRemoves
<1> HIDE DEF o
<1> DEFINE c1 == [c EXCEPT !.order = o]
           c2 == [c1 EXCEPT !.adj[rt] = <<>>]
           c3 == [c2 EXCEPT !.exp[rt] = 0]
           c4 == [c3 EXCEPT !.seq[rt] = 0]
<1>6. m = c4
  BY <1>3, <1>4
<1>7. /\ <<>> \in Seq(Routers) /\ 0 \in 0 .. RouterLife /\ 0 \in 0 .. SeqSpace - 1
  BY TopInfoAssumption, PwospfAssumption
<1>8. c4 \in Networks
  <2>1. c1 \in Networks
    BY <1>2, <1>5 DEF Networks
  <2> HIDE DEF c1
  <2>2. c2 \in Networks
    BY <1>1, <1>7, <2>1, AdjTyped
  <2> HIDE DEF c2
  <2>3. c3 \in Networks
    BY <1>1, <1>7, <2>2 DEF Networks
  <2> HIDE DEF c3
  <2> QED BY <1>1, <1>7, <2>3 DEF Networks
<1>9. c4.order = o /\ c4.adj = [c.adj EXCEPT ![rt] = <<>>] /\ DOMAIN c4 = DOMAIN c
  <2>1. DOMAIN c1 = DOMAIN c /\ c1.order = o /\ c1.adj = c.adj
    BY <1>4
  <2> HIDE DEF c1
  <2>2. DOMAIN c2 = DOMAIN c /\ c2.order = o /\ c2.adj = [c.adj EXCEPT ![rt] = <<>>]
    BY <1>4, <2>1
  <2> HIDE DEF c2
  <2>3. DOMAIN c3 = DOMAIN c /\ c3.order = c2.order /\ c3.adj = c2.adj
    BY <1>4, <2>2
  <2> HIDE DEF c3
  <2>4. DOMAIN c4 = DOMAIN c /\ c4.order = c3.order /\ c4.adj = c3.adj
    BY <1>4, <2>3
  <2> HIDE DEF c4
  <2> QED BY <2>2, <2>3, <2>4
<1> HIDE DEF c4
<1>10. Graph(c4)
  <2>1. c4.adj \in [Routers -> Seq(Routers)]
    BY <1>8 DEF Networks
  <2>2. ASSUME NEW r \in Range(o)
        PROVE  NoRepeat(c4.adj[r]) /\ Range(c4.adj[r]) \subseteq Range(o) \ {r}
    <3>1. r \in Range(c.order) /\ r # rt /\ r \in Routers
      BY <1>2, <1>4, <1>5
    <3>2. c4.adj[r] = c.adj[r]
      BY <1>4, <1>9, <3>1
    <3>3. NoRepeat(c.adj[r]) /\ Range(c.adj[r]) \subseteq Range(c.order) \ {r}
      BY <1>4, <3>1
    <3>4. rt \notin Range(c.adj[r])
      BY <1>2, <3>1
    <3> QED BY <1>2, <1>5, <3>2, <3>3, <3>4
  <2> QED BY <1>4, <1>5, <1>9, <2>1, <2>2 DEF Graph
<1>11. Own(c4)
  <2>1. c4.subs = c.subs
    BY <1>4 DEF c4
  <2> QED BY <1>2, <1>5, <1>9, <2>1 DEF Own
<1>12. Linked(c4)
  <2>1. c4.subs = c.subs
    BY <1>4 DEF c4
  <2>2. ASSUME LinksAgree, NEW q \in Range(o) PROVE Tied(c4, q)
    <3>1. q \in Range(c.order) \ {rt} /\ q \in Routers
      BY <1>2, <1>4, <1>5
    <3>2. Tied(c, q)
      BY <1>1, <1>2, <2>2, <3>1 DEF Linked, AllTiedBut
    <3>3. c4.subs[q] = c.subs[q] /\ c4.adj[q] = c.adj[q]
      BY <1>4, <1>9, <2>1, <3>1
    <3> QED BY <3>2, <3>3, SameTied
  <2> QED BY <1>9, <2>2 DEF Linked, AllTied
<1>13. \A q \in Routers \ {rt} : c4.exp[q] = n.exp[q]
  <2>1. c4.exp = [c.exp EXCEPT ![rt] = 0] /\ c.exp \in [Routers -> 0 .. RouterLife]
    BY <1>2, <1>4 DEF c4, Networks
  <2> QED BY <1>2, <2>1
<1>14. LinksAgree => Fewer(n, c4, rt) /\ Nameless(n, c4, rt)
  <2>1. c4.subs = c.subs
    BY <1>4 DEF c4
  <2> QED BY <1>1, <1>2, <2>1 DEF Linked, Fewer, Nameless
<1>15. /\ c4 \in Databases({Self})
       /\ Range(c4.order) = Range(n.order) \ {rt}
  BY <1>1, <1>5, <1>8, <1>9, <1>10, <1>11, <1>12 DEF Databases
<1> QED BY <1>6, <1>13, <1>14, <1>15 DEF m

\* The routers among the first k of the list that timed out.
Gone(n, k) == {n.order[i] : i \in {j \in 1 .. k : TimedOut(n, n.order[j])}}

\* m is n without the routers of L, and no subnet that is left names one of them.
Without(n, m, L) ==
    /\ Range(m.order) = Range(n.order) \ L
    /\ \A q \in Range(m.order) : m.exp[q] = n.exp[q]
    /\ LinksAgree => \A q \in Range(m.order) : Named(m.subs[q]) \cap L = {}

\* One router more is removed.
LEMMA WithoutOneMore ==
    ASSUME NEW n, NEW m \in Databases({Self}), NEW L, Without(n, m, L),
           NEW r \in Range(m.order) \cap Remote
    PROVE  Without(n, remove_from_topo(m, r), L \cup {r})
<1> DEFINE o == remove_from_topo(m, r)
<1>1. /\ Range(o.order) = Range(m.order) \ {r}
      /\ \A q \in Routers \ {r} : o.exp[q] = m.exp[q]
      /\ LinksAgree => Fewer(m, o, r) /\ Nameless(m, o, r)
  BY RemoveFromTopoIn
<1>2. Range(m.order) \subseteq Routers
  BY GraphShape DEF Databases
<1> HIDE DEF o
<1>3. Range(o.order) = Range(n.order) \ (L \cup {r})
  BY <1>1 DEF Without
<1>4. ASSUME NEW q \in Range(o.order) PROVE o.exp[q] = n.exp[q]
  BY <1>1, <1>2, <1>4 DEF Without
<1>5. ASSUME LinksAgree, NEW q \in Range(o.order)
      PROVE  Named(o.subs[q]) \cap (L \cup {r}) = {}
  <2>1. q \in Range(m.order) \ {r} /\ Named(m.subs[q]) \cap L = {}
    BY <1>1, <1>5 DEF Without
  <2>2. Named(o.subs[q]) \subseteq Named(m.subs[q]) /\ r \notin Named(o.subs[q])
    BY <1>1, <1>5, <2>1 DEF Fewer, Nameless
  <2> QED BY <2>1, <2>2
<1>6. Without(n, o, L \cup {r})
  BY <1>3, <1>4, <1>5 DEF Without
<1> QED BY <1>6 DEF o

\* check_top_invalid's loop: it removes exactly the routers that timed out.
LEMMA RemoveTimedOutIn ==
    ASSUME NEW n \in Databases({Self})
    PROVE  /\ RemoveTimedOut(n) \in Databases({Self})
           /\ \E L : /\ \A r \in Range(n.order) : r \in L <=> TimedOut(n, r)
                     /\ Without(n, RemoveTimedOut(n), L)
<1> DEFINE seq == n.order
           N == Len(seq)
           T == Databases({Self})
           Round(m, r) == IF TimedOut(m, r) THEN remove_from_topo(m, r) ELSE m
           Step(h, s) == IF s = {} THEN n ELSE Round(h[s \ {Max(s)}], seq[Max(s)])
           F == [p \in T \X (1 .. N) |-> Round(p[1], seq[p[2]])]
           h == CHOOSE g : g = [s \in SUBSET DOMAIN seq |-> Step(g, s)]
<1>1. seq \in Seq(Routers) /\ NoRepeat(seq)
  BY DEF Databases, Networks, Graph
<1>2. RemoveTimedOut(n) = h[DOMAIN seq]
  BY Zenon DEF RemoveTimedOut, FoldLeft, MapThenFoldSet
<1>13. \A r : r \in Range(seq) <=> \E k \in 1 .. N : seq[k] = r
  BY <1>1, RangeIsContains
<1>14. \A k : Gone(n, k) = {seq[i] : i \in {j \in 1 .. k : TimedOut(n, seq[j])}}
  BY DEF Gone
<1> HIDE DEF seq
<1>3. N \in Nat /\ DOMAIN seq = 1 .. N /\ \A k \in 1 .. N : seq[k] \in Routers
  BY <1>1
<1>4. n \in T
  OBVIOUS
<1>5. \A t \in T, k \in 1 .. N : Round(t, seq[k]) \in T
  <2>1. TAKE t \in T, k \in 1 .. N
  <2>2. CASE TimedOut(t, seq[k])
    <3>1. seq[k] \in Remote
      BY <1>3, <2>2 DEF TimedOut, Remote
    <3> QED BY <2>2, <3>1, RemoveFromTopoIn
  <2> QED BY <2>2
<1>15. ASSUME NEW t \in T, NEW k \in 0 .. N - 1, Without(n, t, Gone(n, k))
       PROVE  Without(n, Round(t, seq[k + 1]), Gone(n, k + 1))
  <2> DEFINE r == seq[k + 1]
  <2>1. k + 1 \in 1 .. N /\ r \in Routers /\ r \in Range(seq)
    BY <1>3, <1>13
  <2>2. \A i \in 1 .. k : i \in 1 .. N /\ i # k + 1
    BY <1>3
  <2>3. \A i \in 1 .. k : seq[i] # r
    BY <1>1, <2>1, <2>2 DEF NoRepeat
  <2>4. r \notin Gone(n, k)
    BY <1>14, <2>3
  <2>5. r \in Range(t.order) /\ t.exp[r] = n.exp[r]
    BY <1>15, <2>1, <2>4 DEF Without, seq
  <2>6. TimedOut(t, r) <=> TimedOut(n, r)
    BY <2>5 DEF TimedOut
  <2>7. \A j : j \in 1 .. k + 1 <=> j \in 1 .. k \/ j = k + 1
    BY <1>3
  <2>8. CASE TimedOut(n, r)
    <3>1. Gone(n, k + 1) = Gone(n, k) \cup {r}
      BY <1>14, <2>7, <2>8
    <3>2. r \in Range(t.order) \cap Remote
      BY <2>1, <2>5, <2>8 DEF TimedOut, Remote
    <3> HIDE DEF r
    <3>3. Without(n, remove_from_topo(t, r), Gone(n, k) \cup {r})
      BY <1>15, <3>2, WithoutOneMore
    <3> QED BY <2>6, <2>8, <3>1, <3>3 DEF r
  <2>9. CASE ~TimedOut(n, r)
    <3>1. Gone(n, k + 1) = Gone(n, k)
      BY <1>14, <2>7, <2>9
    <3> QED BY <1>15, <2>6, <2>9, <3>1
  <2> QED BY <2>8, <2>9
<1> HIDE DEF Round
<1>6. /\ F \in [T \X (1 .. N) -> T]
      /\ \A t \in T, k \in 1 .. N : F[<<t, k>>] = Round(t, seq[k])
  BY <1>5
<1> HIDE DEF N, T, F
<1>7. PICK g : IsWalkIn(F, n, T, N, g)
  BY <1>3, <1>4, <1>6, WalkIsIn
<1>8. g = [s \in SUBSET DOMAIN seq |-> Step(g, s)]
  <2>1. \A s \in SUBSET (1 .. N) : g[s] = Step(g, s)
    BY <1>6, <1>7 DEF IsWalkIn
  <2>2. g = [s \in SUBSET (1 .. N) |-> g[s]]
    BY <1>7 DEF IsWalkIn
  <2> HIDE DEF Step
  <2> QED BY <1>3, <2>1, <2>2
<1>9. h = [s \in SUBSET DOMAIN seq |-> Step(h, s)]
  BY <1>8, Zenon
<1> HIDE DEF h
<1> DEFINE G == {k \in 0 .. N : h[1 .. k] \in T /\ Without(n, h[1 .. k], Gone(n, k))}
<1>10. 0 \in G
  <2>1. 1 .. 0 = {} /\ {} \in SUBSET (1 .. N) /\ 0 \in 0 .. N
    BY <1>3
  <2>2. h[{}] = n
    BY <1>3, <1>9, <2>1
  <2>3. Gone(n, 0) = {}
    BY <1>14, <2>1
  <2>4. Without(n, n, {})
    BY DEF Without
  <2> QED BY <1>4, <2>1, <2>2, <2>3, <2>4
<1>11. ASSUME NEW k \in 0 .. N - 1, k \in G PROVE k + 1 \in G
  <2> DEFINE t == h[1 .. k]
  <2>1. /\ k + 1 \in 1 .. N /\ k + 1 \in Nat /\ k + 1 > 0 /\ (k + 1) - 1 = k
        /\ 1 .. k + 1 \in SUBSET (1 .. N) /\ k + 1 \in 0 .. N
    BY <1>3
  <2>2. Max(1 .. k + 1) = k + 1 /\ (1 .. k + 1) \ {k + 1} = 1 .. k /\ 1 .. k + 1 # {}
    BY <2>1, FirstPositions
  <2>3. h[1 .. k + 1] = Round(t, seq[k + 1])
    BY <1>3, <1>9, <2>1, <2>2
  <2>4. t \in T /\ Without(n, t, Gone(n, k))
    BY <1>11
  <2> HIDE DEF t
  <2>5. Round(t, seq[k + 1]) \in T /\ Without(n, Round(t, seq[k + 1]), Gone(n, k + 1))
    BY <1>5, <1>15, <2>1, <2>4
  <2> QED BY <2>1, <2>3, <2>5
<1>12. N \in G
  <2> HIDE DEF G
  <2> QED BY <1>3, <1>10, <1>11, UpTo
<1>16. h[1 .. N] \in T /\ Without(n, h[1 .. N], Gone(n, N))
  BY <1>12
<1>17. \A r \in Range(seq) : r \in Gone(n, N) <=> TimedOut(n, r)
  BY <1>13, <1>14
<1> QED BY <1>2, <1>3, <1>16, <1>17 DEF T, seq

(***************************************************************************)
(* dijkstra and update_ftable.                                             *)
(***************************************************************************)
\* What dijkstra knows of the routers.
Walks == [known : [Routers -> BOOLEAN], dist : [Routers -> Int],
          prev : [Routers -> Routers \cup {NoRid}]]

\* One adjacency of the router visited.
LEMMA RelaxIn ==
    ASSUME NEW dj \in Walks, NEW u \in Routers, NEW w \in Routers
    PROVE  Relax(dj, u, w) \in Walks
<1> DEFINE m == [dj EXCEPT !.dist[w] = dj.dist[u] + 1, !.prev[w] = u]
<1>1. Relax(dj, u, w) \in {dj, m}
  BY Zenon DEF Relax
<1>2. [dj EXCEPT !.dist[w] = dj.dist[u] + 1] \in Walks
  BY DEF Walks
<1>3. [[dj EXCEPT !.dist[w] = dj.dist[u] + 1] EXCEPT !.prev[w] = u] \in Walks
  BY <1>2 DEF Walks
<1>4. m = [[dj EXCEPT !.dist[w] = dj.dist[u] + 1] EXCEPT !.prev[w] = u]
  BY DEF Walks
<1> HIDE DEF m
<1> QED BY <1>1, <1>3, <1>4

\* The nearest router that is not known yet is in the list.
LEMMA SmallestUnknownIn ==
    ASSUME NEW n, n.order \in Seq(Routers), NEW dj
    PROVE  SmallestUnknown(n, dj) \in Routers \cup {NoRid}
<1> DEFINE open == {r \in Routers : adj_list_contains(n, r) /\ ~dj.known[r] /\ dj.dist[r] >= 0}
           nearest == {r \in open : \A q \in open : dj.dist[r] <= dj.dist[q]}
           I == {i \in 1 .. Len(n.order) : n.order[i] \in nearest}
           k == SelectInSeq(n.order, LAMBDA r : r \in nearest)
<1>1. SmallestUnknown(n, dj) = IF k = 0 THEN NoRid ELSE n.order[k]
  BY DEF SmallestUnknown, SelectInSeq
<1>2. k = IF I # {} THEN Min(I) ELSE 0
  BY DEF SelectInSeq
<1> HIDE DEF k, nearest
<1>3. Len(n.order) \in Nat /\ \A i \in 1 .. Len(n.order) : n.order[i] \in Routers
  BY LenProperties
<1>4. CASE I # {}
  <2>1. I \in SUBSET Nat /\ \A i \in I : i \in 1 .. Len(n.order)
    BY <1>3
  <2> HIDE DEF I
  <2>2. Min(I) \in I
    BY <1>4, <2>1, MinExists
  <2>3. k = Min(I)
    BY <1>2, <1>4
  <2>4. k \in 1 .. Len(n.order)
    BY <2>1, <2>2, <2>3
  <2>5. k # 0
    BY <1>3, <2>4
  <2> QED BY <1>1, <1>3, <2>4, <2>5
<1>5. CASE I = {}
  BY <1>1, <1>2, <1>5
<1> QED BY <1>4, <1>5

\* One visit, with all its adjacencies.
LEMMA VisitIn ==
    ASSUME NEW n, n.order \in Seq(Routers), n.adj \in [Routers -> Seq(Routers)],
           NEW dj \in Walks
    PROVE  Visit(n, dj) \in Walks
<1> DEFINE u == SmallestUnknown(n, dj)
           seq == n.adj[u]
           N == Len(seq)
           T == Walks
           base == [dj EXCEPT !.known[u] = TRUE]
           Step(h, s) == IF s = {} THEN base ELSE Relax(h[s \ {Max(s)}], u, seq[Max(s)])
           F == [p \in T \X (1 .. N) |-> Relax(p[1], u, seq[p[2]])]
           h == CHOOSE g : g = [s \in SUBSET DOMAIN seq |-> Step(g, s)]
<1>1. u = NoRid \/ u \in Routers
  BY SmallestUnknownIn
<1>2. Visit(n, dj) = IF u = NoRid THEN dj ELSE h[DOMAIN seq]
  BY Zenon DEF Visit, FoldLeft, MapThenFoldSet
<1> HIDE DEF u
<1>3. CASE u = NoRid
  BY <1>2, <1>3
<1>4. CASE u \in Routers /\ u # NoRid
  <2>1. seq \in Seq(Routers)
    BY <1>4
  <2> HIDE DEF seq
  <2>2. N \in Nat /\ DOMAIN seq = 1 .. N /\ \A k \in 1 .. N : seq[k] \in Routers
    BY <2>1
  <2>3. base \in T
    BY <1>4 DEF Walks
  <2>4. \A t \in T, k \in 1 .. N : Relax(t, u, seq[k]) \in T
    BY <1>4, <2>2, RelaxIn
  <2>5. /\ F \in [T \X (1 .. N) -> T]
        /\ \A t \in T, k \in 1 .. N : F[<<t, k>>] = Relax(t, u, seq[k])
    BY <2>4
  <2> HIDE DEF N, T, base, F
  <2>6. PICK g : IsWalkIn(F, base, T, N, g)
    BY <2>2, <2>3, <2>5, WalkIsIn
  <2>7. g = [s \in SUBSET DOMAIN seq |-> Step(g, s)]
    <3>1. \A s \in SUBSET (1 .. N) : g[s] = Step(g, s)
      BY <2>5, <2>6 DEF IsWalkIn
    <3>2. g = [s \in SUBSET (1 .. N) |-> g[s]]
      BY <2>6 DEF IsWalkIn
    <3> HIDE DEF Step
    <3> QED BY <2>2, <3>1, <3>2
  <2>8. h = [s \in SUBSET DOMAIN seq |-> Step(h, s)]
    BY <2>7, Zenon
  <2> HIDE DEF h
  <2>9. ASSUME NEW s \in SUBSET (1 .. N)
        PROVE  /\ s = {} => h[s] \in T
               /\ s # {} /\ Max(s) \in 1 .. N /\ h[s \ {Max(s)}] \in T => h[s] \in T
    BY <2>2, <2>3, <2>4, <2>8
  <2>10. h[1 .. N] \in T
    BY <2>2, <2>9, WalkEnds
  <2> QED BY <1>2, <1>4, <2>2, <2>10 DEF T
<1> QED BY <1>1, <1>3, <1>4

\* The whole walk.
LEMMA DijkstraIn ==
    ASSUME NEW n, n.order \in Seq(Routers), n.adj \in [Routers -> Seq(Routers)]
    PROVE  dijkstra(n) \in Walks
<1> DEFINE seq == n.order
           N == Len(seq)
           T == Walks
           base == [known |-> [r \in Routers |-> FALSE],
                    dist |-> [[r \in Routers |-> -1] EXCEPT ![Self] = 0],
                    prev |-> [r \in Routers |-> NoRid]]
           Step(h, s) == IF s = {} THEN base ELSE Visit(n, h[s \ {Max(s)}])
           F == [p \in T \X (1 .. N) |-> Visit(n, p[1])]
           h == CHOOSE g : g = [s \in SUBSET DOMAIN seq |-> Step(g, s)]
<1>1. N \in Nat /\ DOMAIN seq = 1 .. N
  OBVIOUS
<1>2. dijkstra(n) = h[DOMAIN seq]
  BY Zenon DEF dijkstra, FoldLeft, MapThenFoldSet
<1>3. base \in T
  <2> DEFINE d == [r \in Routers |-> -1]
  <2>1. d \in [Routers -> Int] /\ 0 \in Int
    OBVIOUS
  <2> HIDE DEF d
  <2>2. [d EXCEPT ![Self] = 0] \in [Routers -> Int]
    BY <2>1
  <2> QED BY <2>2 DEF Walks, d
<1>4. \A t \in T : Visit(n, t) \in T
  BY VisitIn
<1>5. F \in [T \X (1 .. N) -> T] /\ \A t \in T, k \in 1 .. N : F[<<t, k>>] = Visit(n, t)
  BY <1>4
<1> HIDE DEF seq, N, T, base, F
<1>6. PICK g : IsWalkIn(F, base, T, N, g)
  BY <1>1, <1>3, <1>5, WalkIsIn
<1>7. g = [s \in SUBSET DOMAIN seq |-> Step(g, s)]
  <2>1. \A s \in SUBSET (1 .. N) : g[s] = Step(g, s)
    BY <1>5, <1>6 DEF IsWalkIn
  <2>2. g = [s \in SUBSET (1 .. N) |-> g[s]]
    BY <1>6 DEF IsWalkIn
  <2> HIDE DEF Step
  <2> QED BY <1>1, <2>1, <2>2
<1>8. h = [s \in SUBSET DOMAIN seq |-> Step(h, s)]
  BY <1>7, Zenon
<1> HIDE DEF h
<1>9. ASSUME NEW s \in SUBSET (1 .. N)
      PROVE  /\ s = {} => h[s] \in T
             /\ s # {} /\ Max(s) \in 1 .. N /\ h[s \ {Max(s)}] \in T => h[s] \in T
  BY <1>1, <1>3, <1>4, <1>8
<1>10. h[1 .. N] \in T
  BY <1>1, <1>9, WalkEnds
<1> QED BY <1>1, <1>2, <1>10 DEF T

\* The router next to the own one on the way to dest, and how far dest is.
LEMMA NextHopIn ==
    ASSUME NEW n, n.order \in Seq(Routers), NEW dj \in Walks, NEW dest \in Routers
    PROVE  /\ find_next_hop(n, dj, dest).rid \in Routers \cup {NoRid}
           /\ find_next_hop(n, dj, dest).hops \in Nat \cup {-1}
<1> DEFINE seq == n.order
           N == Len(seq)
           T == [rid : Routers, hops : Nat]
           base == [rid |-> dest, hops |-> 1]
           Back(st) == IF dj.prev[st.rid] \in {NoRid, Self} THEN st
                       ELSE [rid |-> dj.prev[st.rid], hops |-> st.hops + 1]
           Step(h, s) == IF s = {} THEN base ELSE Back(h[s \ {Max(s)}])
           F == [p \in T \X (1 .. N) |-> Back(p[1])]
           h == CHOOSE g : g = [s \in SUBSET DOMAIN seq |-> Step(g, s)]
           last == h[DOMAIN seq]
           m == find_next_hop(n, dj, dest)
<1>1. N \in Nat /\ DOMAIN seq = 1 .. N
  OBVIOUS
<1>2. m = IF dest = Self THEN [rid |-> NoRid, hops |-> 0]
          ELSE IF dj.prev[last.rid] = NoRid THEN [rid |-> NoRid, hops |-> -1] ELSE last
  BY Zenon DEF find_next_hop, FoldLeft, MapThenFoldSet
<1>3. base \in T
  OBVIOUS
<1>4. \A t \in T : Back(t) \in T
  BY DEF Walks
<1> HIDE DEF Back
<1>5. F \in [T \X (1 .. N) -> T] /\ \A t \in T, k \in 1 .. N : F[<<t, k>>] = Back(t)
  BY <1>4
<1> HIDE DEF seq, N, T, base, F, m
<1>6. PICK g : IsWalkIn(F, base, T, N, g)
  BY <1>1, <1>3, <1>5, WalkIsIn
<1>7. g = [s \in SUBSET DOMAIN seq |-> Step(g, s)]
  <2>1. \A s \in SUBSET (1 .. N) : g[s] = Step(g, s)
    BY <1>5, <1>6 DEF IsWalkIn
  <2>2. g = [s \in SUBSET (1 .. N) |-> g[s]]
    BY <1>6 DEF IsWalkIn
  <2> HIDE DEF Step
  <2> QED BY <1>1, <2>1, <2>2
<1>8. h = [s \in SUBSET DOMAIN seq |-> Step(h, s)]
  BY <1>7, Zenon
<1> HIDE DEF h
<1>9. ASSUME NEW s \in SUBSET (1 .. N)
      PROVE  /\ s = {} => h[s] \in T
             /\ s # {} /\ Max(s) \in 1 .. N /\ h[s \ {Max(s)}] \in T => h[s] \in T
  BY <1>1, <1>3, <1>4, <1>8
<1>10. h[1 .. N] \in T
  BY <1>1, <1>9, WalkEnds
<1>11. last.rid \in Routers /\ last.hops \in Nat
  BY <1>1, <1>10 DEF T
<1> HIDE DEF last
<1> QED BY <1>2, <1>11 DEF m

\* The entries of a forwarding table.
Entries == [prefix : PrefixSet, mask : MaskSet, via : Routers \cup {NoRid, Unwritten},
            iface : IfaceSet \cup {NoIface}, hops : Nat]

\* The interface an entry leads out of.
LEMMA OutIn ==
    ASSUME NEW nb, NEW id, NEW prefix
    PROVE  /\ get_if_and_neighbor(nb, id).iface \in IfaceSet \cup {NoIface}
           /\ get_if_and_neighbor(nb, id).nbr \in {id, NoRid}
           /\ get_subnet_if(prefix) \in IfaceSet \cup {NoIface}
<1>1. Len(Ifaces) \in Nat /\ \A i \in 1 .. Len(Ifaces) : Ifaces[i] \in IfaceSet
  BY PwospfAssumption
<1>2. /\ get_if_and_neighbor(nb, id).iface \in IfaceSet \cup {NoIface}
      /\ get_if_and_neighbor(nb, id).nbr \in {id, NoRid}
  <2> DEFINE I == {i \in 1 .. Len(Ifaces) : \E j \in 1 .. Len(nb[Ifaces[i]]) : nb[Ifaces[i]][j].id = id}
             k == IF I # {} THEN Min(I) ELSE 0
  <2>1. get_if_and_neighbor(nb, id) =
          IF k = 0 THEN [iface |-> NoIface, nbr |-> NoRid] ELSE [iface |-> Ifaces[k], nbr |-> id]
    BY Zenon DEF get_if_and_neighbor, SelectInSeq
  <2>2. I \in SUBSET Nat /\ \A i \in I : i \in 1 .. Len(Ifaces)
    BY <1>1
  <2> HIDE DEF I
  <2>3. I # {} => k \in I
    BY <2>2, MinExists
  <2>4. k = 0 \/ k \in 1 .. Len(Ifaces)
    BY <2>2, <2>3
  <2> HIDE DEF k
  <2> QED BY <1>1, <2>1, <2>4
<1>3. get_subnet_if(prefix) \in IfaceSet \cup {NoIface}
  <2> DEFINE I == {i \in 1 .. Len(Ifaces) : IfPrefix[Ifaces[i]] = prefix}
             k == IF I # {} THEN Min(I) ELSE 0
  <2>1. get_subnet_if(prefix) = IF k = 0 THEN NoIface ELSE Ifaces[k]
    BY Zenon DEF get_subnet_if, SelectInSeq
  <2>2. I \in SUBSET Nat /\ \A i \in I : i \in 1 .. Len(Ifaces)
    BY <1>1
  <2> HIDE DEF I
  <2>3. I # {} => k \in I
    BY <2>2, MinExists
  <2>4. k = 0 \/ k \in 1 .. Len(Ifaces)
    BY <2>2, <2>3
  <2> HIDE DEF k
  <2> QED BY <1>1, <2>1, <2>4
<1> QED BY <1>2, <1>3

\* One entry of a table.
LEMMA InstallIn ==
    ASSUME NEW ft \in Seq(Entries), NEW e \in Entries
    PROVE  Install(ft, e) \in Seq(Entries)
<1> DEFINE k == ftable_contains(ft, e.prefix, e.mask)
<1>1. Install(ft, e) \in {Append(ft, e), [ft EXCEPT ![k] = e], ft}
  BY Zenon DEF Install
<1> HIDE DEF k
<1>2. Append(ft, e) \in Seq(Entries)
  OBVIOUS
<1>3. [ft EXCEPT ![k] = e] \in Seq(Entries)
  <2>1. Len(ft) \in Nat /\ ft \in [1 .. Len(ft) -> Entries]
    OBVIOUS
  <2>2. [ft EXCEPT ![k] = e] \in [1 .. Len(ft) -> Entries]
    BY <2>1
  <2> QED BY <2>1, <2>2
<1> QED BY <1>1, <1>2, <1>3

\* The state of update_ftable's loop.
Tables == [ft : Seq(Entries), stop : BOOLEAN]

\* The entry of an own subnet, whether or not its next hop was written.
LEMMA OwnEntryIn ==
    ASSUME NEW sub, sub.prefix \in PrefixSet, sub.mask \in MaskSet, NEW w,
           get_subnet_if(sub.prefix) \in IfaceSet \cup {NoIface}
    PROVE  OwnEntry(sub, w) \in Entries
<1>1. (IF sub.prefix \in w THEN Self ELSE Unwritten) \in Routers \cup {NoRid, Unwritten}
  BY TopInfoAssumption
<1> QED BY <1>1 DEF OwnEntry, Entries

\* The entries of one router.
LEMMA RouterEntriesIn ==
    ASSUME NEW n \in Networks, NEW dj \in Walks, NEW nb, NEW w, NEW dest \in Routers,
           NEW st \in Tables
    PROVE  RouterEntries(st, n, dj, nb, w, dest) \in Tables
<1> DEFINE hop == find_next_hop(n, dj, dest)
           out == get_if_and_neighbor(nb, hop.rid)
           Entry(sub) == IF hop.hops = 0 THEN OwnEntry(sub, w)
                         ELSE [prefix |-> sub.prefix, mask |-> sub.mask,
                               via |-> out.nbr, iface |-> out.iface, hops |-> hop.hops]
           seq == n.subs[dest]
           N == Len(seq)
           T == Seq(Entries)
           base == st.ft
           Step(h, s) == IF s = {} THEN base ELSE Install(h[s \ {Max(s)}], Entry(seq[Max(s)]))
           F == [p \in T \X (1 .. N) |-> Install(p[1], Entry(seq[p[2]]))]
           h == CHOOSE g : g = [s \in SUBSET DOMAIN seq |-> Step(g, s)]
           m == RouterEntries(st, n, dj, nb, w, dest)
<1>1. m = IF st.stop \/ hop.hops = -1 THEN [st EXCEPT !.stop = TRUE]
          ELSE [st EXCEPT !.ft = h[DOMAIN seq]]
  BY Zenon DEF RouterEntries, FoldLeft, MapThenFoldSet
<1>2. n.order \in Seq(Routers) /\ seq \in Seq(Subnets)
  BY DEF Networks
<1>3. hop.rid \in Routers \cup {NoRid} /\ hop.hops \in Nat \cup {-1}
  BY <1>2, NextHopIn
<1>4. out.iface \in IfaceSet \cup {NoIface} /\ out.nbr \in {hop.rid, NoRid}
  BY OutIn
<1> HIDE DEF hop, out, seq, m
<1>5. CASE st.stop \/ hop.hops = -1
  <2>1. m = [st EXCEPT !.stop = TRUE]
    BY <1>1, <1>5, Zenon
  <2>2. [st EXCEPT !.stop = TRUE] \in Tables
    BY DEF Tables
  <2> QED BY <2>1, <2>2 DEF m
<1>6. CASE ~(st.stop \/ hop.hops = -1)
  <2>1. N \in Nat /\ DOMAIN seq = 1 .. N /\ \A k \in 1 .. N : seq[k] \in Subnets
    BY <1>2
  <2>2. base \in T
    BY DEF Tables
  <2>3. \A sub \in Subnets : Entry(sub) \in Entries
    <3>1. TAKE sub \in Subnets
    <3>2. sub.prefix \in PrefixSet /\ sub.mask \in MaskSet
      BY DEF Subnets
    <3>3. OwnEntry(sub, w) \in Entries
      <4>1. get_subnet_if(sub.prefix) \in IfaceSet \cup {NoIface}
        BY OutIn
      <4> QED BY <3>2, <4>1, OwnEntryIn
    <3>4. [prefix |-> sub.prefix, mask |-> sub.mask,
           via |-> out.nbr, iface |-> out.iface, hops |-> hop.hops] \in Entries
      <4>1. hop.hops \in Nat
        BY <1>3, <1>6
      <4> QED BY <1>3, <1>4, <3>2, <4>1 DEF Entries
    <3> QED BY <3>3, <3>4
  <2> HIDE DEF Entry
  <2>4. \A t \in T, k \in 1 .. N : Install(t, Entry(seq[k])) \in T
    BY <2>1, <2>3, InstallIn
  <2>5. /\ F \in [T \X (1 .. N) -> T]
        /\ \A t \in T, k \in 1 .. N : F[<<t, k>>] = Install(t, Entry(seq[k]))
    BY <2>4
  <2> HIDE DEF N, T, base, F
  <2>6. PICK g : IsWalkIn(F, base, T, N, g)
    BY <2>1, <2>2, <2>5, WalkIsIn
  <2>7. g = [s \in SUBSET DOMAIN seq |-> Step(g, s)]
    <3>1. \A s \in SUBSET (1 .. N) : g[s] = Step(g, s)
      BY <2>5, <2>6 DEF IsWalkIn
    <3>2. g = [s \in SUBSET (1 .. N) |-> g[s]]
      BY <2>6 DEF IsWalkIn
    <3> HIDE DEF Step
    <3> QED BY <2>1, <3>1, <3>2
  <2>8. h = [s \in SUBSET DOMAIN seq |-> Step(h, s)]
    BY <2>7, Zenon
  <2> HIDE DEF h
  <2>9. ASSUME NEW s \in SUBSET (1 .. N)
        PROVE  /\ s = {} => h[s] \in T
               /\ s # {} /\ Max(s) \in 1 .. N /\ h[s \ {Max(s)}] \in T => h[s] \in T
    BY <2>1, <2>2, <2>4, <2>8
  <2>10. h[1 .. N] \in T
    BY <2>1, <2>9, WalkEnds
  <2>11. m = [st EXCEPT !.ft = h[DOMAIN seq]]
    BY <1>1, <1>6, Zenon
  <2>12. h[DOMAIN seq] \in Seq(Entries)
    BY <2>1, <2>10 DEF T
  <2>13. [st EXCEPT !.ft = h[DOMAIN seq]] \in Tables
    BY <2>12 DEF Tables
  <2> QED BY <2>11, <2>13 DEF m
<1> QED BY <1>5, <1>6

\* A table rebuilt from a database.
LEMMA RecomputeIn ==
    ASSUME NEW n \in Networks, NEW nb, NEW w
    PROVE  Recompute(n, nb, w) \in Seq(Entries)
<1> DEFINE dj == dijkstra(n)
           seq == n.order
           N == Len(seq)
           T == Tables
           base == [ft |-> <<>>, stop |-> FALSE]
           Step(h, s) == IF s = {} THEN base
                         ELSE RouterEntries(h[s \ {Max(s)}], n, dj, nb, w, seq[Max(s)])
           F == [p \in T \X (1 .. N) |-> RouterEntries(p[1], n, dj, nb, w, seq[p[2]])]
           h == CHOOSE g : g = [s \in SUBSET DOMAIN seq |-> Step(g, s)]
<1>1. seq \in Seq(Routers) /\ n.adj \in [Routers -> Seq(Routers)]
  BY DEF Networks
<1>2. dj \in Walks
  BY <1>1, DijkstraIn
<1>3. Recompute(n, nb, w) = h[DOMAIN seq].ft
  BY Zenon DEF Recompute, update_ftable, FoldLeft, MapThenFoldSet
<1> HIDE DEF dj, seq
<1>4. N \in Nat /\ DOMAIN seq = 1 .. N /\ \A k \in 1 .. N : seq[k] \in Routers
  BY <1>1
<1>5. base \in T
  <2>1. <<>> \in Seq(Entries)
    OBVIOUS
  <2> QED BY <2>1 DEF Tables
<1>6. \A t \in T, k \in 1 .. N : RouterEntries(t, n, dj, nb, w, seq[k]) \in T
  BY <1>2, <1>4, RouterEntriesIn
<1>7. /\ F \in [T \X (1 .. N) -> T]
      /\ \A t \in T, k \in 1 .. N : F[<<t, k>>] = RouterEntries(t, n, dj, nb, w, seq[k])
  BY <1>6
<1> HIDE DEF N, T, base, F
<1>8. PICK g : IsWalkIn(F, base, T, N, g)
  BY <1>4, <1>5, <1>7, WalkIsIn
<1>9. g = [s \in SUBSET DOMAIN seq |-> Step(g, s)]
  <2>1. \A s \in SUBSET (1 .. N) : g[s] = Step(g, s)
    BY <1>7, <1>8 DEF IsWalkIn
  <2>2. g = [s \in SUBSET (1 .. N) |-> g[s]]
    BY <1>8 DEF IsWalkIn
  <2> HIDE DEF Step
  <2> QED BY <1>4, <2>1, <2>2
<1>10. h = [s \in SUBSET DOMAIN seq |-> Step(h, s)]
  BY <1>9, Zenon
<1> HIDE DEF h
<1>11. ASSUME NEW s \in SUBSET (1 .. N)
       PROVE  /\ s = {} => h[s] \in T
              /\ s # {} /\ Max(s) \in 1 .. N /\ h[s \ {Max(s)}] \in T => h[s] \in T
  BY <1>4, <1>5, <1>6, <1>10
<1>12. h[1 .. N] \in T
  BY <1>4, <1>11, WalkEnds
<1> QED BY <1>3, <1>4, <1>12 DEF T, Tables

(***************************************************************************)
(* The inductive invariant of the subsystem, and what follows from it.     *)
(***************************************************************************)
\* The LSU the main thread is handling.
Handling ==
    /\ main.pc \in {"idle", "compare", "add", "setseq", "forward"}
    /\ main.pc # "idle" =>
         /\ DOMAIN main = {"pc", "src", "ads", "from", "ttl", "seq", "found"}
         /\ main.src \in Remote /\ main.seq \in 0 .. SeqSpace - 1
         /\ main.ads \in Seq(AdsOf(main.src))

\* The position of the pwospf thread: after the last HELLO of a round it does
\* not send another one before the check.
Beating ==
    /\ beat \in [i : 0 .. LsuTicks, at : {"hello", "sleep", "check", "lsu"}]
    /\ beat.at = "hello" => beat.i < LsuTicks

\* The prefixes of the own interfaces.
OwnPrefixes == {IfPrefix[f] : f \in IfaceSet}

\* The inductive invariant: the database is typed, a graph that has the own router,
\* and tied to its subnets where links agree; the two threads are where the code can
\* be, and what is left of an LSU in hand is what its sender advertised.
PInv ==
    /\ net \in Databases({Self})
    /\ written \subseteq OwnPrefixes
    /\ ftable \in Seq(Entries)
    /\ nbrs \in [IfaceSet -> Seq(Nbrs)]
    /\ initLeft \in -1 .. InitLife
    /\ seqSent \in 0 .. SeqSpace - 1
    /\ Beating
    /\ Handling

\* The advertisements of an LSU that may arrive are those of its sender.
LEMMA LsuAds ==
    ASSUME NEW l \in Lsus
    PROVE  l.src \in Remote /\ l.ads \in Seq(AdsOf(l.src))
<1>1. l.src \in Remote /\ l.ads \in Seq(Range(l.ads))
  BY PwospfAssumption
<1>2. \A ad \in Range(l.ads) :
          ad \in [prefix : {ad.prefix}, mask : {ad.mask}, rid : (Routers \ {l.src}) \cup {NoRid}]
  BY PwospfAssumption
<1>3. ASSUME NEW ad \in Range(l.ads) PROVE ad \in AdsOf(l.src)
  <2>1. ad.prefix \in PrefixSet /\ ad.mask \in MaskSet
    BY DEF PrefixSet, MaskSet
  <2>2. ad \in [prefix : {ad.prefix}, mask : {ad.mask}, rid : (Routers \ {l.src}) \cup {NoRid}]
    BY <1>2
  <2>3. ad.rid = Self => \E f \in IfaceSet : ad.prefix = IfPrefix[f]
    BY PwospfAssumption
  <2> DEFINE X == [prefix : PrefixSet, mask : MaskSet, rid : (Routers \ {l.src}) \cup {NoRid}]
             k == [ends |-> {l.src, ad.rid}, prefix |-> ad.prefix, mask |-> ad.mask]
  <2>4. ad \in X
    BY <2>1, <2>2
  <2>5. ASSUME LinksAgree PROVE Fits(l.src, ad)
    <3>1. ad.rid # NoRid => ad.rid # l.src /\ k \in Links
      <4>1. ad.rid # NoRid => k \in LinksOf(l)
        BY DEF LinksOf
      <4> HIDE DEF k
      <4>2. LinksOf(l) \subseteq LsuLinks
        BY DEF LsuLinks
      <4> QED BY <2>2, <4>1, <4>2 DEF Links
    <3>2. \A x \in Links : x.prefix = ad.prefix => x.mask = ad.mask
      BY <2>5 DEF LinksAgree
    <3> QED BY <3>1, <3>2 DEF Fits
  <2> HIDE DEF X
  <2>6. AdsOf(l.src) = {x \in X : /\ x.rid = Self => \E f \in IfaceSet : x.prefix = IfPrefix[f]
                                  /\ LinksAgree => Fits(l.src, x)}
    BY DEF AdsOf, X
  <2> QED BY <2>3, <2>4, <2>5, <2>6
<1>4. Range(l.ads) \subseteq AdsOf(l.src)
  BY <1>3
<1> DEFINE ads == l.ads
           S == Range(l.ads)
           A == AdsOf(l.src)
<1> HIDE DEF S, A, ads
<1>5. ads \in Seq(A)
  <2>1. ads \in Seq(S) /\ S \subseteq A
    BY <1>1, <1>4 DEF S, A, ads
  <2> QED BY <2>1
<1> QED BY <1>1, <1>5 DEF ads, A

\* pwospf_init.
LEMMA InitPInv == Init => PInv
<1> SUFFICES ASSUME Init PROVE PInv
  OBVIOUS
<1>0. Self \in Routers /\ RouterLife \in Nat /\ SeqSpace \in Nat \ {0, 1} /\ InitLife \in Nat
      /\ LsuTicks \in Nat \ {0}
  BY TopInfoAssumption, PwospfAssumption
<1>1. Len(Ifaces) \in Nat /\ \A i \in 1 .. Len(Ifaces) : Ifaces[i] \in IfaceSet
  BY PwospfAssumption
<1>2. \A i \in 1 .. Len(Ifaces) : OwnSubnets[i] \in Subnets
  <2>1. TAKE i \in 1 .. Len(Ifaces)
  <2>2. OwnSubnets[i] = [prefix |-> IfPrefix[Ifaces[i]], mask |-> IfMask, rid |-> NoRid]
    BY DEF OwnSubnets
  <2>3. IfPrefix[Ifaces[i]] \in PrefixSet /\ IfMask \in MaskSet
    BY <1>1 DEF PrefixSet, MaskSet
  <2> QED BY <2>2, <2>3 DEF Subnets
<1>3. OwnSubnets \in Seq(Subnets)
  <2>1. OwnSubnets \in [1 .. Len(Ifaces) -> Subnets]
    BY <1>2 DEF OwnSubnets
  <2> QED BY <1>1, <2>1
<1>4. EmptyNetwork \in Networks
  <2>1. <<>> \in Seq(Routers) /\ <<>> \in Seq(Subnets)
    OBVIOUS
  <2>2. 0 \in 0 .. RouterLife /\ 0 \in 0 .. SeqSpace - 1
    BY <1>0
  <2> QED BY <2>1, <2>2 DEF EmptyNetwork, Networks
<1>5. net \in Databases({Self})
  <2> DEFINE n == add_new_router(EmptyNetwork, Self)
  <2>1. n \in Networks
    BY <1>0, <1>4, NewRouterTyped
  <2>2. Self \in Range(n.order) /\ Len(n.order) > 0 /\ n.order[1] = Self /\ n.order = <<Self>>
    <3>1. EmptyNetwork.order = <<>>
      BY DEF EmptyNetwork
    <3>2. n = [EmptyNetwork EXCEPT !.order = Append(EmptyNetwork.order, Self),
                 !.adj[Self] = <<>>, !.subs[Self] = <<>>,
                 !.exp[Self] = RouterLife, !.seq[Self] = 0]
      BY Zenon DEF add_new_router
    <3>3. n.order = <<Self>>
      <4>1. Append(EmptyNetwork.order, Self) = <<Self>>
        BY <3>1
      <4>2. DOMAIN EmptyNetwork = {"order", "adj", "subs", "exp", "seq"}
        BY DEF EmptyNetwork
      <4> DEFINE o == Append(EmptyNetwork.order, Self)
      <4> HIDE DEF n, o
      <4>3. n.order = o
        BY <3>2, <4>2 DEF o
      <4> QED BY <4>1, <4>3 DEF o
    <3>4. n.order \in Seq(Routers) /\ Len(n.order) = 1 /\ n.order[1] = Self /\ 1 \in 1 .. 1
      BY <1>0, <3>3
    <3> HIDE DEF n
    <3>5. Self \in Range(n.order)
      BY <3>4, RangeIsContains
    <3> QED BY <3>3, <3>4, <3>5
  <2>3. net = [n EXCEPT !.subs[Self] = OwnSubnets]
    BY DEF Init
  <2> HIDE DEF n
  <2>4. net \in Networks
    BY <1>0, <1>3, <2>1, <2>3, SubsTyped
  <2>5. net.order = n.order
    BY <2>1, <2>3 DEF Networks
  <2>6. Graph(net)
    BY GraphIsAdjacencyKnown
  <2>7. Own(net)
    <3>1. net.subs[Self] = OwnSubnets
      BY <1>0, <2>1, <2>3 DEF Networks
    <3>2. Len(OwnSubnets) = Len(Ifaces)
      BY <1>1 DEF OwnSubnets
    <3>3. \A i \in 1 .. Len(Ifaces) : OwnSubnets[i].prefix = IfPrefix[Ifaces[i]]
      BY DEF OwnSubnets
    <3>4. \A i, j \in 1 .. Len(Ifaces) : IfPrefix[Ifaces[i]] = IfPrefix[Ifaces[j]] => i = j
      BY PwospfAssumption
    <3>5. Local(OwnSubnets)
      BY <1>1, <3>2, <3>3, <3>4 DEF Local
    <3> QED BY <2>2, <2>5, <3>1, <3>5 DEF Own
  <2>8. Linked(net)
    <3>1. net.subs[Self] = OwnSubnets
      BY <1>0, <2>1, <2>3 DEF Networks
    <3>2. Range(net.order) = {Self}
      <4> DEFINE o == <<Self>>
      <4>1. o \in Seq(Routers) /\ Len(o) = 1 /\ o[1] = Self
        BY <1>0
      <4> HIDE DEF o
      <4>2. \A e : e \in Range(o) <=> \E i \in 1 .. Len(o) : o[i] = e
        BY <4>1, RangeIsContains
      <4>3. Range(o) = {Self}
        BY <4>1, <4>2
      <4> QED BY <2>2, <2>5, <4>3 DEF o
    <3>3. Range(net.adj[Self]) = {}
      BY <2>6, <3>2, GraphShape
    <3>4. ASSUME LinksAgree PROVE Tied(net, Self)
      BY <3>1, <3>3, <3>4, OwnJoined DEF Tied
    <3> QED BY <3>2, <3>4 DEF Linked, AllTied
  <2> QED BY <2>2, <2>4, <2>5, <2>6, <2>7, <2>8 DEF Databases
<1>6. ftable \in Seq(Entries)
  <2>1. ASSUME NEW i \in 1 .. Len(Ifaces)
        PROVE  [OwnEntry(OwnSubnets[i], written) EXCEPT !.iface = Ifaces[i]] \in Entries
    <3> DEFINE s == OwnSubnets[i]
    <3>1. s.prefix \in PrefixSet /\ s.mask \in MaskSet
      BY <1>2 DEF Subnets
    <3>2. get_subnet_if(s.prefix) \in IfaceSet \cup {NoIface}
      BY OutIn
    <3> HIDE DEF s
    <3>3. OwnEntry(s, written) \in Entries
      BY <3>1, <3>2, OwnEntryIn
    <3>4. [OwnEntry(s, written) EXCEPT !.iface = Ifaces[i]] \in Entries
      BY <1>1, <3>3 DEF Entries
    <3> QED BY <3>4 DEF s
  <2>2. ftable = [i \in 1 .. Len(Ifaces) |-> [OwnEntry(OwnSubnets[i], written) EXCEPT !.iface = Ifaces[i]]]
    BY DEF Init
  <2>3. ftable \in [1 .. Len(Ifaces) -> Entries]
    BY <2>1, <2>2
  <2> QED BY <1>1, <2>3
<1>7. nbrs \in [IfaceSet -> Seq(Nbrs)]
  <2>1. <<>> \in Seq(Nbrs)
    OBVIOUS
  <2> QED BY <2>1 DEF Init
<1>8. initLeft \in -1 .. InitLife /\ seqSent \in 0 .. SeqSpace - 1 /\ Beating
  BY <1>0 DEF Init, Beating
<1>9. Handling
  BY DEF Init, Handling, Idle
<1>10. written \subseteq OwnPrefixes
  BY DEF Init, OwnPrefixes
<1> QED BY <1>5, <1>6, <1>7, <1>8, <1>9, <1>10 DEF PInv

\* A HELLO keeps the database and the neighbor lists what they are.
LEMMA HandleHelloPInv ==
    ASSUME PInv, NEW f \in IfaceSet, NEW agrees \in BOOLEAN, HandleHello(f, agrees)
    PROVE  PInv'
<1> DEFINE st == [nbrs |-> nbrs, net |-> net, i |-> 1, done |-> FALSE]
           end == HelloWalk(st, f, agrees)
<1>1. st \in Hellos
  BY DEF PInv, Hellos
<1>2. end \in Hellos
  BY <1>1, HelloIn
<1>3. /\ nbrs' = end.nbrs /\ net' = end.net /\ written' = StillWritten(written, net')
      /\ UNCHANGED <<ftable, initLeft, seqSent, beat, main>>
  BY Zenon DEF HandleHello, HelloWalk
<1> HIDE DEF end
<1>4. nbrs' \in [IfaceSet -> Seq(Nbrs)] /\ net' \in Databases({Self})
  BY <1>2, <1>3 DEF Hellos
<1>5. written' \subseteq OwnPrefixes
  BY <1>3 DEF StillWritten, PInv
<1> QED BY <1>3, <1>4, <1>5 DEF PInv, Beating, Handling

\* An LSU comes in.
LEMMA ReadSequencePInv == PInv /\ ReadSequence => PInv'
<1> SUFFICES ASSUME PInv, ReadSequence PROVE PInv'
  OBVIOUS
<1>1. PICK l \in Lsus, s \in 0 .. SeqSpace - 1 :
         main' = [pc |-> "compare", src |-> l.src, ads |-> l.ads, from |-> l.from,
                  ttl |-> l.ttl, seq |-> s, found |-> adj_list_contains(net, l.src)]
  BY DEF ReadSequence
<1>2. l.src \in Remote /\ l.ads \in Seq(AdsOf(l.src))
  BY LsuAds
<1>3. /\ main'.pc = "compare" /\ main'.src = l.src /\ main'.ads = l.ads /\ main'.seq = s
      /\ DOMAIN main' = {"pc", "src", "ads", "from", "ttl", "seq", "found"}
  BY <1>1
<1>4. Handling'
  BY <1>2, <1>3 DEF Handling
<1>5. UNCHANGED <<net, written, ftable, nbrs, initLeft, seqSent, beat>>
  BY DEF ReadSequence
<1> QED BY <1>4, <1>5 DEF PInv, Beating

\* The sequence number is compared.
LEMMA CompareSequencePInv == PInv /\ CompareSequence => PInv'
<1> SUFFICES ASSUME PInv, CompareSequence PROVE PInv'
  OBVIOUS
<1>1. main.pc = "compare" /\ main' \in {Idle, [main EXCEPT !.pc = "add"]}
  BY DEF CompareSequence
<1>2. /\ DOMAIN main = {"pc", "src", "ads", "from", "ttl", "seq", "found"}
      /\ main.src \in Remote /\ main.seq \in 0 .. SeqSpace - 1
      /\ main.ads \in Seq(AdsOf(main.src))
  BY <1>1 DEF PInv, Handling
<1>3. CASE main' = Idle
  <2>1. main'.pc = "idle"
    BY <1>3 DEF Idle
  <2>2. Handling'
    BY <2>1 DEF Handling
  <2> QED BY <2>2 DEF CompareSequence, PInv, Beating
<1>4. CASE main' = [main EXCEPT !.pc = "add"]
  <2>1. /\ DOMAIN main' = DOMAIN main /\ main'.pc = "add" /\ main'.src = main.src
        /\ main'.seq = main.seq /\ main'.ads = main.ads
    BY <1>2, <1>4
  <2>2. Handling'
    BY <1>2, <2>1 DEF Handling
  <2> QED BY <2>2 DEF CompareSequence, PInv, Beating
<1> QED BY <1>1, <1>3, <1>4

\* add_to_top and the table built from it.
LEMMA AddToTopPInv == PInv /\ AddToTop => PInv'
<1> SUFFICES ASSUME PInv, AddToTop PROVE PInv'
  OBVIOUS
<1>1. /\ DOMAIN main = {"pc", "src", "ads", "from", "ttl", "seq", "found"}
      /\ main.src \in Remote /\ main.seq \in 0 .. SeqSpace - 1
      /\ main.ads \in Seq(AdsOf(main.src))
  BY DEF PInv, Handling, AddToTop
<1>2. net \in Databases({Self}) /\ main.src \in Routers /\ InitOver \in BOOLEAN
  <2>1. InitOver \in BOOLEAN
    BY DEF InitOver
  <2> QED BY <1>1, <2>1 DEF PInv, Remote
<1>3. add_to_top(net, main.src, main.ads, InitOver) \in Databases({Self, main.src})
  BY <1>1, <1>2, AddToTopIn
<1>4. net' \in Databases({Self, main.src})
  BY <1>3 DEF AddToTop
<1>5. net' \in Databases({Self}) /\ net' \in Networks
  BY <1>4 DEF Databases
<1>6. Recompute(net', nbrs, written') \in Seq(Entries)
  BY <1>5, RecomputeIn
<1>7. ftable' \in Seq(Entries)
  BY <1>6, Zenon DEF AddToTop
<1>8. Handling'
  <2>1. main' = [main EXCEPT !.pc = "setseq", !.ads = <<>>, !.found = TRUE]
    BY DEF AddToTop
  <2>2. DOMAIN main' = DOMAIN main /\ main'.pc = "setseq" /\ main'.src = main.src
    BY <1>1, <2>1
  <2>3. main'.seq = main.seq /\ main'.ads = <<>>
    BY <1>1, <2>1
  <2>4. <<>> \in Seq(AdsOf(main.src))
    OBVIOUS
  <2> QED BY <1>1, <2>2, <2>3, <2>4 DEF Handling
<1>9. UNCHANGED <<nbrs, initLeft, seqSent, beat>>
  BY DEF AddToTop
<1>10. written' \subseteq OwnPrefixes
  <2>1. written' = StillWritten(written, net')
    BY Zenon DEF AddToTop
  <2> QED BY <2>1 DEF StillWritten, PInv
<1> QED BY <1>5, <1>7, <1>8, <1>9, <1>10 DEF PInv, Beating

\* The number of the LSU is stored.
LEMMA SetSequencePInv == PInv /\ SetSequence => PInv'
<1> SUFFICES ASSUME PInv, SetSequence PROVE PInv'
  OBVIOUS
<1>1. /\ DOMAIN main = {"pc", "src", "ads", "from", "ttl", "seq", "found"}
      /\ main.src \in Remote /\ main.seq \in 0 .. SeqSpace - 1
      /\ main.ads \in Seq(AdsOf(main.src))
  BY DEF PInv, Handling, SetSequence
<1>2. /\ net \in Networks /\ Graph(net) /\ Own(net) /\ Linked(net) /\ Self \in Range(net.order)
      /\ main.src \in Routers
  BY <1>1 DEF PInv, Databases, Remote
<1> DEFINE m == [net EXCEPT !.seq[main.src] = main.seq]
<1>3. net' \in {net, m}
  BY Zenon DEF SetSequence, set_sequence
<1>4. m \in Networks
  BY <1>1, <1>2 DEF Networks
<1>5. /\ DOMAIN m = DOMAIN net /\ m.order = net.order /\ m.adj = net.adj
      /\ m.subs = net.subs
  BY <1>2, GraphShape
<1> HIDE DEF m
<1>6. Graph(m) /\ Own(m) /\ Linked(m)
  BY <1>2, <1>5, SameGraph, SameOwn, LinkedSame
<1>7. net' \in Databases({Self})
  BY <1>2, <1>3, <1>4, <1>5, <1>6 DEF Databases
<1>8. Handling'
  <2>1. main' = [main EXCEPT !.pc = "forward"]
    BY DEF SetSequence
  <2>2. /\ DOMAIN main' = DOMAIN main /\ main'.pc = "forward" /\ main'.src = main.src
        /\ main'.seq = main.seq /\ main'.ads = main.ads
    BY <1>1, <2>1
  <2> QED BY <1>1, <2>2 DEF Handling
<1>9. UNCHANGED <<written, ftable, nbrs, initLeft, seqSent, beat>>
  BY DEF SetSequence
<1> QED BY <1>7, <1>8, <1>9 DEF PInv, Beating

\* check_top_invalid.
LEMMA CheckTopInvalidPInv == PInv /\ CheckTopInvalid => PInv'
<1> SUFFICES ASSUME PInv, CheckTopInvalid PROVE PInv'
  OBVIOUS
<1>1. RemoveTimedOut(net) \in Databases({Self})
  BY RemoveTimedOutIn DEF PInv
<1>2. net' \in Databases({Self}) /\ net' \in Networks
  BY <1>1 DEF CheckTopInvalid, Databases
<1>3. Recompute(net', nbrs, written') \in Seq(Entries)
  BY <1>2, RecomputeIn
<1>4. ftable' \in {ftable, Recompute(net', nbrs, written')}
  BY Zenon DEF CheckTopInvalid
<1>5. beat' = [beat EXCEPT !.at = "lsu"] /\ UNCHANGED <<nbrs, initLeft, seqSent, main>>
  BY DEF CheckTopInvalid
<1>6. Beating'
  BY <1>5 DEF PInv, Beating
<1>7. written' \subseteq OwnPrefixes
  <2>1. written' = StillWritten(written, net')
    BY Zenon DEF CheckTopInvalid
  <2> QED BY <2>1 DEF StillWritten, PInv
<1> QED BY <1>2, <1>3, <1>4, <1>5, <1>6, <1>7 DEF PInv, Handling

\* A tick.
LEMMA TickPInv == PInv /\ Tick => PInv'
<1> SUFFICES ASSUME PInv, Tick PROVE PInv'
  OBVIOUS
<1>1. /\ net \in Networks /\ Graph(net) /\ Own(net) /\ Linked(net) /\ Self \in Range(net.order)
      /\ DOMAIN net = {"order", "adj", "subs", "exp", "seq"}
  BY GraphShape DEF PInv, Databases
<1>2. net' \in Databases({Self})
  <2> DEFINE x == [r \in Routers |-> Later(net.exp[r], 0)]
             m == [net EXCEPT !.exp = x]
  <2>1. x \in [Routers -> 0 .. RouterLife]
    <3>1. net.exp \in [Routers -> 0 .. RouterLife] /\ RouterLife \in Nat
      BY <1>1, TopInfoAssumption DEF Networks
    <3>2. ASSUME NEW v \in 0 .. RouterLife PROVE Later(v, 0) \in 0 .. RouterLife
      BY <3>1 DEF Later
    <3> QED BY <3>1, <3>2
  <2> HIDE DEF x
  <2>2. m \in Networks
    BY <1>1, <2>1 DEF Networks
  <2>3. /\ DOMAIN m = DOMAIN net /\ m.order = net.order /\ m.adj = net.adj
        /\ m.subs = net.subs
    BY <1>1
  <2>4. Graph(m) /\ Own(m) /\ Linked(m)
    BY <1>1, <2>3, SameGraph, SameOwn, LinkedSame
  <2>5. net' = m
    BY Zenon DEF Tick, x
  <2> HIDE DEF m
  <2> QED BY <1>1, <2>2, <2>3, <2>4, <2>5 DEF Databases
<1>3. nbrs' \in [IfaceSet -> Seq(Nbrs)]
  <2> DEFINE Aged(f) == [i \in 1 .. Len(nbrs[f]) |-> [nbrs[f][i] EXCEPT !.life = Later(@, -1)]]
  <2>1. ASSUME NEW x \in Nbrs PROVE [x EXCEPT !.life = Later(@, -1)] \in Nbrs
    <3>1. x.life \in -1 .. NbrLife /\ NbrLife \in Nat
      BY PwospfAssumption DEF Nbrs
    <3>2. Later(x.life, -1) \in -1 .. NbrLife
      BY <3>1 DEF Later
    <3> QED BY <3>2 DEF Nbrs
  <2>2. ASSUME NEW f \in IfaceSet PROVE Aged(f) \in Seq(Nbrs)
    <3> DEFINE s == nbrs[f]
    <3>1. Len(s) \in Nat /\ \A i \in 1 .. Len(s) : s[i] \in Nbrs
      BY DEF PInv
    <3> HIDE DEF s
    <3>2. \A i \in 1 .. Len(s) : [s[i] EXCEPT !.life = Later(@, -1)] \in Nbrs
      BY <2>1, <3>1
    <3>3. [i \in 1 .. Len(s) |-> [s[i] EXCEPT !.life = Later(@, -1)]] \in [1 .. Len(s) -> Nbrs]
      BY <3>2
    <3>4. [i \in 1 .. Len(s) |-> [s[i] EXCEPT !.life = Later(@, -1)]] \in Seq(Nbrs)
      BY <3>1, <3>3
    <3> QED BY <3>4 DEF s
  <2>3. nbrs' = [f \in IfaceSet |-> Aged(f)]
    BY Zenon DEF Tick
  <2> HIDE DEF Aged
  <2> QED BY <2>2, <2>3
<1>4. initLeft' \in -1 .. InitLife
  BY PwospfAssumption DEF Tick, Later, PInv
<1>5. Beating'
  <2>1. /\ beat \in [i : 0 .. LsuTicks, at : {"hello", "sleep", "check", "lsu"}]
        /\ beat.at = "hello" => beat.i < LsuTicks
        /\ LsuTicks \in Nat
    BY PwospfAssumption DEF PInv, Beating
  <2>2. \/ beat' = beat
        \/ beat.at = "sleep" /\ beat.i = LsuTicks /\ beat' = [beat EXCEPT !.at = "check"]
        \/ beat.at = "sleep" /\ beat.i # LsuTicks /\ beat' = [beat EXCEPT !.at = "hello"]
    BY Zenon DEF Tick
  <2>3. CASE beat' = beat
    BY <2>1, <2>3 DEF Beating
  <2>4. CASE beat' = [beat EXCEPT !.at = "check"]
    BY <2>1, <2>4 DEF Beating
  <2>5. CASE beat.i # LsuTicks /\ beat' = [beat EXCEPT !.at = "hello"]
    BY <2>1, <2>5 DEF Beating
  <2> QED BY <2>2, <2>3, <2>4, <2>5
<1>6. UNCHANGED <<written, ftable, seqSent, main>>
  BY DEF Tick
<1> QED BY <1>2, <1>3, <1>4, <1>5, <1>6 DEF PInv, Handling

\* Every step keeps the invariant.
LEMMA NextPInv == PInv /\ [Next]_vars => PInv'
<1> SUFFICES ASSUME PInv, [Next]_vars PROVE PInv'
  OBVIOUS
<1>1. CASE HandlePwospf
  BY <1>1, HandleHelloPInv, ReadSequencePInv DEF HandlePwospf
<1>2. CASE LsuStep
  <2>1. ASSUME ForwardLsu PROVE PInv'
    BY <2>1 DEF ForwardLsu, Idle, PInv, Beating, Handling
  <2> QED BY <1>2, <2>1, CompareSequencePInv, AddToTopPInv, SetSequencePInv DEF LsuStep
<1>3. CASE PwospfThread
  <2>1. ASSUME SendHello PROVE PInv'
    <3>1. Beating'
      BY <2>1, PwospfAssumption DEF SendHello, PInv, Beating
    <3> QED BY <2>1, <3>1 DEF SendHello, PInv, Handling
  <2>2. ASSUME SendLsu PROVE PInv'
    <3>1. Beating'
      BY <2>2, PwospfAssumption DEF SendLsu, PInv, Beating
    <3>2. seqSent' \in 0 .. SeqSpace - 1
      BY <2>2, PwospfAssumption DEF SendLsu, NextSeq, PInv
    <3> QED BY <2>2, <3>1, <3>2 DEF SendLsu, PInv, Handling
  <2> QED BY <1>3, <2>1, <2>2, CheckTopInvalidPInv DEF PwospfThread
<1>4. CASE Tick
  BY <1>4, TickPInv
<1>5. CASE UNCHANGED vars
  BY <1>5 DEF vars, PInv, Beating, Handling
<1> QED BY <1>1, <1>2, <1>3, <1>4, <1>5 DEF Next

\* The invariant holds in every state.
THEOREM PInvAlways == Spec => []PInv
  BY InitPInv, NextPInv, PTL DEF Spec

\* Every adjacency of a known router is a known router other than itself, listed
\* once, whatever HELLOs and LSUs come in, in whatever order, and whoever times
\* out between the critical sections of handle_lsu: no array is left with a
\* pointer to a router that was freed (top_info.c:186-235).
THEOREM AdjacencyKnownAlways == Spec => []AdjacencyKnown
<1>1. PInv => AdjacencyKnown
  BY GraphIsAdjacencyKnown DEF PInv, Databases
<1> QED BY <1>1, PInvAlways, PTL

\* get_subnet_if finds the interface of an interface's subnet.
LEMMA IfaceFound ==
    ASSUME NEW f \in IfaceSet
    PROVE  get_subnet_if(IfPrefix[f]) # NoIface
<1> DEFINE I == {i \in 1 .. Len(Ifaces) : IfPrefix[Ifaces[i]] = IfPrefix[f]}
<1>1. /\ Len(Ifaces) \in Nat /\ NoIface \notin IfaceSet
      /\ \A i \in 1 .. Len(Ifaces) : Ifaces[i] \in IfaceSet
  BY PwospfAssumption
<1>2. PICK i \in 1 .. Len(Ifaces) : Ifaces[i] = f
  <2>1. Ifaces \in Seq(IfaceSet) /\ f \in Range(Ifaces)
    BY PwospfAssumption DEF IfaceSet
  <2> QED BY <2>1, RangeIsContains
<1>3. I \in SUBSET Nat /\ I # {} /\ \A j \in I : j \in 1 .. Len(Ifaces) /\ j # 0
  BY <1>1, <1>2
<1>4. get_subnet_if(IfPrefix[f]) =
        LET k == IF I # {} THEN Min(I) ELSE 0 IN IF k = 0 THEN NoIface ELSE Ifaces[k]
  BY Zenon DEF get_subnet_if, SelectInSeq
<1> HIDE DEF I
<1>5. Min(I) \in I
  BY <1>3, MinExists
<1>6. get_subnet_if(IfPrefix[f]) = Ifaces[Min(I)]
  BY <1>3, <1>4, <1>5
<1> QED BY <1>1, <1>3, <1>5, <1>6

\* The own router stays at the head of the list, and whatever the LSUs and HELLOs
\* of others do to its subnets, they are subnets of its interfaces, each once: the
\* assert(iface) of update_ftable never stops the router (top_info.c:706, 733).
THEOREM OwnSubnetsLocalAlways == Spec => []OwnSubnetsLocal
<1>1. ASSUME PInv PROVE OwnSubnetsLocal
  <2> DEFINE s == net.subs[Self]
  <2>1. net \in Networks /\ Own(net) /\ Self \in Routers
    BY <1>1, TopInfoAssumption DEF PInv, Databases
  <2>2. s \in Seq(Subnets) /\ Local(s) /\ net.order[1] = Self
    BY <2>1 DEF Networks, Own
  <2> HIDE DEF s
  <2>3. ASSUME NEW sub \in Range(s) PROVE get_subnet_if(sub.prefix) # NoIface
    <3>1. PICK i \in 1 .. Len(s) : s[i] = sub
      BY <2>2, RangeIsContains
    <3>2. PICK f \in IfaceSet : sub.prefix = IfPrefix[f]
      BY <2>2, <3>1 DEF Local
    <3> QED BY <3>2, IfaceFound
  <2>4. NoRepeat([i \in 1 .. Len(s) |-> s[i].prefix])
    <3> DEFINE p == [i \in 1 .. Len(s) |-> s[i].prefix]
    <3>1. Len(s) \in Nat
      BY <2>2
    <3>2. Len(p) = Len(s)
      BY <3>1
    <3>3. \A i \in 1 .. Len(s) : p[i] = s[i].prefix
      OBVIOUS
    <3> HIDE DEF p
    <3>4. NoRepeat(p)
      BY <2>2, <3>2, <3>3 DEF NoRepeat, Local
    <3> QED BY <3>4 DEF p
  <2> QED BY <2>2, <2>3, <2>4 DEF OwnSubnetsLocal, s
<1> QED BY <1>1, PInvAlways, PTL

\* Where links agree, a router is adjacent exactly to the routers its subnets name,
\* whichever advertisement, HELLO, silence or timeout touched the link last, and in
\* whatever order they came (top_info.c:391-530, 306-328, 186-215, hello.c:62-110):
\* the graph dijkstra walks is the one the LSUs tell of.
THEOREM AdjacencyMatchesSubnetsAlways == LinksAgree => (Spec => []AdjacencyMatchesSubnets)
<1> SUFFICES ASSUME LinksAgree PROVE Spec => []AdjacencyMatchesSubnets
  OBVIOUS
<1>1. ASSUME PInv, NEW r \in Range(net.order)
      PROVE  /\ Range(net.adj[r]) \subseteq {s.rid : s \in Range(net.subs[r])} \ {NoRid}
             /\ r # Self => {s.rid : s \in Range(net.subs[r])} \ {NoRid} \subseteq Range(net.adj[r])
  <2> DEFINE s == net.subs[r]
  <2>1. Tied(net, r)
    BY <1>1 DEF PInv, Databases, Linked, AllTied
  <2>2. s \in Seq(Subnets)
    <3>1. net \in Networks /\ r \in Routers
      BY <1>1, GraphShape DEF PInv, Databases
    <3> QED BY <3>1 DEF Networks
  <2>3. Range(net.adj[r]) \subseteq Named(s) /\ (r # Self => Named(s) \subseteq Range(net.adj[r]))
    BY <2>1 DEF Tied
  <2> HIDE DEF s
  <2>4. ASSUME NEW e PROVE e \in Range(s) <=> \E i \in 1 .. Len(s) : s[i] = e
    BY <2>2, RangeIsContains
  <2>5. Named(s) = {x.rid : x \in Range(s)} \ {NoRid}
    BY <2>4 DEF Named
  <2> QED BY <2>3, <2>5 DEF s
<1>2. PInv => AdjacencyMatchesSubnets
  BY <1>1 DEF AdjacencyMatchesSubnets, Known
<1> QED BY <1>2, PInvAlways, PTL

\* Where links agree, check_top_invalid removes exactly the routers that timed out,
\* and leaves no adjacency and no subnet that names one of them, however many time
\* out in one pass over the list they are unlinked from (top_info.c:61-109, 186-215).
THEOREM TimeoutLeavesNoTraceAlways == LinksAgree => (Spec => TimeoutLeavesNoTrace)
<1> SUFFICES ASSUME LinksAgree PROVE Spec => TimeoutLeavesNoTrace
  OBVIOUS
<1> DEFINE Checked == beat.at = "check" /\ beat'.at = "lsu"
           Traceless ==
             /\ Range(net'.order) = {r \in Known : ~TimedOut(net, r)}
             /\ \A r \in Known \ Range(net'.order), q \in Range(net'.order) :
                  /\ ~Contains(net'.adj[q], r)
                  /\ \A s \in Range(net'.subs[q]) : s.rid # r
<1>1. ASSUME PInv, CheckTopInvalid PROVE Traceless
  <2>1. net \in Databases({Self}) /\ net' \in Databases({Self}) /\ net' = RemoveTimedOut(net)
    BY <1>1, RemoveTimedOutIn DEF PInv, CheckTopInvalid
  <2>2. PICK L : /\ \A r \in Range(net.order) : r \in L <=> TimedOut(net, r)
                 /\ Without(net, net', L)
    BY <2>1, RemoveTimedOutIn
  <2>3. Range(net'.order) = {r \in Known : ~TimedOut(net, r)}
    BY <2>2 DEF Without, Known
  <2>4. /\ net' \in Networks /\ Graph(net') /\ net'.order \in Seq(Routers)
        /\ Range(net'.order) \subseteq Routers /\ net'.adj \in [Routers -> Seq(Routers)]
    BY <2>1, GraphShape DEF Databases
  <2>5. ASSUME NEW r \in Known \ Range(net'.order), NEW q \in Range(net'.order)
        PROVE  /\ ~Contains(net'.adj[q], r)
               /\ \A s \in Range(net'.subs[q]) : s.rid # r
    <3>1. r \in L /\ r \in Routers /\ r # NoRid
      <4>1. r \in Range(net.order) /\ Range(net.order) \subseteq Routers
        BY <2>1, <2>5, GraphShape DEF Known, Databases
      <4> QED BY <2>2, <2>5, <4>1, TopInfoAssumption DEF Without
    <3>2. net'.adj[q] \in Seq(Routers) /\ net'.subs[q] \in Seq(Subnets)
      BY <2>4 DEF Networks
    <3>3. Range(net'.adj[q]) \subseteq Range(net'.order)
      BY <2>4 DEF Graph
    <3>4. ~Contains(net'.adj[q], r)
      BY <2>5, <3>2, <3>3, RangeIsContains
    <3>5. r \notin Named(net'.subs[q])
      BY <2>2, <3>1 DEF Without
    <3>6. ASSUME NEW s \in Range(net'.subs[q]) PROVE s.rid # r
      <4>1. PICK i \in 1 .. Len(net'.subs[q]) : net'.subs[q][i] = s
        BY <3>2, RangeIsContains
      <4> QED BY <3>1, <3>5, <4>1 DEF Named
    <3> QED BY <3>4, <3>6
  <2> QED BY <2>3, <2>5
<1>2. ASSUME PInv, [Next]_vars, Checked PROVE CheckTopInvalid
  <2>1. beat' # beat
    BY <1>2
  <2>2. CASE HandlePwospf
    BY <2>1, <2>2 DEF HandlePwospf, HandleHello, ReadSequence
  <2>3. CASE LsuStep
    BY <2>1, <2>3 DEF LsuStep, CompareSequence, AddToTop, SetSequence, ForwardLsu
  <2>4. CASE PwospfThread
    BY <1>2, <2>4 DEF PwospfThread, SendHello, SendLsu
  <2>5. CASE Tick
    BY <1>2, <2>1, <2>5 DEF Tick
  <2>6. CASE UNCHANGED vars
    BY <2>1, <2>6 DEF vars
  <2> QED BY <1>2, <2>2, <2>3, <2>4, <2>5, <2>6 DEF Next
<1>3. PInv /\ [Next]_vars => [Checked => Traceless]_vars
  BY <1>1, <1>2
<1> HIDE DEF Checked, Traceless
<1>4. Spec => [][Checked => Traceless]_vars
  BY <1>3, PInvAlways, PTL DEF Spec
<1> QED BY <1>4, PTL DEF TimeoutLeavesNoTrace, Checked, Traceless

\* The state of the subsystem is typed: what its loops leave in the database, in
\* the forwarding table and in the neighbor lists, the times, the sequence
\* numbers, and where the two threads are.
THEOREM TypeCorrect == Spec => []TypeOK
<1>1. ASSUME PInv PROVE TypeOK
  <2>1. /\ net \in Networks
        /\ net.order \in Seq(Routers) /\ Range(net.order) \subseteq Routers
        /\ net.adj \in [Routers -> Seq(Routers)]
    BY <1>1, GraphShape DEF PInv, Databases
  <2>2. ASSUME NEW r \in Routers
        PROVE  /\ Range(net.adj[r]) \subseteq Routers
               /\ \A i \in 1 .. Len(net.subs[r]) : net.subs[r][i].rid \in Routers \cup {NoRid}
               /\ net.exp[r] \in 0 .. RouterLife /\ net.seq[r] \in 0 .. SeqSpace - 1
    <3>1. net.adj[r] \in Seq(Routers)
      BY <2>1
    <3>2. Range(net.adj[r]) \subseteq Routers
      BY <3>1, RangeIsContains
    <3>3. net.exp[r] \in 0 .. RouterLife /\ net.seq[r] \in 0 .. SeqSpace - 1
      BY <2>1 DEF Networks
    <3>4. net.subs[r] \in Seq(Subnets)
      BY <2>1 DEF Networks
    <3>5. ASSUME NEW i \in 1 .. Len(net.subs[r]) PROVE net.subs[r][i].rid \in Routers \cup {NoRid}
      <4>1. net.subs[r][i] \in Subnets
        BY <3>4
      <4> QED BY <4>1 DEF Subnets
    <3> QED BY <3>2, <3>3, <3>5
  <2>3. ASSUME NEW i \in 1 .. Len(ftable) PROVE ftable[i].hops \in Nat
    <3>1. ftable[i] \in Entries
      BY <1>1 DEF PInv
    <3> QED BY <3>1 DEF Entries
  <2>4. ASSUME NEW f \in IfaceSet, NEW i \in 1 .. Len(nbrs[f])
        PROVE  nbrs[f][i] \in [id : Remote, life : -1 .. NbrLife]
    <3>1. nbrs[f] \in Seq(Nbrs)
      BY <1>1 DEF PInv
    <3>2. nbrs[f][i] \in Nbrs
      BY <3>1
    <3> QED BY <3>2 DEF Nbrs
  <2>5. /\ initLeft \in -1 .. InitLife /\ seqSent \in 0 .. SeqSpace - 1
        /\ beat \in [i : 0 .. LsuTicks, at : {"hello", "sleep", "check", "lsu"}]
        /\ main.pc \in {"idle", "compare", "add", "setseq", "forward"}
    BY <1>1 DEF PInv, Beating, Handling
  <2>6. \A r \in Routers :
          /\ Range(net.adj[r]) \subseteq Routers
          /\ \A i \in 1 .. Len(net.subs[r]) : net.subs[r][i].rid \in Routers \cup {NoRid}
          /\ net.exp[r] \in 0 .. RouterLife
          /\ net.seq[r] \in 0 .. SeqSpace - 1
    BY <2>2, Zenon
  <2>7. \A f \in IfaceSet : \A i \in 1 .. Len(nbrs[f]) :
          nbrs[f][i] \in [id : Remote, life : -1 .. NbrLife]
    BY <2>4, Zenon
  <2>8. \A i \in 1 .. Len(ftable) : ftable[i].hops \in Nat
    BY <2>3, Zenon
  <2>9. Range(net.order) \subseteq Routers
    BY <2>1
  <2>10. written \subseteq {IfPrefix[f] : f \in IfaceSet}
    BY <1>1 DEF PInv, OwnPrefixes
  <2> QED BY <2>5, <2>6, <2>7, <2>8, <2>9, <2>10 DEF TypeOK
<1> QED BY <1>1, PInvAlways, PTL
=============================================================================
