-------------------------- MODULE ForwardingProofs --------------------------
(***************************************************************************)
(* Theorems about Forwarding, for any interfaces, next hops, forwarding    *)
(* tables, packets and lengths of the queues.  What makes the invariants   *)
(* inductive is that a frame that waits is the packet it was made from,    *)
(* rewritten for a route of the next hop in whose queue it is, and that    *)
(* the interface of an ARP entry is that of a route or of a neighbor.      *)
(***************************************************************************)
EXTENDS Forwarding, ListFacts, TLAPS, FiniteSetTheorems

(***************************************************************************)
(* The longest prefix match finds an entry of its table, or none.          *)
(***************************************************************************)
\* The walk of BestMatch: the best entry of the positions s.
Walk(table, dst, g, s) ==
    IF s = {} THEN [min |-> 0, best |-> NoRoute]
    ELSE IF Matches(table[Max(s)], dst) /\ g[s \ {Max(s)}].min <= s_addr(table[Max(s)].mask)
         THEN [min |-> s_addr(table[Max(s)].mask), best |-> table[Max(s)]]
         ELSE g[s \ {Max(s)}]

IsWalk(table, dst, g) == g = [s \in SUBSET DOMAIN table |-> Walk(table, dst, g, s)]

\* FoldLeft chooses a function that is its own walk.
LEMMA BestMatchIsChosen ==
    ASSUME NEW table, NEW dst
    PROVE  BestMatch(table, dst) = (CHOOSE g : IsWalk(table, dst, g))[DOMAIN table].best
  BY Zenon DEF BestMatch, FoldLeft, MapThenFoldSet, IsWalk, Walk

\* What the walk may have found: nothing, or an entry of the table with its mask.
MayFind(table) ==
    {[min |-> 0, best |-> NoRoute]}
      \cup {[min |-> s_addr(table[k].mask), best |-> table[k]] : k \in DOMAIN table}

\* There is a walk, and all its values are of this kind.
LEMMA WalkFinds ==
    ASSUME NEW table, table \in Seq(Range(table)), NEW dst
    PROVE  \E g \in [SUBSET DOMAIN table -> MayFind(table)] : IsWalk(table, dst, g)
<1> DEFINE n == Len(table)
           T == MayFind(table)
           base == [min |-> 0, best |-> NoRoute]
           F == [p \in T \X (1 .. n) |->
                    IF Matches(table[p[2]], dst) /\ p[1].min <= s_addr(table[p[2]].mask)
                    THEN [min |-> s_addr(table[p[2]].mask), best |-> table[p[2]]]
                    ELSE p[1]]
<1>1. n \in Nat /\ DOMAIN table = 1 .. n
  OBVIOUS
<1>2. base \in T
  BY DEF MayFind
<1>3. F \in [T \X (1 .. n) -> T]
  <2> SUFFICES ASSUME NEW p \in T \X (1 .. n) PROVE F[p] \in T
    OBVIOUS
  <2>1. p[1] \in T /\ p[2] \in DOMAIN table
    BY <1>1
  <2>2. [min |-> s_addr(table[p[2]].mask), best |-> table[p[2]]] \in T
    BY <2>1 DEF MayFind
  <2> QED BY <2>1, <2>2
<1>4. ASSUME NEW t \in T, NEW k \in 1 .. n
      PROVE  F[<<t, k>>] = IF Matches(table[k], dst) /\ t.min <= s_addr(table[k].mask)
                           THEN [min |-> s_addr(table[k].mask), best |-> table[k]] ELSE t
  OBVIOUS
<1> HIDE DEF n, T, base, F
<1>5. WalkExists(F, base, T, n)
  BY <1>1, <1>2, <1>3, WalkHasValue
<1>6. PICK g \in [SUBSET (1 .. n) -> T] :
          \A s \in SUBSET (1 .. n) :
              g[s] = IF s = {} THEN base ELSE F[<<g[s \ {Max(s)}], Max(s)>>]
  BY <1>5 DEF WalkExists
<1>7. ASSUME NEW s \in SUBSET (1 .. n) PROVE g[s] = Walk(table, dst, g, s)
  <2>1. CASE s = {}
    BY <2>1, <1>6 DEF Walk, base
  <2>2. CASE s # {}
    <3>1. s \in SUBSET (0 .. n)
      OBVIOUS
    <3>2. Max(s) \in s
      BY <3>1, <2>2, <1>1, MaxExists
    <3>3. Max(s) \in 1 .. n /\ g[s \ {Max(s)}] \in T
      BY <3>2
    <3>4. g[s] = F[<<g[s \ {Max(s)}], Max(s)>>]
      BY <2>2, <1>6
    <3> QED BY <3>3, <3>4, <1>4, <2>2 DEF Walk
  <2> QED BY <2>1, <2>2
<1>8. g = [s \in SUBSET (1 .. n) |-> Walk(table, dst, g, s)]
  BY <1>7
<1>9. g \in [SUBSET DOMAIN table -> MayFind(table)]
  BY <1>1 DEF T
<1> QED BY <1>1, <1>8, <1>9 DEF IsWalk

(***************************************************************************)
(* s_addr: the sum of the weights of the bits.                             *)
(***************************************************************************)
IsPower(f, k) ==
    /\ f \in [0 .. k -> Nat \ {0}]
    /\ \A j \in 0 .. k : f[j] = IF j = 0 THEN 1 ELSE 2 * f[j - 1]

\* The powers of two exist up to any bound.
LEMMA PowersExist == ASSUME NEW n \in Nat PROVE \E f : IsPower(f, n)
<1> DEFINE G == {k \in 0 .. n : \E f : IsPower(f, k)}
<1>1. 0 \in G
  <2>1. IsPower([j \in 0 .. 0 |-> 1], 0)
    BY DEF IsPower
  <2> QED BY <2>1
<1>2. \A k \in 0 .. n - 1 : k \in G => k + 1 \in G
  <2> SUFFICES ASSUME NEW k \in 0 .. n - 1, NEW f, IsPower(f, k) PROVE k + 1 \in G
    OBVIOUS
  <2> DEFINE h == [j \in 0 .. k + 1 |-> IF j = k + 1 THEN 2 * f[k] ELSE f[j]]
  <2>1. f[k] \in Nat \ {0} /\ \A j \in 0 .. k : h[j] = f[j]
    BY DEF IsPower
  <2>2. ASSUME NEW j \in 0 .. k + 1
        PROVE  h[j] \in Nat \ {0} /\ h[j] = IF j = 0 THEN 1 ELSE 2 * h[j - 1]
    <3>1. CASE j = k + 1
      <4>1. h[j] = 2 * f[k] /\ h[j - 1] = f[k]
        BY <3>1, <2>1
      <4> HIDE DEF h
      <4> QED BY <4>1, <2>1, <3>1
    <3>2. CASE j \in 0 .. k
      <4>1. h[j] = f[j] /\ f[j] \in Nat \ {0}
        BY <3>2, <2>1 DEF IsPower
      <4>2. f[j] = IF j = 0 THEN 1 ELSE 2 * f[j - 1]
        BY <3>2 DEF IsPower
      <4>3. j # 0 => h[j - 1] = f[j - 1]
        BY <3>2, <2>1
      <4> HIDE DEF h
      <4> QED BY <4>1, <4>2, <4>3
    <3> QED BY <3>1, <3>2
  <2>3. h \in [0 .. k + 1 -> Nat \ {0}]
    <3>1. \A j \in 0 .. k + 1 : h[j] \in Nat \ {0}
      BY <2>2
    <3> QED BY <3>1
  <2> HIDE DEF h
  <2>4. IsPower(h, k + 1)
    BY <2>2, <2>3 DEF IsPower
  <2> QED BY <2>4
<1> HIDE DEF G
<1>3. n \in G
  BY <1>1, <1>2, UpTo
<1> QED BY <1>3 DEF G

\* Every power of two is positive.
LEMMA Power2IsPositive == \A k \in 0 .. Width + Octet : Power2[k] \in Nat \ {0}
<1> DEFINE N == Width + Octet
<1>0. N \in Nat
  BY ForwardingAssumption
<1>1. PICK f : IsPower(f, N)
  BY <1>0, PowersExist
<1>2. f = [k \in 0 .. N |-> IF k = 0 THEN 1 ELSE 2 * f[k - 1]]
  BY <1>1 DEF IsPower
<1>3. Power2 = [k \in 0 .. N |-> IF k = 0 THEN 1 ELSE 2 * Power2[k - 1]]
  BY <1>2, Zenon DEF Power2
<1> SUFFICES ASSUME NEW k \in 0 .. N PROVE Power2[k] \in Nat \ {0}
  OBVIOUS
<1> HIDE DEF N
<1> DEFINE G == {j \in 0 .. k : Power2[j] \in Nat \ {0}}
<1>4. 0 \in G
  BY <1>0, <1>3
<1>5. \A j \in 0 .. k - 1 : j \in G => j + 1 \in G
  <2> SUFFICES ASSUME NEW j \in 0 .. k - 1, j \in G PROVE j + 1 \in G
    OBVIOUS
  <2>1. j + 1 \in 0 .. N /\ j + 1 # 0 /\ (j + 1) - 1 = j
    BY <1>0
  <2>2. Power2[j + 1] = 2 * Power2[j]
    BY <2>1, <1>3
  <2> QED BY <2>1, <2>2
<1> HIDE DEF G
<1>6. k \in G
  BY <1>0, <1>4, <1>5, UpTo
<1> QED BY <1>6 DEF G

\* The weight of bit b of an address.
Place(b) == Octet * (b \div Octet) + (Octet - 1 - (b % Octet))
Weights == [b \in 0 .. Width - 1 |-> Power2[Place(b)]]

\* Every bit has a positive weight.
LEMMA WeightsArePositive == Weights \in [0 .. Width - 1 -> Nat \ {0}]
<1> SUFFICES ASSUME NEW b \in 0 .. Width - 1 PROVE Power2[Place(b)] \in Nat \ {0}
  BY DEF Weights
<1>1. Octet \in Nat \ {0} /\ Width \in Nat /\ b \in Nat
  BY ForwardingAssumption
<1>2. b % Octet \in 0 .. Octet - 1
  BY <1>1
<1>3. b \div Octet \in Nat
  BY <1>1
<1>4. Octet * (b \div Octet) \in Nat
  BY <1>1, <1>3
<1>5. Octet * (b \div Octet) =< b
  BY <1>1, <1>2, <1>3, <1>4
<1>6. Place(b) \in 0 .. Width + Octet
  BY <1>1, <1>2, <1>4, <1>5 DEF Place
<1> QED BY <1>6, Power2IsPositive

\* One equation of the sum: the element that CHOOSE takes, and the others.
OneBit(h, s) ==
    IF s = {} THEN 0
    ELSE Power2[Place(CHOOSE x \in s : TRUE)] + h[s \ {CHOOSE x \in s : TRUE}]

IsBitSum(bits, h) == h = [s \in SUBSET bits |-> OneBit(h, s)]

\* MapThenSumSet chooses a function that is its own sum.
LEMMA SAddrIsChosen ==
    ASSUME NEW bits
    PROVE  s_addr(bits) = (CHOOSE h : IsBitSum(bits, h))[bits]
  BY Zenon DEF s_addr, MapThenSumSet, MapThenFoldSet, IsBitSum, OneBit, Place

\* s_addr is the sum of the weights, whatever the order.
LEMMA SAddrIsSum ==
    ASSUME NEW g, IsSum(Weights, Width, g), NEW bits \in SUBSET (0 .. Width - 1)
    PROVE  s_addr(bits) = g[bits] /\ g[bits] \in Nat
<1>0. Width \in Nat
  BY ForwardingAssumption
<1> DEFINE w == [s \in SUBSET bits |-> g[s]]
<1>1. ASSUME NEW s \in SUBSET bits PROVE w[s] = OneBit(w, s)
  <2>1. CASE s = {}
    BY <2>1 DEF OneBit, IsSum
  <2>2. CASE s # {}
    <3> DEFINE x == CHOOSE y \in s : TRUE
    <3>1. x \in s
      BY <2>2
    <3> HIDE DEF x
    <3>2. x \in 0 .. Width - 1 /\ s \in SUBSET (0 .. Width - 1) /\ s \ {x} \in SUBSET bits
      BY <3>1
    <3>3. g[s] = Weights[x] + g[s \ {x}]
      BY <3>1, <3>2 DEF IsSum
    <3>4. Weights[x] = Power2[Place(x)]
      BY <3>2 DEF Weights
    <3>5. w[s] = Power2[Place(x)] + w[s \ {x}]
      BY <3>2, <3>3, <3>4
    <3> QED BY <2>2, <3>5 DEF OneBit, x
  <2> QED BY <2>1, <2>2
<1>2. IsBitSum(bits, w)
  <2>1. w = [s \in SUBSET bits |-> OneBit(w, s)]
    <3>1. w = [s \in SUBSET bits |-> w[s]]
      OBVIOUS
    <3> HIDE DEF w
    <3> QED BY <1>1, <3>1
  <2> QED BY <2>1 DEF IsBitSum
<1> HIDE DEF w
<1> DEFINE h == CHOOSE h1 : IsBitSum(bits, h1)
<1>3. IsBitSum(bits, h)
  BY <1>2, Zenon
<1>4. s_addr(bits) = h[bits]
  BY SAddrIsChosen
<1> HIDE DEF h
<1>5. \A s \in SUBSET bits : h[s] = OneBit(h, s)
  BY <1>3 DEF IsBitSum
<1>6. h[{}] = 0
  BY <1>5 DEF OneBit
<1>7. \A s \in SUBSET bits : s # {} => \E x \in s : h[s] = Weights[x] + h[s \ {x}]
  <2> SUFFICES ASSUME NEW s \in SUBSET bits, s # {}
               PROVE  \E x \in s : h[s] = Weights[x] + h[s \ {x}]
    OBVIOUS
  <2> DEFINE x == CHOOSE y \in s : TRUE
  <2>1. x \in s
    OBVIOUS
  <2>2. h[s] = Power2[Place(x)] + h[s \ {x}]
    BY <1>5 DEF OneBit
  <2> HIDE DEF x
  <2>3. Weights[x] = Power2[Place(x)]
    BY <2>1 DEF Weights
  <2> QED BY <2>1, <2>2, <2>3
<1>8. h[bits] = g[bits]
  <2>1. SomeOrder(Weights, bits, h)
    BY <1>6, <1>7 DEF SomeOrder
  <2> QED BY <1>0, <2>1, WeightsArePositive, SumIsUnique
<1>9. g[bits] \in Nat
  BY DEF IsSum
<1> QED BY <1>4, <1>8, <1>9

\* The value of a mask of n bits, and that a longer mask has a greater one: what the
\* comparison of masks as integers rests on (sr_router.c:601-610).
LEMMA LongerMaskIsGreater ==
    /\ \A n \in 0 .. Width : s_addr(0 .. n - 1) \in Nat
    /\ \A n \in 0 .. Width : \A m \in 0 .. n :
           m < n => s_addr(0 .. m - 1) < s_addr(0 .. n - 1)
<1>0. Width \in Nat
  BY ForwardingAssumption
<1>1. PICK g : IsSum(Weights, Width, g)
  BY <1>0, WeightsArePositive, SumExists
<1>2. ASSUME NEW n \in 0 .. Width
      PROVE  s_addr(0 .. n - 1) = g[0 .. n - 1] /\ g[0 .. n - 1] \in Nat
  <2>1. 0 .. n - 1 \in SUBSET (0 .. Width - 1)
    BY <1>0
  <2> QED BY <2>1, <1>1, SAddrIsSum
<1>3. ASSUME NEW n \in 0 .. Width, NEW m \in 0 .. n, m < n
      PROVE  s_addr(0 .. m - 1) < s_addr(0 .. n - 1)
  <2>1. g[0 .. m - 1] < g[0 .. n - 1]
    BY <1>0, <1>1, <1>3, WeightsArePositive, SumGrows
  <2>2. m \in 0 .. Width
    BY <1>0
  <2> QED BY <2>1, <2>2, <1>2
<1> QED BY <1>2, <1>3

(***************************************************************************)
(* The longest prefix match is one.                                        *)
(***************************************************************************)
\* A table of entries with contiguous masks.
IsTable(table) ==
    /\ table \in Seq(Range(table))
    /\ \A k \in DOMAIN table : \E n \in 0 .. Width : table[k].mask = 0 .. n - 1

\* The best of the entries up to position k, with the value of its mask: none that
\* matches, or one that matches and no other of those has a greater mask.
BestUpTo(table, dst, st, k) ==
    \/ st.min = 0 /\ st.best = NoRoute /\ \A i \in 1 .. k : ~Matches(table[i], dst)
    \/ \E j \in 1 .. k :
           /\ Matches(table[j], dst) /\ st.best = table[j] /\ st.min = s_addr(table[j].mask)
           /\ \A i \in 1 .. k :
                  Matches(table[i], dst) => s_addr(table[i].mask) <= s_addr(table[j].mask)

\* What the walk finds at the end of the table.
LEMMA WalkFindsBest ==
    ASSUME NEW table, IsTable(table), NEW dst, NEW g, IsWalk(table, dst, g)
    PROVE  BestUpTo(table, dst, g[DOMAIN table], Len(table))
<1> DEFINE n == Len(table)
           G == {k \in 0 .. n : BestUpTo(table, dst, g[1 .. k], k)}
<1>1. n \in Nat /\ DOMAIN table = 1 .. n
  BY DEF IsTable
<1>2. \A k \in 1 .. n : s_addr(table[k].mask) \in Nat
  BY <1>1, LongerMaskIsGreater DEF IsTable
<1>3. \A s \in SUBSET (1 .. n) : g[s] = Walk(table, dst, g, s)
  BY <1>1 DEF IsWalk
<1> HIDE DEF n
<1>4. 0 \in G
  <2>1. 1 .. 0 = {} /\ {} \in SUBSET (1 .. n)
    OBVIOUS
  <2>2. g[1 .. 0] = [min |-> 0, best |-> NoRoute]
    BY <1>3, <2>1 DEF Walk
  <2>3. BestUpTo(table, dst, g[1 .. 0], 0)
    BY <2>1, <2>2 DEF BestUpTo
  <2> QED BY <1>1, <2>3
<1>5. \A k \in 0 .. n - 1 : k \in G => k + 1 \in G
  <2> SUFFICES ASSUME NEW k \in 0 .. n - 1, BestUpTo(table, dst, g[1 .. k], k)
               PROVE  BestUpTo(table, dst, g[1 .. k + 1], k + 1)
    BY <1>1
  <2> DEFINE st == g[1 .. k]
             e == table[k + 1]
  <2>1. /\ k + 1 \in 1 .. n /\ k + 1 \in Nat /\ k + 1 > 0 /\ (k + 1) - 1 = k
        /\ 1 .. k + 1 \in SUBSET (1 .. n)
        /\ \A i \in 1 .. k + 1 : i \in 1 .. k \/ i = k + 1
        /\ \A i \in 1 .. k : i \in 1 .. k + 1
    BY <1>1
  <2>2. /\ Max(1 .. k + 1) = k + 1 /\ (1 .. k + 1) \ {k + 1} = 1 .. k
        /\ 1 .. k + 1 # {}
    BY <2>1, FirstPositions
  <2>3. g[1 .. k + 1] = IF Matches(e, dst) /\ st.min <= s_addr(e.mask)
                        THEN [min |-> s_addr(e.mask), best |-> e] ELSE st
    BY <1>3, <2>1, <2>2, Zenon DEF Walk
  <2>4. s_addr(e.mask) \in Nat
    BY <1>2, <2>1
  <2> HIDE DEF st
  <2>5. st.min \in Nat
    <3>1. \A j \in 1 .. k : s_addr(table[j].mask) \in Nat
      BY <1>2, <2>1
    <3> QED BY <3>1 DEF BestUpTo, st
  <2>6. CASE Matches(e, dst) /\ st.min <= s_addr(e.mask)
    <3>1. g[1 .. k + 1].best = e /\ g[1 .. k + 1].min = s_addr(e.mask)
      BY <2>3, <2>6
    <3>2. ASSUME NEW i \in 1 .. k, Matches(table[i], dst)
          PROVE  s_addr(table[i].mask) <= s_addr(e.mask)
      <4>1. s_addr(table[i].mask) <= st.min /\ s_addr(table[i].mask) \in Nat
        BY <3>2, <1>2, <2>1 DEF BestUpTo, st
      <4> HIDE DEF e
      <4> QED BY <4>1, <2>4, <2>5, <2>6
    <3>3. s_addr(e.mask) <= s_addr(e.mask)
      BY <2>4
    <3>4. \A i \in 1 .. k + 1 :
              Matches(table[i], dst) => s_addr(table[i].mask) <= s_addr(e.mask)
      BY <2>1, <3>2, <3>3
    <3>5. k + 1 \in 1 .. k + 1
      BY <2>1
    <3> QED BY <2>6, <3>1, <3>4, <3>5 DEF BestUpTo
  <2>7. CASE ~Matches(e, dst)
    <3>1. g[1 .. k + 1] = st
      BY <2>3, <2>7
    <3> QED BY <2>1, <2>7, <3>1 DEF BestUpTo, st
  <2>8. CASE Matches(e, dst) /\ ~(st.min <= s_addr(e.mask))
    <3>1. g[1 .. k + 1] = st
      BY <2>3, <2>8
    <3>2. st.min # 0 /\ s_addr(e.mask) <= st.min
      BY <2>4, <2>5, <2>8
    <3>3. PICK j \in 1 .. k :
              /\ Matches(table[j], dst) /\ st.best = table[j]
              /\ st.min = s_addr(table[j].mask)
              /\ \A i \in 1 .. k :
                     Matches(table[i], dst) => s_addr(table[i].mask) <= s_addr(table[j].mask)
      BY <3>2 DEF BestUpTo, st
    <3>4. \A i \in 1 .. k + 1 :
              Matches(table[i], dst) => s_addr(table[i].mask) <= s_addr(table[j].mask)
      BY <2>1, <3>2, <3>3
    <3> QED BY <2>1, <3>1, <3>3, <3>4 DEF BestUpTo
  <2> QED BY <2>6, <2>7, <2>8
<1> HIDE DEF G
<1>6. n \in G
  BY <1>1, <1>4, <1>5, UpTo
<1> QED BY <1>1, <1>6 DEF G, n

\* The tables of the router are tables.
LEMMA TablesAreTables ==
    ASSUME NEW table \in Tables \cup {Static}
    PROVE  IsTable(table) /\ \A e \in Range(table) : e # NoRoute
<1>1. table \in Seq(Range(table))
  BY ForwardingAssumption
<1>2. \A e \in Range(table) : \E n \in 0 .. Width : e.mask = 0 .. n - 1
  BY ForwardingAssumption
<1>3. \A k \in DOMAIN table : table[k] \in Range(table)
  BY DEF Range
<1>4. \A e \in Range(table) : e.hop \in Hops \cup {Unset}
  <2>1. \A e \in Range(table) : <<e.hop, e.if>> \in (Hops \X Ifaces) \cup {<<Unset, NoIf>>}
    BY ForwardingAssumption
  <2> QED BY <2>1
<1>5. NoRoute.hop \notin Hops \cup {Unset}
  BY ForwardingAssumption
<1> QED BY <1>1, <1>2, <1>3, <1>4, <1>5 DEF IsTable

\* BestMatch is the best of the whole table.
LEMMA BestMatchIsBest ==
    ASSUME NEW table, IsTable(table), NEW dst
    PROVE  \E st : BestMatch(table, dst) = st.best /\ BestUpTo(table, dst, st, Len(table))
<1> DEFINE h == CHOOSE g : IsWalk(table, dst, g)
<1>1. IsWalk(table, dst, h)
  BY WalkFinds, Zenon DEF IsTable
<1>2. BestMatch(table, dst) = h[DOMAIN table].best
  BY BestMatchIsChosen
<1> HIDE DEF h
<1>3. BestUpTo(table, dst, h[DOMAIN table], Len(table))
  BY <1>1, WalkFindsBest
<1> QED BY <1>2, <1>3

\* BestMatch finds a match with a longest mask, and nothing only when nothing
\* matches.
LEMMA BestMatchIsLongest ==
    ASSUME NEW table \in Tables \cup {Static}, NEW dst
    PROVE  IF Longest(table, dst) = {} THEN BestMatch(table, dst) = NoRoute
           ELSE BestMatch(table, dst) \in Longest(table, dst)
<1> DEFINE n == Len(table)
           b == BestMatch(table, dst)
<1>0. Width \in Nat
  BY ForwardingAssumption
<1>1. IsTable(table) /\ n \in Nat /\ DOMAIN table = 1 .. n
  BY TablesAreTables DEF IsTable
<1>2. \A e : e \in Range(table) <=> \E k \in 1 .. n : e = table[k]
  BY <1>1 DEF Range
<1>3. PICK st : b = st.best /\ BestUpTo(table, dst, st, n)
  BY <1>1, BestMatchIsBest
<1> HIDE DEF n, b
<1>4. CASE b = NoRoute /\ \A i \in 1 .. n : ~Matches(table[i], dst)
  <2>1. Longest(table, dst) = {}
    BY <1>2, <1>4 DEF Longest
  <2> QED BY <2>1, <1>4 DEF b
<1>5. ASSUME NEW j \in 1 .. n, Matches(table[j], dst), b = table[j],
             \A i \in 1 .. n :
                 Matches(table[i], dst) => s_addr(table[i].mask) <= s_addr(table[j].mask)
      PROVE  b \in Longest(table, dst)
  <2>1. PICK k \in 0 .. Width : b.mask = 0 .. k - 1
    BY <1>1, <1>5 DEF IsTable
  <2>2. ASSUME NEW f \in Range(table), Matches(f, dst)
        PROVE  Cardinality(f.mask) <= Cardinality(b.mask)
    <3>1. PICK i \in 1 .. n : f = table[i]
      BY <1>2
    <3>2. PICK m \in 0 .. Width : f.mask = 0 .. m - 1
      BY <1>1, <3>1 DEF IsTable
    <3>3. s_addr(0 .. m - 1) <= s_addr(0 .. k - 1)
      BY <1>5, <2>1, <2>2, <3>1, <3>2
    <3>4. ~(k < m)
      <4> SUFFICES ASSUME k < m PROVE FALSE
        OBVIOUS
      <4>1. k \in 0 .. m /\ m \in 0 .. Width
        BY <1>0
      <4>2. s_addr(0 .. k - 1) < s_addr(0 .. m - 1)
        BY <4>1, LongerMaskIsGreater
      <4>3. s_addr(0 .. k - 1) \in Nat /\ s_addr(0 .. m - 1) \in Nat
        BY LongerMaskIsGreater
      <4> QED BY <3>3, <4>2, <4>3
    <3>5. Cardinality(0 .. m - 1) = m /\ Cardinality(0 .. k - 1) = k
      <4>1. Cardinality(0 .. m - 1) = IF 0 > m - 1 THEN 0 ELSE (m - 1) - 0 + 1
        BY <1>0, FS_Interval
      <4>2. Cardinality(0 .. k - 1) = IF 0 > k - 1 THEN 0 ELSE (k - 1) - 0 + 1
        BY <1>0, FS_Interval
      <4> QED BY <4>1, <4>2
    <3> QED BY <1>0, <2>1, <3>2, <3>4, <3>5
  <2>3. b \in Range(table)
    BY <1>2, <1>5
  <2> QED BY <1>5, <2>2, <2>3 DEF Longest
<1>6. CASE b # NoRoute \/ ~\A i \in 1 .. n : ~Matches(table[i], dst)
  <2>1. b \in Longest(table, dst)
    BY <1>3, <1>5, <1>6 DEF BestUpTo
  <2> QED BY <2>1 DEF b
<1> QED BY <1>4, <1>6

\* Whoever is longest is a route.
LEMMA LongestIsRoute ==
    ASSUME NEW table \in Tables \cup {Static}, NEW dst, NEW e \in Longest(table, dst)
    PROVE  e \in Range(table) /\ e # NoRoute
<1>1. e \in Range(table)
  BY DEF Longest
<1> QED BY <1>1, TablesAreTables

\* The route of a packet.
LEMMA RouteToIs ==
    ASSUME ftable \in Tables, NEW dst
    PROVE  IF Longest(ftable, dst) # {} THEN RouteTo(dst) \in Longest(ftable, dst)
           ELSE IF Longest(Static, dst) # {} THEN RouteTo(dst) \in Longest(Static, dst)
           ELSE RouteTo(dst) = NoRoute
<1>1. CASE Longest(ftable, dst) # {}
  <2>1. BestMatch(ftable, dst) \in Longest(ftable, dst)
    BY <1>1, BestMatchIsLongest
  <2>2. BestMatch(ftable, dst) # NoRoute
    BY <2>1, LongestIsRoute
  <2> QED BY <1>1, <2>1, <2>2 DEF RouteTo, get_dyn_routing_if
<1>2. CASE Longest(ftable, dst) = {}
  <2>1. BestMatch(ftable, dst) = NoRoute
    BY <1>2, BestMatchIsLongest
  <2>2. IF Longest(Static, dst) = {} THEN BestMatch(Static, dst) = NoRoute
        ELSE BestMatch(Static, dst) \in Longest(Static, dst)
    BY BestMatchIsLongest
  <2> QED BY <1>2, <2>1, <2>2 DEF RouteTo, get_dyn_routing_if, get_static_routing_if
<1> QED BY <1>1, <1>2

(***************************************************************************)
(* The invariant: a frame that waits for a next hop is the packet it was   *)
(* made from, rewritten for a route with that next hop; there is an ARP    *)
(* entry for it, and its interface is one that a route or a neighbor with  *)
(* that next hop has.                                                      *)
(***************************************************************************)
\* Route e is the longest match of packet p in a table the router had.
RouteOf(p, e) ==
    /\ e.hop \in Hops /\ e.if \in Ifaces
    /\ \E t \in Tables \cup {Static} : e \in Longest(t, p.dst)

IsFrame(q, h) ==
    /\ q.old \in Packets /\ q.old.ttl >= 1
    /\ \E e : RouteOf(q.old, e) /\ e.hop = h /\ q.frame = Outgoing(q.old, e)

Waiting == \A h \in Hops : \A q \in Range(queue[h]) : IsFrame(q, h)

Queued ==
    /\ queue = [h \in Hops |-> queue[h]]
    /\ \A h \in Hops : queue[h] \in Seq(Range(queue[h])) /\ Len(queue[h]) <= MaxQueue

\* The interface of an ARP entry.
Named(h, i) == i \in Ifaces /\ <<h, i>> \in Ways

Entries ==
    /\ iface_name = [h \in Hops |-> iface_name[h]]
    /\ \A h \in Hops : iface_name[h] = NoIf \/ Named(h, iface_name[h])
    /\ \A h \in Hops : queue[h] # <<>> => iface_name[h] # NoIf

FInv ==
    /\ ftable \in Tables
    /\ cache \subseteq Hops
    /\ Queued
    /\ Waiting
    /\ Entries
    /\ \/ chosen = NoChoice
       \/ chosen.p \in Packets /\ chosen.via.hop \in Hops
    /\ dead \in BOOLEAN
    /\ WellFormedLeaves
    /\ FramesGoWhereTheyShould

\* A packet that came in has a TTL to take from, and an interface.
LEMMA PacketsAre ==
    ASSUME NEW p \in Packets
    PROVE  p.in \in Ifaces /\ "ttl" \in DOMAIN p /\ "dst" \in DOMAIN p /\ p.ttl \in Nat
  BY ForwardingAssumption

\* Different interfaces have different addresses.
LEMMA MacsDiffer ==
    ASSUME NEW i \in Ifaces, NEW j \in Ifaces, Mac[i] = Mac[j]
    PROVE  i = j
  BY ForwardingAssumption

\* What a frame rewritten for route e holds.
LEMMA OutgoingIs ==
    ASSUME NEW p \in Packets, p.ttl >= 1, NEW e
    PROVE  LET f == Outgoing(p, e)
           IN  /\ f.kind = "forward" /\ f.p.ttl >= 0 /\ f.p.dst = p.dst
               /\ f.dmac = HopMac[e.hop] /\ f.if = e.if /\ f.smac = Mac[e.if]
               /\ DOMAIN f = {"kind", "p", "if", "smac", "dmac"}
<1>2. "ttl" \in DOMAIN p /\ "dst" \in DOMAIN p /\ p.ttl \in Nat
  BY PacketsAre
<1>3. [p EXCEPT !.ttl = @ - 1].ttl = p.ttl - 1 /\ [p EXCEPT !.ttl = @ - 1].dst = p.dst
  BY <1>2
<1>4. p.ttl - 1 >= 0
  BY <1>2
<1> QED BY <1>3, <1>4 DEF Outgoing, Frame

\* What every frame on the wire must be, and every frame refused.
Right(f) ==
    /\ f.kind = "forward" =>
         /\ f.p.ttl >= 0
         /\ \E t \in Tables \cup {Static} : \E e \in Longest(t, f.p.dst) :
                f.if = e.if /\ f.dmac = HopMac[e.hop]
    /\ f.kind \in {"echo reply", "port unreachable", "bare", "time exceeded",
                  "host unreachable"} =>
         f.if = f.p.in /\ f.dmac = f.p.smac
    /\ f.kind = "arp reply" => f.p.tip = Ip[f.if] /\ f.dmac = f.p.smac

Excused(f) ==
    \/ f.kind = "forward" /\ \E h \in Hops : f.dmac = HopMac[h] /\ Disputed(h)
    \/ f.kind = "time exceeded" /\ f.if # f.p.in
    \/ f.kind = "junk"

Fits(f) == (Accepted(f) => Right(f)) /\ (Accepted(f) \/ Excused(f))

\* A step that sends such frames keeps the two properties of frames.
LEMMA SendKeeps ==
    ASSUME NEW frames, sr_send_packet(frames), \A f \in frames : Fits(f)
    PROVE  WellFormedLeaves' /\ FramesGoWhereTheyShould'
<1>1. \A f \in refused' : Excused(f)
  BY DEF sr_send_packet, Fits
<1>2. \A f \in out' : Right(f)
  BY DEF sr_send_packet, Fits
<1>3. WellFormedLeaves'
  BY <1>1 DEF WellFormedLeaves, Excused
<1> QED BY <1>2, <1>3 DEF FramesGoWhereTheyShould, Right

\* A frame that leaves through the interface of its route is right.
LEMMA OutgoingFits ==
    ASSUME NEW p \in Packets, p.ttl >= 1, NEW e, RouteOf(p, e)
    PROVE  Fits(Outgoing(p, e))
<1> DEFINE f == Outgoing(p, e)
<1>1. /\ f.kind = "forward" /\ f.p.ttl >= 0 /\ f.p.dst = p.dst
      /\ f.dmac = HopMac[e.hop] /\ f.if = e.if /\ f.smac = Mac[e.if]
  BY OutgoingIs
<1> HIDE DEF f
<1>2. Right(f)
  BY <1>1 DEF Right, RouteOf
<1>3. Accepted(f)
  BY <1>1 DEF Accepted, RouteOf
<1> QED BY <1>2, <1>3 DEF Fits, f

\* The next hop and the interface of a route.
LEMMA RouteIsWay ==
    ASSUME NEW p, NEW e, RouteOf(p, e)
    PROVE  Named(e.hop, e.if)
<1>1. PICK t \in Tables \cup {Static} : e \in Range(t)
  BY DEF RouteOf, Longest
<1>2. e \in UNION {Range(u) : u \in Tables \cup {Static}}
  BY <1>1
<1> QED BY <1>2 DEF Named, Ways, RouteOf

\* A frame that waited is right, unless the ARP entry has another interface than its
\* route: then it is refused, and the interface is disputed.
LEMMA LeavingFits ==
    ASSUME NEW p \in Packets, p.ttl >= 1, NEW e, RouteOf(p, e),
           NEW i, Named(e.hop, i)
    PROVE  Fits(Leaving(Outgoing(p, e), i))
<1> DEFINE o == Outgoing(p, e)
           f == Leaving(o, i)
<1>1. /\ o.kind = "forward" /\ o.p.ttl >= 0 /\ o.p.dst = p.dst
      /\ o.dmac = HopMac[e.hop] /\ o.if = e.if /\ o.smac = Mac[e.if]
      /\ DOMAIN o = {"kind", "p", "if", "smac", "dmac"}
  BY OutgoingIs
<1> HIDE DEF o
<1>2. f.kind = o.kind /\ f.p = o.p /\ f.dmac = o.dmac /\ f.smac = o.smac /\ f.if = i
  BY <1>1 DEF Leaving
<1> HIDE DEF f
<1>3. e.if \in Ifaces /\ i \in Ifaces /\ e.hop \in Hops
  BY DEF RouteOf, Named
<1>4. CASE i = e.if
  <2>1. Right(f)
    BY <1>1, <1>2, <1>4 DEF Right, RouteOf
  <2>2. Accepted(f)
    BY <1>1, <1>2, <1>3, <1>4 DEF Accepted
  <2> QED BY <2>1, <2>2 DEF Fits, f, o
<1>5. CASE i # e.if
  <2>1. ~Accepted(f)
    BY <1>1, <1>2, <1>3, <1>5, MacsDiffer DEF Accepted
  <2>2. Disputed(e.hop)
    BY <1>3, <1>5, RouteIsWay DEF Disputed, Named
  <2>3. Excused(f)
    BY <1>1, <1>2, <1>3, <2>2 DEF Excused
  <2> QED BY <2>1, <2>3 DEF Fits, f, o
<1> QED BY <1>4, <1>5

\* What is used to forward a packet is a route of its destination.
LEMMA RouteToIsRoute ==
    ASSUME ftable \in Tables, NEW p \in Packets, RouteTo(p.dst) # NoRoute,
           RouteTo(p.dst).if # NoIf
    PROVE  RouteOf(p, RouteTo(p.dst))
<1> DEFINE e == RouteTo(p.dst)
<1>1. e \in Longest(ftable, p.dst) \/ e \in Longest(Static, p.dst)
  BY RouteToIs
<1> HIDE DEF e
<1>2. PICK t \in Tables \cup {Static} : e \in Longest(t, p.dst)
  BY <1>1
<1>3. e \in Range(t)
  BY <1>2 DEF Longest
<1>4. <<e.hop, e.if>> \in (Hops \X Ifaces) \cup {<<Unset, NoIf>>}
  BY <1>3, ForwardingAssumption
<1>5. e.hop \in Hops /\ e.if \in Ifaces
  <2>1. e.if # NoIf
    BY DEF e
  <2> QED BY <1>4, <2>1
<1>6. RouteOf(p, e)
  BY <1>2, <1>5 DEF RouteOf
<1> QED BY <1>6 DEF e

\* A step that leaves the queues alone keeps what is said of them.
LEMMA QueueSame ==
    ASSUME Queued, Waiting, Entries, UNCHANGED <<queue, iface_name>>
    PROVE  Queued' /\ Waiting' /\ Entries'
  BY DEF Queued, Waiting, Entries

\* A queue made empty.
LEMMA QueueEmptied ==
    ASSUME Queued, Waiting, Entries, NEW h \in Hops, MaxQueue \in Nat,
           queue' = [queue EXCEPT ![h] = <<>>], UNCHANGED iface_name
    PROVE  Queued' /\ Waiting' /\ Entries'
<1>1. \A k \in Hops : queue'[k] = IF k = h THEN <<>> ELSE queue[k]
  BY DEF Queued
<1>2. Range(<<>>) = {}
  BY DEF Range
<1>3. queue' = [k \in Hops |-> queue'[k]]
  BY DEF Queued
<1>4. \A k \in Hops : queue'[k] \in Seq(Range(queue'[k])) /\ Len(queue'[k]) <= MaxQueue
  <2>1. <<>> \in Seq(Range(<<>>)) /\ Len(<<>>) <= MaxQueue
    OBVIOUS
  <2> QED BY <1>1, <2>1 DEF Queued
<1>5. Waiting'
  BY <1>1, <1>2 DEF Waiting
<1>6. Entries'
  BY <1>1 DEF Entries
<1> QED BY <1>3, <1>4, <1>5, <1>6 DEF Queued

\* The interface of an entry is the first one it was given.
LEMMA EntryNamed ==
    ASSUME Entries, NEW h \in Hops, NEW i, Named(h, i), create_entry(h, i)
    PROVE  /\ iface_name' = [k \in Hops |-> iface_name'[k]]
           /\ \A k \in Hops : iface_name'[k] = NoIf \/ Named(k, iface_name'[k])
           /\ iface_name'[h] # NoIf
           /\ \A k \in Hops \ {h} : iface_name'[k] = iface_name[k]
<1> DEFINE e == IF iface_name[h] = NoIf THEN i ELSE iface_name[h]
<1>1. iface_name = [k \in Hops |-> iface_name[k]]
  BY DEF Entries
<1>2. iface_name' = [iface_name EXCEPT ![h] = e]
  BY DEF create_entry
<1>3. Named(h, e) /\ e # NoIf
  BY ForwardingAssumption DEF Entries, Named
<1> HIDE DEF e
<1>4. \A k \in Hops : iface_name'[k] = IF k = h THEN e ELSE iface_name[k]
  BY <1>1, <1>2
<1>5. iface_name' = [k \in Hops |-> iface_name'[k]]
  BY <1>1, <1>2
<1> QED BY <1>3, <1>4, <1>5 DEF Entries

\* A packet that starts to wait.
LEMMA QueueGrows ==
    ASSUME Queued, Waiting, Entries, MaxQueue \in Nat,
           NEW p \in Packets, p.ttl >= 1, NEW e, RouteOf(p, e), Wait(p, e)
    PROVE  Queued' /\ Waiting' /\ Entries'
<1> DEFINE h == e.hop
           q == [frame |-> Outgoing(p, e), old |-> p]
           s == Append(queue[h], q)
<1>0. /\ h \in Hops /\ Len(queue[h]) < MaxQueue /\ queue' = [queue EXCEPT ![h] = s]
      /\ create_entry(h, e.if)
  BY DEF Wait, RouteOf
<1>1. \A k \in Hops : queue'[k] = IF k = h THEN s ELSE queue[k]
  BY <1>0 DEF Queued
<1>2. queue[h] \in Seq(Range(queue[h])) /\ Len(queue[h]) \in Nat
  BY <1>0 DEF Queued
<1>3. IsFrame(q, h)
  BY DEF IsFrame
<1> HIDE DEF q
<1>4. /\ Len(s) = Len(queue[h]) + 1 /\ s \in Seq(Range(queue[h]) \cup {q})
      /\ \A i \in 1 .. Len(s) : s[i] = IF i = Len(s) THEN q ELSE queue[h][i]
  BY <1>2
<1>5. Range(s) \subseteq Range(queue[h]) \cup {q}
  BY <1>2, <1>4 DEF Range
<1>6. s \in Seq(Range(s))
  <2>1. \A i \in 1 .. Len(s) : s[i] \in Range(s)
    BY <1>4 DEF Range
  <2> HIDE DEF s
  <2> QED BY <1>4, <2>1
<1>7. Len(s) <= MaxQueue
  BY <1>0, <1>2, <1>4
<1> HIDE DEF s, h
<1>8. queue' = [k \in Hops |-> queue'[k]]
  BY <1>0 DEF Queued
<1>9. \A k \in Hops : queue'[k] \in Seq(Range(queue'[k])) /\ Len(queue'[k]) <= MaxQueue
  BY <1>1, <1>6, <1>7 DEF Queued
<1>10. Waiting'
  <2> SUFFICES ASSUME NEW k \in Hops, NEW x \in Range(queue'[k]) PROVE IsFrame(x, k)
    BY DEF Waiting, IsFrame
  <2> QED BY <1>0, <1>1, <1>3, <1>5 DEF Waiting
<1>11. Entries'
  <2>1. Named(h, e.if)
    BY RouteIsWay DEF h
  <2>2. /\ iface_name' = [k \in Hops |-> iface_name'[k]]
        /\ \A k \in Hops : iface_name'[k] = NoIf \/ Named(k, iface_name'[k])
        /\ iface_name'[h] # NoIf
        /\ \A k \in Hops \ {h} : iface_name'[k] = iface_name[k]
    BY <1>0, <2>1, EntryNamed
  <2>3. \A k \in Hops : queue'[k] # <<>> => iface_name'[k] # NoIf
    BY <1>1, <2>2 DEF Entries
  <2> QED BY <2>2, <2>3 DEF Entries, Named
<1> QED BY <1>8, <1>9, <1>10, <1>11 DEF Queued

(***************************************************************************)
(* The steps.                                                              *)
(***************************************************************************)
\* A step that touches neither the tables nor the queues, and sends such frames.
LEMMA PlainStepKeeps ==
    ASSUME FInv, NEW frames, sr_send_packet(frames), \A f \in frames : Fits(f),
           chosen' = NoChoice, cache' \subseteq Hops, dead' \in BOOLEAN, ftable' \in Tables,
           UNCHANGED <<queue, iface_name>>
    PROVE  FInv'
<1>1. WellFormedLeaves' /\ FramesGoWhereTheyShould'
  BY SendKeeps
<1>2. Queued' /\ Waiting' /\ Entries'
  BY QueueSame DEF FInv
<1> QED BY <1>1, <1>2 DEF FInv

\* No frames.
LEMMA NothingFits == \A f \in {} : Fits(f)
  OBVIOUS

\* The answers to a packet for the router.
LEMMA AnswerKeeps == ASSUME FInv, NEW p \in Packets, Answer(p) PROVE FInv'
<1>0. chosen' = NoChoice /\ UNCHANGED <<ftable, cache, queue, iface_name, dead>>
  BY DEF Answer
<1>1. cache' \subseteq Hops /\ dead' \in BOOLEAN /\ ftable' \in Tables
  BY <1>0 DEF FInv
<1>2. CASE sr_send_packet({})
  BY <1>0, <1>1, <1>2, NothingFits, PlainStepKeeps
<1>3. ASSUME NEW kind \in Reply(p), sr_send_packet({Back(kind, p, p.in)}) PROVE FInv'
  <2> DEFINE f == Back(kind, p, p.in)
  <2>1. /\ f.kind = kind /\ f.p = p /\ f.if = p.in /\ f.smac = Mac[p.in]
        /\ f.dmac = p.smac
    BY DEF Back, Frame
  <2>2. p.in \in Ifaces
    BY PacketsAre
  <2>3. kind \in {"echo reply", "port unreachable", "bare"}
    BY DEF Reply
  <2> HIDE DEF f
  <2>4. Fits(f)
    BY <2>1, <2>2, <2>3 DEF Fits, Right, Accepted
  <2>5. \A x \in {f} : Fits(x)
    BY <2>4
  <2>6. sr_send_packet({f})
    BY <1>3 DEF f
  <2> QED BY <1>0, <1>1, <2>5, <2>6, PlainStepKeeps
<1> QED BY <1>2, <1>3 DEF Answer

\* A packet whose TTL has run out.
LEMMA ExpiredKeeps == ASSUME FInv, NEW p \in Packets, Expired(p) PROVE FInv'
<1>0. chosen' = NoChoice /\ UNCHANGED <<ftable, cache, queue, iface_name, dead>>
  BY DEF Expired
<1>1. cache' \subseteq Hops /\ dead' \in BOOLEAN /\ ftable' \in Tables
  BY <1>0 DEF FInv
<1> DEFINE f == Back("time exceeded", p, RouteTo(p.dst).if)
<1>2. f.kind = "time exceeded" /\ f.p = p /\ f.smac = Mac[p.in] /\ f.dmac = p.smac
  BY DEF Back, Frame
<1>3. sr_send_packet({f})
  BY DEF Expired
<1> HIDE DEF f
<1>6. p.in \in Ifaces
  BY PacketsAre
<1>7. Accepted(f) => f.if = p.in
  BY <1>2, <1>6, MacsDiffer DEF Accepted
<1>8. f.if = p.in => Accepted(f)
  BY <1>2, <1>6 DEF Accepted
<1>4. Fits(f)
  BY <1>2, <1>7, <1>8 DEF Fits, Right, Excused
<1>5. \A x \in {f} : Fits(x)
  BY <1>4
<1> QED BY <1>0, <1>1, <1>3, <1>5, PlainStepKeeps

\* A packet that is forwarded, or waits.
LEMMA ForwardKeeps == ASSUME FInv, NEW p \in Packets, Forward(p) PROVE FInv'
<1> DEFINE route == RouteTo(p.dst)
<1>0. /\ route # NoRoute /\ p.ttl >= 1 /\ route.if # NoIf
      /\ \/ sr_send_packet({Outgoing(p, route)}) /\ UNCHANGED <<queue, iface_name>>
         \/ Wait(p, route) /\ sr_send_packet({})
      /\ chosen' = [p |-> p, via |-> route]
      /\ UNCHANGED <<ftable, cache, dead>>
  BY DEF Forward
<1>1. RouteOf(p, route)
  BY <1>0, RouteToIsRoute DEF FInv
<1> HIDE DEF route
<1>2. chosen'.p \in Packets /\ chosen'.via.hop \in Hops
  BY <1>0, <1>1 DEF RouteOf
<1>3. CASE sr_send_packet({Outgoing(p, route)}) /\ UNCHANGED <<queue, iface_name>>
  <2>1. \A x \in {Outgoing(p, route)} : Fits(x)
    BY <1>0, <1>1, OutgoingFits
  <2>2. WellFormedLeaves' /\ FramesGoWhereTheyShould'
    BY <1>3, <2>1, SendKeeps
  <2>3. Queued' /\ Waiting' /\ Entries'
    BY <1>3, QueueSame DEF FInv
  <2> QED BY <1>0, <1>2, <2>2, <2>3 DEF FInv
<1>4. CASE Wait(p, route) /\ sr_send_packet({})
  <2>1. WellFormedLeaves' /\ FramesGoWhereTheyShould'
    BY <1>4, NothingFits, SendKeeps
  <2>2. MaxQueue \in Nat
    BY ForwardingAssumption
  <2>3. Queued' /\ Waiting' /\ Entries'
    BY <1>0, <1>1, <1>4, <2>2, QueueGrows DEF FInv
  <2> QED BY <1>0, <1>2, <2>1, <2>3 DEF FInv
<1> QED BY <1>0, <1>3, <1>4

\* An LSU that waits, and may be the first for its neighbor.
LEMMA LsuWaitsKeeps == ASSUME FInv, NEW n \in Neighbors, LsuWaits(n[1], n[2]) PROVE FInv'
<1> DEFINE h == n[1]
           i == n[2]
<1>1. h \in Hops /\ i \in Ifaces /\ n = <<h, i>>
  BY ForwardingAssumption
<1>2. Named(h, i)
  BY <1>1 DEF Named, Ways
<1> HIDE DEF h, i
<1>3. /\ create_entry(h, i) /\ sr_send_packet({}) /\ chosen' = NoChoice
      /\ UNCHANGED <<ftable, cache, queue, dead>>
  BY DEF LsuWaits, h, i
<1>4. WellFormedLeaves' /\ FramesGoWhereTheyShould'
  BY <1>3, NothingFits, SendKeeps
<1>5. /\ iface_name' = [k \in Hops |-> iface_name'[k]]
      /\ \A k \in Hops : iface_name'[k] = NoIf \/ Named(k, iface_name'[k])
      /\ iface_name'[h] # NoIf
      /\ \A k \in Hops \ {h} : iface_name'[k] = iface_name[k]
  BY <1>1, <1>2, <1>3, EntryNamed DEF FInv
<1>6. Entries'
  <2>1. \A k \in Hops : queue'[k] # <<>> => iface_name'[k] # NoIf
    BY <1>3, <1>5 DEF FInv, Entries
  <2> QED BY <1>5, <2>1 DEF Entries, Named
<1>7. Queued' /\ Waiting'
  BY <1>3 DEF FInv, Queued, Waiting
<1> QED BY <1>3, <1>4, <1>6, <1>7 DEF FInv

\* The steps of an IP packet.
LEMMA HandleIpKeeps == ASSUME FInv, NEW p \in Packets, HandleIp(p) PROVE FInv'
<1>1. CASE Answer(p)
  BY <1>1, AnswerKeeps
<1>2. CASE Drop(p)
  <2>1. sr_send_packet({}) /\ chosen' = NoChoice /\ UNCHANGED <<ftable, cache, queue, iface_name, dead>>
    BY <1>2 DEF Drop
  <2>2. cache' \subseteq Hops /\ dead' \in BOOLEAN /\ ftable' \in Tables
    BY <2>1 DEF FInv
  <2> QED BY <2>1, <2>2, NothingFits, PlainStepKeeps
<1>3. CASE Expired(p)
  BY <1>3, ExpiredKeeps
<1>4. CASE Forward(p)
  BY <1>4, ForwardKeeps
<1>5. CASE NoInterface(p)
  <2>1. /\ sr_send_packet({}) /\ chosen' = NoChoice /\ dead' = TRUE
        /\ UNCHANGED <<ftable, cache, queue, iface_name>>
    BY <1>5 DEF NoInterface
  <2>2. cache' \subseteq Hops /\ dead' \in BOOLEAN /\ ftable' \in Tables
    BY <2>1 DEF FInv
  <2> QED BY <2>1, <2>2, NothingFits, PlainStepKeeps
<1> QED BY <1>1, <1>2, <1>3, <1>4, <1>5 DEF HandleIp

\* An ARP request is answered by the interface that has the address, or not.
LEMMA ArpRequestKeeps == ASSUME FInv, NEW r \in Requests, ArpRequest(r) PROVE FInv'
<1>0. chosen' = NoChoice /\ UNCHANGED <<ftable, cache, queue, iface_name, dead>>
  BY DEF ArpRequest
<1>1. cache' \subseteq Hops /\ dead' \in BOOLEAN /\ ftable' \in Tables
  BY <1>0 DEF FInv
<1> DEFINE f == Frame("arp reply", r, r.in, Mac[r.in], r.smac)
           frames == IF sr_arp_req_not_for_us(r) THEN {} ELSE {f}
<1>2. sr_send_packet(frames)
  BY DEF ArpRequest
<1>3. f.kind = "arp reply" /\ f.p = r /\ f.if = r.in /\ f.smac = Mac[r.in] /\ f.dmac = r.smac
  BY DEF Frame
<1>4. r.in \in Ifaces
  BY ForwardingAssumption
<1> HIDE DEF f
<1>5. r.tip = Ip[r.in] => Fits(f)
  BY <1>3, <1>4 DEF Fits, Right, Accepted
<1>6. \A x \in frames : Fits(x)
  BY <1>5 DEF sr_arp_req_not_for_us
<1> HIDE DEF frames
<1> QED BY <1>0, <1>1, <1>2, <1>6, PlainStepKeeps

\* The frame of an ARP packet that is neither request nor reply.
LEMMA ArpOtherKeeps == ASSUME FInv, NEW i \in Ifaces, ArpOther(i) PROVE FInv'
<1>0. chosen' = NoChoice /\ UNCHANGED <<ftable, cache, queue, iface_name, dead>>
  BY DEF ArpOther
<1>1. cache' \subseteq Hops /\ dead' \in BOOLEAN /\ ftable' \in Tables
  BY <1>0 DEF FInv
<1>2. PICK m : sr_send_packet({Frame("junk", NoChoice, i, m, Junk)})
  BY DEF ArpOther
<1> DEFINE f == Frame("junk", NoChoice, i, m, Junk)
<1>3. f.kind = "junk"
  BY DEF Frame
<1> HIDE DEF f
<1>4. \A x \in {f} : Fits(x)
  BY <1>3 DEF Fits, Right, Excused
<1>5. sr_send_packet({f})
  BY <1>2 DEF f
<1> QED BY <1>0, <1>1, <1>4, <1>5, PlainStepKeeps

\* The frames that waited go out.
LEMMA send_all_packsKeeps == ASSUME FInv, NEW h \in Hops, send_all_packs(h) PROVE FInv'
<1>0. /\ sr_send_packet({Leaving(q.frame, iface_name[h]) : q \in Range(queue[h])})
      /\ queue[h] # <<>> /\ queue' = [queue EXCEPT ![h] = <<>>]
      /\ chosen' = NoChoice /\ UNCHANGED <<ftable, cache, iface_name, dead>>
  BY DEF send_all_packs
<1>1. \A f \in {Leaving(q.frame, iface_name[h]) : q \in Range(queue[h])} : Fits(f)
  <2> SUFFICES ASSUME NEW q \in Range(queue[h]) PROVE Fits(Leaving(q.frame, iface_name[h]))
    OBVIOUS
  <2>1. IsFrame(q, h)
    BY DEF FInv, Waiting
  <2>2. PICK e : RouteOf(q.old, e) /\ e.hop = h /\ q.frame = Outgoing(q.old, e)
    BY <2>1 DEF IsFrame
  <2>3. Named(e.hop, iface_name[h])
    BY <1>0, <2>2 DEF FInv, Entries
  <2> QED BY <2>1, <2>2, <2>3, LeavingFits DEF IsFrame
<1>2. WellFormedLeaves' /\ FramesGoWhereTheyShould'
  BY <1>0, <1>1, SendKeeps
<1>3. MaxQueue \in Nat
  BY ForwardingAssumption
<1>4. Queued' /\ Waiting' /\ Entries'
  BY <1>0, <1>3, QueueEmptied DEF FInv
<1> QED BY <1>0, <1>2, <1>4 DEF FInv

\* Nobody answered: the senders of the frames that waited are told, as far as
\* get_if_from_mac finds their interface.
LEMMA send_all_icmpsKeeps == ASSUME FInv, NEW h \in Hops, send_all_icmps(h) PROVE FInv'
<1> DEFINE sent == {k \in DOMAIN queue[h] : \A j \in 1 .. k : Found(queue[h][j])}
           frames == {send_icmp(queue[h][k]) : k \in sent}
<1>0. /\ sr_send_packet(frames)
      /\ dead' = (sent # DOMAIN queue[h])
      /\ queue' = [queue EXCEPT ![h] = <<>>]
      /\ chosen' = NoChoice /\ UNCHANGED <<ftable, cache, iface_name>>
  BY DEF send_all_icmps
<1>1. ASSUME NEW k \in sent PROVE Fits(send_icmp(queue[h][k]))
  <2> DEFINE q == queue[h][k]
             i == get_if_from_mac(Mac[q.old.in])
             f == send_icmp(q)
  <2>1. q \in Range(queue[h])
    BY DEF Range
  <2>2. k \in 1 .. k
    <3>1. queue[h] \in Seq(Range(queue[h]))
      BY DEF FInv, Queued
    <3>2. k \in DOMAIN queue[h]
      OBVIOUS
    <3> QED BY <3>1, <3>2
  <2>3. Found(q)
    BY <2>2
  <2>4. q.old \in Packets
    BY <2>1 DEF FInv, Waiting, IsFrame
  <2>5. q.old.in \in Ifaces
    BY <2>4, PacketsAre
  <2> HIDE DEF q
  <2>6. i = IfList[1] /\ Mac[IfList[1]] = Mac[q.old.in]
    BY <2>3 DEF Found, get_if_from_mac
  <2>7. IfList[1] \in Ifaces
    <3>1. IfList \in Seq(Range(IfList)) /\ Range(IfList) # {}
      BY <2>5, ForwardingAssumption DEF Ifaces
    <3>2. 1 \in DOMAIN IfList
      BY <3>1 DEF Range
    <3> QED BY <3>2 DEF Ifaces, Range
  <2>8. i = q.old.in
    BY <2>5, <2>6, <2>7, ForwardingAssumption
  <2>9. /\ f.kind = "host unreachable" /\ f.p = q.old /\ f.if = i /\ f.smac = Mac[i]
        /\ f.dmac = q.old.smac
    BY DEF send_icmp, Frame
  <2> HIDE DEF f, i
  <2>10. Fits(f)
    BY <2>5, <2>8, <2>9 DEF Fits, Right, Accepted
  <2> QED BY <2>10 DEF f, q
<1> HIDE DEF sent
<1>2. \A f \in frames : Fits(f)
  BY <1>1
<1> HIDE DEF frames
<1>3. WellFormedLeaves' /\ FramesGoWhereTheyShould'
  BY <1>0, <1>2, SendKeeps
<1>4. MaxQueue \in Nat
  BY ForwardingAssumption
<1>5. Queued' /\ Waiting' /\ Entries'
  BY <1>0, <1>4, QueueEmptied DEF FInv
<1>6. dead' \in BOOLEAN
  BY <1>0
<1> QED BY <1>0, <1>3, <1>5, <1>6 DEF FInv

\* FInv is inductive.
LEMMA FInductive == ASSUME FInv, [Next]_vars PROVE FInv'
<1>1. ASSUME NEW p \in Packets, HandleIp(p) PROVE FInv'
  BY <1>1, HandleIpKeeps
<1>2. ASSUME NEW r \in Requests, ArpRequest(r) PROVE FInv'
  BY <1>2, ArpRequestKeeps
<1>3. ASSUME NEW i \in Ifaces, ArpOther(i) PROVE FInv'
  BY <1>3, ArpOtherKeeps
<1>4. ASSUME NEW h \in Hops, ArpReply(h) \/ CacheExpires(h) PROVE FInv'
  <2>1. /\ sr_send_packet({}) /\ chosen' = NoChoice /\ UNCHANGED <<ftable, queue, iface_name, dead>>
        /\ cache' = cache \cup {h} \/ cache' = cache \ {h}
    BY <1>4 DEF ArpReply, CacheExpires
  <2>2. cache' \subseteq Hops /\ dead' \in BOOLEAN /\ ftable' \in Tables
    BY <2>1 DEF FInv
  <2> QED BY <2>1, <2>2, NothingFits, PlainStepKeeps
<1>5. ASSUME NEW h \in Hops, send_all_packs(h) PROVE FInv'
  BY <1>5, send_all_packsKeeps
<1>6. ASSUME NEW h \in Hops, send_all_icmps(h) PROVE FInv'
  BY <1>6, send_all_icmpsKeeps
<1>7. CASE Recompute
  <2>1. /\ sr_send_packet({}) /\ chosen' = NoChoice /\ UNCHANGED <<cache, queue, iface_name, dead>>
        /\ ftable' \in Tables
    BY <1>7 DEF Recompute
  <2>2. cache' \subseteq Hops /\ dead' \in BOOLEAN
    BY <2>1 DEF FInv
  <2> QED BY <2>1, <2>2, NothingFits, PlainStepKeeps
<1>8. CASE UNCHANGED vars
  <2>1. UNCHANGED <<ftable, cache, queue, iface_name, out, refused, chosen, dead>>
    BY <1>8 DEF vars
  <2>2. Queued' /\ Waiting' /\ Entries'
    BY <2>1, QueueSame DEF FInv
  <2>3. WellFormedLeaves' /\ FramesGoWhereTheyShould'
    BY <2>1 DEF FInv, WellFormedLeaves, FramesGoWhereTheyShould
  <2> QED BY <2>1, <2>2, <2>3 DEF FInv
<1>9. ASSUME NEW n \in Neighbors, LsuWaits(n[1], n[2]) PROVE FInv'
  BY <1>9, LsuWaitsKeeps
<1> QED BY <1>1, <1>2, <1>3, <1>4, <1>5, <1>6, <1>7, <1>8, <1>9 DEF Next

\* Nothing waits at the start.
LEMMA FInitially == Init => FInv
<1> SUFFICES ASSUME Init PROVE FInv
  OBVIOUS
<1>1. /\ ftable \in Tables /\ cache = {} /\ queue = [h \in Hops |-> <<>>] /\ out = {}
      /\ iface_name = [h \in Hops |-> NoIf] /\ refused = {} /\ chosen = NoChoice /\ dead = FALSE
  BY DEF Init
<1>2. MaxQueue \in Nat
  BY ForwardingAssumption
<1>3. Range(<<>>) = {} /\ <<>> \in Seq(Range(<<>>)) /\ Len(<<>>) <= MaxQueue
  BY <1>2 DEF Range
<1>4. Queued /\ Waiting /\ Entries
  BY <1>1, <1>3 DEF Queued, Waiting, Entries
<1>5. WellFormedLeaves /\ FramesGoWhereTheyShould
  BY <1>1 DEF WellFormedLeaves, FramesGoWhereTheyShould
<1> QED BY <1>1, <1>4, <1>5 DEF FInv

\* The invariant says more than the properties of the module.
LEMMA FInvImplies == FInv => TypeOK /\ WellFormedLeaves /\ FramesGoWhereTheyShould
<1> SUFFICES ASSUME FInv PROVE TypeOK
  BY DEF FInv
<1>1. ASSUME NEW h \in Hops, NEW q \in Range(queue[h])
      PROVE  q.old \in Packets /\ q.frame.p.ttl >= 0
  <2>1. IsFrame(q, h)
    BY DEF FInv, Waiting
  <2>2. PICK e : q.frame = Outgoing(q.old, e)
    BY <2>1 DEF IsFrame
  <2> QED BY <2>1, <2>2, OutgoingIs DEF IsFrame
<1>2. DOMAIN queue = Hops /\ \A h \in Hops : Len(queue[h]) <= MaxQueue
  BY DEF FInv, Queued
<1>3. DOMAIN iface_name = Hops /\ \A h \in Hops : iface_name[h] \in Ifaces \cup {NoIf}
  BY DEF FInv, Entries, Named
<1> QED BY <1>1, <1>2, <1>3 DEF FInv, TypeOK

\* A frame that waits is a packet that came in whose TTL did not wrap, no queue is
\* over its bound, and a route that is used has a next hop (sr_router.c:233-266).
THEOREM TypeCorrect == Spec => []TypeOK
<1>1. FInv /\ [Next]_vars => FInv'
  BY FInductive
<1> QED BY <1>1, FInitially, FInvImplies, PTL DEF Spec

\* sr_send_packet refuses a forwarded frame only if the interface of its next hop is
\* disputed between routes and neighbors, whatever the table did while it waited;
\* and of the answers only a time exceeded, whose route leaves by another interface
\* than it came (sr_router.c:149-160, arpq.c:149, arpq.c:195).
THEOREM WellFormedLeavesAlways == Spec => []WellFormedLeaves
<1>1. FInv /\ [Next]_vars => FInv'
  BY FInductive
<1> QED BY <1>1, FInitially, FInvImplies, PTL DEF Spec

\* A forwarded frame on the wire goes through the interface and to the next hop of one
\* route, a longest match of its destination, and an answer to where its cause came
\* from (sr_router.c:149-160, buffer.c:102-207, sr_vns_comm.c:642-665).
THEOREM FramesGoWhereTheyShouldAlways == Spec => []FramesGoWhereTheyShould
<1>1. FInv /\ [Next]_vars => FInv'
  BY FInductive
<1> QED BY <1>1, FInitially, FInvImplies, PTL DEF Spec

\* One step takes a longest match, and a static route only if the table has none.
LEMMA StepTakesLongestMatch ==
    ASSUME FInv, [Next]_vars,
           NEW p \in Packets, ~UNCHANGED vars, chosen' # NoChoice, chosen'.p = p
    PROVE  chosen'.via \in IF Longest(ftable, p.dst) # {} THEN Longest(ftable, p.dst)
                            ELSE Longest(Static, p.dst)
<1>1. PICK p1 \in Packets : Forward(p1)
  BY DEF Next, HandleIp, Answer, Drop, Expired, NoInterface, ArpRequest, ArpOther,
         ArpReply, CacheExpires, send_all_packs, send_all_icmps, Recompute, LsuWaits
<1>2. chosen' = [p |-> p1, via |-> RouteTo(p1.dst)] /\ RouteTo(p1.dst) # NoRoute
  BY <1>1 DEF Forward
<1>3. p1 = p /\ chosen'.via = RouteTo(p.dst)
  BY <1>2
<1>4. IF Longest(ftable, p.dst) # {} THEN RouteTo(p.dst) \in Longest(ftable, p.dst)
      ELSE IF Longest(Static, p.dst) # {} THEN RouteTo(p.dst) \in Longest(Static, p.dst)
      ELSE RouteTo(p.dst) = NoRoute
  BY RouteToIs DEF FInv
<1> QED BY <1>2, <1>3, <1>4

\* A packet takes a route with the longest prefix of the forwarding table, wherever
\* in the list it is, and a static one only if the table has none: the comparison of
\* masks as little endian integers orders contiguous masks by their length
\* (sr_router.c:594-611).
THEOREM RouteIsLongestMatchAlways == Spec => RouteIsLongestMatch
<1>1. FInv /\ [Next]_vars => FInv'
  BY FInductive
<1> DEFINE Step == \A p \in Packets :
             chosen' # NoChoice /\ chosen'.p = p =>
                 chosen'.via \in IF Longest(ftable, p.dst) # {} THEN Longest(ftable, p.dst)
                                 ELSE Longest(Static, p.dst)
<1>2. FInv /\ [Next]_vars => [Step]_vars
  BY StepTakesLongestMatch
<1> HIDE DEF Step
<1>3. Spec => [][Step]_vars
  BY <1>1, <1>2, FInitially, PTL DEF Spec
<1> QED BY <1>3 DEF RouteIsLongestMatch, Step
=============================================================================
