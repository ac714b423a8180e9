--------------------------- MODULE FirewallProofs ---------------------------
(***************************************************************************)
(* What the flow table promises, for every set of packets and rules, every *)
(* routing and every size of the table (FirewallAssumption).  One          *)
(* invariant, WellKept, is carried through the functions of fw.c: each of  *)
(* them takes a table that is kept well and leaves one.                    *)
(***************************************************************************)
EXTENDS Firewall, ListFacts, TLAPS, SequenceTheorems

\* The life that u updates can have given an entry, and the most of it: every
\* update adds TTL_INCREMENT (check_connection, tell_valid).
Allowance(u) == (u + 1) * TtlIncrement
LongestLife == (MaxUpdates + 2) * TtlIncrement

\* One more update allows one more TTL_INCREMENT, up to MAX_TTL_UPDATES + 1 updates.
LEMMA AllowanceGrows ==
    /\ TtlIncrement \in Nat /\ MaxUpdates \in Nat /\ LongestLife \in Nat
    /\ Allowance(0) = TtlIncrement
    /\ \A u \in Nat : /\ Allowance(u) \in Nat
                      /\ Allowance(u + 1) = Allowance(u) + TtlIncrement
                      /\ u =< MaxUpdates + 1 => Allowance(u) =< LongestLife
<1>1. TtlIncrement \in Nat /\ MaxUpdates \in Nat
  BY FirewallAssumption
<1>2. LongestLife \in Nat /\ Allowance(0) = TtlIncrement
  BY <1>1 DEF LongestLife, Allowance
<1>3. ASSUME NEW u \in Nat
      PROVE  /\ Allowance(u) \in Nat
             /\ Allowance(u + 1) = Allowance(u) + TtlIncrement
             /\ u =< MaxUpdates + 1 => Allowance(u) =< LongestLife
  BY <1>1 DEF Allowance, LongestLife
<1> QED BY <1>1, <1>2, <1>3

Entries == [c : Connections, life : -1 .. LongestLife, upd : 0 .. MaxUpdates + 1]

\* The fields of an entry are numbers.
LEMMA EntryTypes ==
    ASSUME NEW e \in Entries
    PROVE  e.life \in Int /\ e.upd \in Nat
<1>1. LongestLife \in Nat /\ MaxUpdates \in Nat
  BY AllowanceGrows
<1>2. e.life \in -1 .. LongestLife /\ e.upd \in 0 .. MaxUpdates + 1
  BY DEF Entries
<1> QED BY <1>1, <1>2

\* No two valid entries are of one connection.
OneLive(table) ==
    \A i, j \in 1 .. Len(table) :
        Live(table[i]) /\ Live(table[j]) /\ table[i].c = table[j].c => i = j

\* The packet q from inside opens the connection c.
Opener(q, c) == q.src = c.dst /\ q.dst = c.src /\ q.proto = c.proto

\* A table of that size whose connections were opened by packets of op.
WellKept(table, size, op) ==
    /\ table \in Seq(Entries)
    /\ size = Len(table) /\ size =< MaxFtSize
    /\ \A i \in 1 .. Len(table) : table[i].life =< Allowance(table[i].upd)
    /\ OneLive(table)
    /\ \A i \in 1 .. Len(table) : \E q \in op : Opener(q, table[i].c)

\* What can become of a packet.
Outcomes == {"none", "drop", "pwospf", "echo reply", "port unreachable",
             "time exceeded", "forward"}

\* The inductive invariant.
IInv ==
    /\ WellKept(flow_table, ft_size, opened)
    /\ opened \subseteq Packets
    /\ last.what \in Outcomes

\* What the invariant says of the shape of the table.
LEMMA TableIsSequence ==
    ASSUME IInv
    PROVE  /\ flow_table \in Seq(Entries) /\ Len(flow_table) \in Nat
           /\ ft_size = Len(flow_table) /\ ft_size =< MaxFtSize
           /\ OneLive(flow_table)
<1>1. WellKept(flow_table, ft_size, opened)
  BY DEF IInv
<1>2. /\ flow_table \in Seq(Entries)
      /\ ft_size = Len(flow_table) /\ ft_size =< MaxFtSize /\ OneLive(flow_table)
  BY <1>1 DEF WellKept
<1> QED BY <1>2, LenProperties

\* ft_contains finds a valid entry of the connection if there is one.
LEMMA ContainsFinds ==
    ASSUME IInv, NEW c
    PROVE  /\ ft_contains(c) \in 0 .. Len(flow_table)
           /\ ft_contains(c) > 0 => /\ flow_table[ft_contains(c)].c = c
                                    /\ Live(flow_table[ft_contains(c)])
           /\ ft_contains(c) = 0 =>
                  \A i \in 1 .. Len(flow_table) :
                      ~(flow_table[i].c = c /\ Live(flow_table[i]))
<1> DEFINE I == {i \in 1 .. Len(flow_table) : Matches(flow_table[i], c) /\ Live(flow_table[i])}
<1>1. Len(flow_table) \in Nat
  BY TableIsSequence
<1>2. ft_contains(c) = IF I # {} THEN Min(I) ELSE 0
  BY DEF ft_contains, SelectInSeq
<1>3. I \in SUBSET Nat
  BY <1>1
<1>4. CASE I # {}
  <2>1. Min(I) \in I
    BY <1>3, <1>4, MinExists
  <2>2. ft_contains(c) \in I
    BY <1>2, <1>4, <2>1
  <2>3. ft_contains(c) \in 1 .. Len(flow_table)
    BY <2>2
  <2> QED BY <1>1, <2>2, <2>3 DEF Matches
<1>5. CASE I = {}
  <2>1. ft_contains(c) = 0
    BY <1>2, <1>5
  <2> QED BY <1>1, <2>1, <1>5 DEF Matches
<1> QED BY <1>4, <1>5

\* Prolonging a valid entry keeps its life within its updates.
LEMMA TouchKeeps ==
    ASSUME IInv, NEW i \in 1 .. Len(flow_table), Live(flow_table[i])
    PROVE  WellKept(Touch(i).table, Touch(i).size, opened)
<1> DEFINE t == Touch(i).table
<1>1. /\ flow_table \in Seq(Entries) /\ ft_size = Len(flow_table) /\ ft_size =< MaxFtSize
      /\ OneLive(flow_table)
  BY TableIsSequence
<1>2. /\ Touch(i).size = ft_size
      /\ t = [flow_table EXCEPT ![i].life = @ + TtlIncrement, ![i].upd = @ + 1]
  BY DEF Touch, Result
<1>3. flow_table[i] \in Entries
  BY <1>1
<1>4. /\ t[i] = [c |-> flow_table[i].c, life |-> flow_table[i].life + TtlIncrement,
                 upd |-> flow_table[i].upd + 1]
      /\ \A j \in 1 .. Len(flow_table) : j # i => t[j] = flow_table[j]
      /\ Len(t) = Len(flow_table)
  BY <1>1, <1>2, <1>3 DEF Entries
<1>5. flow_table[i].life =< Allowance(flow_table[i].upd)
  BY DEF IInv, WellKept
<1>6. t[i].life =< Allowance(t[i].upd) /\ t[i] \in Entries
  <2> DEFINE l == flow_table[i].life
             u == flow_table[i].upd
  <2>1. l \in -1 .. LongestLife /\ u \in 0 .. MaxUpdates + 1 /\ flow_table[i].c \in Connections
    BY <1>3 DEF Entries
  <2>2. l >= 0 /\ u =< MaxUpdates
    BY DEF Live
  <2>3. l =< Allowance(u)
    BY <1>5
  <2>4. t[i] = [c |-> flow_table[i].c, life |-> l + TtlIncrement, upd |-> u + 1]
    BY <1>4
  <2>5. TtlIncrement \in Nat /\ MaxUpdates \in Nat /\ LongestLife \in Nat
    BY AllowanceGrows
  <2> HIDE DEF l, u, t
  <2>6. l \in Nat /\ u \in Nat /\ u + 1 \in Nat /\ u + 1 =< MaxUpdates + 1
    BY <2>1, <2>2, <2>5
  <2>7. /\ Allowance(u) \in Nat /\ Allowance(u + 1) = Allowance(u) + TtlIncrement
        /\ Allowance(u + 1) =< LongestLife
    BY <2>6, AllowanceGrows
  <2>8. l + TtlIncrement =< Allowance(u + 1) /\ l + TtlIncrement \in -1 .. LongestLife
    BY <2>3, <2>5, <2>6, <2>7
  <2> QED BY <2>1, <2>4, <2>5, <2>6, <2>8 DEF Entries
<1>7. t \in Seq(Entries)
  <2>1. [flow_table EXCEPT ![i] = t[i]] \in Seq(Entries)
    BY <1>1, <1>6, ExceptSeq
  <2>2. t = [flow_table EXCEPT ![i] = t[i]]
    BY <1>1, <1>2, <1>3, <1>4 DEF Entries
  <2> QED BY <2>1, <2>2
<1>8. \A j \in 1 .. Len(t) : t[j].c = flow_table[j].c /\ (Live(t[j]) => Live(flow_table[j]))
  BY <1>4
<1>9. OneLive(t)
  BY <1>1, <1>4, <1>8 DEF OneLive
<1>10. \A j \in 1 .. Len(t) : t[j].life =< Allowance(t[j].upd)
  BY <1>4, <1>6 DEF IInv, WellKept
<1>11. \A j \in 1 .. Len(t) : \E q \in opened : Opener(q, t[j].c)
  BY <1>4, <1>8 DEF IInv, WellKept
<1> HIDE DEF t
<1> QED BY <1>1, <1>2, <1>4, <1>7, <1>9, <1>10, <1>11 DEF WellKept, t

\* A new entry (add_connect) keeps the table well if its connection has no valid one.
LEMMA AddKeeps ==
    ASSUME NEW table, NEW size, NEW op, WellKept(table, size, op),
           size < MaxFtSize,
           NEW c \in Connections, NEW p, Opener(p, c),
           \A i \in 1 .. Len(table) : ~(table[i].c = c /\ Live(table[i]))
    PROVE  WellKept(add_connect(table, size, c).table, add_connect(table, size, c).size,
                    op \cup {p})
<1> DEFINE e == [c |-> c, life |-> TtlIncrement, upd |-> 0]
           t == Append(table, e)
<1>0. MaxFtSize \in Nat
  BY FirewallAssumption
<1>1. add_connect(table, size, c).table = t /\ add_connect(table, size, c).size = size + 1
  BY DEF add_connect, Result
<1>2. e \in Entries /\ e.life =< Allowance(e.upd)
  BY AllowanceGrows DEF Entries
<1>3. table \in Seq(Entries) /\ size = Len(table) /\ size \in Nat
  BY DEF WellKept
<1> HIDE DEF e
<1>4. /\ t \in Seq(Entries) /\ Len(t) = Len(table) + 1
      /\ t[Len(table) + 1] = e
      /\ \A i \in 1 .. Len(table) : t[i] = table[i]
  BY <1>2, <1>3
<1>5. \A i \in 1 .. Len(t) : i \in 1 .. Len(table) \/ i = Len(table) + 1
  BY <1>3, <1>4
<1>6. e.c = c
  BY DEF e
<1> HIDE DEF t
<1>7. OneLive(t)
  <2> SUFFICES ASSUME NEW i \in 1 .. Len(t), NEW j \in 1 .. Len(t),
                      Live(t[i]), Live(t[j]), t[i].c = t[j].c
               PROVE  i = j
    BY DEF OneLive
  <2>1. CASE i \in 1 .. Len(table) /\ j \in 1 .. Len(table)
    BY <2>1, <1>4 DEF WellKept, OneLive
  <2>2. CASE i \in 1 .. Len(table) /\ j = Len(table) + 1
    BY <2>2, <1>4, <1>6
  <2>3. CASE i = Len(table) + 1 /\ j \in 1 .. Len(table)
    BY <2>3, <1>4, <1>6
  <2> QED BY <2>1, <2>2, <2>3, <1>5
<1>8. \A i \in 1 .. Len(t) : t[i].life =< Allowance(t[i].upd)
  BY <1>2, <1>4, <1>5 DEF WellKept
<1>9. \A i \in 1 .. Len(t) : \E q \in op \cup {p} : Opener(q, t[i].c)
  BY <1>4, <1>5, <1>6 DEF WellKept
<1> QED BY <1>0, <1>1, <1>3, <1>4, <1>7, <1>8, <1>9 DEF WellKept

\* remove_stale_entries leaves valid entries of the old table only, and counts them.
LEMMA CleaningKeeps ==
    ASSUME IInv
    PROVE  LET r == remove_stale_entries
           IN  /\ WellKept(r.table, r.size, opened)
               /\ \A i \in 1 .. Len(r.table) : Live(r.table[i])
               /\ \A i \in 1 .. Len(r.table) :
                      \E j \in 1 .. Len(flow_table) : r.table[i] = flow_table[j]
<1> DEFINE n == Len(flow_table)
           S == {i \in 1 .. n : ~Live(flow_table[i])} \cup {0}
           t == SubSeq(flow_table, LastStale + 1, n)
<1>1. flow_table \in Seq(Entries) /\ n \in Nat /\ ft_size = n /\ n =< MaxFtSize
  BY TableIsSequence
<1>2. LastStale \in S /\ \A y \in S : LastStale >= y
  <2>1. S \in SUBSET (0 .. n) /\ S # {}
    BY <1>1
  <2>2. LastStale = Max(S)
    BY DEF LastStale
  <2> HIDE DEF S
  <2> QED BY <1>1, <2>1, <2>2, MaxExists
<1>3. LastStale \in 0 .. n
  BY <1>1, <1>2
<1>4. \A i \in 1 .. n : i > LastStale => Live(flow_table[i])
  BY <1>1, <1>2, <1>3
<1>5. remove_stale_entries.table = t /\ remove_stale_entries.size = n - LastStale
  BY <1>1 DEF remove_stale_entries, Result
<1>6. /\ t \in Seq(Entries) /\ Len(t) = n - LastStale
      /\ \A i \in 1 .. Len(t) : t[i] = flow_table[LastStale + i]
  BY <1>1, <1>3
<1>7. \A i \in 1 .. Len(t) : LastStale + i \in 1 .. n /\ LastStale + i > LastStale
  BY <1>1, <1>3, <1>6
<1> HIDE DEF t, S
<1>8. OneLive(t)
  <2> SUFFICES ASSUME NEW i \in 1 .. Len(t), NEW j \in 1 .. Len(t),
                      Live(t[i]), Live(t[j]), t[i].c = t[j].c
               PROVE  i = j
    BY DEF OneLive
  <2>1. LastStale + i = LastStale + j
    BY <1>6, <1>7 DEF IInv, WellKept, OneLive
  <2> QED BY <2>1, <1>3
<1>9. \A i \in 1 .. Len(t) : /\ Live(t[i])
                             /\ t[i].life =< Allowance(t[i].upd)
                             /\ \E q \in opened : Opener(q, t[i].c)
                             /\ \E j \in 1 .. n : t[i] = flow_table[j]
  BY <1>4, <1>6, <1>7 DEF IInv, WellKept
<1>10. n - LastStale =< MaxFtSize
  BY <1>1, <1>3, FirewallAssumption
<1>11. WellKept(t, n - LastStale, opened)
  BY <1>6, <1>8, <1>9, <1>10 DEF WellKept
<1> QED BY <1>5, <1>9, <1>11

\* The answers that leave the table alone.
LEMMA UnchangedKeeps ==
    ASSUME IInv
    PROVE  /\ WellKept(Pass.table, Pass.size, opened) /\ Pass.ok = TRUE
           /\ WellKept(Refuse.table, Refuse.size, opened) /\ Refuse.ok = FALSE
<1>1. WellKept(flow_table, ft_size, opened)
  BY DEF IInv
<1>2. /\ Pass.table = flow_table /\ Pass.size = ft_size /\ Pass.ok = TRUE
      /\ Refuse.table = flow_table /\ Refuse.size = ft_size /\ Refuse.ok = FALSE
  BY DEF Pass, Refuse, Result
<1> QED BY <1>1, <1>2

\* check_connection says yes by a rule or because somebody inside opened the
\* connection.
LEMMA CheckKeeps ==
    ASSUME IInv, NEW c
    PROVE  LET r == check_connection(c)
           IN  /\ WellKept(r.table, r.size, opened)
               /\ r.ok \in BOOLEAN
               /\ r.ok => rule_contains(c) \/ \E q \in opened : Opener(q, c)
<1>0. WellKept(flow_table, ft_size, opened)
  BY DEF IInv
<1>1. CASE rule_contains(c)
  <2>1. check_connection(c) = Pass
    BY <1>1 DEF check_connection
  <2> QED BY <1>1, <2>1, UnchangedKeeps
<1>2. CASE ~rule_contains(c) /\ ft_contains(c) > 0
  <2>1. check_connection(c) = Touch(ft_contains(c))
    BY <1>2 DEF check_connection
  <2>2. /\ ft_contains(c) \in 1 .. Len(flow_table)
        /\ flow_table[ft_contains(c)].c = c /\ Live(flow_table[ft_contains(c)])
    BY <1>2, ContainsFinds, TableIsSequence
  <2>3. \E q \in opened : Opener(q, c)
    BY <2>2, <1>0 DEF WellKept
  <2>4. Touch(ft_contains(c)).ok = TRUE
    BY DEF Touch, Result
  <2> QED BY <2>1, <2>2, <2>3, <2>4, TouchKeeps
<1>3. CASE ~rule_contains(c) /\ ~(ft_contains(c) > 0)
  <2>1. check_connection(c) = Refuse
    BY <1>3 DEF check_connection
  <2> QED BY <2>1, UnchangedKeeps
<1> QED BY <1>1, <1>2, <1>3

\* Another packet let out takes nothing away.
LEMMA WiderOpened ==
    ASSUME NEW table, NEW size, NEW op, NEW p, WellKept(table, size, op)
    PROVE  WellKept(table, size, op \cup {p})
  BY DEF WellKept

\* tell_valid says no only when the table is full of valid entries.
LEMMA TellKeeps ==
    ASSUME IInv, NEW c \in Connections, NEW p, Opener(p, c)
    PROVE  LET r == tell_valid(c)
           IN  /\ r.ok \in BOOLEAN
               /\ WellKept(r.table, r.size, IF r.ok THEN opened \cup {p} ELSE opened)
               /\ ~r.ok => /\ r.size = MaxFtSize
                           /\ \A i \in 1 .. Len(r.table) : Live(r.table[i])
<1> DEFINE rest == remove_stale_entries
<1>0. WellKept(flow_table, ft_size, opened)
  BY DEF IInv
<1>1. CASE ft_contains(c) > 0
  <2>1. tell_valid(c) = Touch(ft_contains(c))
    BY <1>1 DEF tell_valid
  <2>2. /\ ft_contains(c) \in 1 .. Len(flow_table)
        /\ Live(flow_table[ft_contains(c)])
    BY <1>1, ContainsFinds, TableIsSequence
  <2>3. Touch(ft_contains(c)).ok = TRUE
    BY DEF Touch, Result
  <2> QED BY <2>1, <2>2, <2>3, TouchKeeps, WiderOpened
<1>2. CASE ~(ft_contains(c) > 0)
  <2>0. \A i \in 1 .. Len(flow_table) : ~(flow_table[i].c = c /\ Live(flow_table[i]))
    BY <1>2, ContainsFinds, TableIsSequence
  <2>1. CASE ft_size < MaxFtSize
    <3>1. tell_valid(c) = add_connect(flow_table, ft_size, c)
      BY <1>2, <2>1 DEF tell_valid
    <3>2. add_connect(flow_table, ft_size, c).ok = TRUE
      BY DEF add_connect, Result
    <3> QED BY <1>0, <2>0, <2>1, <3>1, <3>2, AddKeeps
  <2>2. CASE ~(ft_size < MaxFtSize) /\ rest.size < MaxFtSize
    <3>1. tell_valid(c) = add_connect(rest.table, rest.size, c)
      BY <1>2, <2>2 DEF tell_valid
    <3>2. add_connect(rest.table, rest.size, c).ok = TRUE
      BY DEF add_connect, Result
    <3>3. /\ WellKept(rest.table, rest.size, opened)
          /\ \A i \in 1 .. Len(rest.table) :
                 \E j \in 1 .. Len(flow_table) : rest.table[i] = flow_table[j]
      BY CleaningKeeps
    <3>4. \A i \in 1 .. Len(rest.table) : ~(rest.table[i].c = c /\ Live(rest.table[i]))
      BY <2>0, <3>3
    <3> HIDE DEF rest
    <3> QED BY <2>2, <3>1, <3>2, <3>3, <3>4, AddKeeps
  <2>3. CASE ~(ft_size < MaxFtSize) /\ ~(rest.size < MaxFtSize)
    <3>1. tell_valid(c) = Result(FALSE, rest.table, rest.size)
      BY <1>2, <2>3 DEF tell_valid
    <3>2. /\ WellKept(rest.table, rest.size, opened)
          /\ \A i \in 1 .. Len(rest.table) : Live(rest.table[i])
      BY CleaningKeeps
    <3> HIDE DEF rest
    <3>3. rest.size \in Nat /\ rest.size =< MaxFtSize
      <4>1. /\ rest.table \in Seq(Entries)
            /\ rest.size = Len(rest.table) /\ rest.size =< MaxFtSize
        BY <3>2 DEF WellKept
      <4> QED BY <4>1, LenProperties
    <3>4. rest.size = MaxFtSize
      BY <2>3, <3>3, FirewallAssumption
    <3> QED BY <3>1, <3>2, <3>4 DEF Result
  <2> QED BY <2>1, <2>2, <2>3
<1> QED BY <1>1, <1>2

\* The check of a packet from inside: tell_valid of the reverse connection.
LEMMA OutboundKeeps ==
    ASSUME IInv, NEW p \in Packets
    PROVE  LET r == OutboundCheck(p)
           IN  /\ r.ok \in BOOLEAN
               /\ WellKept(r.table, r.size, IF r.ok THEN opened \cup {p} ELSE opened)
               /\ ~r.ok /\ p.proto \in {Icmp} \cup Ported =>
                      /\ r.size = MaxFtSize
                      /\ \A i \in 1 .. Len(r.table) : Live(r.table[i])
<1> DEFINE c0 == Connection(p.dst, p.src, p.proto, 0, 0)
           c1 == Connection(p.dst, p.src, p.proto, p.len, VersionWord)
<1>1. c0 \in Connections /\ c1 \in Connections
  BY DEF Connections
<1>2. Opener(p, c0) /\ Opener(p, c1)
  BY DEF Opener, Connection
<1> HIDE DEF c0, c1
<1>3. CASE p.proto = Icmp
  <2>1. OutboundCheck(p) = tell_valid(c0)
    BY <1>3 DEF OutboundCheck, c0
  <2> QED BY <1>1, <1>2, <2>1, TellKeeps
<1>4. CASE p.proto # Icmp /\ p.proto \in Ported
  <2>1. OutboundCheck(p) = tell_valid(c1)
    BY <1>4 DEF OutboundCheck, c1
  <2> QED BY <1>1, <1>2, <2>1, TellKeeps
<1>5. CASE p.proto # Icmp /\ p.proto \notin Ported
  <2>1. OutboundCheck(p) = Refuse
    BY <1>5 DEF OutboundCheck
  <2> QED BY <2>1, <1>5, UnchangedKeeps
<1> QED BY <1>3, <1>4, <1>5

\* The check of a packet from outside to inside: check_connection.
LEMMA InboundKeeps ==
    ASSUME IInv, NEW p \in Packets
    PROVE  LET r == InboundCheck(p)
           IN  /\ r.ok \in BOOLEAN
               /\ WellKept(r.table, r.size, opened)
               /\ r.ok => \/ rule_contains(InboundConnection(p))
                          \/ \E q \in opened : Opener(q, InboundConnection(p))
<1>1. CASE p.proto \in {Icmp} \cup Ported
  <2>1. InboundCheck(p) = check_connection(InboundConnection(p))
    BY <1>1 DEF InboundCheck
  <2> QED BY <2>1, CheckKeeps
<1>2. CASE p.proto \notin {Icmp} \cup Ported
  <2>1. InboundCheck(p) = Refuse
    BY <1>2 DEF InboundCheck
  <2> QED BY <2>1, UnchangedKeeps
<1> QED BY <1>1, <1>2

\* The check of a packet to the router itself.
LEMMA ToRouterKeeps ==
    ASSUME IInv, NEW p \in Packets
    PROVE  /\ ToRouterCheck(p).ok \in BOOLEAN
           /\ WellKept(ToRouterCheck(p).table, ToRouterCheck(p).size, opened)
<1> DEFINE c0 == Connection(p.src, p.dst, p.proto, 0, 0)
           c1 == Connection(p.src, p.dst, p.proto, VersionWord, p.len)
<1>1. ToRouterCheck(p) \in {Pass, Refuse, check_connection(c0), check_connection(c1)}
  BY DEF ToRouterCheck
<1> HIDE DEF c0, c1
<1>2. CASE ToRouterCheck(p) \in {Pass, Refuse}
  BY <1>2, UnchangedKeeps
<1>3. CASE ToRouterCheck(p) = check_connection(c0)
  BY <1>3, CheckKeeps
<1>4. CASE ToRouterCheck(p) = check_connection(c1)
  BY <1>4, CheckKeeps
<1> QED BY <1>1, <1>2, <1>3, <1>4

\* A packet whose check leaves a well kept table keeps the invariant.
LEMMA DoneKeeps ==
    ASSUME IInv, NEW p, NEW r, NEW what \in Outcomes, Done(p, r, what),
           opened' \subseteq Packets, WellKept(r.table, r.size, opened')
    PROVE  IInv'
<1>1. flow_table' = r.table /\ ft_size' = r.size
  BY DEF Done
<1>2. WellKept(flow_table', ft_size', opened')
  BY <1>1
<1>3. last'.what \in Outcomes
  BY Zenon DEF Done, Outcomes
<1> QED BY <1>2, <1>3 DEF IInv, WellKept, OneLive, Live, Outcomes

\* Past the firewall a packet is forwarded or answered.
LEMMA LeaveIsOutcome == \A p : Leave(p) \in Outcomes
  BY DEF Leave, Outcomes

\* Time makes no entry valid and prolongs none.
LEMMA TickKeeps ==
    ASSUME IInv, Tick
    PROVE  IInv'
<1>1. /\ flow_table' = [i \in DOMAIN flow_table |->
                           [flow_table[i] EXCEPT !.life = IF @ >= 0 THEN @ - 1 ELSE @]]
      /\ UNCHANGED <<ft_size, opened, last>>
  BY DEF Tick
<1>2. /\ flow_table \in Seq(Entries) /\ Len(flow_table) \in Nat
      /\ DOMAIN flow_table = 1 .. Len(flow_table)
  BY TableIsSequence, LenProperties
<1>3. ASSUME NEW i \in 1 .. Len(flow_table)
      PROVE  /\ flow_table'[i] \in Entries
             /\ flow_table'[i].c = flow_table[i].c
             /\ flow_table'[i].upd = flow_table[i].upd
             /\ flow_table'[i].life =< flow_table[i].life
  <2>1. flow_table[i] \in Entries
    BY <1>2
  <2>2. flow_table'[i] = [flow_table[i] EXCEPT !.life = IF @ >= 0 THEN @ - 1 ELSE @]
    BY <1>1, <1>2
  <2>3. LongestLife \in Nat
    BY AllowanceGrows
  <2>4. flow_table'[i] = [c |-> flow_table[i].c,
                          life |-> IF flow_table[i].life >= 0 THEN flow_table[i].life - 1
                                   ELSE flow_table[i].life,
                          upd |-> flow_table[i].upd]
    BY <2>1, <2>2 DEF Entries
  <2> QED BY <2>1, <2>3, <2>4 DEF Entries
<1>4. flow_table' \in Seq(Entries) /\ Len(flow_table') = Len(flow_table)
  <2>1. flow_table' \in [1 .. Len(flow_table) -> Entries]
    BY <1>1, <1>2, <1>3
  <2> QED BY <1>2, <2>1
<1>5. \A i \in 1 .. Len(flow_table) : Live(flow_table'[i]) => Live(flow_table[i])
  <2> TAKE i \in 1 .. Len(flow_table)
  <2>1. /\ flow_table[i] \in Entries /\ flow_table'[i] \in Entries
    BY <1>2, <1>3
  <2>2. flow_table[i].life \in Int /\ flow_table'[i].life \in Int
    BY <2>1, EntryTypes
  <2> QED BY <1>3, <2>2 DEF Live
<1>6. OneLive(flow_table')
  BY <1>3, <1>4, <1>5, TableIsSequence DEF OneLive
<1>7. ASSUME NEW i \in 1 .. Len(flow_table')
      PROVE  flow_table'[i].life =< Allowance(flow_table'[i].upd)
  <2>1. i \in 1 .. Len(flow_table)
    BY <1>4
  <2>2. /\ flow_table[i] \in Entries /\ flow_table'[i] \in Entries
    BY <2>1, <1>2, <1>3
  <2>3. /\ flow_table[i].life \in Int /\ flow_table'[i].life \in Int
        /\ flow_table[i].upd \in Nat
    BY <2>2, EntryTypes
  <2>4. Allowance(flow_table[i].upd) \in Nat
    BY <2>3, AllowanceGrows
  <2>5. flow_table[i].life =< Allowance(flow_table[i].upd)
    BY <2>1 DEF IInv, WellKept
  <2> QED BY <2>1, <2>3, <2>4, <2>5, <1>3
<1>8. \A i \in 1 .. Len(flow_table') : \E q \in opened' : Opener(q, flow_table'[i].c)
  BY <1>1, <1>3, <1>4 DEF IInv, WellKept
<1>9. ft_size' = Len(flow_table') /\ ft_size' =< MaxFtSize
  BY <1>1, <1>4, TableIsSequence
<1>10. WellKept(flow_table', ft_size', opened')
  BY <1>4, <1>6, <1>7, <1>8, <1>9 DEF WellKept
<1> QED BY <1>1, <1>10 DEF IInv, WellKept, OneLive, Live

\* Every way through handle_ip keeps the invariant.
LEMMA PacketKeeps ==
    ASSUME IInv, NEW p \in Packets, HandleIp(p)
    PROVE  IInv'
<1>0. opened \subseteq Packets
  BY DEF IInv
<1>1. CASE ToRouter(p)
  <2> DEFINE what == CASE p.proto = Ospf -> "pwospf"
                       [] p.proto = Icmp /\ p.echo -> "echo reply"
                       [] OTHER -> "port unreachable"
  <2>1. what \in Outcomes
    BY Zenon DEF Outcomes
  <2>2. Done(p, ToRouterCheck(p), what) /\ opened' = opened
    BY <1>1, Zenon DEF ToRouter
  <2> HIDE DEF what
  <2> QED BY <1>0, <2>1, <2>2, ToRouterKeeps, DoneKeeps
<1>2. CASE ToAllRouters(p)
  BY <1>0, <1>2, UnchangedKeeps, DoneKeeps DEF ToAllRouters, Outcomes
<1>3. CASE Unroutable(p)
  BY <1>0, <1>3, UnchangedKeeps, DoneKeeps DEF Unroutable, Outcomes
<1>4. CASE Inbound(p)
  BY <1>0, <1>4, InboundKeeps, DoneKeeps, LeaveIsOutcome DEF Inbound
<1>5. CASE Transit(p)
  BY <1>0, <1>5, UnchangedKeeps, DoneKeeps, LeaveIsOutcome DEF Transit
<1>6. CASE Outbound(p)
  BY <1>0, <1>6, OutboundKeeps, DoneKeeps, LeaveIsOutcome DEF Outbound
<1> QED BY <1>1, <1>2, <1>3, <1>4, <1>5, <1>6 DEF HandleIp

\* The invariant holds in every state.
LEMMA Inductive == Spec => []IInv
<1>1. Init => IInv
  <2> SUFFICES ASSUME Init PROVE IInv
    OBVIOUS
  <2>1. flow_table \in Seq(Entries) /\ Len(flow_table) = 0
    BY DEF Init
  <2>2. WellKept(flow_table, ft_size, opened)
    BY <2>1, FirewallAssumption DEF Init, WellKept, OneLive
  <2> QED BY <2>2 DEF Init, IInv, Outcomes
<1>2. IInv /\ [Next]_vars => IInv'
  <2> SUFFICES ASSUME IInv, [Next]_vars PROVE IInv'
    OBVIOUS
  <2>1. CASE Tick
    BY <2>1, TickKeeps
  <2>2. ASSUME NEW p \in Packets, HandleIp(p) PROVE IInv'
    BY <2>2, PacketKeeps
  <2>3. CASE UNCHANGED vars
    BY <2>3 DEF vars, IInv, WellKept, OneLive, Live
  <2> QED BY <2>1, <2>2, <2>3 DEF Next
<1> QED BY <1>1, <1>2, PTL DEF Spec

\* Types: an entry is updated at most once past MAX_TTL_UPDATES, its life is within
\* its updates, and the table never exceeds MAX_FT_SIZE (check_connection,
\* tell_valid).
THEOREM TypeCorrect == Spec => []TypeOK
<1>1. IInv => TypeOK
  <2> SUFFICES ASSUME IInv PROVE TypeOK
    OBVIOUS
  <2>1. ft_size \in 0 .. MaxFtSize
    BY TableIsSequence, FirewallAssumption
  <2>2. flow_table \in Seq(Entries)
    BY TableIsSequence
  <2> QED BY <2>1, <2>2 DEF TypeOK, IInv, Entries, LongestLife, Outcomes
<1> QED BY <1>1, Inductive, PTL

\* ft_size counts the list through adding, cleaning and expiry, and a connection has
\* one valid entry at a time (tell_valid, remove_stale_entries).
THEOREM SizeAndEntriesAgreeAlways == Spec => []SizeAndEntriesAgree
<1>1. IInv => SizeAndEntriesAgree
  <2> SUFFICES ASSUME IInv PROVE SizeAndEntriesAgree
    OBVIOUS
  <2>1. DOMAIN flow_table = 1 .. Len(flow_table)
    BY TableIsSequence, LenProperties
  <2> QED BY <2>1, TableIsSequence DEF SizeAndEntriesAgree, OneLive
<1> QED BY <1>1, Inductive, PTL

\* What comes in without a rule answers a packet that went out (handle_ip,
\* check_connection, tell_valid).
THEOREM AdmittedWasOpenedAlways == Spec => AdmittedWasOpened
<1> DEFINE Step == \A p \in Packets :
           Inbound(p) /\ last'.what = "forward" =>
               \/ rule_contains(InboundConnection(p))
               \/ \E q \in opened : q.src = p.dst /\ q.dst = p.src /\ q.proto = p.proto
<1>1. IInv /\ [Next]_vars => [Step]_vars
  <2> SUFFICES ASSUME IInv, NEW p \in Packets, Inbound(p), last'.what = "forward",
                      ~rule_contains(InboundConnection(p))
               PROVE  \E q \in opened : q.src = p.dst /\ q.dst = p.src /\ q.proto = p.proto
    OBVIOUS
  <2>1. InboundCheck(p).ok
    BY InboundKeeps DEF Inbound, Done
  <2>2. PICK q \in opened : Opener(q, InboundConnection(p))
    BY <2>1, InboundKeeps
  <2>3. /\ InboundConnection(p).src = p.src /\ InboundConnection(p).dst = p.dst
        /\ InboundConnection(p).proto = p.proto
    BY DEF InboundConnection, Connection
  <2> QED BY <2>2, <2>3 DEF Opener
<1> QED BY <1>1, Inductive, PTL DEF Spec, AdmittedWasOpened

\* A host inside is refused only while MAX_FT_SIZE valid entries are in the table
\* (tell_valid, remove_stale_entries).
THEOREM RefusedOnlyWhenFullAlways == Spec => RefusedOnlyWhenFull
<1> DEFINE Step == \A p \in Packets :
           Outbound(p) /\ last'.what = "drop" /\ p.proto \in {Icmp} \cup Ported =>
               /\ ft_size' = MaxFtSize
               /\ \A i \in DOMAIN flow_table' : Live(flow_table'[i])
<1>1. IInv /\ [Next]_vars => [Step]_vars
  <2> SUFFICES ASSUME IInv, NEW p \in Packets, Outbound(p), last'.what = "drop",
                      p.proto \in {Icmp} \cup Ported
               PROVE  /\ ft_size' = MaxFtSize
                      /\ \A i \in DOMAIN flow_table' : Live(flow_table'[i])
    OBVIOUS
  <2> DEFINE r == OutboundCheck(p)
  <2>1. /\ flow_table' = r.table /\ ft_size' = r.size
        /\ last' = [p |-> p, what |-> IF r.ok THEN Leave(p) ELSE "drop"]
    BY DEF Outbound, Done
  <2>2. Leave(p) # "drop"
    BY DEF Leave
  <2>3. ~r.ok
    BY <2>1, <2>2
  <2>4. /\ r.size = MaxFtSize
        /\ \A i \in 1 .. Len(r.table) : Live(r.table[i])
        /\ WellKept(r.table, r.size, opened)
    BY <2>3, OutboundKeeps
  <2> HIDE DEF r
  <2>5. DOMAIN r.table = 1 .. Len(r.table)
    BY <2>4, LenProperties DEF WellKept
  <2> QED BY <2>1, <2>4, <2>5
<1> QED BY <1>1, Inductive, PTL DEF Spec, RefusedOnlyWhenFull
=============================================================================
