------------------------------ MODULE Firewall ------------------------------
(***************************************************************************)
(* The stateful firewall (fw.c) and the way handle_ip (sr_router.c) uses   *)
(* it.  Only the main thread runs this code.                               *)
(*                                                                         *)
(* An entry of flow_table keeps, instead of exp_time, the time it has left *)
(* (life), and -1 once that is past.  Routing is a constant: how the next  *)
(* interface is found is not this module's subject.                        *)
(***************************************************************************)
EXTENDS Integers, Sequences, SequencesExt, FiniteSetsExt

CONSTANTS Packets,      \* the packets that may arrive, see PacketsAssumption
          External,     \* the interfaces if_config calls external
          Internal,     \* and internal
          Own,          \* Own[a]: the interface that has router address a
          AllRouters,   \* OSPF_AllSPFRouters
          Route,        \* Route[a]: the interface towards a, or NoRoute
          NoRoute,
          Rules,        \* the rules, a set of connections with 0 for "any"
          VersionWord,  \* the first 16 bits of an IP header without options
          TtlIncrement, \* TTL_INCREMENT
          MaxUpdates,   \* MAX_TTL_UPDATES
          MaxFtSize     \* MAX_FT_SIZE

Icmp == 1
Ported == {6, 17}      \* TCP and UDP
Ospf == 89

ASSUME FirewallAssumption ==
    /\ TtlIncrement \in Nat \ {0}
    /\ MaxUpdates \in Nat
    /\ MaxFtSize \in Nat \ {0}
    /\ \A p \in Packets :
           /\ {"in", "src", "dst", "proto", "sport", "dport", "len", "expired", "echo"}
                  = DOMAIN p
           /\ p.dst \in DOMAIN Own \cup {AllRouters} \cup DOMAIN Route
    /\ \A r \in Rules : DOMAIN r = {"src", "dst", "proto", "sport", "dport"}

VARIABLES flow_table,  \* a sequence of [c, life, upd]
          ft_size,
          opened,      \* packets from inside that the firewall let out
          last         \* the last packet, and what became of it

vars == <<flow_table, ft_size, opened, last>>

Connection(src, dst, proto, sport, dport) ==
    [src |-> src, dst |-> dst, proto |-> proto, sport |-> sport, dport |-> dport]

Init ==
    /\ flow_table = <<>>
    /\ ft_size = 0
    /\ opened = {}
    /\ last = [what |-> "none"]

(***************************************************************************)
(* fw.c.                                                                   *)
(***************************************************************************)
\* The rule's protocol is compared with the destination address.
rule_contains(c) ==
    \E r \in Rules : /\ r.src \in {0, c.src}
                     /\ r.dst \in {0, c.dst}
                     /\ r.proto \in {0, c.dst}
                     /\ r.sport \in {0, c.sport}
                     /\ r.dport \in {0, c.dport}

\* A change of Live: the expiry time is not compared.
LiveBug(e) == e.upd <= MaxUpdates

Live(e) == e.life >= 0 /\ e.upd <= MaxUpdates

\* A change of Matches: the destination and the ports are not compared.
MatchesBug(e, c) == e.c.src = c.src /\ e.c.proto = c.proto

Matches(e, c) == e.c = c

\* The index of the entry, or 0.
ft_contains(c) ==
    SelectInSeq(flow_table, LAMBDA e : Matches(e, c) /\ Live(e))

Result(ok, table, size) == [ok |-> ok, table |-> table, size |-> size]
Pass == Result(TRUE, flow_table, ft_size)
Refuse == Result(FALSE, flow_table, ft_size)

\* A change of Touch: ttl_updates stays.
TouchBug(i) ==
    Result(TRUE, [flow_table EXCEPT ![i].life = @ + TtlIncrement], ft_size)

Touch(i) ==
    Result(TRUE, [flow_table EXCEPT ![i].life = @ + TtlIncrement, ![i].upd = @ + 1], ft_size)

check_connection(c) ==
    IF rule_contains(c) THEN Pass
    ELSE IF ft_contains(c) > 0 THEN Touch(ft_contains(c))
    ELSE Refuse

add_connect(table, size, c) ==
    Result(TRUE, Append(table, [c |-> c, life |-> TtlIncrement, upd |-> 0]), size + 1)

\* The walk never sets prev: for a stale entry it drops the head of the list and
\* starts again, so everything up to the last stale entry goes.
LastStale == Max({i \in 1 .. Len(flow_table) : ~Live(flow_table[i])} \cup {0})

remove_stale_entries ==
    Result(TRUE, SubSeq(flow_table, LastStale + 1, Len(flow_table)), ft_size - LastStale)

\* Changes of tell_valid: room is looked for before the entry, and a full table is
\* not cleaned.
tell_validBug(c) ==
    IF ft_size < MaxFtSize THEN add_connect(flow_table, ft_size, c)
    ELSE IF ft_contains(c) > 0 THEN Touch(ft_contains(c))
    ELSE LET rest == remove_stale_entries
         IN  IF rest.size < MaxFtSize THEN add_connect(rest.table, rest.size, c)
             ELSE Result(FALSE, rest.table, rest.size)

tell_validFullBug(c) ==
    IF ft_contains(c) > 0 THEN Touch(ft_contains(c))
    ELSE IF ft_size < MaxFtSize THEN add_connect(flow_table, ft_size, c)
    ELSE Refuse

tell_valid(c) ==
    IF ft_contains(c) > 0 THEN Touch(ft_contains(c))
    ELSE IF ft_size < MaxFtSize THEN add_connect(flow_table, ft_size, c)
    ELSE LET rest == remove_stale_entries
         IN  IF rest.size < MaxFtSize THEN add_connect(rest.table, rest.size, c)
             ELSE Result(FALSE, rest.table, rest.size)

(***************************************************************************)
(* handle_ip.                                                              *)
(***************************************************************************)
\* The packet p gets the result r of the firewall, and what is done if it passes.
Done(p, r, what) ==
    /\ flow_table' = r.table
    /\ ft_size' = r.size
    /\ last' = [p |-> p, what |-> IF r.ok THEN what ELSE "drop"]

\* To an address of the router.  TCP and UDP ports are read before the packet
\* pointer is past the IP header: they are the header's first two words.
ToRouterCheck(p) ==
    IF p.in \notin External \/ Own[p.dst] \notin Internal \/ p.proto = Ospf THEN Pass
    ELSE IF p.proto = Icmp
    THEN check_connection(Connection(p.src, p.dst, p.proto, 0, 0))
    ELSE IF p.proto \in Ported
    THEN check_connection(Connection(p.src, p.dst, p.proto, VersionWord, p.len))
    ELSE Refuse

ToRouter(p) ==
    /\ p.dst \in DOMAIN Own
    /\ Done(p, ToRouterCheck(p), CASE p.proto = Ospf -> "pwospf"
                                   [] p.proto = Icmp /\ p.echo -> "echo reply"
                                   [] OTHER -> "port unreachable")
    /\ UNCHANGED opened

ToAllRouters(p) ==
    /\ p.dst = AllRouters
    /\ Done(p, Pass, "pwospf")
    /\ UNCHANGED opened

Forwarded(p) == p.dst \notin DOMAIN Own \cup {AllRouters}

Unroutable(p) ==
    /\ Forwarded(p) /\ Route[p.dst] = NoRoute
    /\ Done(p, Refuse, "drop")
    /\ UNCHANGED opened

\* Past the firewall: the TTL decides.
Leave(p) == IF p.expired THEN "time exceeded" ELSE "forward"

\* From outside to inside.  The packet pointer is past the IP header here.
InboundConnection(p) ==
    IF p.proto = Icmp THEN Connection(p.src, p.dst, p.proto, 0, 0)
    ELSE Connection(p.src, p.dst, p.proto, p.sport, p.dport)

InboundCheck(p) ==
    IF p.proto \in {Icmp} \cup Ported THEN check_connection(InboundConnection(p)) ELSE Refuse

Inward(p) == Forwarded(p) /\ p.in \in External /\ Route[p.dst] \in Internal

Inbound(p) ==
    /\ Inward(p)
    /\ Done(p, InboundCheck(p), Leave(p))
    /\ UNCHANGED opened

Transit(p) ==
    /\ Forwarded(p) /\ Route[p.dst] # NoRoute
    /\ p.in \in External /\ Route[p.dst] \notin Internal
    /\ Done(p, Pass, Leave(p))
    /\ UNCHANGED opened

\* From inside, to anywhere: the reverse connection is told valid.  Again the
\* ports are the first two words of the IP header.
OutboundCheck(p) ==
    IF p.proto = Icmp
    THEN tell_valid(Connection(p.dst, p.src, p.proto, 0, 0))
    ELSE IF p.proto \in Ported
    THEN tell_valid(Connection(p.dst, p.src, p.proto, p.len, VersionWord))
    ELSE Refuse

Outward(p) == Forwarded(p) /\ p.in \notin External /\ Route[p.dst] # NoRoute

Outbound(p) ==
    /\ Outward(p)
    /\ Done(p, OutboundCheck(p), Leave(p))
    /\ opened' = IF OutboundCheck(p).ok THEN opened \cup {p} ELSE opened

HandleIp(p) ==
    \/ ToRouter(p)
    \/ ToAllRouters(p)
    \/ Unroutable(p)
    \/ Inbound(p)
    \/ Transit(p)
    \/ Outbound(p)

Tick ==
    /\ flow_table' = [i \in DOMAIN flow_table |->
                         [flow_table[i] EXCEPT !.life = IF @ >= 0 THEN @ - 1 ELSE @]]
    /\ UNCHANGED <<ft_size, opened, last>>

Next == Tick \/ \E p \in Packets : HandleIp(p)

Spec == Init /\ [][Next]_vars

\* Time passes.
FairSpec == Spec /\ WF_vars(Tick)

(***************************************************************************)
(* Properties.                                                             *)
(***************************************************************************)
Connections ==
    {Connection(p.src, p.dst, p.proto, 0, 0) : p \in Packets}
        \cup {Connection(p.dst, p.src, p.proto, 0, 0) : p \in Packets}
        \cup {Connection(p.dst, p.src, p.proto, p.len, VersionWord) : p \in Packets}

\* An entry is updated at most once past MAX_TTL_UPDATES (fw.c:399, 264-265), and
\* its life never exceeds what its updates gave it.
TypeOK ==
    /\ flow_table \in Seq([c : Connections,
                           life : -1 .. (MaxUpdates + 2) * TtlIncrement,
                           upd : 0 .. MaxUpdates + 1])
    /\ ft_size \in 0 .. MaxFtSize
    /\ opened \subseteq Packets
    /\ last.what \in {"none", "drop", "pwospf", "echo reply", "port unreachable",
                      "time exceeded", "forward"}

\* ft_size, which decides between adding and cleaning (fw.c:286, 293), is the
\* length of the list, whatever remove_stale_entries drops; and a connection has
\* one valid entry at a time, so its updates are counted in one place.
SizeAndEntriesAgree ==
    /\ ft_size = Len(flow_table)
    /\ \A i, j \in DOMAIN flow_table :
           Live(flow_table[i]) /\ Live(flow_table[j])
               /\ flow_table[i].c = flow_table[j].c => i = j

\* Without a rule, a packet comes in only if its destination sent one out to its
\* source before, however many packets and seconds lie between (fw.c:253-302).
AdmittedWasOpened ==
    [][\A p \in Packets :
           Inbound(p) /\ last'.what = "forward" =>
               \/ rule_contains(InboundConnection(p))
               \/ \E q \in opened : q.src = p.dst /\ q.dst = p.src /\ q.proto = p.proto]_vars

\* A packet of an inside host is refused only while MAX_FT_SIZE other connections
\* are valid: a stale entry is never what fills the table (fw.c:292-299).  That the
\* cleaning also drops valid entries ahead of a stale one (fw.c:359) is not asked
\* here, see OnlyStaleRemoved.
RefusedOnlyWhenFull ==
    [][\A p \in Packets :
           Outbound(p) /\ last'.what = "drop" /\ p.proto \in {Icmp} \cup Ported =>
               /\ ft_size' = MaxFtSize
               /\ \A i \in DOMAIN flow_table' : Live(flow_table'[i])]_vars

\* Once the inside is silent, every connection ends: packets from outside keep it
\* open for MAX_TTL_UPDATES updates at most.
Closes ==
    \/ []<><<\E p \in Packets : Outbound(p)>>_vars
    \/ <>[](\A i \in DOMAIN flow_table : ~Live(flow_table[i]))

(***************************************************************************)
(* Statements of the comments that the code does not keep.                 *)
(***************************************************************************)
\* fw.c:347: "Removes entries that are no longer valid".
OnlyStaleRemoved ==
    [][\A i \in DOMAIN flow_table :
           Live(flow_table[i]) =>
               \E j \in DOMAIN flow_table' : flow_table'[j].c = flow_table[i].c]_vars

\* fw.c:274-275: "If flow table is still greater than or equal to max size, an
\* ICMP Port Unreachable is sent."
FullTableAnswered ==
    [][\A p \in Packets :
           Outbound(p) /\ p.proto \in {Icmp} \cup Ported => last'.what # "drop"]_vars

Covers(r, p) ==
    /\ r.src \in {0, p.src} /\ r.dst \in {0, p.dst} /\ r.proto \in {0, p.proto}
    /\ r.sport \in {0, p.sport} /\ r.dport \in {0, p.dport}

\* fw.c:432: "Checks if external IP and internal dest IP are in rule table.
\* Returns 1 if they are".
RuleAdmits ==
    [][\A p \in Packets, r \in Rules :
           Inbound(p) /\ Covers(r, p) => last'.what # "drop"]_vars

\* The last thing that happened: p went from inside out, and every entry is valid.
LetOut(p) ==
    /\ last.what = "forward" /\ last.p = p /\ Outward(p)
    /\ \A i \in DOMAIN flow_table : Live(flow_table[i])

Answers(q, p) ==
    /\ q.src = p.dst /\ q.dst = p.src /\ q.proto = p.proto
    /\ q.sport = p.dport /\ q.dport = p.sport

\* fw.c:248-249: "Determines whether a given connection (based on source and dest
\* IP addresses, port numbers, and protocol) is valid (i.e. is in the rule table or
\* flow table)."  The answer to a packet that has just been let out is refused.
AnswerAdmitted ==
    [][\A p, q \in Packets :
           LetOut(p) /\ Inbound(q) /\ Answers(q, p) => last'.what # "drop"]_vars
=============================================================================
