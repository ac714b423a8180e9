----------------------------- MODULE FloodProofs ----------------------------
(***************************************************************************)
(* What is under way in the network is always well formed, for every       *)
(* network, TTL and number of faults (FloodAssumption): above all, no copy *)
(* of an LSU has a TTL of 0, which the next router would turn into 255.    *)
(***************************************************************************)
EXTENDS Flood, TLAPS, SequenceTheorems

\* A copy that may be under way while the origin is at version n.
Lsu(n) == [seq : 0 .. SeqSpace - 1, v : 0 .. n, ttl : 1 .. InitTtl]

\* Queues of such copies, one for each link.
Queues(n) == [Links -> Seq(Lsu(n))]

\* The inductive invariant: TypeOK with the order on each link.
IInv ==
    /\ version \in 0 .. MaxVersion
    /\ seqSent \in 0 .. SeqSpace - 1
    /\ db \in [Others -> [seq : 0 .. SeqSpace - 1, v : -1 .. MaxVersion]]
    /\ wire \in Queues(version) /\ buffer \in Queues(version)
    /\ faults \in 0 .. MaxFaults

\* A later version only adds copies.
LEMMA LsusGrow ==
    ASSUME NEW n \in Nat, NEW q \in Queues(n)
    PROVE  q \in Queues(n + 1)
<1>1. Lsu(n) \subseteq Lsu(n + 1)
  <2>1. 0 .. n \subseteq 0 .. n + 1
    OBVIOUS
  <2> QED BY <2>1 DEF Lsu
<1>2. \A s : s \in Seq(Lsu(n)) => s \in Seq(Lsu(n + 1))
  BY <1>1
<1> QED BY <1>2 DEF Queues

\* The next number is one.
LEMMA NextSeqIsNumber == \A s \in 0 .. SeqSpace - 1 : NextSeq(s) \in 0 .. SeqSpace - 1
<1> TAKE s \in 0 .. SeqSpace - 1
<1>1. SeqSpace \in Nat /\ SeqSpace > 0 /\ s + 1 \in Nat
  BY FloodAssumption
<1>2. (s + 1) % SeqSpace \in 0 .. SeqSpace - 1
  BY <1>1
<1> QED BY <1>2 DEF NextSeq

\* What forward_lsu sends on still has a TTL.
LEMMA ForwardedIsLsu ==
    ASSUME NEW n, NEW m \in Lsu(n), NEW c \in Forwarded(m)
    PROVE  c \in Lsu(n)
<1>1. m.ttl \in 1 .. InitTtl /\ m.seq \in 0 .. SeqSpace - 1 /\ m.v \in 0 .. n /\ InitTtl \in Nat
  BY FloodAssumption DEF Lsu
<1>2. c = [m EXCEPT !.ttl = @ - 1] /\ c.ttl > 0
  BY DEF Forwarded
<1>3. c = [seq |-> m.seq, v |-> m.v, ttl |-> m.ttl - 1]
  BY <1>2 DEF Lsu
<1>4. m.ttl - 1 \in 1 .. InitTtl
  BY <1>1, <1>2, <1>3
<1> QED BY <1>1, <1>3, <1>4 DEF Lsu

\* Send puts a copy on the wires and in front of the buffers.
LEMMA SendKeeps ==
    ASSUME NEW n, NEW links, NEW m \in Lsu(n), NEW w \in Queues(n), buffer \in Queues(n),
           Send(links, m, w)
    PROVE  wire' \in Queues(n) /\ buffer' \in Queues(n)
<1>1. PICK late \in SUBSET (links \cap SlowLinks) :
        /\ wire' = [l \in Links |-> IF l \in links \ late THEN Append(w[l], m) ELSE w[l]]
        /\ buffer' = [l \in Links |-> IF l \in late THEN <<m>> \o buffer[l] ELSE buffer[l]]
  BY DEF Send
<1>2. \A l \in Links : w[l] \in Seq(Lsu(n)) /\ buffer[l] \in Seq(Lsu(n))
  BY DEF Queues
<1>3. \A l \in Links : Append(w[l], m) \in Seq(Lsu(n)) /\ <<m>> \o buffer[l] \in Seq(Lsu(n))
  BY <1>2
<1> QED BY <1>1, <1>2, <1>3 DEF Queues

\* One queue of a link replaced by another.
LEMMA QueueReplaced ==
    ASSUME NEW n, NEW q \in Queues(n), NEW l \in Links, NEW s \in Seq(Lsu(n))
    PROVE  [q EXCEPT ![l] = s] \in Queues(n)
  BY DEF Queues

\* A queue that is not empty has a first copy, and a rest.
LEMMA QueueHead ==
    ASSUME NEW n, NEW q \in Queues(n), NEW l \in Links, q[l] # <<>>
    PROVE  /\ Head(q[l]) \in Lsu(n)
           /\ [q EXCEPT ![l] = Tail(@)] \in Queues(n)
<1>1. q[l] \in Seq(Lsu(n))
  BY DEF Queues
<1>2. Head(q[l]) \in Lsu(n) /\ Tail(q[l]) \in Seq(Lsu(n))
  BY <1>1
<1> QED BY <1>2 DEF Queues

\* A queue emptied.
LEMMA QueueEmptied ==
    ASSUME NEW n, NEW q \in Queues(n), NEW l \in Links
    PROVE  [q EXCEPT ![l] = <<>>] \in Queues(n)
<1>1. <<>> \in Seq(Lsu(n))
  OBVIOUS
<1> QED BY <1>1 DEF Queues

\* The origin sends its links again.
LEMMA SendLsuKeeps == ASSUME IInv, send_lsu PROVE IInv'
<1> DEFINE m == [seq |-> NextSeq(seqSent), v |-> version, ttl |-> InitTtl]
<1>1. /\ seqSent' \in 0 .. SeqSpace - 1
      /\ Send({l \in Links : l[1] = Origin}, m, wire)
      /\ UNCHANGED <<version, db, faults>>
  BY NextSeqIsNumber DEF send_lsu, IInv
<1>2. m \in Lsu(version)
  <2>1. version \in 0 .. version /\ InitTtl \in 1 .. InitTtl
    BY FloodAssumption DEF IInv
  <2> QED BY <2>1, NextSeqIsNumber DEF Lsu, IInv
<1> HIDE DEF m
<1>3. wire' \in Queues(version) /\ buffer' \in Queues(version)
  BY <1>1, <1>2, SendKeeps DEF IInv
<1> QED BY <1>1, <1>3 DEF IInv

\* A copy is dropped, or taken in and sent on.
LEMMA HandleLsuKeeps == ASSUME IInv, NEW l \in Links, handle_lsu(l) PROVE IInv'
<1> DEFINE r == l[2]
           m == Head(wire[l])
           rest == [wire EXCEPT ![l] = Tail(@)]
<1>1. m \in Lsu(version) /\ rest \in Queues(version)
  BY QueueHead DEF IInv, handle_lsu
<1>2. UNCHANGED <<version, seqSent, faults>>
  BY DEF handle_lsu
<1>3. CASE wire' = rest /\ UNCHANGED <<db, buffer>>
  BY <1>1, <1>2, <1>3 DEF IInv
<1>4. CASE ~Dropped(r, m) /\ db' = [db EXCEPT ![r] = [seq |-> m.seq, v |-> m.v]]
  <2>1. db' \in [Others -> [seq : 0 .. SeqSpace - 1, v : -1 .. MaxVersion]]
    <3>1. m.seq \in 0 .. SeqSpace - 1 /\ m.v \in 0 .. version
      BY <1>1 DEF Lsu
    <3>2. m.v \in -1 .. MaxVersion
      BY <3>1, FloodAssumption DEF IInv
    <3> HIDE DEF m, r
    <3> QED BY <1>4, <3>1, <3>2 DEF IInv
  <2>2. CASE wire' = rest /\ UNCHANGED buffer
    BY <1>1, <1>2, <2>1, <2>2 DEF IInv
  <2>3. CASE \E c \in Forwarded(m) : Send({k \in Links : k[1] = r /\ k[2] # l[1]}, c, rest)
    <3>1. PICK c \in Forwarded(m) : Send({k \in Links : k[1] = r /\ k[2] # l[1]}, c, rest)
      BY <2>3
    <3> HIDE DEF m, rest, r
    <3>2. c \in Lsu(version)
      BY <1>1, ForwardedIsLsu
    <3>3. buffer \in Queues(version)
      BY DEF IInv
    <3>4. wire' \in Queues(version) /\ buffer' \in Queues(version)
      BY <1>1, <3>1, <3>2, <3>3, SendKeeps
    <3> QED BY <1>2, <2>1, <3>4 DEF IInv
  <2> QED BY <1>3, <1>4, <2>2, <2>3 DEF handle_lsu
<1> QED BY <1>3, <1>4 DEF handle_lsu

\* An ARP reply empties a buffer onto the wire.
LEMMA SendAllKeeps == ASSUME IInv, NEW l \in Links, send_all_lsus(l) PROVE IInv'
<1>1. wire[l] \o buffer[l] \in Seq(Lsu(version))
  <2>1. wire[l] \in Seq(Lsu(version)) /\ buffer[l] \in Seq(Lsu(version))
    BY DEF IInv, Queues
  <2> QED BY <2>1
<1>2. wire' \in Queues(version)
  BY <1>1, QueueReplaced DEF IInv, send_all_lsus
<1>3. buffer' \in Queues(version)
  BY QueueEmptied DEF IInv, send_all_lsus
<1> QED BY <1>2, <1>3 DEF IInv, send_all_lsus

\* The environment: changes, losses, restarts and time-outs.
LEMMA EnvironmentKeeps == ASSUME IInv, Environment PROVE IInv'
<1>1. Unknown \in [seq : 0 .. SeqSpace - 1, v : -1 .. MaxVersion]
  BY FloodAssumption DEF Unknown
<1>2. Fault => faults' \in 0 .. MaxFaults
  BY FloodAssumption DEF Fault, IInv
<1>3. CASE Change
  <2>1. version \in Nat /\ version' = version + 1 /\ version' \in 0 .. MaxVersion
    BY <1>3, FloodAssumption DEF Change, IInv
  <2>2. wire \in Queues(version + 1) /\ buffer \in Queues(version + 1)
    BY <2>1, LsusGrow DEF IInv
  <2> QED BY <1>3, <2>1, <2>2 DEF Change, IInv
<1>4. ASSUME NEW l \in Links, delete_all_lsu(l) PROVE IInv'
  <2>1. buffer' \in Queues(version)
    BY <1>4, QueueEmptied DEF IInv, delete_all_lsu
  <2> QED BY <1>2, <1>4, <2>1 DEF IInv, delete_all_lsu
<1>5. ASSUME NEW l \in Links, Lose(l) PROVE IInv'
  <2>1. wire' \in Queues(version)
    BY <1>5, QueueHead DEF IInv, Lose
  <2> QED BY <1>2, <1>5, <2>1 DEF IInv, Lose
<1>6. ASSUME NEW r \in Routers, Restart(r) PROVE IInv'
  <2>1. buffer' \in Queues(version)
    <3>1. <<>> \in Seq(Lsu(version))
      OBVIOUS
    <3> QED BY <1>6, <3>1 DEF IInv, Restart, Queues
  <2>2. seqSent' \in 0 .. SeqSpace - 1
    BY <1>6, FloodAssumption DEF IInv, Restart
  <2>3. db' \in [Others -> [seq : 0 .. SeqSpace - 1, v : -1 .. MaxVersion]]
    BY <1>1, <1>6 DEF IInv, Restart
  <2> QED BY <1>2, <1>6, <2>1, <2>2, <2>3 DEF IInv, Restart
<1>7. ASSUME NEW r \in Others, check_top_invalid(r) PROVE IInv'
  <2>1. db' \in [Others -> [seq : 0 .. SeqSpace - 1, v : -1 .. MaxVersion]]
    BY <1>1, <1>7 DEF IInv, check_top_invalid
  <2> QED BY <1>2, <1>7, <2>1 DEF IInv, check_top_invalid
<1> QED BY <1>3, <1>4, <1>5, <1>6, <1>7 DEF Environment

\* The invariant holds in every behaviour.
LEMMA Inductive == Spec => []IInv
<1>1. Init => IInv
  <2> SUFFICES ASSUME Init PROVE IInv
    OBVIOUS
  <2>1. wire \in Queues(version) /\ buffer \in Queues(version)
    <3>1. <<>> \in Seq(Lsu(version))
      OBVIOUS
    <3> QED BY <3>1 DEF Init, Queues
  <2>2. Unknown \in [seq : 0 .. SeqSpace - 1, v : -1 .. MaxVersion]
    BY FloodAssumption DEF Unknown
  <2>3. version \in 0 .. MaxVersion /\ seqSent \in 0 .. SeqSpace - 1 /\ faults \in 0 .. MaxFaults
    BY FloodAssumption DEF Init
  <2> QED BY <2>1, <2>2, <2>3 DEF Init, IInv
<1>2. IInv /\ [Next]_vars => IInv'
  <2> SUFFICES ASSUME IInv, [Next]_vars PROVE IInv'
    OBVIOUS
  <2>1. CASE send_lsu
    BY <2>1, SendLsuKeeps
  <2>2. ASSUME NEW l \in Links, handle_lsu(l) PROVE IInv'
    BY <2>2, HandleLsuKeeps
  <2>3. ASSUME NEW l \in Links, send_all_lsus(l) PROVE IInv'
    BY <2>3, SendAllKeeps
  <2>4. CASE Environment
    BY <2>4, EnvironmentKeeps
  <2>5. CASE UNCHANGED vars
    BY <2>5 DEF vars, IInv
  <2> QED BY <2>1, <2>2, <2>3, <2>4, <2>5 DEF Next
<1> QED BY <1>1, <1>2, PTL DEF Spec

\* In every network, whatever is lost, restarted or sent late, each copy under way
\* has a TTL between 1 and INIT_TTL, so that forward_lsu never wraps it
\* (lsu.c:109-124), and lists links the origin has had.
THEOREM TypeCorrect == Spec => []TypeOK
<1>1. IInv => TypeOK
  <2> SUFFICES ASSUME IInv PROVE TypeOK
    OBVIOUS
  <2>1. \A l \in Links : /\ Range(wire[l]) \subseteq Lsu(version)
                         /\ Range(buffer[l]) \subseteq Lsu(version)
    <3> TAKE l \in Links
    <3>1. wire[l] \in Seq(Lsu(version)) /\ buffer[l] \in Seq(Lsu(version))
      BY DEF IInv, Queues
    <3> QED BY <3>1 DEF Range
  <2>2. Copies \subseteq Lsu(version)
    BY <2>1, Zenon DEF Copies
  <2>3. DOMAIN wire = Links /\ DOMAIN buffer = Links
    BY DEF IInv, Queues
  <2> QED BY <2>2, <2>3 DEF IInv, TypeOK, Lsu
<1> QED BY <1>1, Inductive, PTL
=============================================================================
