------------------------------- MODULE Flood --------------------------------
(***************************************************************************)
(* How the LSUs of one router, the origin, spread over a network whose     *)
(* routers all run this program: send_lsu, handle_lsu and forward_lsu      *)
(* (lsu.c), and the LSUs that wait for an ARP reply (lsu_buf.c, arpq.c).   *)
(* Module Pwospf has the steps of one router; here handle_lsu is one step, *)
(* and what the advertisements of an LSU leave in the database is the      *)
(* version of the origin's links they list.                                *)
(*                                                                         *)
(* Links are first in, first out, and may lose a packet.  The environment  *)
(* (losses, unanswered ARP requests, restarts, routers that time out) has  *)
(* a budget; changes of the origin's links have a bound.                   *)
(***************************************************************************)
EXTENDS Integers, Sequences, SequencesExt, FiniteSetsExt

CONSTANTS Routers, Origin,
          Links,        \* the pairs <<a, b>>: b is on a neighbor list of a
          SlowLinks,    \* those whose ARP cache entry may expire
          InitTtl,      \* INIT_TTL
          SeqSpace,     \* sequence numbers are counted modulo SeqSpace
          MaxVersion,   \* bound: the changes of the origin's links
          MaxFaults,    \* bound: the faults of the environment
          MaxInFlight   \* bound: copies under way when the origin sends again

Others == Routers \ {Origin}

ASSUME FloodAssumption ==
    /\ Origin \in Routers
    /\ Links \subseteq Routers \X Routers /\ SlowLinks \subseteq Links
    /\ \A l \in Links : l[1] # l[2] /\ <<l[2], l[1]>> \in Links
    /\ InitTtl \in 1 .. 255 /\ SeqSpace \in Nat \ {0, 1}
    /\ MaxVersion \in Nat /\ MaxFaults \in Nat /\ MaxInFlight \in Nat

VARIABLES version,  \* of the origin's links
          seqSent,  \* its last_seq_sent
          db,       \* db[r]: what r knows of the origin: last_seq, version
          wire,     \* wire[l]: the LSUs on link l, oldest first
          buffer,   \* buffer[l]: lsu_buf of l's end: the newest first
          faults    \* how many there have been

vars == <<version, seqSent, db, wire, buffer, faults>>

\* get_sequence returns 0 for a router that is not in the database.
Unknown == [seq |-> 0, v |-> -1]

Init ==
    /\ version = 0
    /\ seqSent = 0
    /\ db = [r \in Others |-> Unknown]
    /\ wire = [l \in Links |-> <<>>]
    /\ buffer = [l \in Links |-> <<>>]
    /\ faults = 0

InFlight == MapThenSumSet(LAMBDA l : Len(wire[l]) + Len(buffer[l]), Links)

(***************************************************************************)
(* A copy for each of the links: on the wire if the ARP cache has the      *)
(* neighbor, and else in front of the buffer.                              *)
(***************************************************************************)
Send(links, m, w) ==
    \E late \in SUBSET (links \cap SlowLinks) :
        /\ wire' = [l \in Links |-> IF l \in links \ late THEN Append(w[l], m) ELSE w[l]]
        /\ buffer' = [l \in Links |-> IF l \in late THEN <<m>> \o buffer[l] ELSE buffer[l]]

NextSeq(seq) == (seq + 1) % SeqSpace

send_lsu ==
    LET seq == NextSeq(seqSent)
    IN  /\ InFlight <= MaxInFlight
        /\ seqSent' = seq
        /\ Send({l \in Links : l[1] = Origin},
                [seq |-> seq, v |-> version, ttl |-> InitTtl], wire)
        /\ UNCHANGED <<version, db, faults>>

\* Changes of Forwarded: the TTL stays as it is; a TTL of 0 is still sent.
ForwardedForeverBug(m) == {m}
ForwardedAtZeroBug(m) == {[m EXCEPT !.ttl = @ - 1]}

\* forward_lsu: the copy that goes on, if any.
Forwarded(m) == {c \in {[m EXCEPT !.ttl = @ - 1]} : c.ttl > 0}

\* The origin drops its own LSU, and a router only one with the number it has.
Dropped(r, m) == r = Origin \/ (r # Origin /\ db[r].seq = m.seq)

\* handle_lsu: the next LSU on l.
handle_lsu(l) ==
    LET r == l[2]
        m == Head(wire[l])
        rest == [wire EXCEPT ![l] = Tail(@)]
    IN  /\ wire[l] # <<>>
        /\ \/ /\ Dropped(r, m)
              /\ wire' = rest
              /\ UNCHANGED <<db, buffer>>
           \/ /\ ~Dropped(r, m)
              /\ db' = [db EXCEPT ![r] = [seq |-> m.seq, v |-> m.v]]
              /\ \/ /\ Forwarded(m) = {}
                    /\ wire' = rest
                    /\ UNCHANGED buffer
                 \/ \E c \in Forwarded(m) :
                        Send({k \in Links : k[1] = r /\ k[2] # l[1]}, c, rest)
        /\ UNCHANGED <<version, seqSent, faults>>

\* The ARP reply came: the buffer is sent from its front.
send_all_lsus(l) ==
    /\ buffer[l] # <<>>
    /\ wire' = [wire EXCEPT ![l] = @ \o buffer[l]]
    /\ buffer' = [buffer EXCEPT ![l] = <<>>]
    /\ UNCHANGED <<version, seqSent, db, faults>>

(***************************************************************************)
(* The environment.                                                        *)
(***************************************************************************)
\* An interface of the origin changes, or a neighbor of it.
Change ==
    /\ version < MaxVersion
    /\ version' = version + 1
    /\ UNCHANGED <<seqSent, db, wire, buffer, faults>>

Fault ==
    /\ faults < MaxFaults
    /\ faults' = faults + 1

\* No ARP reply came.
delete_all_lsu(l) ==
    /\ Fault /\ buffer[l] # <<>>
    /\ buffer' = [buffer EXCEPT ![l] = <<>>]
    /\ UNCHANGED <<version, seqSent, db, wire>>

Lose(l) ==
    /\ Fault /\ wire[l] # <<>>
    /\ wire' = [wire EXCEPT ![l] = Tail(@)]
    /\ UNCHANGED <<version, seqSent, db, buffer>>

\* Nothing is kept on disk.
Restart(r) ==
    /\ Fault
    /\ buffer' = [l \in Links |-> IF l[1] = r THEN <<>> ELSE buffer[l]]
    /\ seqSent' = IF r = Origin THEN 0 ELSE seqSent
    /\ db' = [q \in Others |-> IF q = r THEN Unknown ELSE db[q]]
    /\ UNCHANGED <<version, wire>>

\* The origin was silent for too long.
check_top_invalid(r) ==
    /\ Fault /\ db[r] # Unknown
    /\ db' = [db EXCEPT ![r] = Unknown]
    /\ UNCHANGED <<version, seqSent, wire, buffer>>

Environment ==
    \/ Change
    \/ \E l \in Links : delete_all_lsu(l) \/ Lose(l)
    \/ \E r \in Routers : Restart(r)
    \/ \E r \in Others : check_top_invalid(r)

Next ==
    \/ send_lsu
    \/ \E l \in Links : handle_lsu(l) \/ send_all_lsus(l)
    \/ Environment

\* The pwospf thread of the origin sends again and again, every main thread
\* reads on, and every ARP thread ends.
Fairness ==
    /\ WF_vars(send_lsu)
    /\ \A l \in Links : WF_vars(handle_lsu(l)) /\ WF_vars(send_all_lsus(l))

Spec == Init /\ [][Next]_vars
FairSpec == Spec /\ Fairness

(***************************************************************************)
(* Properties.                                                             *)
(***************************************************************************)
Copies == UNION {Range(wire[l]) \cup Range(buffer[l]) : l \in Links}

\* A copy under way still has a TTL: forward_lsu, which takes one off an unsigned
\* byte before it looks, never lets it wrap (lsu.c:109-124).
TypeOK ==
    /\ version \in 0 .. MaxVersion
    /\ seqSent \in 0 .. SeqSpace - 1
    /\ db \in [Others -> [seq : 0 .. SeqSpace - 1, v : -1 .. MaxVersion]]
    /\ Copies \subseteq [seq : 0 .. SeqSpace - 1, v : 0 .. version, ttl : 1 .. InitTtl]
    /\ DOMAIN wire = Links /\ DOMAIN buffer = Links
    /\ faults \in 0 .. MaxFaults

\* Once the links of the origin stay as they are and the faults are over, every
\* router comes to hold the newest version and keeps it, and no older copy is left
\* to replace it: although only an equal number is refused, so that an older LSU
\* replaces a newer one and is forwarded again (lsu.c:45), although lsu_buf turns
\* the order around (lsu_buf.c:43-46), and although a restarted origin reuses
\* numbers.
Converges ==
    <>[](/\ \A r \in Others : db[r].v = version
         /\ \A m \in Copies : m.v = version)
=============================================================================
