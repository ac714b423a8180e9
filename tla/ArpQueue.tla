------------------------------ MODULE ArpQueue ------------------------------
(***************************************************************************)
(* Address resolution: the ARP cache (arp.c), the entries that hold the    *)
(* packets waiting for a next hop's MAC address (arpq.c, buffer.c,         *)
(* lsu_buf.c), and the threads that share them under cache_lock and        *)
(* arp_q_lock:                                                             *)
(*   - Main handles arriving packets and ARP replies; it sends or queues   *)
(*     data packets, and LSUs it forwards;                                 *)
(*   - Beat, the pwospf thread, sends or queues this router's own LSUs;    *)
(*   - one ARP thread per next hop that is being resolved.                 *)
(* One step is one critical section, or one use of a value that the thread *)
(* carried out of one.  A tick is ARP_REQ_INTERVAL seconds.                *)
(*                                                                         *)
(* A packet is an element of Packets and is sent once.  Its content, and   *)
(* the order inside a buffer, are left out: a buffer is the set of its     *)
(* live nodes, next to a flag for a head pointer to freed nodes.           *)
(***************************************************************************)
EXTENDS Integers, FiniteSets

CONSTANTS Hops,        \* next-hop IP addresses
          Data,        \* packets that are not LSUs
          Lsus,        \* LSU packets
          MaxRequests, \* MAX_ARP_REQUESTS
          CacheLife    \* ARP_TIMEOUT, in ticks

Packets == Data \cup Lsus

ASSUME ArpAssumption ==
    /\ Data \cap Lsus = {}
    /\ MaxRequests \in Nat \ {0}
    /\ CacheLife \in Nat

Main == "main"
Beat == "beat"
Senders == {Main, Beat}

NoEntry == -2          \* no cache entry; -1 is one past its time

VARIABLES
    life,      \* life[h]: ticks the cache entry of h still has, or NoEntry
    pending,   \* the hops that have a struct arpq
    num,       \* num[h]: num_requests, -1 when no thread serves h
    thr,       \* thr[h]: the ARP thread, [pc, i]
    pac, lsu,  \* the packets in pac_buf and lsu_buf
    stale,     \* <<h, "pac">> and <<h, "lsu">>: that head points to freed nodes
    job,       \* job[s]: the packet s carries, its hop, and where s is
    lent,      \* the holders of a mac pointer into a freed cache entry
    fate,      \* fate[p]: where p is, or how it ended
    asked,     \* asked[h]: ARP requests sent since the thread of h started
    misuse     \* freed memory that was used: "mac", "buffer"

vars == <<life, pending, num, thr, pac, lsu, stale, job, lent, fate, asked, misuse>>

cacheVars == <<life, lent>>
queueVars == <<pending, num, pac, lsu, stale>>

NoThread == [pc |-> "none", i |-> 0]
NoJob == [pc |-> "idle"]
Busy == [pc : {"hit", "miss"}, p : Packets, h : Hops]
Adding == [pc : {"add", "recheck"}, h : Hops]

TypeOK ==
    /\ life \in [Hops -> NoEntry .. CacheLife]
    /\ pending \in SUBSET Hops
    /\ num \in [Hops -> -1 .. MaxRequests - 1]
    /\ thr \in [Hops -> [pc : {"none", "start", "sleep", "search", "found",
                               "resend", "final"}, i : 0 .. MaxRequests]]
    /\ pac \in [Hops -> SUBSET Data]
    /\ lsu \in [Hops -> SUBSET Lsus]
    /\ stale \in SUBSET (Hops \X {"pac", "lsu"})
    /\ job \in [Senders -> {NoJob} \cup Busy \cup Adding]
    /\ lent \in SUBSET (Senders \cup Hops)
    /\ fate \in [Packets -> {"new", "carried", "queued", "sent",
                             "unreachable", "deleted", "lost"}]
    /\ asked \in [Hops -> 0 .. MaxRequests]
    /\ misuse \in SUBSET {"mac", "buffer"}

Init ==
    /\ life = [h \in Hops |-> NoEntry]
    /\ pending = {}
    /\ num = [h \in Hops |-> -1]
    /\ thr = [h \in Hops |-> NoThread]
    /\ pac = [h \in Hops |-> {}]
    /\ lsu = [h \in Hops |-> {}]
    /\ stale = {}
    /\ job = [s \in Senders |-> NoJob]
    /\ lent = {}
    /\ fate = [p \in Packets |-> "new"]
    /\ asked = [h \in Hops |-> 0]
    /\ misuse = {}

(***************************************************************************)
(* search_cache: check_cache_invalid frees every entry past its time, and  *)
(* with it the mac another thread may still point to; then the lookup.     *)
(***************************************************************************)
Expired(h) == life[h] = -1

Purge ==
    /\ life' = [h \in Hops |-> IF Expired(h) THEN NoEntry ELSE life[h]]
    /\ lent' = lent \cup {s \in Senders : job[s].pc = "hit" /\ Expired(job[s].h)}
                    \cup {h \in Hops : thr[h].pc = "found" /\ Expired(h)}

Cached(h) == life[h] >= 0

(***************************************************************************)
(* A packet for a next hop: create_eth_hdr, forward_lsu and send_lsu       *)
(* search the cache, then either copy the mac the search returned and send *)
(* or call get_mac_address.  Beat only ever has LSUs, and both hold        *)
(* pwospf_lock while they handle one.                                      *)
(***************************************************************************)
HasLsu(s) == job[s].pc \in {"hit", "miss"} /\ job[s].p \in Lsus

Lookup(s, p, h) ==
    /\ job[s] = NoJob /\ fate[p] = "new"
    /\ s = Beat => p \in Lsus
    /\ p \in Lsus => \A t \in Senders : ~HasLsu(t)
    /\ Purge
    /\ job' = [job EXCEPT ![s] = [pc |-> IF Cached(h) THEN "hit" ELSE "miss",
                                  p |-> p, h |-> h]]
    /\ fate' = [fate EXCEPT ![p] = "carried"]
    /\ UNCHANGED <<queueVars, thr, asked, misuse>>

UseMac(user) ==
    /\ lent' = lent \ {user}
    /\ misuse' = IF user \in lent THEN misuse \cup {"mac"} ELSE misuse

SendDirect(s) ==
    /\ job[s].pc = "hit"
    /\ UseMac(s)
    /\ fate' = [fate EXCEPT ![job[s].p] = "sent"]
    /\ job' = [job EXCEPT ![s] = NoJob]
    /\ UNCHANGED <<life, queueVars, thr, asked>>

(***************************************************************************)
(* get_mac_address, under arp_q_lock: add_to_pack_buff walks the buffer to *)
(* its end, add_to_lsu_buff makes the old head the next of the new node.   *)
(***************************************************************************)
AddToBuffer(p, h) ==
    /\ pac' = [pac EXCEPT ![h] = @ \cup ({p} \cap Data)]
    /\ lsu' = [lsu EXCEPT ![h] = @ \cup ({p} \cap Lsus)]
    /\ misuse' = IF <<h, IF p \in Data THEN "pac" ELSE "lsu">> \in stale
                 THEN misuse \cup {"buffer"} ELSE misuse
    /\ fate' = [fate EXCEPT ![p] = "queued"]

Enqueue(s) ==
    LET h == job[s].h
    IN  /\ job[s].pc = "miss"
        /\ h \in pending /\ num[h] >= 0
        /\ AddToBuffer(job[s].p, h)
        /\ job' = [job EXCEPT ![s] = NoJob]
        /\ UNCHANGED <<cacheVars, pending, num, stale, thr, asked>>

\* The entry is new, or its last thread ended: a thread starts for it.
Resolve(s) ==
    LET h == job[s].h
    IN  /\ job[s].pc = "miss"
        /\ h \notin pending \/ num[h] < 0
        /\ AddToBuffer(job[s].p, h)
        /\ pending' = pending \cup {h}
        /\ num' = [num EXCEPT ![h] = 0]
        /\ thr' = [thr EXCEPT ![h] = [pc |-> "start", i |-> 0]]
        /\ asked' = [asked EXCEPT ![h] = 0]
        /\ job' = [job EXCEPT ![s] = NoJob]
        /\ UNCHANGED <<cacheVars, stale>>

(***************************************************************************)
(* arp_req_init, the thread of next hop h.                                 *)
(***************************************************************************)
FirstRequest(h) ==
    /\ thr[h].pc = "start"
    /\ asked' = [asked EXCEPT ![h] = 1]
    /\ thr' = [thr EXCEPT ![h].pc = "sleep"]
    /\ UNCHANGED <<cacheVars, queueVars, job, fate, misuse>>

SearchCache(h) ==
    /\ thr[h].pc = "search"
    /\ Purge
    /\ thr' = [thr EXCEPT ![h].pc = IF Cached(h) THEN "found" ELSE "resend"]
    /\ UNCHANGED <<queueVars, job, fate, asked, misuse>>

\* A change of SendAll: only send_all_packs is called.
SendAllBug(h) ==
    /\ thr[h].pc = "found"
    /\ UseMac(h)
    /\ fate' = [p \in Packets |-> IF p \in pac[h] THEN "sent" ELSE fate[p]]
    /\ stale' = stale \cup (IF pac[h] # {} THEN {<<h, "pac">>} ELSE {})
    /\ pac' = [pac EXCEPT ![h] = {}]
    /\ thr' = [thr EXCEPT ![h] = [pc |-> "final", i |-> 0]]
    /\ UNCHANGED <<life, pending, num, lsu, job, asked>>

\* send_all_packs and send_all_lsus free the nodes; the entry's heads stay.
SendAll(h) ==
    /\ thr[h].pc = "found"
    /\ UseMac(h)
    /\ fate' = [p \in Packets |-> IF p \in pac[h] \cup lsu[h] THEN "sent" ELSE fate[p]]
    /\ stale' = stale \cup (IF pac[h] # {} THEN {<<h, "pac">>} ELSE {})
                      \cup (IF lsu[h] # {} THEN {<<h, "lsu">>} ELSE {})
    /\ pac' = [pac EXCEPT ![h] = {}]
    /\ lsu' = [lsu EXCEPT ![h] = {}]
    /\ thr' = [thr EXCEPT ![h] = [pc |-> "final", i |-> 0]]
    /\ UNCHANGED <<life, pending, num, job, asked>>

Resend(h) ==
    /\ thr[h].pc = "resend"
    /\ asked' = [asked EXCEPT ![h] = @ + 1]
    /\ num' = [num EXCEPT ![h] = @ + 1]
    /\ thr' = [thr EXCEPT ![h].pc = "sleep"]
    /\ UNCHANGED <<cacheVars, pending, pac, lsu, stale, job, fate, misuse>>

\* Changes of Finish: num_requests stays, and the heads stay.
FinishNumBug(h) ==
    LET unanswered == thr[h].i > 0
    IN  /\ thr[h].pc = "final"
        /\ fate' = [p \in Packets |->
                       IF p \notin pac[h] \cup lsu[h] THEN fate[p]
                       ELSE IF ~unanswered THEN "lost"
                       ELSE IF p \in Data THEN "unreachable" ELSE "deleted"]
        /\ pac' = [pac EXCEPT ![h] = {}]
        /\ lsu' = [lsu EXCEPT ![h] = {}]
        /\ stale' = stale \ {<<h, "pac">>, <<h, "lsu">>}
        /\ thr' = [thr EXCEPT ![h] = NoThread]
        /\ UNCHANGED <<cacheVars, pending, num, job, asked, misuse>>

FinishHeadsBug(h) ==
    /\ thr[h].pc = "final"
    /\ fate' = [p \in Packets |->
                   IF p \notin pac[h] \cup lsu[h] \/ thr[h].i = 0 THEN fate[p]
                   ELSE IF p \in Data THEN "unreachable" ELSE "deleted"]
    /\ num' = [num EXCEPT ![h] = -1]
    /\ thr' = [thr EXCEPT ![h] = NoThread]
    /\ UNCHANGED <<cacheVars, pending, pac, lsu, stale, job, asked, misuse>>

\* i > 0: the loop ended without an answer; otherwise SendAll ran.
Finish(h) ==
    LET unanswered == thr[h].i > 0
    IN  /\ thr[h].pc = "final"
        /\ fate' = [p \in Packets |->
                       IF p \notin pac[h] \cup lsu[h] THEN fate[p]
                       ELSE IF ~unanswered THEN "lost"
                       ELSE IF p \in Data THEN "unreachable" ELSE "deleted"]
        /\ num' = [num EXCEPT ![h] = -1]
        /\ pac' = [pac EXCEPT ![h] = {}]
        /\ lsu' = [lsu EXCEPT ![h] = {}]
        /\ stale' = stale \ {<<h, "pac">>, <<h, "lsu">>}
        /\ thr' = [thr EXCEPT ![h] = NoThread]
        /\ UNCHANGED <<cacheVars, pending, job, asked, misuse>>

(***************************************************************************)
(* handle_ARP on a reply, in Main: add_cache_entry searches the cache and, *)
(* if the address is not there, adds it in a second critical section;      *)
(* got_Reply searches again.  Nobody else adds, so no address is there     *)
(* twice.  A cached address is not refreshed.                              *)
(***************************************************************************)
ReplyArrives(h) ==
    /\ job[Main] = NoJob
    /\ Purge
    /\ job' = [job EXCEPT ![Main] = [pc |-> IF Cached(h) THEN "recheck" ELSE "add",
                                     h |-> h]]
    /\ UNCHANGED <<queueVars, thr, fate, asked, misuse>>

AddCacheEntry ==
    /\ job[Main].pc = "add"
    /\ life' = [life EXCEPT ![job[Main].h] = CacheLife]
    /\ job' = [job EXCEPT ![Main].pc = "recheck"]
    /\ UNCHANGED <<lent, queueVars, thr, fate, asked, misuse>>

Recheck ==
    /\ job[Main].pc = "recheck"
    /\ Purge
    /\ job' = [job EXCEPT ![Main] = NoJob]
    /\ UNCHANGED <<queueVars, thr, fate, asked, misuse>>

(***************************************************************************)
(* Time: cache entries age, and a sleeping thread wakes and is at the head *)
(* of its loop, or past it after MaxRequests - 1 rounds.                   *)
(***************************************************************************)
\* A change of Awake: the loop runs for i <= MAX_ARP_REQUESTS.
AwakeBug(t) ==
    IF t.pc # "sleep" THEN t
    ELSE [pc |-> IF t.i + 1 <= MaxRequests THEN "search" ELSE "final", i |-> t.i + 1]

Awake(t) ==
    IF t.pc # "sleep" THEN t
    ELSE [pc |-> IF t.i + 1 < MaxRequests THEN "search" ELSE "final", i |-> t.i + 1]

Tick ==
    /\ life' = [h \in Hops |-> IF life[h] >= 0 THEN life[h] - 1 ELSE life[h]]
    /\ thr' = [h \in Hops |-> Awake(thr[h])]
    /\ UNCHANGED <<lent, queueVars, job, fate, asked, misuse>>

SenderStep(s) == SendDirect(s) \/ Enqueue(s) \/ Resolve(s)

ReplyStep == AddCacheEntry \/ Recheck

ThreadStep(h) ==
    FirstRequest(h) \/ SearchCache(h) \/ SendAll(h) \/ Resend(h) \/ Finish(h)

Next ==
    \/ \E s \in Senders, p \in Packets, h \in Hops : Lookup(s, p, h)
    \/ \E s \in Senders : SenderStep(s)
    \/ \E h \in Hops : ThreadStep(h) \/ ReplyArrives(h)
    \/ ReplyStep
    \/ Tick

(***************************************************************************)
(* Every thread that can move does, and time passes.  Nobody has to send a *)
(* packet and no reply has to come.                                        *)
(***************************************************************************)
Fairness ==
    /\ \A s \in Senders : WF_vars(SenderStep(s))
    /\ \A h \in Hops : WF_vars(ThreadStep(h))
    /\ WF_vars(ReplyStep)
    /\ WF_vars(Tick)

Spec == Init /\ [][Next]_vars
FairSpec == Spec /\ Fairness

(***************************************************************************)
(* Safety.                                                                 *)
(***************************************************************************)
Running(h) == thr[h].pc # "none"
Waiting(h) == pac[h] \cup lsu[h]

NumOf(h) ==
    /\ num[h] >= 0 <=> Running(h)
    /\ Running(h) => h \in pending
    /\ thr[h].pc = "sleep" => thr[h].i = num[h] /\ asked[h] = num[h] + 1
    /\ thr[h].pc \in {"search", "found", "resend"} =>
           thr[h].i = num[h] + 1 /\ asked[h] = thr[h].i

\* num_requests tells get_mac_address whether a thread serves the entry
\* (arpq.c:37): it must never say so of an entry whose thread is over, or the
\* packets queued there wait for ever, nor deny it of one with a thread, or a
\* second thread frees the same nodes.  It counts the requests after the first,
\* so it also says how far the thread is.
NumMatchesThread == \A h \in Hops : NumOf(h)

\* A packet the subsystem keeps is in the buffer of exactly one next hop, and
\* that next hop has a thread: nothing is sent twice, and nothing is left behind
\* by the thread that empties the buffers (arpq.c:164-175).
QueuedIsOwned ==
    /\ \A h \in Hops : \A p \in Waiting(h) : fate[p] = "queued" /\ Running(h)
    /\ \A p \in Packets : fate[p] = "queued" => \E h \in Hops : p \in Waiting(h)
    /\ \A g, h \in Hops : g # h => Waiting(g) \cap Waiting(h) = {}

\* The heads of an entry point to freed nodes only between the two critical
\* sections of a thread that got its answer (arpq.c:152 and 164): a new thread
\* never starts with them.
StaleOnlyBeforeFinish ==
    \A h \in Hops : <<h, "pac">> \in stale \/ <<h, "lsu">> \in stale =>
        thr[h].pc = "final" /\ thr[h].i = 0

\* A host is reported unreachable, and an LSU is deleted, only after all
\* MAX_ARP_REQUESTS requests were sent and each had its interval (arpq.c:139,
\* 167-171).
GiveUpAfterAllRequests ==
    [][\A p \in Packets :
           fate[p] = "queued" /\ fate'[p] \in {"unreachable", "deleted"} =>
               \E h \in Hops : /\ p \in Waiting(h)
                               /\ asked[h] = MaxRequests
                               /\ num[h] = MaxRequests - 1]_vars

\* The subsystem implements Delivery: whatever the threads interleave, a packet
\* ends once, and what waits for a next hop ends together.
Promise == INSTANCE Delivery WITH waiting <- [h \in Hops |-> Waiting(h)]

ImplementsDelivery == Promise!Spec

(***************************************************************************)
(* Liveness.                                                               *)
(***************************************************************************)
\* Every packet taken ends, whether or not a reply comes, and although others
\* are queued at the same entry all the time: its thread sends it, or gives up
\* after MAX_ARP_REQUESTS intervals (arpq.c:131-178).
EveryPacketEnds ==
    \A p \in Packets :
        fate[p] \in {"carried", "queued"} ~> fate[p] \notin {"carried", "queued"}

(***************************************************************************)
(* Statements of the documentation that the code does not keep.            *)
(***************************************************************************)
\* README:30-31: "If the entry is in the cache, all of the packets in both
\* buffers are sent, the thread is terminated".  A packet queued between the
\* two (arpq.c:152-164) is dropped.
NothingLost == \A p \in Packets : fate[p] # "lost"

\* README:31-32: "If 5 requests are sent with no reply received, a ICMP Host
\* Unreachable is sent".  After the last interval the cache is not searched.
UnreachableMeansNoReply ==
    [][\A h \in Hops, p \in Data :
           p \in pac[h] /\ fate[p] = "queued" /\ fate'[p] = "unreachable" => ~Cached(h)]_vars

\* buffer.c:100: "Sends all packets in buff and then empties buff and sets equal
\* to NULL".  Only the parameter is set: add_to_pack_buff may walk freed nodes.
NoFreedBuffer == "buffer" \notin misuse

\* README:58-59: "This thread accesses some global resources that the
\* handle_packet thread accesses as well, and so we use mutexes to protect and
\* serialize access".  The mac that search_cache returns points into an entry
\* that the next search of another thread may free.
NoFreedMac == "mac" \notin misuse
=============================================================================
