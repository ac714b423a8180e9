--------------------------- MODULE ArpQueueProofs ---------------------------
(***************************************************************************)
(* Proofs about ArpQueue, for any next hops, packets, MAX_ARP_REQUESTS and *)
(* ARP_TIMEOUT.                                                            *)
(*                                                                         *)
(* The safety properties of ArpQueue are not inductive one by one.  What a *)
(* thread may still send depends on how far it is (ThreadProgress), and a  *)
(* queued packet is in one buffer only because each sender carries a       *)
(* packet of its own that is in none (JobsOwnPackets).                     *)
(***************************************************************************)
EXTENDS ArpQueue, TLAPS

\* The loop of arp_req_init counts as many rounds as it sent requests; past the
\* loop i is 0 after an answer and MAX_ARP_REQUESTS without one.
ProgressOf(h) ==
    /\ thr[h].pc = "start" => thr[h].i = 0 /\ num[h] = 0 /\ asked[h] = 0
    /\ thr[h].pc \in {"sleep", "search", "found", "resend"} => thr[h].i < MaxRequests
    /\ thr[h].pc \in {"search", "found", "resend"} => thr[h].i > 0
    /\ thr[h].pc = "final" =>
           \/ thr[h].i = 0
           \/ /\ thr[h].i = MaxRequests
              /\ asked[h] = MaxRequests
              /\ num[h] = MaxRequests - 1

ThreadProgress == \A h \in Hops : ProgressOf(h)

Carries(s) == job[s].pc \in {"hit", "miss"}

\* A packet a sender carries is in no buffer, and no other sender carries it.
JobsOwnPackets ==
    /\ \A s \in Senders : Carries(s) => fate[job[s].p] = "carried"
    /\ \A s, t \in Senders :
           s # t /\ Carries(s) /\ Carries(t) => job[s].p # job[t].p

ThreadInv == TypeOK /\ NumMatchesThread /\ ThreadProgress

\* ThreadInv holds at the start.
LEMMA InitThreadInv == Init => ThreadInv
  BY ArpAssumption DEF Init, ThreadInv, TypeOK, NumMatchesThread, ThreadProgress,
     NumOf, ProgressOf, Running, NoThread, NoEntry, Packets, Senders

\* What every search of the cache keeps.
LEMMA PurgeTypes ==
  ASSUME TypeOK, Purge
  PROVE  /\ life' \in [Hops -> NoEntry .. CacheLife]
         /\ lent' \in SUBSET (Senders \cup Hops)
  BY ArpAssumption DEF TypeOK, Purge, NoEntry, Expired

\* The steps of Main and Beat other than Resolve touch no thread.
LEMMA SameThreads ==
  ASSUME NumMatchesThread, ThreadProgress, UNCHANGED <<pending, num, thr, asked>>
  PROVE  NumMatchesThread' /\ ThreadProgress'
  BY DEF NumMatchesThread, ThreadProgress, NumOf, ProgressOf, Running

\* Whatever packet get_mac_address adds, the buffers keep their types.
LEMMA AddTypes ==
  ASSUME TypeOK, NEW p \in Packets, NEW h \in Hops, AddToBuffer(p, h)
  PROVE  /\ pac' \in [Hops -> SUBSET Data]
         /\ lsu' \in [Hops -> SUBSET Lsus]
         /\ fate' \in [Packets -> {"new", "carried", "queued", "sent",
                                   "unreachable", "deleted", "lost"}]
         /\ misuse' \in SUBSET {"mac", "buffer"}
  BY DEF TypeOK, AddToBuffer

\* A sender with a packet has a packet and a hop; one adding has a hop.
LEMMA JobShape ==
  ASSUME TypeOK, NEW s \in Senders
  PROVE  /\ job[s] = NoJob \/ job[s] \in Busy \/ job[s] \in Adding
         /\ Carries(s) => job[s] \in Busy /\ job[s].p \in Packets /\ job[s].h \in Hops
         /\ job[s].pc \in {"add", "recheck"} => job[s] \in Adding /\ job[s].h \in Hops
<1>1. job[s] = NoJob \/ job[s] \in Busy \/ job[s] \in Adding
  BY DEF TypeOK
<1>2. CASE job[s] = NoJob
  BY <1>2 DEF NoJob, Carries
<1>3. CASE job[s] \in Busy
  BY <1>3 DEF Busy, Carries
<1>4. CASE job[s] \in Adding
  BY <1>4 DEF Adding, Carries
<1> QED
  BY <1>1, <1>2, <1>3, <1>4

\* A finished job leaves a typed job.
LEMMA JobEnds ==
  ASSUME TypeOK, NEW s \in Senders, job' = [job EXCEPT ![s] = NoJob]
  PROVE  job' \in [Senders -> {NoJob} \cup Busy \cup Adding]
  BY DEF TypeOK

\* A sender's cache search leaves every thread and its counters alone.
LEMMA LookupThreadInv ==
  ASSUME ThreadInv, NEW s \in Senders, NEW p \in Packets, NEW h \in Hops, Lookup(s, p, h)
  PROVE  ThreadInv'
<1>1. job' \in [Senders -> {NoJob} \cup Busy \cup Adding]
  <2>1. [pc |-> IF Cached(h) THEN "hit" ELSE "miss", p |-> p, h |-> h] \in Busy
    BY DEF Busy
  <2> QED
    BY <2>1 DEF ThreadInv, TypeOK, Lookup
<1>2. fate' \in [Packets -> {"new", "carried", "queued", "sent",
                             "unreachable", "deleted", "lost"}]
  BY DEF ThreadInv, TypeOK, Lookup
<1>3. UNCHANGED <<pending, num, thr, pac, lsu, stale, asked, misuse>> /\ Purge
  BY DEF Lookup, queueVars
<1> QED
  BY <1>1, <1>2, <1>3, PurgeTypes, SameThreads DEF ThreadInv, TypeOK

\* get_mac_address starts a thread only where none runs, with its counters at 0.
LEMMA SenderThreadInv ==
  ASSUME ThreadInv, NEW s \in Senders, SenderStep(s)
  PROVE  ThreadInv'
<1> DEFINE h == job[s].h
<1> USE DEF ThreadInv
<1>1. CASE SendDirect(s)
  <2>1. job[s].p \in Packets
    BY <1>1, JobShape DEF SendDirect, Carries
  <2>2. UNCHANGED <<life, pending, num, thr, pac, lsu, stale, asked>>
    BY <1>1 DEF SendDirect, queueVars
  <2>3. /\ lent' \in SUBSET (Senders \cup Hops)
        /\ misuse' \in SUBSET {"mac", "buffer"}
        /\ fate' \in [Packets -> {"new", "carried", "queued", "sent",
                                  "unreachable", "deleted", "lost"}]
    BY <1>1, <2>1 DEF SendDirect, UseMac, TypeOK
  <2> QED
    BY <1>1, <2>2, <2>3, JobEnds, SameThreads DEF SendDirect, TypeOK
<1>2. CASE Enqueue(s)
  <2>1. h \in Hops /\ job[s].p \in Packets
    BY <1>2, JobShape DEF Enqueue, Carries
  <2>2. UNCHANGED <<life, lent, pending, num, stale, thr, asked>>
    BY <1>2 DEF Enqueue, cacheVars
  <2> QED
    BY <1>2, <2>1, <2>2, AddTypes, JobEnds, SameThreads DEF Enqueue, TypeOK
<1>3. CASE Resolve(s)
  <2>1. h \in Hops /\ job[s].p \in Packets
    BY <1>3, JobShape DEF Resolve, Carries
  <2>2. /\ UNCHANGED <<life, lent, stale>>
        /\ pending' = pending \cup {h}
        /\ num' = [num EXCEPT ![h] = 0]
        /\ thr' = [thr EXCEPT ![h] = [pc |-> "start", i |-> 0]]
        /\ asked' = [asked EXCEPT ![h] = 0]
    BY <1>3 DEF Resolve, cacheVars
  <2>3. TypeOK'
    <3>1. num' \in [Hops -> -1 .. MaxRequests - 1] /\ asked' \in [Hops -> 0 .. MaxRequests]
      BY <2>1, <2>2, ArpAssumption DEF TypeOK
    <3>2. thr' \in [Hops -> [pc : {"none", "start", "sleep", "search", "found",
                                   "resend", "final"}, i : 0 .. MaxRequests]]
      BY <2>1, <2>2, ArpAssumption DEF TypeOK
    <3> QED
      BY <1>3, <2>1, <2>2, <3>1, <3>2, AddTypes, JobEnds DEF Resolve, TypeOK
  <2>4. NumMatchesThread' /\ ThreadProgress'
    BY <2>1, <2>2 DEF TypeOK, NumMatchesThread, ThreadProgress, NumOf, ProgressOf, Running
  <2> QED
    BY <2>3, <2>4
<1> QED
  BY <1>1, <1>2, <1>3 DEF SenderStep

\* An ARP reply touches the cache and the main thread only.
LEMMA ReplyThreadInv ==
  ASSUME ThreadInv, ReplyStep \/ \E h \in Hops : ReplyArrives(h)
  PROVE  ThreadInv'
<1> USE DEF ThreadInv
<1>1. Main \in Senders
  BY DEF Senders
<1>2. UNCHANGED <<pending, num, thr, pac, lsu, stale, fate, asked, misuse>>
  BY DEF ReplyStep, AddCacheEntry, Recheck, ReplyArrives, queueVars
<1>3. /\ life' \in [Hops -> NoEntry .. CacheLife]
      /\ lent' \in SUBSET (Senders \cup Hops)
  <2>1. CASE AddCacheEntry
    <3>1. CacheLife \in NoEntry .. CacheLife
      BY ArpAssumption DEF NoEntry
    <3>2. UNCHANGED lent /\ life' = [life EXCEPT ![job[Main].h] = CacheLife]
      BY <2>1 DEF AddCacheEntry
    <3> QED
      BY <3>1, <3>2 DEF TypeOK
  <2>2. CASE Purge
    BY <2>2, PurgeTypes
  <2> QED
    BY <2>1, <2>2 DEF ReplyStep, Recheck, ReplyArrives
<1>4. job' \in [Senders -> {NoJob} \cup Busy \cup Adding]
  <2>1. CASE AddCacheEntry
    <3>1. job[Main] \in Adding
      BY <1>1, <2>1, JobShape DEF AddCacheEntry
    <3>2. [job[Main] EXCEPT !.pc = "recheck"] \in Adding
      BY <3>1 DEF Adding
    <3> QED
      BY <1>1, <2>1, <3>2 DEF AddCacheEntry, TypeOK
  <2>2. CASE Recheck
    BY <1>1, <2>2, JobEnds DEF Recheck
  <2>3. ASSUME NEW h \in Hops, ReplyArrives(h)
        PROVE  job' \in [Senders -> {NoJob} \cup Busy \cup Adding]
    <3>1. [pc |-> IF Cached(h) THEN "recheck" ELSE "add", h |-> h] \in Adding
      BY DEF Adding
    <3> QED
      BY <1>1, <2>3, <3>1 DEF ReplyArrives, TypeOK
  <2> QED
    BY <2>1, <2>2, <2>3 DEF ReplyStep
<1> QED
  BY <1>2, <1>3, <1>4, SameThreads DEF TypeOK

\* Each step of arp_req_init keeps its counters in step with its position.
LEMMA ThreadThreadInv ==
  ASSUME ThreadInv, NEW h \in Hops, ThreadStep(h)
  PROVE  ThreadInv'
<1> USE ArpAssumption DEF ThreadInv
<1> DEFINE Fates == {"new", "carried", "queued", "sent", "unreachable", "deleted", "lost"}
<1>1. CASE FirstRequest(h)
  <2>1. UNCHANGED <<life, lent, pending, num, pac, lsu, stale, job, fate, misuse>>
    BY <1>1 DEF FirstRequest, cacheVars, queueVars
  <2>2. TypeOK'
    BY <1>1, <2>1 DEF FirstRequest, TypeOK
  <2>3. NumMatchesThread' /\ ThreadProgress'
    BY <1>1, <2>1 DEF FirstRequest, TypeOK, NumMatchesThread, ThreadProgress, NumOf, ProgressOf, Running
  <2> QED
    BY <2>2, <2>3
<1>2. CASE SearchCache(h)
  <2>1. UNCHANGED <<pending, num, pac, lsu, stale, job, fate, asked, misuse>> /\ Purge
    BY <1>2 DEF SearchCache, queueVars
  <2>2. thr' = [thr EXCEPT ![h].pc = IF Cached(h) THEN "found" ELSE "resend"]
    BY <1>2 DEF SearchCache
  <2>3. TypeOK'
    BY <2>1, <2>2, PurgeTypes DEF TypeOK
  <2>4. NumMatchesThread' /\ ThreadProgress'
    BY <1>2, <2>1, <2>2
    DEF SearchCache, TypeOK, NumMatchesThread, ThreadProgress, NumOf, ProgressOf, Running
  <2> QED
    BY <2>3, <2>4
<1>3. CASE SendAll(h)
  <2>1. UNCHANGED <<life, pending, num, job, asked>>
    BY <1>3 DEF SendAll
  <2>2. thr' = [thr EXCEPT ![h] = [pc |-> "final", i |-> 0]]
    BY <1>3 DEF SendAll
  <2>3. TypeOK'
    <3>1. thr' \in [Hops -> [pc : {"none", "start", "sleep", "search", "found",
                                   "resend", "final"}, i : 0 .. MaxRequests]]
      BY <2>2 DEF TypeOK
    <3>2. fate' \in [Packets -> Fates]
      BY <1>3 DEF SendAll, TypeOK
    <3>3. /\ pac' \in [Hops -> SUBSET Data]
          /\ lsu' \in [Hops -> SUBSET Lsus]
          /\ stale' \in SUBSET (Hops \X {"pac", "lsu"})
      BY <1>3 DEF SendAll, TypeOK
    <3>4. lent' \in SUBSET (Senders \cup Hops) /\ misuse' \in SUBSET {"mac", "buffer"}
      BY <1>3 DEF SendAll, UseMac, TypeOK
    <3> QED
      BY <2>1, <3>1, <3>2, <3>3, <3>4 DEF TypeOK
  <2>4. NumMatchesThread' /\ ThreadProgress'
    BY <1>3, <2>1, <2>2
    DEF SendAll, TypeOK, NumMatchesThread, ThreadProgress, NumOf, ProgressOf, Running
  <2> QED
    BY <2>3, <2>4
<1>4. CASE Resend(h)
  <2>1. UNCHANGED <<life, lent, pending, pac, lsu, stale, job, fate, misuse>>
    BY <1>4 DEF Resend, cacheVars
  <2>2. /\ thr[h].pc = "resend"
        /\ asked' = [asked EXCEPT ![h] = @ + 1]
        /\ num' = [num EXCEPT ![h] = @ + 1]
        /\ thr' = [thr EXCEPT ![h].pc = "sleep"]
    BY <1>4 DEF Resend
  <2>3. /\ thr[h].i = num[h] + 1 /\ asked[h] = thr[h].i
        /\ thr[h].i < MaxRequests /\ thr[h].i > 0
        /\ thr[h].i \in Nat
    BY <2>2 DEF NumMatchesThread, ThreadProgress, NumOf, ProgressOf, TypeOK
  <2>4. TypeOK'
    <3>1. num' \in [Hops -> -1 .. MaxRequests - 1] /\ asked' \in [Hops -> 0 .. MaxRequests]
      BY <2>2, <2>3 DEF TypeOK
    <3>2. thr' \in [Hops -> [pc : {"none", "start", "sleep", "search", "found",
                                   "resend", "final"}, i : 0 .. MaxRequests]]
      BY <2>2 DEF TypeOK
    <3> QED
      BY <2>1, <3>1, <3>2 DEF TypeOK
  <2>5. NumMatchesThread' /\ ThreadProgress'
    BY <2>1, <2>2, <2>3 DEF TypeOK, NumMatchesThread, ThreadProgress, NumOf, ProgressOf, Running
  <2> QED
    BY <2>4, <2>5
<1>5. CASE Finish(h)
  <2>1. UNCHANGED <<life, lent, pending, job, asked, misuse>>
    BY <1>5 DEF Finish, cacheVars
  <2>2. num' = [num EXCEPT ![h] = -1] /\ thr' = [thr EXCEPT ![h] = NoThread]
    BY <1>5 DEF Finish
  <2>3. TypeOK'
    <3>1. thr' \in [Hops -> [pc : {"none", "start", "sleep", "search", "found",
                                   "resend", "final"}, i : 0 .. MaxRequests]]
      BY <2>2 DEF TypeOK, NoThread
    <3>2. fate' \in [Packets -> Fates]
      BY <1>5 DEF Finish, TypeOK
    <3>3. /\ pac' \in [Hops -> SUBSET Data]
          /\ lsu' \in [Hops -> SUBSET Lsus]
          /\ stale' \in SUBSET (Hops \X {"pac", "lsu"})
      BY <1>5 DEF Finish, TypeOK
    <3>4. num' \in [Hops -> -1 .. MaxRequests - 1]
      BY <2>2 DEF TypeOK
    <3> QED
      BY <2>1, <3>1, <3>2, <3>3, <3>4 DEF TypeOK
  <2>4. NumMatchesThread' /\ ThreadProgress'
    BY <2>1, <2>2
    DEF TypeOK, NumMatchesThread, ThreadProgress, NumOf, ProgressOf, Running, NoThread
  <2> QED
    BY <2>3, <2>4
<1> QED
  BY <1>1, <1>2, <1>3, <1>4, <1>5 DEF ThreadStep

\* The end of a sleep moves the thread to the head of its loop, or past it.
LEMMA TickThreadInv ==
  ASSUME ThreadInv, Tick
  PROVE  ThreadInv'
<1> DEFINE Threads == [pc : {"none", "start", "sleep", "search", "found",
                             "resend", "final"}, i : 0 .. MaxRequests]
<1> USE ArpAssumption DEF ThreadInv
<1>1. UNCHANGED <<lent, pending, num, pac, lsu, stale, job, fate, asked, misuse>>
  BY DEF Tick, queueVars
<1>2. life' \in [Hops -> NoEntry .. CacheLife]
  BY DEF Tick, TypeOK, NoEntry
<1>3. thr' = [h \in Hops |-> Awake(thr[h])]
  BY DEF Tick
<1>4. ASSUME NEW h \in Hops
      PROVE  thr'[h] \in Threads /\ NumOf(h)' /\ ProgressOf(h)'
  <2>1. thr[h] \in Threads /\ num[h] \in Int /\ asked[h] \in Int
    BY DEF TypeOK
  <2>2. NumOf(h) /\ ProgressOf(h)
    BY DEF NumMatchesThread, ThreadProgress
  <2>3. num'[h] = num[h] /\ asked'[h] = asked[h] /\ pending' = pending
    BY <1>1
  <2>4. thr'[h] = Awake(thr[h])
    BY <1>3
  <2>5. CASE thr[h].pc # "sleep"
    <3>1. thr'[h] = thr[h]
      BY <2>4, <2>5 DEF Awake
    <3> QED
      BY <2>1, <2>2, <2>3, <3>1 DEF NumOf, ProgressOf, Running
  <2>6. CASE thr[h].pc = "sleep"
    <3>1. thr[h].i \in Nat /\ thr[h].i < MaxRequests
      BY <2>1, <2>2, <2>6 DEF ProgressOf
    <3>2. thr[h].i = num[h] /\ asked[h] = num[h] + 1 /\ h \in pending
      BY <2>2, <2>6 DEF NumOf, Running
    <3>3. CASE thr[h].i + 1 < MaxRequests
      <4>1. thr'[h] = [pc |-> "search", i |-> thr[h].i + 1]
        BY <2>4, <2>6, <3>3 DEF Awake
      <4>2. thr'[h].pc = "search" /\ thr'[h].i = thr[h].i + 1 /\ thr'[h] \in Threads
        BY <3>1, <4>1
      <4> QED
        BY <2>3, <3>1, <3>2, <3>3, <4>2 DEF NumOf, ProgressOf, Running
    <3>4. CASE ~(thr[h].i + 1 < MaxRequests)
      <4>1. thr'[h] = [pc |-> "final", i |-> thr[h].i + 1]
        BY <2>4, <2>6, <3>4 DEF Awake
      <4>2. thr[h].i + 1 = MaxRequests
        BY <3>1, <3>4
      <4>3. thr'[h].pc = "final" /\ thr'[h].i = MaxRequests /\ thr'[h] \in Threads
        BY <4>1, <4>2
      <4> QED
        BY <2>3, <3>1, <3>2, <4>2, <4>3 DEF NumOf, ProgressOf, Running
    <3> QED
      BY <3>3, <3>4
  <2> QED
    BY <2>5, <2>6
<1>5. thr' \in [Hops -> Threads]
  BY <1>3, <1>4
<1> QED
  BY <1>1, <1>2, <1>4, <1>5 DEF TypeOK, NumMatchesThread, ThreadProgress

\* The thread part of the invariant is inductive.
LEMMA NextThreadInv == ThreadInv /\ [Next]_vars => ThreadInv'
<1>1. ASSUME ThreadInv, UNCHANGED vars PROVE ThreadInv'
  BY <1>1 DEF vars, ThreadInv, TypeOK, NumMatchesThread, ThreadProgress, NumOf, ProgressOf, Running
<1> QED
  BY <1>1, LookupThreadInv, SenderThreadInv, ReplyThreadInv, ThreadThreadInv,
     TickThreadInv DEF Next

\* The thread part of the invariant always holds.
LEMMA AlwaysThreadInv == Spec => []ThreadInv
  BY InitThreadInv, NextThreadInv, PTL DEF Spec

\* TypeOK for any hops, packets and limits: arp_req_init never counts past
\* MAX_ARP_REQUESTS.
THEOREM TypeCorrect == Spec => []TypeOK
  BY AlwaysThreadInv, PTL DEF ThreadInv

\* NumMatchesThread: num_requests >= 0 exactly while a thread serves the entry
\* (arpq.c:37 against arpq.c:172), whatever get_mac_address interleaves with it.
THEOREM NumMatchesThreadAlways == Spec => []NumMatchesThread
  BY AlwaysThreadInv, PTL DEF ThreadInv

(***************************************************************************)
(* What the queues do to the packets.                                      *)
(***************************************************************************)
QueueInv == JobsOwnPackets /\ QueuedIsOwned

\* A sender's packet waits nowhere: it is carried.
LEMMA CarriedNotQueued ==
  ASSUME QueueInv, NEW s \in Senders, Carries(s)
  PROVE  fate[job[s].p] = "carried" /\ \A h \in Hops : job[s].p \notin Waiting(h)
  BY DEF QueueInv, JobsOwnPackets, QueuedIsOwned

\* Adding a packet to a buffer of h is Delivery's Wait.
LEMMA AddIsWait ==
  ASSUME TypeOK, NEW p \in Packets, NEW h \in Hops, AddToBuffer(p, h), fate[p] = "carried"
  PROVE  Promise!Wait(p, h)
<1>1. fate' = [fate EXCEPT ![p] = "queued"]
  BY DEF AddToBuffer
<1>2. ASSUME NEW g \in Hops
      PROVE  Waiting(g)' = IF g = h THEN Waiting(g) \cup {p} ELSE Waiting(g)
  BY DEF AddToBuffer, TypeOK, Waiting, Packets
<1>3. [g \in Hops |-> Waiting(g)]' =
          [[g \in Hops |-> Waiting(g)] EXCEPT ![h] = @ \cup {p}]
  BY <1>2
<1> QED
  BY <1>1, <1>3 DEF Promise!Wait

\* Emptying the buffers of h is Delivery's End, whatever the packets become.
LEMMA EmptyIsEnd ==
  ASSUME TypeOK, QueueInv, NEW h \in Hops, NEW data, NEW lsus,
         pac' = [pac EXCEPT ![h] = {}],
         lsu' = [lsu EXCEPT ![h] = {}],
         fate' = [p \in Packets |->
                     IF p \notin Waiting(h) THEN fate[p]
                     ELSE IF p \in Data THEN data ELSE lsus]
  PROVE  Promise!End(h, data, lsus)
<1>1. ASSUME NEW g \in Hops
      PROVE  Waiting(g)' = IF g = h THEN {} ELSE Waiting(g)
  BY DEF TypeOK, Waiting
<1>2. [g \in Hops |-> Waiting(g)]' = [[g \in Hops |-> Waiting(g)] EXCEPT ![h] = {}]
  BY <1>1
<1>3. \A p \in Waiting(h) : fate[p] = "queued"
  BY DEF QueueInv, QueuedIsOwned
<1>4. [g \in Hops |-> Waiting(g)][h] = Waiting(h)
  OBVIOUS
<1> QED
  BY <1>2, <1>3, <1>4 DEF Promise!End, Promise!Packets, Packets

\* Every step is a step of Delivery or leaves its variables alone.
LEMMA Simulates ==
  ASSUME ThreadInv, QueueInv, [Next]_vars
  PROVE  [Promise!Next]_(Promise!vars)
<1> USE DEF ThreadInv
<1>1. ASSUME NEW s \in Senders, NEW p \in Packets, NEW h \in Hops, Lookup(s, p, h)
      PROVE  Promise!Take(p)
  BY <1>1 DEF Lookup, queueVars, Promise!Take, Waiting
<1>2. ASSUME NEW s \in Senders, SendDirect(s)
      PROVE  job[s].p \in Packets /\ Promise!Send(job[s].p)
  <2>1. Carries(s)
    BY <1>2 DEF SendDirect, Carries
  <2> QED
    BY <1>2, <2>1, JobShape, CarriedNotQueued
    DEF SendDirect, queueVars, Promise!Send, Waiting
<1>3. ASSUME NEW s \in Senders, Enqueue(s) \/ Resolve(s)
      PROVE  /\ job[s].p \in Packets /\ job[s].h \in Hops
             /\ Promise!Wait(job[s].p, job[s].h)
  <2>1. Carries(s) /\ AddToBuffer(job[s].p, job[s].h)
    BY <1>3 DEF Enqueue, Resolve, Carries
  <2> QED
    BY <2>1, JobShape, CarriedNotQueued, AddIsWait
<1>4. ASSUME NEW h \in Hops, SendAll(h)
      PROVE  Promise!SendAll(h)
  <2>1. fate' = [p \in Packets |->
                    IF p \notin Waiting(h) THEN fate[p]
                    ELSE IF p \in Data THEN "sent" ELSE "sent"]
    BY <1>4 DEF SendAll, Waiting
  <2> QED
    BY <1>4, <2>1, EmptyIsEnd DEF SendAll, Promise!SendAll
<1>5. ASSUME NEW h \in Hops, Finish(h)
      PROVE  Promise!GiveUp(h) \/ Promise!Lose(h)
  <2>1. CASE thr[h].i > 0
    <3>1. fate' = [p \in Packets |->
                      IF p \notin Waiting(h) THEN fate[p]
                      ELSE IF p \in Data THEN "unreachable" ELSE "deleted"]
      BY <1>5, <2>1 DEF Finish, Waiting
    <3> QED
      BY <1>5, <3>1, EmptyIsEnd DEF Finish, Promise!GiveUp
  <2>2. CASE ~(thr[h].i > 0)
    <3>1. fate' = [p \in Packets |->
                      IF p \notin Waiting(h) THEN fate[p]
                      ELSE IF p \in Data THEN "lost" ELSE "lost"]
      BY <1>5, <2>2 DEF Finish, Waiting
    <3> QED
      BY <1>5, <3>1, EmptyIsEnd DEF Finish, Promise!Lose
  <2> QED
    BY <2>1, <2>2
<1>6. CASE \/ \E h \in Hops : \/ FirstRequest(h) \/ SearchCache(h) \/ Resend(h)
                              \/ ReplyArrives(h)
           \/ ReplyStep \/ Tick \/ UNCHANGED vars
  BY <1>6 DEF FirstRequest, SearchCache, Resend, ReplyArrives, ReplyStep, AddCacheEntry,
     Recheck, Tick, vars, queueVars, Waiting, Promise!vars
<1> QED
  BY <1>1, <1>2, <1>3, <1>4, <1>5, <1>6
  DEF Next, SenderStep, ThreadStep, Promise!Next, Promise!Packets, Packets

\* QueuedIsOwned without the threads: a fact about Delivery.
QueuedOnce ==
    /\ \A h \in Hops : \A p \in Waiting(h) : fate[p] = "queued"
    /\ \A p \in Packets : fate[p] = "queued" => \E h \in Hops : p \in Waiting(h)
    /\ \A g, h \in Hops : g # h => Waiting(g) \cap Waiting(h) = {}

\* A queued packet has a thread to end it.
Served == \A h \in Hops : Waiting(h) # {} => Running(h)

\* QueuedIsOwned is a fact about packets and a fact about threads.
LEMMA QueuedIsOwnedSplits == QueuedIsOwned <=> QueuedOnce /\ Served
  BY DEF QueuedIsOwned, QueuedOnce, Served

\* Every step keeps a queued packet in exactly one buffer: read off Delivery's steps.
LEMMA QueuedOnceInductive ==
  ASSUME TypeOK, QueuedOnce, [Promise!Next]_(Promise!vars)
  PROVE  QueuedOnce'
<1> DEFINE W == [h \in Hops |-> Waiting(h)]
<1>1. /\ \A h \in Hops : W[h] = Waiting(h) /\ W'[h] = Waiting(h)'
      /\ fate \in [Packets -> {"new", "carried", "queued", "sent",
                               "unreachable", "deleted", "lost"}]
      /\ \A h \in Hops : Waiting(h) \subseteq Packets
  BY DEF TypeOK, Waiting, Packets
<1> HIDE DEF W
<1>2. CASE fate' = fate /\ W' = W
  BY <1>1, <1>2 DEF QueuedOnce
<1>3. ASSUME NEW p \in Packets, NEW v \in {"carried", "sent"}, W' = W,
             fate[p] # "queued", fate' = [fate EXCEPT ![p] = v]
      PROVE  QueuedOnce'
  BY <1>1, <1>3 DEF QueuedOnce
<1>4. ASSUME NEW p \in Packets, NEW h \in Hops, fate[p] = "carried",
             fate' = [fate EXCEPT ![p] = "queued"],
             W' = [W EXCEPT ![h] = @ \cup {p}]
      PROVE  QueuedOnce'
  <2>1. \A g \in Hops : p \notin Waiting(g)
    BY <1>4 DEF QueuedOnce
  <2>2. \A g \in Hops : Waiting(g)' = IF g = h THEN Waiting(g) \cup {p} ELSE Waiting(g)
    BY <1>1, <1>4 DEF W
  <2>3. \A q \in Packets : fate'[q] = IF q = p THEN "queued" ELSE fate[q]
    BY <1>1, <1>4
  <2> QED
    BY <1>1, <2>1, <2>2, <2>3 DEF QueuedOnce
<1>5. ASSUME NEW h \in Hops, NEW data, NEW lsus, data # "queued", lsus # "queued",
             W' = [W EXCEPT ![h] = {}],
             fate' = [p \in Packets |->
                         IF p \notin Waiting(h) THEN fate[p]
                         ELSE IF p \in Data THEN data ELSE lsus]
      PROVE  QueuedOnce'
  <2>1. \A g \in Hops : Waiting(g)' = IF g = h THEN {} ELSE Waiting(g)
    BY <1>1, <1>5 DEF W
  <2>2. \A q \in Packets : /\ q \in Waiting(h) => fate'[q] # "queued"
                           /\ q \notin Waiting(h) => fate'[q] = fate[q]
    BY <1>5
  <2> QED
    BY <1>1, <2>1, <2>2 DEF QueuedOnce
<1>6. ASSUME NEW p \in Packets, Promise!Take(p) \/ Promise!Send(p)
      PROVE  QueuedOnce'
  BY <1>3, <1>6 DEF Promise!Take, Promise!Send, W
<1>7. ASSUME NEW p \in Packets, NEW h \in Hops, Promise!Wait(p, h)
      PROVE  QueuedOnce'
  BY <1>4, <1>7 DEF Promise!Wait, W
<1>8. ASSUME NEW h \in Hops, NEW data, NEW lsus, data # "queued", lsus # "queued",
             Promise!End(h, data, lsus)
      PROVE  QueuedOnce'
  <2>1. W' = [W EXCEPT ![h] = {}]
    BY <1>8 DEF Promise!End, W
  <2>2. fate' = [p \in Packets |->
                    IF p \notin Waiting(h) THEN fate[p]
                    ELSE IF p \in Data THEN data ELSE lsus]
    BY <1>8 DEF Promise!End, Promise!Packets, Packets
  <2> QED
    BY <1>5, <1>8, <2>1, <2>2
<1>9. ASSUME NEW h \in Hops, Promise!SendAll(h) \/ Promise!GiveUp(h) \/ Promise!Lose(h)
      PROVE  QueuedOnce'
  BY <1>8, <1>9 DEF Promise!SendAll, Promise!GiveUp, Promise!Lose
<1> QED
  BY <1>2, <1>6, <1>7, <1>9
  DEF Promise!Next, Promise!vars, Promise!Packets, Packets, W

\* Every step keeps a thread at each buffer that holds a packet.
LEMMA ServedInductive ==
  ASSUME ThreadInv, QueueInv, Served, [Next]_vars
  PROVE  Served'
<1> USE DEF ThreadInv
<1>1. CASE UNCHANGED <<thr, pac, lsu>>
  BY <1>1 DEF Served, Waiting, Running
<1>2. CASE Tick
  <2>1. ASSUME NEW h \in Hops
        PROVE  Running(h) => Running(h)'
    BY <1>2 DEF Tick, Awake, Running
  <2> QED
    BY <1>2, <2>1 DEF Tick, queueVars, Served, Waiting
<1>3. ASSUME NEW h \in Hops, ThreadStep(h)
      PROVE  Served'
  <2>1. ASSUME NEW g \in Hops, g # h
        PROVE  Waiting(g)' = Waiting(g) /\ (Running(g) => Running(g)')
    BY <1>3, <2>1 DEF ThreadStep, FirstRequest, SearchCache, SendAll, Resend, Finish,
       queueVars, TypeOK, Waiting, Running
  <2>2. \/ Waiting(h)' = {}
        \/ Waiting(h)' = Waiting(h) /\ Running(h)'
    BY <1>3 DEF ThreadStep, FirstRequest, SearchCache, SendAll, Resend, Finish,
       queueVars, TypeOK, Waiting, Running
  <2> QED
    BY <2>1, <2>2 DEF Served
<1>4. ASSUME NEW s \in Senders, Enqueue(s) \/ Resolve(s)
      PROVE  Served'
  <2>1. Carries(s)
    BY <1>4 DEF Enqueue, Resolve, Carries
  <2>2. PICK h \in Hops : h = job[s].h
    BY <2>1, JobShape
  <2>3. Running(h)'
    <3>1. CASE Enqueue(s)
      BY <2>2, <3>1 DEF Enqueue, NumMatchesThread, NumOf, Running
    <3>2. CASE Resolve(s)
      BY <2>2, <3>2 DEF Resolve, Running, TypeOK
    <3> QED
      BY <1>4, <3>1, <3>2
  <2>4. ASSUME NEW g \in Hops, g # h
        PROVE  Waiting(g)' = Waiting(g) /\ (Running(g) => Running(g)')
    BY <1>4, <2>2, <2>4 DEF Enqueue, Resolve, AddToBuffer, TypeOK, Waiting, Running
  <2> QED
    BY <2>3, <2>4 DEF Served
<1>5. CASE \/ \E s \in Senders, p \in Packets, h \in Hops : Lookup(s, p, h)
           \/ \E s \in Senders : SendDirect(s)
           \/ \E h \in Hops : ReplyArrives(h)
           \/ ReplyStep \/ UNCHANGED vars
  BY <1>1, <1>5 DEF Lookup, SendDirect, ReplyArrives, ReplyStep, AddCacheEntry, Recheck,
     vars, queueVars
<1> QED
  BY <1>2, <1>3, <1>4, <1>5 DEF Next, SenderStep

\* Every step keeps a carried packet in the hands of one sender.
LEMMA JobsInductive ==
  ASSUME ThreadInv, QueueInv, [Next]_vars
  PROVE  JobsOwnPackets'
<1> USE DEF ThreadInv
<1>1. ASSUME NEW s \in Senders
      PROVE  Carries(s) => job[s].p \in Packets /\ fate[job[s].p] = "carried"
  BY JobShape DEF QueueInv, JobsOwnPackets
<1>2. ASSUME NEW s \in Senders, NEW t \in Senders, s # t, Carries(s), Carries(t)
      PROVE  job[s].p # job[t].p
  BY <1>2 DEF QueueInv, JobsOwnPackets
<1>3. CASE UNCHANGED job /\ \A p \in Packets : fate[p] = "carried" => fate'[p] = fate[p]
  BY <1>1, <1>2, <1>3 DEF JobsOwnPackets, Carries
<1>4. ASSUME NEW s \in Senders, NEW p \in Packets, NEW h \in Hops, Lookup(s, p, h)
      PROVE  JobsOwnPackets'
  <2>1. /\ job'[s].p = p /\ fate'[p] = "carried" /\ fate[p] = "new"
        /\ \A t \in Senders : t # s => job'[t] = job[t]
        /\ \A q \in Packets : q # p => fate'[q] = fate[q]
    BY <1>4 DEF Lookup, TypeOK
  <2> QED
    BY <1>1, <1>2, <2>1 DEF JobsOwnPackets, Carries
<1>5. ASSUME NEW s \in Senders, SenderStep(s)
      PROVE  JobsOwnPackets'
  <2>1. Carries(s)
    BY <1>5 DEF SenderStep, SendDirect, Enqueue, Resolve, Carries
  <2>2. job' = [job EXCEPT ![s] = NoJob]
    BY <1>5 DEF SenderStep, SendDirect, Enqueue, Resolve
  <2>3. \A q \in Packets : q # job[s].p => fate'[q] = fate[q]
    BY <1>5 DEF SenderStep, SendDirect, Enqueue, Resolve, AddToBuffer, TypeOK
  <2>4. ~Carries(s)' /\ \A t \in Senders : t # s => job'[t] = job[t]
    BY <2>2 DEF Carries, NoJob, TypeOK
  <2> QED
    BY <1>1, <1>2, <2>1, <2>3, <2>4 DEF JobsOwnPackets, Carries
<1>6. ASSUME ReplyStep \/ \E h \in Hops : ReplyArrives(h)
      PROVE  JobsOwnPackets'
  <2>1. UNCHANGED fate /\ Main \in Senders
    BY <1>6 DEF ReplyStep, AddCacheEntry, Recheck, ReplyArrives, Senders
  <2>2. ~Carries(Main)' /\ \A t \in Senders : t # Main => job'[t] = job[t]
    <3>1. CASE AddCacheEntry
      <4>1. job[Main] \in Adding
        BY <2>1, <3>1, JobShape DEF AddCacheEntry
      <4>2. job'[Main].pc = "recheck" /\ \A t \in Senders : t # Main => job'[t] = job[t]
        BY <2>1, <3>1, <4>1 DEF AddCacheEntry, TypeOK, Adding
      <4> QED
        BY <4>2 DEF Carries
    <3>2. CASE Recheck
      BY <2>1, <3>2 DEF Recheck, TypeOK, Carries, NoJob
    <3>3. CASE \E h \in Hops : ReplyArrives(h)
      BY <2>1, <3>3 DEF ReplyArrives, TypeOK, Carries
    <3> QED
      BY <1>6, <3>1, <3>2, <3>3 DEF ReplyStep
  <2> QED
    BY <1>1, <1>2, <2>1, <2>2 DEF JobsOwnPackets, Carries
<1>7. ASSUME NEW h \in Hops, ThreadStep(h)
      PROVE  JobsOwnPackets'
  <2>1. \A p \in Packets : fate[p] = "carried" => p \notin Waiting(h)
    BY DEF QueueInv, QueuedIsOwned
  <2>2. UNCHANGED job /\ \A p \in Packets : fate[p] = "carried" => fate'[p] = fate[p]
    BY <1>7, <2>1 DEF ThreadStep, FirstRequest, SearchCache, SendAll, Resend, Finish, Waiting
  <2> QED
    BY <1>3, <2>2
<1> QED
  BY <1>3, <1>4, <1>5, <1>6, <1>7 DEF Next, Tick, vars

\* Heads to freed nodes are left by SendAll only, and Finish resets them.
LEMMA StaleInductive ==
  ASSUME ThreadInv, StaleOnlyBeforeFinish, [Next]_vars
  PROVE  StaleOnlyBeforeFinish'
<1> USE DEF ThreadInv, StaleOnlyBeforeFinish
<1>1. CASE UNCHANGED <<thr, stale>>
  BY <1>1
<1>2. CASE Tick
  BY <1>2 DEF Tick, Awake, queueVars
<1>3. ASSUME NEW h \in Hops, ThreadStep(h)
      PROVE  StaleOnlyBeforeFinish'
  <2>1. CASE FirstRequest(h) \/ SearchCache(h) \/ Resend(h)
    BY <2>1 DEF FirstRequest, SearchCache, Resend, queueVars, TypeOK
  <2>2. CASE SendAll(h)
    BY <2>2 DEF SendAll, TypeOK
  <2>3. CASE Finish(h)
    BY <2>3 DEF Finish, TypeOK
  <2> QED
    BY <1>3, <2>1, <2>2, <2>3 DEF ThreadStep
<1>4. ASSUME NEW s \in Senders, Resolve(s)
      PROVE  StaleOnlyBeforeFinish'
  <2>1. PICK h \in Hops : h = job[s].h
    BY <1>4, JobShape DEF Resolve, Carries
  <2>2. ~Running(h) /\ num[h] \in Int
    BY <1>4, <2>1 DEF Resolve, NumMatchesThread, NumOf, TypeOK
  <2> QED
    BY <1>4, <2>1, <2>2 DEF Resolve, Running, TypeOK
<1>5. CASE \/ \E s \in Senders, p \in Packets, h \in Hops : Lookup(s, p, h)
           \/ \E s \in Senders : SendDirect(s) \/ Enqueue(s)
           \/ \E h \in Hops : ReplyArrives(h)
           \/ ReplyStep \/ UNCHANGED vars
  BY <1>1, <1>5 DEF Lookup, SendDirect, Enqueue, ReplyArrives, ReplyStep, AddCacheEntry,
     Recheck, vars, queueVars
<1> QED
  BY <1>2, <1>3, <1>4, <1>5 DEF Next, SenderStep

(***************************************************************************)
(* The invariant of the whole component, and what follows from it.         *)
(***************************************************************************)
IInv == ThreadInv /\ QueueInv /\ StaleOnlyBeforeFinish

\* The initial state satisfies the inductive invariant.
LEMMA InitIInv == Init => IInv
<1> SUFFICES ASSUME Init PROVE QueueInv /\ StaleOnlyBeforeFinish
  BY InitThreadInv DEF IInv
<1> QED
  BY DEF Init, QueueInv, JobsOwnPackets, Carries, NoJob, QueuedIsOwned, Waiting,
     StaleOnlyBeforeFinish

\* Every step keeps the inductive invariant.
LEMMA NextIInv == IInv /\ [Next]_vars => IInv'
<1> SUFFICES ASSUME IInv, [Next]_vars PROVE QueueInv' /\ StaleOnlyBeforeFinish'
  BY NextThreadInv DEF IInv
<1>1. QueuedOnce /\ Served
  BY QueuedIsOwnedSplits DEF IInv, QueueInv
<1>2. QueuedOnce' /\ Served'
  BY <1>1, Simulates, QueuedOnceInductive, ServedInductive DEF IInv, ThreadInv
<1>3. QueuedIsOwned'
  BY <1>2 DEF QueuedIsOwned, QueuedOnce, Served
<1> QED
  BY <1>3, JobsInductive, StaleInductive DEF IInv, QueueInv

\* The inductive invariant always holds.
LEMMA AlwaysIInv == Spec => []IInv
  BY InitIInv, NextIInv, PTL DEF Spec

\* QueuedIsOwned: a packet that waits is in one buffer, whose thread will end it
\* (arpq.c:37-91 against arpq.c:164-175), for any number of hops and packets.
THEOREM QueuedIsOwnedAlways == Spec => []QueuedIsOwned
  BY AlwaysIInv, PTL DEF IInv, QueueInv

\* StaleOnlyBeforeFinish: freed nodes are reachable only in the gap of arp_req_init
\* between arpq.c:152 and arpq.c:164.
THEOREM StaleOnlyBeforeFinishAlways == Spec => []StaleOnlyBeforeFinish
  BY AlwaysIInv, PTL DEF IInv

\* GiveUpAfterAllRequests: nothing is reported unreachable or deleted before all
\* MAX_ARP_REQUESTS requests were sent (arpq.c:139, 167-171).
THEOREM GiveUpAfterAllRequestsAlways == Spec => GiveUpAfterAllRequests
<1> DEFINE Step ==
        \A p \in Packets :
            fate[p] = "queued" /\ fate'[p] \in {"unreachable", "deleted"} =>
                \E h \in Hops : /\ p \in Waiting(h)
                                /\ asked[h] = MaxRequests
                                /\ num[h] = MaxRequests - 1
<1>1. IInv /\ [Next]_vars => [Step]_vars
  <2> SUFFICES ASSUME IInv, Next, NEW p \in Packets,
                      fate[p] = "queued", fate'[p] \in {"unreachable", "deleted"}
               PROVE  \E h \in Hops : /\ p \in Waiting(h)
                                      /\ asked[h] = MaxRequests
                                      /\ num[h] = MaxRequests - 1
    OBVIOUS
  <2> USE DEF IInv, ThreadInv
  <2>1. ASSUME NEW s \in Senders, NEW q \in Packets, NEW h \in Hops, Lookup(s, q, h)
        PROVE  FALSE
    BY <2>1 DEF Lookup, TypeOK
  <2>2. ASSUME NEW s \in Senders, SenderStep(s)
        PROVE  FALSE
    BY <2>2 DEF SenderStep, SendDirect, Enqueue, Resolve, AddToBuffer, TypeOK
  <2>3. ASSUME NEW h \in Hops, ThreadStep(h)
        PROVE  Finish(h)
    BY <2>3 DEF ThreadStep, FirstRequest, SearchCache, SendAll, Resend
  <2>4. ASSUME NEW h \in Hops, Finish(h)
        PROVE  /\ p \in Waiting(h)
               /\ asked[h] = MaxRequests
               /\ num[h] = MaxRequests - 1
    <3>1. p \in Waiting(h) /\ thr[h].i > 0
      BY <2>4 DEF Finish, Waiting
    <3> QED
      BY <2>4, <3>1 DEF Finish, ThreadProgress, ProgressOf
  <2>5. CASE ReplyStep \/ Tick \/ \E h \in Hops : ReplyArrives(h)
    BY <2>5 DEF ReplyStep, AddCacheEntry, Recheck, Tick, ReplyArrives
  <2> QED
    BY <2>1, <2>2, <2>3, <2>4, <2>5 DEF Next
<1> QED
  BY <1>1, AlwaysIInv, PTL DEF Spec, GiveUpAfterAllRequests

\* ImplementsDelivery: the caches, buffers and threads implement Delivery.
THEOREM Refinement == Spec => ImplementsDelivery
<1>1. Init => Promise!Init
  BY DEF Init, Promise!Init, Promise!Packets, Packets, Waiting
<1>2. IInv /\ [Next]_vars => [Promise!Next]_(Promise!vars)
  BY Simulates DEF IInv
<1> QED
  BY <1>1, <1>2, AlwaysIInv, PTL DEF Spec, ImplementsDelivery, Promise!Spec
=============================================================================
