------------------------------- MODULE Locks -------------------------------
(***************************************************************************)
(* The three mutexes of the router and the way every thread takes them:    *)
(* pwospf_lock (sr_pwospf.c), lock_cache and lock_arp_q (arpq.c).  The     *)
(* other modules take a critical section for one step; this one is about   *)
(* the sections themselves.                                                *)
(*                                                                         *)
(* pc[t] is the place of thread t.  A thread at "x" is about to lock, and  *)
(* at "in x" it is between this lock and its unlock.  What a section does  *)
(* with its data is left out: where the data decide, the choice is free.   *)
(***************************************************************************)
EXTENDS Integers

CONSTANTS Hops,     \* the next hops; each has at most one ARP thread
          Main,     \* the thread that handles packets
          Beat,     \* the pwospf thread
          NoOne,    \* the owner of a free mutex
          MaxNbrs   \* the neighbors an LSU may have to go to

ASSUME LocksAssumption ==
    /\ MaxNbrs \in Nat
    /\ Main # Beat /\ {Main, Beat} \cap Hops = {}
    /\ NoOne \notin {Main, Beat} \cup Hops

Threads == {Main, Beat} \cup Hops
Mutexes == {"pwospf", "cache", "arpq"}

VARIABLES owner,  \* owner[m]: the thread that has locked m
          pc,
          left    \* left[t]: neighbors the LSU in t's hands has yet to go to

vars == <<owner, pc, left>>

Init ==
    /\ owner = [m \in Mutexes |-> NoOne]
    /\ pc = [t \in Threads |->
                CASE t = Main -> "idle" [] t = Beat -> "greet" [] OTHER -> "none"]
    /\ left = [t \in Threads |-> 0]

(***************************************************************************)
(* pthread_mutex_lock waits for a free mutex; the mutexes have the default *)
(* type, so that a thread also waits for one it holds itself.              *)
(***************************************************************************)
Lock(t, m, from, to) ==
    /\ pc[t] = from /\ owner[m] = NoOne
    /\ owner' = [owner EXCEPT ![m] = t]
    /\ pc' = [pc EXCEPT ![t] = to]
    /\ UNCHANGED left

Unlock(t, m, from, next) ==
    /\ pc[t] = from
    /\ owner' = [owner EXCEPT ![m] = NoOne]
    /\ \E to \in next : pc' = [pc EXCEPT ![t] = to]
    /\ UNCHANGED left

(***************************************************************************)
(* The main thread: a packet arrives and one of the handlers runs.         *)
(***************************************************************************)
Receive ==
    /\ pc[Main] = "idle"
    /\ \E to \in {"hello", "lsu", "route", "reply"} : pc' = [pc EXCEPT ![Main] = to]
    /\ UNCHANGED <<owner, left>>

\* A change of handle_HELLO: the return at line 89 forgets the unlock.
handle_HELLOBug ==
    \/ Lock(Main, "pwospf", "hello", "in hello")
    \/ Unlock(Main, "pwospf", "in hello", {"idle"})
    \/ pc[Main] = "in hello" /\ pc' = [pc EXCEPT ![Main] = "idle"] /\ UNCHANGED <<owner, left>>

handle_HELLO ==
    \/ Lock(Main, "pwospf", "hello", "in hello")
    \/ Unlock(Main, "pwospf", "in hello", {"idle"})

\* The own LSU is dropped.
handle_lsu ==
    \/ Lock(Main, "pwospf", "lsu", "in lsu")
    \/ Unlock(Main, "pwospf", "in lsu", {"idle", "sequence"})

\* A change of get_sequence: it returns last_seq before the unlock.
get_sequenceBug ==
    \/ Lock(Main, "pwospf", "sequence", "in sequence")
    \/ /\ pc[Main] = "in sequence"
       /\ \E to \in {"idle", "add"} : pc' = [pc EXCEPT ![Main] = to]
       /\ UNCHANGED <<owner, left>>

get_sequence ==
    \/ Lock(Main, "pwospf", "sequence", "in sequence")
    \/ Unlock(Main, "pwospf", "in sequence", {"idle", "add"})

add_to_top ==
    \/ Lock(Main, "pwospf", "add", "in add")
    \/ Unlock(Main, "pwospf", "in add", {"set"})

set_sequence ==
    \/ Lock(Main, "pwospf", "set", "in set")
    \/ Unlock(Main, "pwospf", "in set", {"idle", "flood"})

get_dyn_routing_if ==
    \/ Lock(Main, "pwospf", "route", "in route")
    \/ Unlock(Main, "pwospf", "in route", {"idle", "resolve"})

(***************************************************************************)
(* search_cache and get_mac_address, called from several places.           *)
(***************************************************************************)
search_cache(t, from, in, next) ==
    Lock(t, "cache", from, in) \/ Unlock(t, "cache", in, next)

\* The entry of h has a thread, or one is started after the unlock.
get_mac_address(t, from, in, to) ==
    \/ Lock(t, "arpq", from, in)
    \/ \E h \in Hops :
           /\ pc[t] = in
           /\ owner' = [owner EXCEPT !["arpq"] = NoOne]
           /\ pc' = [pc EXCEPT ![t] = to, ![h] = IF @ = "none" THEN "first" ELSE @]
           /\ UNCHANGED left

create_eth_hdr ==
    \/ search_cache(Main, "resolve", "in resolve", {"idle", "mac"})
    \/ get_mac_address(Main, "mac", "in mac", "idle")

\* add_cache_entry searches, and adds what is not there; got_Reply searches.
handle_ARP ==
    \/ search_cache(Main, "reply", "in reply", {"store", "recheck"})
    \/ Lock(Main, "cache", "store", "in store")
    \/ Unlock(Main, "cache", "in store", {"recheck"})
    \/ search_cache(Main, "recheck", "in recheck", {"idle"})

(***************************************************************************)
(* forward_lsu and send_lsu keep pwospf_lock while they look up and queue  *)
(* for each neighbor in turn.                                              *)
(***************************************************************************)
StartFlood(t) ==
    /\ pc[t] = "flood" /\ owner["pwospf"] = NoOne
    /\ owner' = [owner EXCEPT !["pwospf"] = t]
    /\ pc' = [pc EXCEPT ![t] = "in flood"]
    /\ \E n \in 0 .. MaxNbrs : left' = [left EXCEPT ![t] = n]

\* Changes of NextNeighbor: the walk goes on past the last neighbor, and the walk
\* does not advance.
NextNeighborBug(t) ==
    /\ pc[t] = "in flood"
    /\ left' = [left EXCEPT ![t] = @ - 1]
    /\ pc' = [pc EXCEPT ![t] = "nbr search"]
    /\ UNCHANGED owner

NextNeighborSameBug(t) ==
    /\ pc[t] = "in flood" /\ left[t] > 0
    /\ pc' = [pc EXCEPT ![t] = "nbr search"]
    /\ UNCHANGED <<owner, left>>

NextNeighbor(t) ==
    /\ pc[t] = "in flood" /\ left[t] > 0
    /\ left' = [left EXCEPT ![t] = @ - 1]
    /\ pc' = [pc EXCEPT ![t] = "nbr search"]
    /\ UNCHANGED owner

FloodTo(t) ==
    \/ NextNeighbor(t)
    \/ search_cache(t, "nbr search", "in nbr search", {"in flood", "nbr mac"})
    \/ get_mac_address(t, "nbr mac", "in nbr mac", "in flood")

forward_lsu ==
    \/ StartFlood(Main)
    \/ FloodTo(Main)
    \/ left[Main] = 0 /\ Unlock(Main, "pwospf", "in flood", {"idle"})

(***************************************************************************)
(* pwospf_run_thread.                                                      *)
(***************************************************************************)
send_HELLO ==
    \/ Lock(Beat, "pwospf", "greet", "in greet")
    \/ Unlock(Beat, "pwospf", "in greet", {"sleep"})

\* sleep() is over: after a HELLO interval, or after the last of the round.
Wake ==
    /\ pc[Beat] = "sleep"
    /\ \E to \in {"greet", "check"} : pc' = [pc EXCEPT ![Beat] = to]
    /\ UNCHANGED <<owner, left>>

check_top_invalid ==
    \/ Lock(Beat, "pwospf", "check", "in check")
    \/ Unlock(Beat, "pwospf", "in check", {"flood"})

send_lsu ==
    \/ StartFlood(Beat)
    \/ FloodTo(Beat)
    \/ left[Beat] = 0 /\ Unlock(Beat, "pwospf", "in flood", {"greet"})

(***************************************************************************)
(* arp_req_init.                                                           *)
(***************************************************************************)
FirstRequest(h) ==
    Lock(h, "arpq", "first", "in first") \/ Unlock(h, "arpq", "in first", {"sleep"})

\* The interval is over: the loop goes on, or MAX_ARP_REQUESTS were sent.
WakeArp(h) ==
    /\ pc[h] = "sleep"
    /\ \E to \in {"read", "last"} : pc' = [pc EXCEPT ![h] = to]
    /\ UNCHANGED <<owner, left>>

ReadAndSearch(h) ==
    \/ Lock(h, "arpq", "read", "in read")
    \/ Unlock(h, "arpq", "in read", {"search"})
    \/ search_cache(h, "search", "in search", {"send", "resend"})

SendAll(h) ==
    Lock(h, "arpq", "send", "in send") \/ Unlock(h, "arpq", "in send", {"last"})

Resend(h) ==
    Lock(h, "arpq", "resend", "in resend") \/ Unlock(h, "arpq", "in resend", {"sleep"})

Finish(h) ==
    Lock(h, "arpq", "last", "in last") \/ Unlock(h, "arpq", "in last", {"none"})

MainStep ==
    \/ handle_HELLO \/ handle_lsu \/ get_sequence \/ add_to_top \/ set_sequence
    \/ get_dyn_routing_if \/ create_eth_hdr \/ handle_ARP \/ forward_lsu

BeatStep == send_HELLO \/ check_top_invalid \/ send_lsu

ArpStep(h) == FirstRequest(h) \/ ReadAndSearch(h) \/ SendAll(h) \/ Resend(h) \/ Finish(h)

Next ==
    \/ Receive
    \/ MainStep
    \/ BeatStep
    \/ Wake
    \/ \E h \in Hops : ArpStep(h) \/ WakeArp(h)

(***************************************************************************)
(* A thread that could lock a mutex again and again gets it in the end:    *)
(* strong fairness, because others may take the mutex in between.  Nobody  *)
(* has to send a packet, and sleep() ends.                                 *)
(***************************************************************************)
Fairness ==
    /\ SF_vars(MainStep) /\ SF_vars(BeatStep) /\ WF_vars(Wake)
    /\ \A h \in Hops : SF_vars(ArpStep(h)) /\ WF_vars(WakeArp(h))

Spec == Init /\ [][Next]_vars
FairSpec == Spec /\ Fairness

(***************************************************************************)
(* Which mutex a thread is inside of, and which it is about to lock.       *)
(***************************************************************************)
Nested == {"nbr search", "in nbr search", "nbr mac", "in nbr mac"}

Inside(m) ==
    CASE m = "pwospf" -> {"in hello", "in lsu", "in sequence", "in add", "in set",
                          "in route", "in flood", "in greet", "in check"} \cup Nested
      [] m = "cache" -> {"in resolve", "in reply", "in store", "in recheck",
                         "in nbr search", "in search"}
      [] m = "arpq" -> {"in mac", "in nbr mac", "in first", "in read", "in send",
                        "in resend", "in last"}

Before(m) ==
    CASE m = "pwospf" -> {"hello", "lsu", "sequence", "add", "set", "route", "flood",
                          "greet", "check"}
      [] m = "cache" -> {"resolve", "reply", "store", "recheck", "nbr search", "search"}
      [] m = "arpq" -> {"mac", "nbr mac", "first", "read", "send", "resend", "last"}

AtRest == {"idle", "sleep", "none"}

Places == AtRest \cup UNION {Inside(m) \cup Before(m) : m \in Mutexes}

\* A thread is at a known place, and the walk over the neighbors ends at the last.
TypeOK ==
    /\ owner \in [Mutexes -> Threads \cup {NoOne}]
    /\ pc \in [Threads -> Places]
    /\ left \in [Threads -> 0 .. MaxNbrs]

\* A mutex belongs to the one thread that is inside of it and to nobody else: no
\* return path leaves a section without its unlock (hello.c:88, lsu.c:35,
\* top_info.c:977, arpq.c:47-84, arp.c:220), none unlocks what another thread holds,
\* and nobody waits for a packet or sleeps with a mutex in hand.
OwnerIsInside ==
    \A t \in Threads, m \in Mutexes : owner[m] = t <=> pc[t] \in Inside(m)

WaitsFor(t, u) == \E m \in Mutexes : pc[t] \in Before(m) /\ owner[m] = u

\* No thread waits, directly or through others, for itself: send_lsu and
\* forward_lsu may keep pwospf_lock while they take the other two (lsu.c:155-166,
\* 279-287), because nobody takes a mutex inside of those.
NoWaitCycle ==
    \A S \in SUBSET Threads : S # {} => \E t \in S : \A u \in S : ~WaitsFor(t, u)

\* Every handler returns and every thread goes back to sleep or ends, however the
\* threads contend for the mutexes.
ThreadsComeToRest ==
    \A t \in Threads : pc[t] \notin AtRest ~> pc[t] \in AtRest
=============================================================================
