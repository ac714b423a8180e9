---------------------------- MODULE LocksProofs ----------------------------
(***************************************************************************)
(* Theorems about Locks, for any number of next hops and neighbors.  The   *)
(* conjunction of TypeOK and OwnerIsInside is inductive, and it excludes a *)
(* cycle of waiting threads.                                               *)
(***************************************************************************)
EXTENDS Locks, TLAPS

IInv == TypeOK /\ OwnerIsInside

\* The places, without the union over the mutexes.
LEMMA PlacesAre ==
    /\ AtRest \subseteq Places
    /\ \A m \in Mutexes : Inside(m) \subseteq Places /\ Before(m) \subseteq Places
  BY DEF Places

\* The mutexes a thread holds at place p.
Holding(p) == {m \in Mutexes : p \in Inside(m)}

\* A lock that changes what its thread holds by exactly its mutex keeps IInv.
LEMMA LockKeeps ==
    ASSUME IInv, NEW t \in Threads, NEW m \in Mutexes, NEW from, NEW to \in Places,
           Holding(to) = Holding(from) \cup {m}, Lock(t, m, from, to)
    PROVE  IInv'
<1>1. TypeOK'
  BY DEF IInv, TypeOK, Lock
<1>2. OwnerIsInside'
  <2> SUFFICES ASSUME NEW u \in Threads, NEW n \in Mutexes
               PROVE  owner'[n] = u <=> pc'[u] \in Inside(n)
    BY DEF OwnerIsInside
  <2>1. NoOne \notin Threads
    BY LocksAssumption DEF Threads
  <2>2. /\ owner[n] = u <=> pc[u] \in Inside(n)
        /\ owner[n] = t <=> pc[t] \in Inside(n)
        /\ owner[m] = NoOne
        /\ owner' = [owner EXCEPT ![m] = t] /\ owner \in [Mutexes -> Threads \cup {NoOne}]
        /\ pc' = [pc EXCEPT ![t] = to] /\ pc \in [Threads -> Places] /\ pc[t] = from
    BY DEF IInv, OwnerIsInside, TypeOK, Lock
  <2>3. to \in Inside(n) <=> from \in Inside(n) \/ n = m
    BY DEF Holding
  <2>4. CASE u = t
    BY <2>1, <2>2, <2>3, <2>4
  <2>5. CASE u # t
    BY <2>1, <2>2, <2>3, <2>5
  <2> QED BY <2>4, <2>5
<1> QED BY <1>1, <1>2 DEF IInv

\* An unlock that changes what its thread holds by exactly its mutex keeps IInv.
LEMMA UnlockKeeps ==
    ASSUME IInv, NEW t \in Threads, NEW m \in Mutexes, NEW from, NEW next \in SUBSET Places,
           m \in Holding(from), \A to \in next : Holding(to) = Holding(from) \ {m},
           Unlock(t, m, from, next)
    PROVE  IInv'
<1> PICK to \in next : pc' = [pc EXCEPT ![t] = to]
  BY DEF Unlock
<1>1. TypeOK'
  BY DEF IInv, TypeOK, Unlock
<1>2. OwnerIsInside'
  <2> SUFFICES ASSUME NEW u \in Threads, NEW n \in Mutexes
               PROVE  owner'[n] = u <=> pc'[u] \in Inside(n)
    BY DEF OwnerIsInside
  <2>1. NoOne \notin Threads
    BY LocksAssumption DEF Threads
  <2>2. /\ owner[n] = u <=> pc[u] \in Inside(n)
        /\ owner[n] = t <=> pc[t] \in Inside(n)
        /\ owner[m] = t <=> pc[t] \in Inside(m)
        /\ owner' = [owner EXCEPT ![m] = NoOne]
        /\ owner \in [Mutexes -> Threads \cup {NoOne}]
        /\ pc \in [Threads -> Places] /\ pc[t] = from
    BY DEF IInv, OwnerIsInside, TypeOK, Unlock
  <2>3. to \in Inside(n) <=> from \in Inside(n) /\ n # m
    BY DEF Holding
  <2>4. from \in Inside(m)
    BY DEF Holding
  <2>5. CASE u = t
    BY <2>1, <2>2, <2>3, <2>4, <2>5
  <2>6. CASE u # t
    BY <2>1, <2>2, <2>3, <2>4, <2>6
  <2> QED BY <2>5, <2>6
<1> QED BY <1>1, <1>2 DEF IInv

\* A move between places with the same mutexes held keeps OwnerIsInside.
LEMMA MoveKeeps ==
    ASSUME IInv, NEW t \in Threads, NEW to \in Places, Holding(to) = Holding(pc[t]),
           pc' = [pc EXCEPT ![t] = to], owner' = owner
    PROVE  OwnerIsInside' /\ pc' \in [Threads -> Places]
  BY DEF IInv, TypeOK, OwnerIsInside, Holding

\* The definitions by cases, one equation each.
LEMMA InsideIs ==
    /\ Inside("pwospf") = {"in hello", "in lsu", "in sequence", "in add", "in set",
                          "in route", "in flood", "in greet", "in check", "nbr search",
                          "in nbr search", "nbr mac", "in nbr mac"}
    /\ Inside("cache") = {"in resolve", "in reply", "in store", "in recheck",
                         "in nbr search", "in search"}
    /\ Inside("arpq") = {"in mac", "in nbr mac", "in first", "in read", "in send",
                        "in resend", "in last"}
  BY DEF Inside, Nested

\* The places where a thread is about to lock each mutex.
LEMMA BeforeIs ==
    /\ Before("pwospf") = {"hello", "lsu", "sequence", "add", "set", "route", "flood",
                          "greet", "check"}
    /\ Before("cache") = {"resolve", "reply", "store", "recheck", "nbr search", "search"}
    /\ Before("arpq") = {"mac", "nbr mac", "first", "read", "send", "resend", "last"}
  BY DEF Before

\* Three mutexes: pwospf_lock, lock_cache and lock_arp_q.
LEMMA MutexesAre == \A m : m \in Mutexes <=> m = "pwospf" \/ m = "cache" \/ m = "arpq"
  BY DEF Mutexes

\* What is held at the places.
Free == {"idle", "sleep", "none", "hello", "lsu", "sequence", "add", "set", "route",
         "flood", "greet", "check", "resolve", "reply", "store", "recheck", "search",
         "mac", "first", "read", "send", "resend", "last"}
OnlyPwospf == {"in hello", "in lsu", "in sequence", "in add", "in set", "in route",
               "in flood", "in greet", "in check", "nbr search", "nbr mac"}
OnlyCache == {"in resolve", "in reply", "in store", "in recheck", "in search"}
OnlyArpq == {"in mac", "in first", "in read", "in send", "in resend", "in last"}

\* The five groups of places and the mutexes held in each.
LEMMA HoldingIs ==
    /\ \A p \in Free : p \in Places /\ Holding(p) = {}
    /\ \A p \in OnlyPwospf : p \in Places /\ Holding(p) = {"pwospf"}
    /\ \A p \in OnlyCache : p \in Places /\ Holding(p) = {"cache"}
    /\ \A p \in OnlyArpq : p \in Places /\ Holding(p) = {"arpq"}
    /\ "in nbr search" \in Places /\ Holding("in nbr search") = {"pwospf", "cache"}
    /\ "in nbr mac" \in Places /\ Holding("in nbr mac") = {"pwospf", "arpq"}
<1>1. \A p \in Free : p \in Places
  BY PlacesAre, BeforeIs, MutexesAre DEF Free, AtRest
<1>2. /\ \A p \in OnlyPwospf \cup OnlyCache \cup OnlyArpq : p \in Places
      /\ "in nbr search" \in Places /\ "in nbr mac" \in Places
  <2>1. /\ Inside("pwospf") \subseteq Places /\ Inside("cache") \subseteq Places
        /\ Inside("arpq") \subseteq Places
    BY PlacesAre, MutexesAre
  <2>2. /\ OnlyPwospf \subseteq Inside("pwospf")
        /\ "in nbr search" \in Inside("pwospf") /\ "in nbr mac" \in Inside("pwospf")
    BY InsideIs DEF OnlyPwospf
  <2>3. OnlyCache \subseteq Inside("cache")
    BY InsideIs DEF OnlyCache
  <2>4. OnlyArpq \subseteq Inside("arpq")
    BY InsideIs DEF OnlyArpq
  <2> QED BY <2>1, <2>2, <2>3, <2>4
<1>3. \A p \in Free : Holding(p) = {}
  <2>1. Free \cap Inside("pwospf") = {}
    BY InsideIs DEF Free
  <2>2. Free \cap Inside("cache") = {}
    BY InsideIs DEF Free
  <2>3. Free \cap Inside("arpq") = {}
    BY InsideIs DEF Free
  <2> QED BY <2>1, <2>2, <2>3, MutexesAre DEF Holding
<1>4. \A p \in OnlyPwospf : Holding(p) = {"pwospf"}
  BY InsideIs, MutexesAre DEF OnlyPwospf, Holding
<1>5. \A p \in OnlyCache : Holding(p) = {"cache"}
  BY InsideIs, MutexesAre DEF OnlyCache, Holding
<1>6. \A p \in OnlyArpq : Holding(p) = {"arpq"}
  BY InsideIs, MutexesAre DEF OnlyArpq, Holding
<1>7. /\ Holding("in nbr search") = {"pwospf", "cache"}
      /\ Holding("in nbr mac") = {"pwospf", "arpq"}
  BY InsideIs, MutexesAre DEF Holding
<1> QED BY <1>1, <1>2, <1>3, <1>4, <1>5, <1>6, <1>7

\* The threads of the program.
LEMMA ThreadsAre == Main \in Threads /\ Beat \in Threads /\ Hops \subseteq Threads
  BY DEF Threads

\* search_cache keeps IInv when its caller holds the same before and after.
LEMMA SearchKeeps ==
    ASSUME IInv, NEW t \in Threads, NEW from, NEW in \in Places, NEW next \in SUBSET Places,
           "cache" \notin Holding(from), Holding(in) = Holding(from) \cup {"cache"},
           \A to \in next : Holding(to) = Holding(from),
           search_cache(t, from, in, next)
    PROVE  IInv'
<1>1. CASE Lock(t, "cache", from, in)
  BY <1>1, LockKeeps, MutexesAre
<1>2. CASE Unlock(t, "cache", in, next)
  <2>1. \A to \in next : Holding(to) = Holding(in) \ {"cache"}
    OBVIOUS
  <2> QED BY <1>2, <2>1, UnlockKeeps, MutexesAre
<1> QED BY <1>1, <1>2 DEF search_cache

\* So does get_mac_address, whether or not it starts a thread.
LEMMA GetMacKeeps ==
    ASSUME IInv, NEW t \in {Main, Beat}, NEW from, NEW in \in Places, NEW to \in Places,
           "arpq" \notin Holding(from), Holding(in) = Holding(from) \cup {"arpq"},
           Holding(to) = Holding(from),
           get_mac_address(t, from, in, to)
    PROVE  IInv'
<1>0. t \in Threads
  BY ThreadsAre
<1>1. CASE Lock(t, "arpq", from, in)
  BY <1>0, <1>1, LockKeeps, MutexesAre
<1>2. CASE \E h \in Hops :
              /\ pc[t] = in
              /\ owner' = [owner EXCEPT !["arpq"] = NoOne]
              /\ pc' = [pc EXCEPT ![t] = to, ![h] = IF @ = "none" THEN "first" ELSE @]
              /\ UNCHANGED left
  <2> PICK h \in Hops :
              /\ pc[t] = in
              /\ owner' = [owner EXCEPT !["arpq"] = NoOne]
              /\ pc' = [pc EXCEPT ![t] = to, ![h] = IF @ = "none" THEN "first" ELSE @]
              /\ UNCHANGED left
    BY <1>2
  <2>1. h \in Threads /\ h # t
    BY ThreadsAre, LocksAssumption
  <2>2. "first" \in Places /\ Holding("first") = {} /\ Holding("none") = {}
    BY HoldingIs DEF Free
  <2>3. TypeOK'
    BY <1>0, <2>1, <2>2 DEF IInv, TypeOK
  <2>4. OwnerIsInside'
    <3> SUFFICES ASSUME NEW u \in Threads, NEW n \in Mutexes
                 PROVE  owner'[n] = u <=> pc'[u] \in Inside(n)
      BY DEF OwnerIsInside
    <3>1. NoOne \notin Threads
      BY LocksAssumption DEF Threads
    <3>2. /\ owner[n] = u <=> pc[u] \in Inside(n)
          /\ owner[n] = t <=> pc[t] \in Inside(n)
          /\ owner \in [Mutexes -> Threads \cup {NoOne}]
          /\ pc \in [Threads -> Places]
      BY <1>0 DEF IInv, OwnerIsInside, TypeOK
    <3>3. "arpq" \in Mutexes
      BY MutexesAre
    <3>4. /\ to \in Inside(n) <=> in \in Inside(n) /\ n # "arpq"
          /\ in \in Inside("arpq")
      BY <3>3 DEF Holding
    <3>5. CASE u = t
      BY <1>0, <2>1, <3>1, <3>2, <3>3, <3>4, <3>5
    <3>6. CASE u = h
      <4>1. "first" \notin Inside(n) /\ "none" \notin Inside(n)
        BY <2>2 DEF Holding
      <4>2. pc'[h] = IF pc[h] = "none" THEN "first" ELSE pc[h]
        BY <1>0, <2>1, <3>2
      <4>3. owner["arpq"] = t
        BY <1>0, <3>3, <3>4 DEF IInv, OwnerIsInside
      <4>4. owner'[n] = u <=> owner[n] = u
        BY <2>1, <3>1, <3>2, <3>3, <3>6, <4>3
      <4> QED BY <3>2, <3>6, <4>1, <4>2, <4>4
    <3>7. CASE u # t /\ u # h
      BY <1>0, <2>1, <3>1, <3>2, <3>3, <3>4, <3>7
    <3> QED BY <3>5, <3>6, <3>7
  <2> QED BY <2>3, <2>4 DEF IInv
<1> QED BY <1>1, <1>2 DEF get_mac_address

\* The walk over the neighbors counts down within its bound.
LEMMA OneFewer == \A n \in 0 .. MaxNbrs : n > 0 => n - 1 \in 0 .. MaxNbrs
<1>1. MaxNbrs \in Nat
  BY LocksAssumption
<1> QED BY <1>1

\* The walk over the neighbors, in forward_lsu and in send_lsu.
LEMMA FloodKeeps ==
    ASSUME IInv, NEW t \in {Main, Beat},
           \/ StartFlood(t) \/ FloodTo(t)
           \/ \E to \in Free : Unlock(t, "pwospf", "in flood", {to})
    PROVE  IInv'
<1>0. t \in Threads
  BY ThreadsAre
<1>1. CASE StartFlood(t)
  <2>1. Holding("in flood") = Holding("flood") \cup {"pwospf"} /\ "in flood" \in Places
    BY HoldingIs DEF Free, OnlyPwospf
  <2>2. NoOne \notin Threads
    BY LocksAssumption DEF Threads
  <2>3. TypeOK'
    BY <1>0, <1>1, <2>1, MutexesAre DEF IInv, TypeOK, StartFlood
  <2>4. OwnerIsInside'
    <3> SUFFICES ASSUME NEW u \in Threads, NEW n \in Mutexes
                 PROVE  owner'[n] = u <=> pc'[u] \in Inside(n)
      BY DEF OwnerIsInside
    <3>1. /\ owner[n] = u <=> pc[u] \in Inside(n)
          /\ owner[n] = t <=> pc[t] \in Inside(n)
          /\ owner["pwospf"] = NoOne
          /\ owner' = [owner EXCEPT !["pwospf"] = t]
          /\ owner \in [Mutexes -> Threads \cup {NoOne}]
          /\ pc' = [pc EXCEPT ![t] = "in flood"] /\ pc \in [Threads -> Places]
          /\ pc[t] = "flood"
      BY <1>0, <1>1 DEF IInv, OwnerIsInside, TypeOK, StartFlood
    <3>2. "in flood" \in Inside(n) <=> "flood" \in Inside(n) \/ n = "pwospf"
      BY <2>1 DEF Holding
    <3>3. CASE u = t
      BY <1>0, <2>2, <3>1, <3>2, <3>3, MutexesAre
    <3>4. CASE u # t
      BY <1>0, <2>2, <3>1, <3>2, <3>4, MutexesAre
    <3> QED BY <3>3, <3>4
  <2> QED BY <2>3, <2>4 DEF IInv
<1>2. CASE NextNeighbor(t)
  <2>1. Holding("nbr search") = Holding("in flood") /\ "nbr search" \in Places
    BY HoldingIs DEF OnlyPwospf
  <2>2. OwnerIsInside' /\ pc' \in [Threads -> Places]
    BY <1>0, <1>2, <2>1, MoveKeeps DEF NextNeighbor
  <2>3. left' \in [Threads -> 0 .. MaxNbrs]
    <3>1. left \in [Threads -> 0 .. MaxNbrs] /\ left' = [left EXCEPT ![t] = left[t] - 1]
      BY <1>2 DEF IInv, TypeOK, NextNeighbor
    <3>2. left[t] \in 0 .. MaxNbrs /\ left[t] > 0
      BY <1>0, <1>2, <3>1 DEF NextNeighbor
    <3>3. \A n \in 0 .. MaxNbrs : n > 0 => n - 1 \in 0 .. MaxNbrs
      BY OneFewer
    <3> QED BY <1>0, <3>1, <3>2, <3>3
  <2> QED BY <1>2, <2>2, <2>3 DEF IInv, TypeOK, NextNeighbor
<1>3. CASE search_cache(t, "nbr search", "in nbr search", {"in flood", "nbr mac"})
  <2> DEFINE next == {"in flood", "nbr mac"}
  <2>1. /\ "in nbr search" \in Places /\ next \subseteq Places
        /\ "cache" \notin Holding("nbr search")
        /\ Holding("in nbr search") = Holding("nbr search") \cup {"cache"}
        /\ \A to \in next : Holding(to) = Holding("nbr search")
    BY HoldingIs DEF OnlyPwospf
  <2> QED BY <1>0, <1>3, <2>1, SearchKeeps
<1>4. CASE get_mac_address(t, "nbr mac", "in nbr mac", "in flood")
  <2>1. /\ "in nbr mac" \in Places /\ "in flood" \in Places
        /\ "arpq" \notin Holding("nbr mac")
        /\ Holding("in nbr mac") = Holding("nbr mac") \cup {"arpq"}
        /\ Holding("in flood") = Holding("nbr mac")
    BY HoldingIs DEF OnlyPwospf
  <2> QED BY <1>4, <2>1, GetMacKeeps
<1>5. ASSUME NEW to \in Free, Unlock(t, "pwospf", "in flood", {to})
      PROVE  IInv'
  <2>1. /\ {to} \subseteq Places /\ "pwospf" \in Holding("in flood")
        /\ \A p \in {to} : Holding(p) = Holding("in flood") \ {"pwospf"}
    BY HoldingIs DEF OnlyPwospf
  <2>2. {to} \in SUBSET Places /\ "pwospf" \in Mutexes
    BY <2>1, MutexesAre
  <2> QED BY <1>0, <1>5, <2>1, <2>2, UnlockKeeps
<1> QED BY <1>1, <1>2, <1>3, <1>4, <1>5 DEF FloodTo

\* A section with nothing else held.
LEMMA SectionKeeps ==
    ASSUME IInv, NEW t \in Threads, NEW m \in Mutexes, NEW from \in Free, NEW in \in Places,
           Holding(in) = {m}, NEW next \in SUBSET Free,
           Lock(t, m, from, in) \/ Unlock(t, m, in, next)
    PROVE  IInv'
<1>1. Holding(in) = Holding(from) \cup {m}
  BY HoldingIs
<1>2. /\ next \in SUBSET Places /\ m \in Holding(in)
      /\ \A to \in next : Holding(to) = Holding(in) \ {m}
  BY HoldingIs
<1> QED BY <1>1, <1>2, LockKeeps, UnlockKeeps

\* A move from rest.
LEMMA RestKeeps ==
    ASSUME IInv, NEW t \in Threads, pc[t] \in Free, NEW to \in Free,
           pc' = [pc EXCEPT ![t] = to], UNCHANGED <<owner, left>>
    PROVE  IInv'
<1>1. to \in Places /\ Holding(to) = Holding(pc[t])
  BY HoldingIs
<1> QED BY <1>1, MoveKeeps DEF IInv, TypeOK

\* Every step of the packet handlers keeps IInv.
LEMMA MainKeeps == ASSUME IInv, MainStep PROVE IInv'
<1> USE ThreadsAre, MutexesAre, HoldingIs
<1>1. CASE handle_HELLO
  BY <1>1, SectionKeeps DEF handle_HELLO, Free, OnlyPwospf
<1>2. CASE handle_lsu
  BY <1>2, SectionKeeps DEF handle_lsu, Free, OnlyPwospf
<1>3. CASE get_sequence
  BY <1>3, SectionKeeps DEF get_sequence, Free, OnlyPwospf
<1>4. CASE add_to_top
  BY <1>4, SectionKeeps DEF add_to_top, Free, OnlyPwospf
<1>5. CASE set_sequence
  BY <1>5, SectionKeeps DEF set_sequence, Free, OnlyPwospf
<1>6. CASE get_dyn_routing_if
  BY <1>6, SectionKeeps DEF get_dyn_routing_if, Free, OnlyPwospf
<1>7. CASE create_eth_hdr
  <2>1. CASE search_cache(Main, "resolve", "in resolve", {"idle", "mac"})
    BY <2>1, SectionKeeps DEF search_cache, Free, OnlyCache
  <2>2. CASE get_mac_address(Main, "mac", "in mac", "idle")
    <3>1. /\ "in mac" \in Places /\ "idle" \in Places /\ "arpq" \notin Holding("mac")
          /\ Holding("in mac") = Holding("mac") \cup {"arpq"}
          /\ Holding("idle") = Holding("mac")
      BY DEF Free, OnlyArpq
    <3> QED BY <2>2, <3>1, GetMacKeeps
  <2> QED BY <1>7, <2>1, <2>2 DEF create_eth_hdr
<1>8. CASE handle_ARP
  <2>1. CASE search_cache(Main, "reply", "in reply", {"store", "recheck"})
    BY <2>1, SectionKeeps DEF search_cache, Free, OnlyCache
  <2>2. CASE Lock(Main, "cache", "store", "in store")
             \/ Unlock(Main, "cache", "in store", {"recheck"})
    BY <2>2, SectionKeeps DEF Free, OnlyCache
  <2>3. CASE search_cache(Main, "recheck", "in recheck", {"idle"})
    BY <2>3, SectionKeeps DEF search_cache, Free, OnlyCache
  <2> QED BY <1>8, <2>1, <2>2, <2>3 DEF handle_ARP
<1>9. CASE forward_lsu
  BY <1>9, FloodKeeps DEF forward_lsu, Free
<1> QED BY <1>1, <1>2, <1>3, <1>4, <1>5, <1>6, <1>7, <1>8, <1>9 DEF MainStep

\* Every step of the pwospf thread keeps IInv.
LEMMA BeatKeeps == ASSUME IInv, BeatStep PROVE IInv'
<1> USE ThreadsAre, MutexesAre, HoldingIs
<1>1. CASE send_HELLO
  BY <1>1, SectionKeeps DEF send_HELLO, Free, OnlyPwospf
<1>2. CASE check_top_invalid
  BY <1>2, SectionKeeps DEF check_top_invalid, Free, OnlyPwospf
<1>3. CASE send_lsu
  BY <1>3, FloodKeeps DEF send_lsu, Free
<1> QED BY <1>1, <1>2, <1>3 DEF BeatStep

\* Every step of an ARP thread keeps IInv.
LEMMA ArpKeeps == ASSUME IInv, NEW h \in Hops, ArpStep(h) PROVE IInv'
<1> USE ThreadsAre, MutexesAre, HoldingIs
<1>1. CASE FirstRequest(h)
  <2>1. CASE Lock(h, "arpq", "first", "in first")
    BY <2>1, SectionKeeps DEF Free, OnlyArpq
  <2>2. CASE Unlock(h, "arpq", "in first", {"sleep"})
    BY <2>2, SectionKeeps DEF Free, OnlyArpq
  <2> QED BY <1>1, <2>1, <2>2 DEF FirstRequest
<1>2. CASE ReadAndSearch(h)
  <2>1. CASE search_cache(h, "search", "in search", {"send", "resend"})
    BY <2>1, SectionKeeps DEF search_cache, Free, OnlyCache
  <2>2. CASE Lock(h, "arpq", "read", "in read") \/ Unlock(h, "arpq", "in read", {"search"})
    BY <2>2, SectionKeeps DEF Free, OnlyArpq
  <2> QED BY <1>2, <2>1, <2>2 DEF ReadAndSearch
<1>3. CASE SendAll(h)
  BY <1>3, SectionKeeps DEF SendAll, Free, OnlyArpq
<1>4. CASE Resend(h)
  BY <1>4, SectionKeeps DEF Resend, Free, OnlyArpq
<1>5. CASE Finish(h)
  BY <1>5, SectionKeeps DEF Finish, Free, OnlyArpq
<1> QED BY <1>1, <1>2, <1>3, <1>4, <1>5 DEF ArpStep

\* IInv is inductive.
LEMMA Inductive == ASSUME IInv, [Next]_vars PROVE IInv'
<1> USE ThreadsAre
<1>1. CASE Receive
  BY <1>1, RestKeeps DEF Receive, Free
<1>2. CASE MainStep
  BY <1>2, MainKeeps
<1>3. CASE BeatStep
  BY <1>3, BeatKeeps
<1>4. CASE Wake
  BY <1>4, RestKeeps DEF Wake, Free
<1>5. ASSUME NEW h \in Hops, ArpStep(h) PROVE IInv'
  BY <1>5, ArpKeeps
<1>6. ASSUME NEW h \in Hops, WakeArp(h) PROVE IInv'
  BY <1>6, RestKeeps DEF WakeArp, Free
<1>7. CASE UNCHANGED vars
  BY <1>7 DEF IInv, TypeOK, OwnerIsInside, vars
<1> QED BY <1>1, <1>2, <1>3, <1>4, <1>5, <1>6, <1>7 DEF Next

\* Nobody holds a mutex when the threads start.
LEMMA Initially == Init => IInv
<1> SUFFICES ASSUME Init PROVE IInv
  OBVIOUS
<1>1. \A t \in Threads : pc[t] \in Free
  BY DEF Init, Free
<1>2. NoOne \notin Threads
  BY LocksAssumption DEF Threads
<1>3. pc \in [Threads -> Places]
  BY <1>1, HoldingIs DEF Init
<1>4. TypeOK
  BY <1>3, LocksAssumption DEF TypeOK, Init
<1>5. \A t \in Threads, m \in Mutexes : pc[t] \notin Inside(m)
  BY <1>1, HoldingIs DEF Holding
<1> QED BY <1>2, <1>4, <1>5 DEF IInv, OwnerIsInside, Init

\* Every reachable state is well formed, and every mutex belongs to the one thread
\* that is between its lock and its unlock, for any number of ARP threads and any
\* number of neighbors in the LSU loops (lsu.c:126-173, 183-293).
THEOREM OwnerIsInsideAlways == Spec => [](TypeOK /\ OwnerIsInside)
<1>1. Init => IInv
  BY Initially
<1>2. IInv /\ [Next]_vars => IInv'
  BY Inductive
<1> QED BY <1>1, <1>2, PTL DEF Spec, IInv

\* The order of the mutexes: pwospf_lock is never asked for by a thread that holds a
\* mutex, and nothing is asked for by a thread that holds one of the others.
LEMMA LockOrder ==
    /\ \A m \in Mutexes : Inside(m) \cap Before("pwospf") = {}
    /\ \A m \in Mutexes : Inside("cache") \cap Before(m) = {}
    /\ \A m \in Mutexes : Inside("arpq") \cap Before(m) = {}
<1>1. /\ Inside("pwospf") \cap Before("pwospf") = {}
      /\ Inside("cache") \cap Before("pwospf") = {}
      /\ Inside("arpq") \cap Before("pwospf") = {}
  <2>1. Inside("pwospf") \cap Before("pwospf") = {}
    BY InsideIs, BeforeIs
  <2>2. Inside("cache") \cap Before("pwospf") = {}
    BY InsideIs, BeforeIs
  <2>3. Inside("arpq") \cap Before("pwospf") = {}
    BY InsideIs, BeforeIs
  <2> QED BY <2>1, <2>2, <2>3
<1>2. /\ Inside("cache") \cap Before("cache") = {}
      /\ Inside("cache") \cap Before("arpq") = {}
  <2>1. Inside("cache") \cap Before("cache") = {}
    BY InsideIs, BeforeIs
  <2>2. Inside("cache") \cap Before("arpq") = {}
    BY InsideIs, BeforeIs
  <2> QED BY <2>1, <2>2
<1>3. /\ Inside("arpq") \cap Before("cache") = {}
      /\ Inside("arpq") \cap Before("arpq") = {}
  <2>1. Inside("arpq") \cap Before("cache") = {}
    BY InsideIs, BeforeIs
  <2>2. Inside("arpq") \cap Before("arpq") = {}
    BY InsideIs, BeforeIs
  <2> QED BY <2>1, <2>2
<1> QED BY <1>1, <1>2, <1>3, MutexesAre

\* Who waits holds at most pwospf_lock, and who holds another mutex never waits:
\* so no set of threads waits for itself.
LEMMA NoCycle == ASSUME IInv PROVE NoWaitCycle
<1> SUFFICES ASSUME NEW S \in SUBSET Threads, S # {},
                    \A t \in S : \E u \in S : WaitsFor(t, u)
             PROVE  FALSE
  BY DEF NoWaitCycle
<1>0. PICK t \in S : TRUE
  OBVIOUS
<1>1. PICK u \in S, m \in Mutexes : owner[m] = u
  BY <1>0 DEF WaitsFor
<1>2. pc[u] \in Inside(m)
  BY <1>1 DEF IInv, OwnerIsInside
<1>3. PICK v \in S, n \in Mutexes : pc[u] \in Before(n) /\ owner[n] = v
  BY DEF WaitsFor
<1>4. n = "cache" \/ n = "arpq"
  BY <1>2, <1>3, LockOrder, MutexesAre
<1>5. pc[v] \in Inside(n)
  BY <1>3 DEF IInv, OwnerIsInside
<1>6. \A k \in Mutexes : pc[v] \notin Before(k)
  BY <1>4, <1>5, LockOrder
<1> QED BY <1>6 DEF WaitsFor

\* Types: no thread is anywhere but at a place of its own code, no mutex has two owners
\* or one that is no thread, and no thread has more neighbors left than there can be.
THEOREM TypeCorrect == Spec => []TypeOK
<1>1. Init => IInv
  BY Initially
<1>2. IInv /\ [Next]_vars => IInv'
  BY Inductive
<1>3. IInv => TypeOK
  BY DEF IInv
<1> QED BY <1>1, <1>2, <1>3, PTL DEF Spec

\* The router cannot deadlock on its mutexes.
THEOREM NoWaitCycleAlways == Spec => []NoWaitCycle
<1>1. Init => IInv
  BY Initially
<1>2. IInv /\ [Next]_vars => IInv'
  BY Inductive
<1>3. IInv => NoWaitCycle
  BY NoCycle
<1> QED BY <1>1, <1>2, <1>3, PTL DEF Spec
=============================================================================
