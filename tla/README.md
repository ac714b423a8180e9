# PWOSPF router: TLA+ models and proofs

This directory models the router of this repository: a software router that
runs PWOSPF (a small OSPF), resolves MAC addresses with ARP, forwards IP packets
and filters them with a stateful firewall. Paths such as `top_info.c` are
relative to `src/`; `src/README` is the repository's own documentation.

    tlc -workers 2 -config MCPwospf_line.cfg MCPwospf     # a run
    tlapm ArpQueueProofs.tla                              # a module of proofs

`PROJECT.json` lists the runs, the source lines each definition stands for, the
hazards and which property covers each, and the findings.

## 1. The system

Three kinds of threads share one `struct sr_instance`:

- the **main thread** reads packets from the VNS server and handles each one to
  the end (`sr_handlepacket`);
- the **pwospf thread** sends a HELLO every 5 s and every 30 s removes the routers
  that timed out and sends an LSU (`pwospf_run_thread`);
- an **ARP thread** for each next hop that is being resolved (`arp_req_init`).

Three mutexes protect the shared state: `pwospf_lock` (topology, neighbors,
forwarding table), `cache_lock` (ARP cache) and `arp_q_lock` (ARP queue).

| Component | State | Operations | Talks to | What is hard | What makes it correct |
|---|---|---|---|---|---|
| Topology database (`top_info.c`) | list of routers, each with adjacencies, subnets, expiry, last sequence number; forwarding table | `add_to_top`, `check_top_invalid`, `remove_from_topo`, `set_sequence`, `get_sequence`, `dijkstra`, `update_ftable` | called by LSU and HELLO code and by the pwospf thread | the same link is changed by LSUs of both ends, by HELLO expiry and by router expiry; pointers into freed routers; ties and unreachable routers in the shortest paths | adjacencies and subnets agree, nothing points to a removed router, the table holds shortest paths |
| HELLO (`hello.c`) | a neighbor array per interface | `handle_HELLO`, `send_HELLO` | topology | expiry is driven by arrivals; the loop removes while it walks | a silent neighbor goes and takes its link along |
| LSU (`lsu.c`) | the LSU in hand, `last_seq_sent` | `handle_lsu`, `forward_lsu`, `send_lsu`, `generate_adv` | topology, ARP | one LSU is handled in several critical sections; duplicates and late LSUs | links of a router are what it last advertised; LSUs list the live links |
| PWOSPF thread (`sr_pwospf.c`) | loop position | `pwospf_init`, `pwospf_run_thread`, `handle_pwospf` | all of the above | interleaving with the main thread | dead routers are forgotten |
| ARP cache (`arp.c`) | entries with an expiry | `search_cache`, `check_cache_invalid`, `add_cache_entry`, `handle_ARP` | ARP queue, forwarding | the result of a search is a pointer that outlives the lock | no freed address is copied |
| ARP queue (`arpq.c`, `buffer.c`, `lsu_buf.c`) | an entry per next hop: two buffers, `num_requests`, a thread | `get_mac_address`, `arp_req_init` | cache, both senders | three threads on one entry, in several critical sections; retries and replies race | every packet is sent or answered, once |
| Firewall (`fw.c`) | rule table, flow table, `ft_size` | `check_connection`, `tell_valid`, `remove_stale_entries` | called by `handle_ip` | the table at its limit, expiry, update limit | only what the inside opened comes in, and it closes |
| IP handling (`sr_router.c`, `icmp.c`, `buffer.c`) | the frames that wait | `sr_handlepacket`, `handle_ip`, `create_eth_hdr`, `get_dyn_routing_if`, `get_static_routing_if`, `send_icmp` | everything | masks compared as integers; the table changes while a frame waits; entries without a next hop | the longest prefix is taken, and every frame leaves well formed for the right station |
| Interfaces, static routes (`sr_if.c`, `sr_rt.c`) | two lists filled at the start | `sr_add_interface`, `sr_load_rt`, `sr_verify_routing_table`, lookups | program start, forwarding | lines of every shape; two sources of the table | every route leaves through an interface that exists |
| VNS session (`sr_vns_comm.c`) | the socket, the commands that wait | `sr_connect_to_server`, `sr_read_from_server_expect`, `sr_send_packet` | the server, `sr_handlepacket` | commands out of turn, a close or a lost connection at any point; return values with several meanings | a close is obeyed, nothing is done twice |
| Program start (`sr_main.c`) | the position in `main` | `main`, `sr_init` | all of the above | the order of the calls; exits on the way | the pwospf thread comes after all it uses |
| Packet dump, SHA-1, headers (`sr_dumper.c`, `sha1.c`, `sr_protocol.h`) | none | | | pure output, third party code, layout | |

## 2. The modules

| Module | Models | Kind |
|---|---|---|
| `TopInfo` | `top_info.c` | operators: each takes the database and returns what the C function leaves |
| `Pwospf` (extends `TopInfo`) | `hello.c`, `lsu.c`, `sr_pwospf.c`, and the calls of `top_info.c` | state machine of one router with its two threads, the other routers as environment |
| `ArpQueue` | `arp.c`, `arpq.c`, `buffer.c`, `lsu_buf.c`, the MAC lookup of `sr_router.c` and `lsu.c` | state machine with two senders and a thread per next hop |
| `Delivery` | nothing in the code: what the ARP queue promises its packets | abstract specification |
| `Firewall` | `fw.c` and all of `handle_ip` | state machine |
| `Forwarding` | `sr_handlepacket`, the longest prefix match and `create_eth_hdr` (`sr_router.c`), `icmp.c`, the replies of `arp.c`, `buffer.c`, `sr_send_packet` | state machine over frames |
| `Flood` | `send_lsu`, `handle_lsu`, `forward_lsu`, `lsu_buf.c` on every router of a network | composition: several routers, links between them, faults |
| `Locks` | the lock and unlock calls of every function, with the threads that reach them | state machine of the three mutexes |
| `Session` | `sr_main.c`, `sr_vns_comm.c`, `sr_if.c`, `sr_rt.c` | state machine of `main` against the server |
| `ArpQueueProofs`, `LocksProofs`, `FirewallProofs`, `ForwardingProofs`, `SessionProofs`, `FloodProofs`, `PwospfProofs`, `ListFacts` | | theorems; `ListFacts` has what the others need of searches, walks and sums over lists |
| `MCPwospf`, `MCArpQueue`, `MCFirewall`, `MCForwarding`, `MCFlood`, `MCLocks`, `MCSession` | | instances for TLC |

An operator whose name ends in `Bug` is another operator with one mistake a
programmer could make. No specification uses it; it is there to see that a
property notices the mistake.

### Conventions

- In `Pwospf` and `ArpQueue` one action is one critical section, or one use of a
  value that was carried out of one. The code between two critical sections touches
  no shared state. `Locks` is about the sections themselves, so that their being
  exclusive, and ending, is checked and not assumed.
- Absolute times are kept as the ticks that remain, down to the first value at
  which the code's comparison sees them as over. A tick is 5 s, the interval of
  HELLOs and of ARP requests, in `Pwospf` and `ArpQueue`; in `Firewall` it is the unit of `TTL_INCREMENT`.
  A thread that is awake may be slower than any tick.
- Use of freed memory is a flag (`misuse`), or a free choice of the outcome where
  the value read decides something (`CompareSequence`); the model then goes on,
  so the other properties also hold after it, provided the program survives.
- The heap arrays are sequences. Their capacity is not modelled.

### Pwospf

`net` is `ospf_subsys->network` as a record: `order` is the linked list, `adj`,
`subs`, `exp` and `seq` the fields of a `struct router`. `nbrs` holds the neighbor
arrays, `ftable` the forwarding table, `main` and `beat` the positions of the two
threads, and `wire` what the last step sent. A router's pointer is its id; that
this is sound is the invariant `AdjacencyKnown`. `written` are the prefixes of the
own subnets whose `next_hop` somebody wrote: `pwospf_init` writes it, but a subnet
that was pruned and comes back through the LSU of a neighbor (`opp_route`,
`lsu.c:63-66`, `top_info.c:471`) has what `malloc` returned, and `update_ftable`
copies that into the table (`top_info.c:704`, `top_info.c:729`). Such a next hop is
the constant `Unwritten`; the one `pwospf_init` computed is `Self`.

`handle_HELLO` is one critical section and one action. `handle_lsu` is
`ReadSequence` (get_sequence finds the router), `CompareSequence` (its `last_seq`
is read after the unlock), `AddToTop` (including dijkstra and update_ftable),
`SetSequence` and `ForwardLsu`. The pwospf thread is `SendHello`, `CheckTopInvalid`
and `SendLsu`. Any LSU of the constant `Lsus` may arrive at any time with any
sequence number, so loss, duplication and reordering are all included.

### ArpQueue

`life` is the cache, `pending` and `num` the entries and their `num_requests`,
`pac` and `lsu` the live nodes of the two buffers, `stale` says which head points
to freed nodes, `thr` and `job` are the threads. `fate[p]` says where a packet is
and how it ended. `lent` are the holders of a MAC pointer into a freed entry.
`send_lsu` and `forward_lsu` hold `pwospf_lock` while they search, so at most one
sender has an LSU in hand; `Lookup` has this as its guard. A packet stands for
one copy for one next hop. Giving up is the fate "unreachable"; what `send_icmp`
then does for a packet, and that it may end the process, is in `Forwarding`.

### Locks

`owner` says who has a mutex, `pc[t]` where thread t is: at `"x"` it is about to
lock, at `"in x"` it is inside. `left` counts the neighbors an LSU has yet to go to:
`send_lsu` and `forward_lsu` search the ARP cache and queue for each of them while
they hold `pwospf_lock`, which is the one nesting in the program. Data decide
nothing here: where the code tests a value, both ways are open, so that every
order of locks the code can take is among the behaviours.

### Forwarding

An address or mask is the set of its one bits, in the order of the wire, so `&` is
set intersection and a mask may be any set. The code compares masks as the integers
a little endian machine reads from the four bytes; `s_addr` is that conversion.
The verdict of the firewall and the new forwarding table are free choices here:
`Firewall` and `Pwospf` have them. A route carries its next hop and its interface
independently of each other: nothing in `sr_rt.c` or `top_info.c` checks that two
routes with one next hop agree on the interface. An entry for which
`get_if_and_neighbor` found nobody has the next hop `Unset` and the interface `NoIf`;
a next hop that is garbage is one more of `Hops`. Two copies of the interface decide
how a frame ends. Its source address is that of the route's interface, written when
the header is made (`Outgoing`). If the ARP cache has the next hop, the frame also
leaves there. If it does not, the frame waits in `queue` and leaves through
`iface_name` of the ARP entry for that next hop (`Leaving`), which `create_entry` set
for the first packet or LSU (`LsuWaits`, `Neighbors`) and nobody sets again. `HopMac`
says that one station answers for a next hop, on whichever interface it is asked.
`out` and `refused` are what the last step sent and what `sr_send_packet` refused.
`dead` is a NULL dereference, in `create_eth_hdr` (`NoInterface`) or in `send_icmp`;
the process then does nothing more. `ArpOther` is the branch of `handle_ARP` that sends a reply
it never filled in: an address nobody wrote is the constant `Junk`, or by chance
that of an interface.

### Flood

All routers of the network run this program, and the LSUs of one of them are
followed. `handle_lsu` is one step, and the database of a router is the sequence
number and the version of the origin's links that it last accepted; that an LSU
replaces the links of its router is `LsuReplacesLinks`, checked in `Pwospf`. The
neighbor lists are constant. A link is first in, first out; a copy whose next hop
is not in the ARP cache waits in `buffer`, newest first, as `lsu_buf.c` has it.
The environment loses packets, lets ARP fail, restarts a router (nothing is kept,
the origin counts from 0 again) and lets the origin time out, `MaxFaults` times in all.

### Session

`pc` is the position of `main`, each call of `sr_read_from_server_expect` one step
that takes one whole command from `stream`. The server is the environment: it
follows the protocol and may put a banner or an unknown command in between, refuse
the login, close, or vanish. A routing table file is the sequence of its lines and
a line is the interface it names, blank, or one with a bad address. `sscanf` leaves
the words of the line before in place when a line is blank, so the route before is
added again; at the first line the words are what was on the stack, any of the
constant `Garbage`. `Spin` is the
loop around `recv`, which returns 0 on a connection that is gone and is called again.

### Firewall

An action per way through `handle_ip`: for the router, for AllSPFRouters, no
route, from outside to inside, from outside to outside, from inside. The route of
a destination is a constant. Packets shorter than their headers, or with IP
options, are left out: they return before any state is touched. The ports are what
the code reads: in two of the three branches the packet pointer still points to
the IP header, so they are the version/TOS word and the total length.

## 3. The runs

All bounds are constants of the configuration files.

| Run | Instance | Shows |
|---|---|---|
| `pwospf_line` | R - A - B, one interface, three LSUs, one with two subnets nobody is on and one with none of its links | all safety properties of the database and the table, and that a router nobody mentions is forgotten; 1.03 million states |
| `pwospf_tri` | triangle, two interfaces, two LSUs | the table and the links where paths compete; 1.8 million states |
| `flood` | the origin at a triangle, two slow links, 2 faults, 1 change of links, TTL 4 | `Converges`: once the faults are over every router holds the newest LSU for good; 717 thousand states |
| `locks` | two next hops, LSUs to up to 2 neighbors | a mutex is held exactly inside its sections, nobody waits in a circle, every handler returns; 54 thousand states |
| `arp` | two next hops, 2 data packets, 1 LSU, 2 requests, cache life 1 | counters, ownership, stale heads, giving up, that every packet ends, and the refinement of `Delivery`; 454 thousand states |
| `fw_all` | every branch of `handle_ip`, three connections for 2 entries, 1 update | the table at its limit, what comes in, what is refused, and `Closes`; 97 thousand states |
| `forwarding` | three interfaces, two next hops of which one is behind either of two interfaces, addresses of two bytes of two bits, every order of nested prefixes | the longest prefix is taken, which frames are refused, and frames that leave are for the right station; 103 thousand states |
| `session` | three interface names, two host names, tables of every kind of line | the order of the start, routes with interfaces, and that a close is obeyed; 65 thousand states |

Why the bounds are enough. Three routers give each kind of router the code tells
apart: the own one, a neighbor, and one known only by hearsay; an LSU can cut a
link, move it, or name a router nobody has heard of. Two sequence numbers
distinguish "equal" and "different", the only thing the code asks, and wrap. The
lives are 0 or 1 ticks, so that each may end before or after each other one. In
`ArpQueue` one entry sees every interleaving of both senders with the thread; a
second one is there for what the cache purge of one does to the other; two requests
are the first, which `get_mac_address` starts, and the last. In `Firewall` three
connections for two entries make the table full with each mix of valid and stale
entries. The numbers 80, 50 and 30 of `fw.h` are 1 or 2; every comparison with them
is reached from both sides. In `Forwarding` two bytes are what it takes for a mask
to cross a byte boundary, the case in which an integer comparison of masks could
go wrong, and the interfaces after the first are those
`get_if_from_mac` does not find. A static route puts one next hop behind another
interface than the neighbor lists do, the other next hop is undisputed. In `Flood` the triangle is the smallest cycle that does not go
through the origin, where an old LSU could chase a newer one, and TTL 4 lets a copy
go once around it; three sequence numbers wrap within a run, and a copy may still be
under way when the next is sent (`MaxInFlight`). In `Locks` two ARP threads are
enough for one to wait for the other, and two neighbors make the loop under
`pwospf_lock` come back to a lock it has left. In `Session` each kind of line, a blank one first too, and
each way of main, template or not, is in the constants, and two commands may wait
while the next is sent.

`forwarding` and `session` do not check for deadlock: the process may have died on
a NULL pointer, and the program may have ended. In all other runs the threads
never stop, and TLC checks that.

### Violations

These runs state a sentence of the documentation and TLC finds that the code does
not keep it. Each is a finding in `PROJECT.json`, with the line it quotes.

| Run | Property | What happens |
|---|---|---|
| `pwospf_freed` | `NoReadAfterFree` | `get_sequence` reads a router after its unlock, and the other thread has freed it |
| `pwospf_served` | `ReachableSubnetsServed` | one unreachable router ends the rebuild of the table |
| `arp_lost` | `NothingLost` | a packet queued in the gap of `arp_req_init` vanishes |
| `fwd_unreachable` | `UnreachableSentForAll` | `get_if_from_mac` never resets `match`, so only the first interface is found; for a packet of another one `send_icmp` uses NULL |

The modules state more sentences of the documentation that TLC refutes. They are
not runs of their own; to see one, name it as the only property of the
configuration in the second column.

| Property | Configuration | Sentence | What happens |
|---|---|---|---|
| `UnadvertisedSubnetDeleted` | `MCPwospf_served.cfg` | `top_info.c:306` "check host's subnets. If any don't have a corresponding advertisement, delete." | the pruning deletes by r_id and hits another subnet (`top_info.c:311`) |
| `LsuListsNeighborSubnets` | `MCPwospf_freed.cfg` with `NbrLife = 0`, `InitLife = 0`, `RouterLife = 3` | `README:15` "The LSU includes advertisements for each of its subnets' that are known to have a neighbor router connected" | a neighbor that was gone for a while is never advertised again (`hello.c:69`) |
| `SilentNeighborDropped` | `MCPwospf_line.cfg` with `Lsus <- noLsus` | `README:22` "subnets and adjacencies are deleted based on the absence of advertisements are HELLO packets" | expiry runs only when a HELLO arrives: the only neighbor falls silent and stays (`hello.c:55`) |
| `AdvertisedSubnetAdded` | `MCPwospf_served.cfg` | `top_info.c:391` "Adds subnets received in a LSU from the host router." | an advertised subnet is skipped (`top_info.c:425`) |
| `ReverseSubnetAdded` | `MCPwospf_served.cfg` with `Lsus <- wideLsus` | `top_info.c:395` "Adds the reverse subnet to router identified by the rid in the subnet" | a link lacks its other end (`top_info.c:480`) |
| `UnreachableMeansNoReply` | `MCArpQueue_lost.cfg` | `README:31` "If 5 requests are sent with no reply received, a ICMP Host Unreachable is sent" | a reply to the fifth request is not looked at (`arpq.c:167`) |
| `NoFreedBuffer` | `MCArpQueue_lost.cfg` | `buffer.c:100` "Sends all packets in buff and then empties buff and sets equal to NULL" | a packet is added behind freed nodes (`arpq.c:149`) |
| `NoFreedMac` | `MCArpQueue_lost.cfg` | `README:58` "we use mutexes to protect and serialize access" | the MAC address is copied out of a freed entry (`arp.c:221`) |
| `OnlyStaleRemoved` | `MCFirewall_all.cfg` with `Rules <- noRules` | `fw.c:347` "Removes entries that are no longer valid" | cleaning drops valid entries (`fw.c:347`, `fw.c:359`) |
| `AnswerAdmitted` | `MCFirewall_all.cfg` with `Rules <- noRules` | `fw.c:248` "Determines whether a given connection (based on source and dest IP addresses, port numbers, and protocol) is valid" | the answer on a TCP connection is refused (`fw.c:248`, `sr_router.c:505`) |
| `FullTableAnswered` | `MCFirewall_all.cfg` with `Rules <- noRules` | `fw.c:274` "If flow table is still greater than or equal to max size, an ICMP Port Unreachable is sent." | nothing is sent (`fw.c:299`) |
| `RuleAdmits` | `MCFirewall_all.cfg` | `fw.c:432` "Checks if external IP and internal dest IP are in rule table. Returns 1 if they are" | a rule with a protocol matches nothing (`fw.c:445`) |
| `ForwardedPass` | `MCForwarding.cfg` | `README:30` "If the entry is in the cache, all of the packets in both buffers are sent" | an LSU made the ARP entry for one interface, a static route names another: the frame has the source address of the one, leaves through the other (`arpq.c:149`, `arpq.c:195`) and is refused (`sr_vns_comm.c:590`) |
| `ReadsTheReceivedTable` | `MCSession.cfg` | `sr_main.c:157` "we've recv'd the rtable now, so read it in" | the name of the file is fixed (`sr_main.c:159`); with another host name an old file is read |

### Fairness

The liveness runs assume that a thread that can move does, and that time passes
(`WF_vars(Tick)`). The operating system's scheduler and clock justify both. No
packet ever has to arrive, and no reply has to come. In `Pwospf` the fairness of
the threads is written with their positions (`MainRuns`, `PwospfRuns`) instead of
`WF`: the formulas are equal, and TLC would rebuild the whole database to evaluate
`ENABLED`.

- `Locks`: strong fairness for a thread that waits for a mutex, since others may
  take it in between. POSIX mutexes promise no order, so this is an assumption on the
  scheduler; the code helps it, as the pwospf and ARP threads sleep for seconds
  between their sections. `sleep` ends (weak). Nobody has to send a packet.
- `Flood`: the origin sends again and again (its pwospf thread never ends), each
  router reads what a link has, and each ARP thread that is not a fault ends with
  its buffer sent. Faults and changes are bounded and never have to happen.
- `Session`: main goes on. The server never has to send anything.

## 4. The proofs

`ArpQueueProofs` proves, for every set of next hops and packets and every value of
`MaxRequests > 0` and `CacheLife` (`ArpAssumption`):

- `TypeCorrect`, `NumMatchesThreadAlways`, `QueuedIsOwnedAlways`,
  `StaleOnlyBeforeFinishAlways`: the invariants of the runs;
- `GiveUpAfterAllRequestsAlways`: the action property;
- `Refinement`: `Spec => ImplementsDelivery`, where the waiting set of a next hop
  is the union of its two buffers.

None of the invariants is inductive alone. The inductive one, `IInv`, has three
parts. `ThreadInv` adds `ThreadProgress` to the types and `NumMatchesThread`: how
the loop variable, `num_requests` and the requests sent are related at each
position of the thread; without it nothing bounds `num_requests`, and "after all
requests" cannot be read off the last section. `QueueInv` adds `JobsOwnPackets` to
`QueuedIsOwned`: a packet in a sender's hands is in no buffer and in no other
sender's hands; without it a second copy could be queued. The third part is
`StaleOnlyBeforeFinish`. The proof is along the refinement: `Simulates` shows that
a step from `ThreadInv` and `QueueInv` is a step of `Delivery` or a stutter, and
that a queued packet stays in exactly one buffer is then proved of `Delivery`'s
six actions rather than of the thirteen of `ArpQueue`.

`LocksProofs`, for any number of ARP threads and of neighbors (`LocksAssumption`):
`TypeCorrect`, `OwnerIsInsideAlways` and `NoWaitCycleAlways`. The inductive invariant
is `TypeOK` with `OwnerIsInside`: without the exact correspondence of owner and place
an unlock could free a mutex somebody else holds. Every action is a lock, an unlock or
a move outside, so three lemmas carry the induction. That nobody waits in a circle
follows: a thread inside a section of the cache or the queue waits for nothing, so
every chain of waiting threads ends there.

`FirewallProofs`, for every set of packets and rules, every routing and every
`MAX_FT_SIZE`, `TTL_INCREMENT` and `MAX_TTL_UPDATES` (`FirewallAssumption`):
`TypeCorrect`, `SizeAndEntriesAgreeAlways`, `AdmittedWasOpenedAlways`,
`RefusedOnlyWhenFullAlways`. The invariant `WellKept` says of the table that
`ft_size` is its length and within the limit, that an entry's life is at most what
its updates gave it, that a connection has at most one live entry, and that each
entry was opened by a packet from inside. "One live entry" is needed for the first
match of `ft_contains` to be the right one, "opened" for what comes in. Each
function of `fw.c` takes a table that is kept well and leaves one.

`ForwardingProofs`, for every set of interfaces, next hops, packets and forwarding
tables and every width of an address and of an octet (`ForwardingAssumption`; the
masks of a route are contiguous): `TypeCorrect`, `WellFormedLeavesAlways`,
`FramesGoWhereTheyShouldAlways`, `RouteIsLongestMatchAlways`. The invariant `FInv`
adds to the properties what is true of a frame while it waits: it is the packet it
was made from, rewritten for a route, a longest match in some table, to the next hop
in whose queue it stands; and that the interface of an ARP entry is one that a route
or an LSU names for that next hop, and is set while frames wait. So when the table
changes during the wait, the frame's source address and the entry's interface still
belong to two routes to one next hop. They are the same interface unless the next hop
is `Disputed`, and then `sr_send_packet` refuses the frame unless they happen to
agree; of forwarded frames `WellFormedLeaves` allows no other to be refused. Without
that part a frame sent after an ARP reply could be for anybody. The longest prefix match needs
that `s_addr`, the integer a little endian machine reads from the mask, grows with
the length of a contiguous mask: a sum of powers of two over a set of positions,
shown to be the same in whatever order it is taken and to grow with each position.

`SessionProofs`, for every file, table, host name and set of interfaces
and whatever the words of a line read before one is written (`SessionAssumption`:
a file is a sequence): `TypeCorrect`, `StartsInOrderAlways` and
`RoutesHaveInterfacesAlways`. The last two
need to know what is still in the stream: an accepting status is there only once the
server has judged the reply (`AuthInv`), and the interfaces are announced once, so
that a second pwospf thread is never started (`HwInv`). `OpenInv` says what main has
done by where it is. `TypeCorrect` goes through the loop of `sr_load_rt`: no route
is made of an address `inet_aton` refused, although a blank line uses words that
another line, or nobody, wrote: the test comes after `sscanf`, on whatever the words are.

`FloodProofs`, for every network, TTL, sequence space and number of faults
(`FloodAssumption`): `TypeCorrect`. The queues of each link hold only LSUs with a TTL
from 1 to `INIT_TTL` and a version the origin has had; the invariant keeps the
sequences, where `TypeOK` speaks of the set of copies.

`PwospfProofs`, for any number of routers, interfaces, LSUs and advertisements and
every life and interval: `TypeCorrect`, `AdjacencyKnownAlways`,
`OwnSubnetsLocalAlways`, and, where links agree, `AdjacencyMatchesSubnetsAlways` and
`TimeoutLeavesNoTraceAlways`. The invariant `PInv` has the database in
`Databases({Self})`, and what is left of the LSU in hand is what its sender
advertised, since `AddToTop` uses it long after it was read. A database is

- typed (`Networks`);
- a graph (`Graph`): `AdjacencyKnown`, stated of any database and not only of `net`;
- the own router's (`Own`): it is first in the list, its subnets are those of its
  interfaces, each once, and a neighbor is named only on one of them;
- tied (`Linked`): if links agree, then in the array of each known router each named
  subnet is a link with the router at one end, none is named twice (`Joined`), and
  the adjacencies are the routers so named, except that the own router may name more
  (`Tied`). `AdjacencyMatchesSubnets` is not inductive without "none named twice":
  `remove_rt_sn_using_id` takes out the first subnet that names a router and the
  adjacency with it, so a second one would be left without its adjacency.

For each function that changes one link there is a lemma for each of the four.
`GraphIsAdjacencyKnown`, `AdvertKeepsGraph`, `PruneRoundKeepsGraph`,
`DisconnectKeepsGraph` and `UnlinkLeavesNoPointer` are those for `Graph`, listed as
they say what one round of a loop does by itself. The loops follow: over the
advertisements (`AdvertsIn`), the subnets while they are pruned (`PruneIn`),
neighbors and interfaces (`DropSilentIn`, `HelloIn`), the routers that time out
(`RemoveTimedOutIn`) and, inside it, the routers a removed one is unlinked from
(`ClearedIn`), and those of dijkstra and `update_ftable` for the types.

A loop is a fold, and the provers have no induction for what it computes.
`ListFacts` goes around it: `FoldLeft` is by definition a function on the sets of
positions, chosen so that each value is one step after the one without the last
position. `WalkIsIn` shows that there is such a function when every step stays within
a set, and `UpTo`, from the well-foundedness of the natural numbers, that what each
step keeps is true at the end.

`PwospfAssumption` says more than types of the LSUs that may arrive, and the other
routers, which run this program, keep it: an LSU does not name its sender
(`generate_adv` lists neighbors), it names the own router only on a subnet of one of
its interfaces (a neighbor learns of a router from a HELLO that came in on the
subnet they share, `hello.c`), and the own interfaces are on different subnets.

`LinksAgree` is a hypothesis of two theorems and not an assumption of the module,
because the code never checks it: a subnet joins two routers, two routers share one
subnet, and nobody advertises the prefix of a link with another mask. A network
that is wired and configured consistently has it; `MCPwospf` asserts it of every
instance but `wideLsus`, the one in which a router routes a wider subnet that starts
where its link does. There a link may lack its other end (`ReverseSubnetAdded`
above, `top_info.c:480`). The other three theorems do not need it.

Only model-checked:

- `TableIsShortestPaths`: that the walk of dijkstra finds the distances. Its types are
  proved, what it computes is not yet.
- `LsuReplacesLinks`. It is no theorem for every LSU: the pruning deletes by r_id
  (`top_info.c:311`), so of two subnets without a neighbor it may take out the other
  one, and the last of the array moves to a place the loop has passed and is never
  looked at. With three subnets, of which the first has no neighbor and is advertised,
  the second has none and is not, and the third names a router and is not advertised,
  the third stays. `PrunesById` describes the states before such a pruning, and the
  property is about all others. The LSUs of `pwospf_line` reach them: there the link
  does stay behind, which is `UnadvertisedSubnetDeleted`, refuted above.
- All liveness: `Converges`, `ThreadsComeToRest`, `EveryPacketEnds`, `Closes`,
  `SilentRouterForgotten`, `CloseIsObeyed`. Fairness and `ENABLED` are out of reach.
- The statements of the documentation, which do not hold.

## 5. Not modelled

- `sr_dumper.c` (output of a pcap file), `sha1.c` (third party), the layout of
  headers, print functions.
- Bytes: checksums, byte order but for the comparison of masks, packets shorter
  than their headers, a command that arrives in parts (the code reads on until it
  is whole).
- The capacity of the heap arrays and the `realloc` that grows them.
- Failure of `malloc` and of `pthread_create`; reading the firewall's two
  configuration files; the command line but for `-T`, `-v` and `-r`.
- Writes of several threads to the one socket (`sr_vns_comm.c:597`), which nothing
  serialises: a write is whole here.

## 6. Plan

Modelled: every component but the dump, SHA-1 and the headers. Left:

1. Capacity of the arrays (`realloc` in bytes), as a small module.
2. An abstract flow table that `Firewall` implements, and the refinement.
3. Proofs: `TableIsShortestPaths`, from the invariant of dijkstra's walk (a known
   router has its distance, an unknown one the least over the known), and the
   invariant of the pruning loop from which `LsuReplacesLinks` follows.
