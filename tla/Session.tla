------------------------------ MODULE Session -------------------------------
(***************************************************************************)
(* From the start of the program to its end: main (sr_main.c), the         *)
(* connection to the VNS server and its commands (sr_vns_comm.c), the      *)
(* interfaces (sr_if.c) and the static routes (sr_rt.c).  What a packet    *)
(* does is in the other modules; here it is served, or it ends the         *)
(* process.                                                                *)
(*                                                                         *)
(* The server is external: it follows the protocol, with a banner or a     *)
(* command nobody knows in between, and may close the session or lose the  *)
(* connection at any time.  Its commands arrive in order.                  *)
(***************************************************************************)
EXTENDS Integers, Sequences, SequencesExt

CONSTANTS Eth0,         \* the name "eth0"
          Blank, Bad,   \* a line too short to name an interface, a line with an
                        \* address inet_aton refuses
          Garbage,      \* what the four words of a line may read before one is
                        \* written: Bad, or some interface name
          Missing,      \* a file that is not there
          VrHost,       \* the host name "vrhost"
          Hosts,        \* what -v may say
          RtFiles,      \* what the file of -r may hold: a sequence of lines,
                        \* each the interface of a route, Blank or Bad
          OldTables,    \* what rtable.<host> files may hold at the start
          SentTables,   \* the routing tables the server may send
          HwInfos,      \* the interfaces the server may announce
          MaxStream     \* bound: commands that wait to be read

\* A file is a sequence of lines, whatever they are.
ASSUME SessionAssumption ==
    /\ VrHost \in Hosts /\ MaxStream \in Nat \ {0}
    /\ \A f \in (RtFiles \cup OldTables \cup SentTables) \ {Missing} : f \in Seq(Range(f))

VARIABLES template,   \* -T was given
          host,       \* -v
          rtfile,     \* what the file of -r holds
          files,      \* files[h]: what rtable.h holds
          pc,         \* where main is
          rt,         \* routing_table: the interface of each route
          ifs,        \* if_list
          started,    \* the pwospf threads that were started
          inited,     \* sr_init has run: firewall and ARP subsystem
          opened,     \* the server has the open command
          authed,     \* the server has accepted the reply
          stream,     \* the commands that wait to be read
          server,     \* what the server sends next
          sent        \* the routing table it sent

vars == <<template, host, rtfile, files, pc, rt, ifs, started, inited, opened,
          authed, stream, server, sent>>

config == <<template, host, rtfile>>

Ended == {"exit 0", "exit 1", "aborted"}
Reading == {"request", "status", "rtable", "loop"}

Init ==
    /\ template \in BOOLEAN /\ host \in Hosts
    /\ rtfile \in RtFiles
    /\ files \in [Hosts -> OldTables]
    /\ pc = "start"
    /\ rt = <<>> /\ ifs = <<>>
    /\ started = 0
    /\ inited = FALSE /\ opened = FALSE /\ authed = FALSE
    /\ stream = <<>>
    /\ server = "away"
    /\ sent = Missing

(***************************************************************************)
(* sr_load_rt.  sscanf leaves the words of the line before when a line has *)
(* none, and the route is added again; on the first line they are what the *)
(* stack held.                                                             *)
(***************************************************************************)
sr_add_rt_entry(st, iface) == [st EXCEPT !.rt = Append(@, iface), !.last = iface]

\* The words after sscanf.
sscanf(st, line) == IF line = Blank THEN st.last ELSE line

\* A change of LoadLine: the result of inet_aton is not looked at.
LoadLineBug(st, line) == IF ~st.ok THEN st ELSE sr_add_rt_entry(st, sscanf(st, line))

LoadLine(st, line) ==
    IF ~st.ok THEN st
    ELSE IF sscanf(st, line) = Bad THEN [st EXCEPT !.ok = FALSE]
    ELSE sr_add_rt_entry(st, sscanf(st, line))

sr_load_rt(file, words) ==
    IF file = Missing THEN [rt |-> <<>>, last |-> words, ok |-> FALSE]
    ELSE FoldLeft(LoadLine, [rt |-> <<>>, last |-> words, ok |-> TRUE], file)

sr_load_rt_wrap(file, next) ==
    \E words \in Garbage :
        LET loaded == sr_load_rt(file, words)
        IN  /\ rt' = loaded.rt
            /\ pc' = IF loaded.ok THEN next ELSE "exit 1"

(***************************************************************************)
(* main, up to its loop.                                                   *)
(***************************************************************************)
Start ==
    /\ pc = "start"
    /\ IF template THEN pc' = "connect" /\ UNCHANGED rt
       ELSE sr_load_rt_wrap(rtfile, "connect")
    /\ UNCHANGED <<config, files, ifs, started, inited, opened, authed, stream, server, sent>>

\* The log file may not open; gethostbyname, socket and connect may each fail.
sr_connect_to_server ==
    /\ pc = "connect"
    /\ \/ pc' = "exit 1" /\ UNCHANGED server
       \/ pc' = "request" /\ server' = "request"
    /\ UNCHANGED <<config, files, rt, ifs, started, inited, opened, authed, stream, sent>>

\* After the table of the template came.
LoadTemplate ==
    /\ pc = "load"
    /\ sr_load_rt_wrap(files[VrHost], "init")
    /\ UNCHANGED <<config, files, ifs, started, inited, opened, authed, stream, server, sent>>

\* An assertion stops the program when rules or if_config cannot be read.
sr_init ==
    /\ pc = "init"
    /\ \/ pc' = "loop" /\ inited' = TRUE
       \/ pc' = "aborted" /\ UNCHANGED inited
    /\ UNCHANGED <<config, files, rt, ifs, started, opened, authed, stream, server, sent>>

(***************************************************************************)
(* sr_read_from_server_expect.                                             *)
(***************************************************************************)
\* What main waits for at each position; in the loop anything will do.
Expected == [request |-> "VNS_AUTH_REQUEST", status |-> "VNS_AUTH_STATUS",
             rtable |-> "VNS_RTABLE", loop |-> "any"]

\* A change of Unexpected: whatever comes will do.
UnexpectedBug(c) == FALSE

Unexpected(c) == Expected[pc] \notin {"any", c.cmd} /\ c.cmd # "VNSCLOSE"

\* Where main goes when the call returns 1, and when it does not.
Onward == CASE pc = "request" -> "status"
            [] pc = "status" -> "open"
            [] pc = "rtable" -> "load"
            [] pc = "loop" -> "loop"
Failed == IF pc = "loop" THEN "exit 0" ELSE "exit 1"

NextCommand(c) == pc \in Reading /\ stream # <<>> /\ c = Head(stream) /\ stream' = Tail(stream)

Refuse(c) ==
    /\ NextCommand(c) /\ Unexpected(c)
    /\ pc' = Failed
    /\ UNCHANGED <<config, files, rt, ifs, started, inited, opened, authed, server, sent>>

Read(c) == NextCommand(c) /\ ~Unexpected(c)

\* The key file may be unreadable, and send may fail.
sr_handle_auth_request(c) ==
    /\ Read(c) /\ c.cmd = "VNS_AUTH_REQUEST"
    /\ \/ pc' = Onward /\ server' = IF server = "wait reply" THEN "status" ELSE server
       \/ pc' = Failed /\ UNCHANGED server
    /\ UNCHANGED <<config, files, rt, ifs, started, inited, opened, authed, sent>>

sr_handle_auth_status(c) ==
    /\ Read(c) /\ c.cmd = "VNS_AUTH_STATUS"
    /\ pc' = IF c.ok THEN Onward ELSE Failed
    /\ UNCHANGED <<config, files, rt, ifs, started, inited, opened, authed, server, sent>>

\* The rest of sr_connect_to_server: VNSOPEN, or VNS_OPEN_TEMPLATE and its table.
Open ==
    /\ pc = "open"
    /\ \/ /\ pc' = IF template THEN "rtable" ELSE "init"
          /\ opened' = TRUE
          /\ server' = IF server # "wait open" THEN server
                       ELSE IF template THEN "rtable" ELSE "hwinfo"
       \/ pc' = "exit 1" /\ UNCHANGED <<opened, server>>
    /\ UNCHANGED <<config, files, rt, ifs, started, inited, authed, stream, sent>>

\* The file may not be writable.
sr_handle_rtable(c) ==
    /\ Read(c) /\ c.cmd = "VNS_RTABLE"
    /\ \/ files' = [files EXCEPT ![c.host] = c.table] /\ pc' = Onward
       \/ pc' = Failed /\ UNCHANGED files
    /\ UNCHANGED <<config, rt, ifs, started, inited, opened, authed, server, sent>>

\* A change of sr_verify_routing_table: only empty lists are refused.
sr_verify_routing_tableBug(ifaces) == ifaces # <<>> /\ rt # <<>>

sr_verify_routing_table(ifaces) ==
    /\ ifaces # <<>> /\ rt # <<>>
    /\ \A i \in DOMAIN rt : Contains(ifaces, rt[i])

sr_add_interface(list, name) == Append(list, name)

\* The interfaces are added, and pwospf_init reads the address of eth0.
sr_handle_hwinfo(c) ==
    LET all == FoldLeft(sr_add_interface, ifs, c.ifaces)
    IN  /\ Read(c) /\ c.cmd = "VNSHWINFO"
        /\ ifs' = all
        /\ \/ ~sr_verify_routing_table(all) /\ pc' = Failed /\ UNCHANGED started
           \/ /\ sr_verify_routing_table(all) /\ Contains(all, Eth0)
              /\ started' = started + 1
              /\ pc' = Onward
           \/ /\ sr_verify_routing_table(all) /\ ~Contains(all, Eth0)
              /\ pc' = "aborted"
              /\ UNCHANGED started
        /\ UNCHANGED <<config, files, rt, inited, opened, authed, server, sent>>

\* An interface that is not there ends the process: sr_arp_req_not_for_us asserts
\* it, and handle_ip uses ospf_subsys before pwospf_init made it.
VnsPacket(c) ==
    /\ Read(c) /\ c.cmd = "VNSPACKET"
    /\ pc' = IF Contains(ifs, c.iface) THEN Onward ELSE "aborted"
    /\ UNCHANGED <<config, files, rt, ifs, started, inited, opened, authed, server, sent>>

\* A change of VnsClose: the call returns 1.
VnsCloseBug(c) ==
    /\ Read(c) /\ c.cmd = "VNSCLOSE"
    /\ pc' = Onward
    /\ UNCHANGED <<config, files, rt, ifs, started, inited, opened, authed, server, sent>>

VnsClose(c) ==
    /\ Read(c) /\ c.cmd = "VNSCLOSE"
    /\ pc' = Failed
    /\ UNCHANGED <<config, files, rt, ifs, started, inited, opened, authed, server, sent>>

\* VNSBANNER, and the default of the switch.
Ignore(c) ==
    /\ Read(c) /\ c.cmd \in {"VNSBANNER", "unknown"}
    /\ pc' = Onward
    /\ UNCHANGED <<config, files, rt, ifs, started, inited, opened, authed, server, sent>>

\* recv or read fails.
ReadError ==
    /\ pc \in Reading /\ server = "lost"
    /\ pc' = Failed
    /\ UNCHANGED <<config, files, rt, ifs, started, inited, opened, authed, stream, server, sent>>

\* recv returns 0 at the end of the stream, and is called again.
Spin ==
    /\ pc \in Reading /\ stream = <<>> /\ server = "lost"
    /\ pc' = "spinning"
    /\ UNCHANGED <<config, files, rt, ifs, started, inited, opened, authed, stream, server, sent>>

Command(c) ==
    \/ Refuse(c) \/ sr_handle_auth_request(c) \/ sr_handle_auth_status(c)
    \/ sr_handle_rtable(c) \/ sr_handle_hwinfo(c) \/ VnsPacket(c)
    \/ VnsClose(c) \/ Ignore(c)

Main ==
    \/ Start \/ sr_connect_to_server \/ Open \/ LoadTemplate \/ sr_init
    \/ \E c \in Range(stream) : Command(c)
    \/ ReadError \/ Spin

(***************************************************************************)
(* The server.                                                             *)
(***************************************************************************)
Up == server \notin {"away", "closed", "lost"} /\ Len(stream) < MaxStream
Sends(c, next) == Up /\ stream' = Append(stream, c) /\ server' = next

ServerSends ==
    /\ \/ /\ server = "request"
          /\ Sends([cmd |-> "VNS_AUTH_REQUEST"], "wait reply")
          /\ UNCHANGED <<authed, sent>>
       \/ /\ server = "status"
          /\ \E ok \in BOOLEAN :
                 /\ authed' = ok
                 /\ Sends([cmd |-> "VNS_AUTH_STATUS", ok |-> ok],
                          IF ok THEN "wait open" ELSE "closed")
          /\ UNCHANGED sent
       \/ /\ server = "rtable"
          /\ \E t \in SentTables :
                 /\ sent' = t
                 /\ Sends([cmd |-> "VNS_RTABLE", host |-> host, table |-> t], "hwinfo")
          /\ UNCHANGED authed
       \/ /\ server = "hwinfo"
          /\ \E hw \in HwInfos : Sends([cmd |-> "VNSHWINFO", ifaces |-> hw], "packets")
          /\ UNCHANGED <<authed, sent>>
       \/ /\ server = "packets"
          /\ Sends([cmd |-> "VNSPACKET", iface |-> Eth0], "packets")
          /\ UNCHANGED <<authed, sent>>
       \/ /\ \E c \in {"VNSBANNER", "unknown"} : Sends([cmd |-> c], server)
          /\ UNCHANGED <<authed, sent>>
       \/ /\ Sends([cmd |-> "VNSCLOSE"], "closed")
          /\ UNCHANGED <<authed, sent>>
    /\ UNCHANGED <<config, files, pc, rt, ifs, started, inited, opened>>

ServerLost ==
    /\ server \notin {"away", "lost"}
    /\ server' = "lost"
    /\ UNCHANGED <<config, files, pc, rt, ifs, started, inited, opened, authed, stream, sent>>

Next == Main \/ ServerSends \/ ServerLost

Spec == Init /\ [][Next]_vars
FairSpec == Spec /\ WF_vars(Main)

(***************************************************************************)
(* Properties.                                                             *)
(***************************************************************************)
\* No static route has an address that inet_aton refused, neither of its own line
\* nor of the words that a line too short to overwrite them leaves in place: those of
\* the line before, or of no line at all (sr_rt.c:54-76).
TypeOK ==
    /\ template \in BOOLEAN /\ host \in Hosts /\ rtfile \in RtFiles
    /\ files \in [Hosts -> OldTables \cup SentTables]
    /\ pc \in {"start", "connect", "open", "load", "init", "spinning"} \cup Reading \cup Ended
    /\ Bad \notin Range(rt)
    /\ started \in Nat
    /\ inited \in BOOLEAN /\ opened \in BOOLEAN /\ authed \in BOOLEAN
    /\ Len(stream) <= MaxStream

\* The pwospf thread, and with it the first frame, comes after everything it uses:
\* the server accepted the reply before the open command went out, the firewall and
\* the ARP subsystem are set up, and there is one such thread
\* (sr_vns_comm.c:116-118, sr_main.c:151-166).
StartsInOrder ==
    /\ opened => authed
    /\ started > 0 => opened /\ inited /\ started = 1

\* While packets are served, every static route leaves through an interface the
\* server announced, with the table of -r and with the one of a template alike
\* (sr_main.c:264-301).
RoutesHaveInterfaces ==
    started > 0 =>
        /\ rt # <<>>
        /\ \A i \in DOMAIN rt : Contains(ifs, rt[i])

\* A VNSCLOSE ends the program, wherever main is when it arrives and whatever came
\* before it, although each call's return value means something else to
\* sr_connect_to_server and to the loop (sr_vns_comm.c:405-410, 443-450).
CloseIsObeyed ==
    [cmd |-> "VNSCLOSE"] \in Range(stream) ~> pc \in Ended

(***************************************************************************)
(* What a comment says.                                                    *)
(***************************************************************************)
\* sr_main.c:157: "we've recv'd the rtable now, so read it in".
ReadsTheReceivedTable ==
    template /\ pc = "init" => \E words \in Garbage : rt = sr_load_rt(sent, words).rt
=============================================================================
