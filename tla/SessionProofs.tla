---------------------------- MODULE SessionProofs ---------------------------
(***************************************************************************)
(* What main has done by the time packets are served, for every file, host *)
(* name, routing table and set of interfaces (SessionAssumption), however  *)
(* the server mixes banners, unknown commands, refusals and closes in and  *)
(* whenever the connection is lost.                                        *)
(***************************************************************************)
EXTENDS Session, ListFacts, TLAPS, SequenceTheorems

\* The commands of the server.
Commands ==
    {[cmd |-> n] : n \in {"VNS_AUTH_REQUEST", "VNSBANNER", "unknown", "VNSCLOSE"}}
        \cup {[cmd |-> "VNS_AUTH_STATUS", ok |-> b] : b \in BOOLEAN}
        \cup {[cmd |-> "VNS_RTABLE", host |-> h, table |-> t] : h \in Hosts, t \in SentTables}
        \cup {[cmd |-> "VNSHWINFO", ifaces |-> hw] : hw \in HwInfos}
        \cup {[cmd |-> "VNSPACKET", iface |-> Eth0]}

\* The server has judged the reply; it has announced the interfaces.
Judged == {"wait open", "rtable", "hwinfo", "packets", "closed", "lost"}
Announced == {"packets", "closed", "lost"}

\* Main has been told that it is accepted; it has sent its open command.
Accepted == {"open", "rtable", "load", "init", "loop"}
Opened == Accepted \ {"open"}

\* Types, and a server that sleeps until main connects.
Shape ==
    /\ stream \in Seq(Commands)
    /\ authed \in BOOLEAN /\ opened \in BOOLEAN /\ inited \in BOOLEAN
    /\ host \in Hosts
    /\ pc \in {"start", "connect"} => server = "away"

\* Main learns that it is accepted only from a server that accepted it.
AuthInv ==
    /\ \A i \in 1 .. Len(stream) :
           stream[i].cmd = "VNS_AUTH_STATUS" /\ stream[i].ok => authed
    /\ authed => server \in Judged
    /\ pc \in Accepted => authed
    /\ opened => authed

\* Where main is says what has been done.
OpenInv ==
    /\ pc \in Opened => opened
    /\ pc = "loop" => inited
    /\ started > 0 => opened /\ inited /\ pc \in {"loop", "spinning"} \cup Ended

IsHwInfo(i) == stream[i].cmd = "VNSHWINFO"

\* The interfaces are announced once: before, they are on the way at most once.
HwInv ==
    /\ started \in {0, 1}
    /\ server \notin Announced => started = 0
    /\ \A i \in 1 .. Len(stream) : IsHwInfo(i) => server \in Announced /\ started = 0
    /\ \A i, j \in 1 .. Len(stream) : IsHwInfo(i) /\ IsHwInfo(j) => i = j

\* The inductive invariant.
IInv == Shape /\ AuthInv /\ OpenInv /\ HwInv /\ RoutesHaveInterfaces

\* Where a call of sr_read_from_server_expect gets main.
LEMMA WhereTo ==
    /\ pc = "request" => Onward = "status" /\ Failed = "exit 1"
    /\ pc = "status" => Onward = "open" /\ Failed = "exit 1"
    /\ pc = "rtable" => Onward = "load" /\ Failed = "exit 1"
    /\ pc = "loop" => Onward = "loop" /\ Failed = "exit 0"
  BY Zenon DEF Onward, Failed

\* A command is handled where it is expected, in the loop, or if it closes.
LEMMA ReadMeans ==
    ASSUME NEW c, Read(c)
    PROVE  /\ pc \in Reading
           /\ \/ pc = "loop" \/ c.cmd = "VNSCLOSE"
              \/ pc = "request" /\ c.cmd = "VNS_AUTH_REQUEST"
              \/ pc = "status" /\ c.cmd = "VNS_AUTH_STATUS"
              \/ pc = "rtable" /\ c.cmd = "VNS_RTABLE"
  BY DEF Read, NextCommand, Unexpected, Expected, Reading

\* Reading takes the first command off the stream.
LEMMA Taken ==
    ASSUME IInv, NEW c, NextCommand(c)
    PROVE  /\ stream' \in Seq(Commands) /\ c = stream[1] /\ 1 \in 1 .. Len(stream)
           /\ \A i \in 1 .. Len(stream') : i + 1 \in 1 .. Len(stream) /\ stream'[i] = stream[i + 1]
<1>1. /\ stream \in Seq(Commands) /\ stream # <<>>
      /\ stream' = Tail(stream) /\ c = Head(stream)
  BY DEF IInv, Shape, NextCommand
<1> QED BY <1>1

\* What taking a command leaves of the invariant.
LEMMA TakenKeeps ==
    ASSUME IInv, NEW c, NextCommand(c), authed' = authed
    PROVE  /\ \A i \in 1 .. Len(stream') :
                  stream'[i].cmd = "VNS_AUTH_STATUS" /\ stream'[i].ok => authed'
           /\ \A i \in 1 .. Len(stream') : IsHwInfo(i)' => server \in Announced /\ started = 0
           /\ \A i, j \in 1 .. Len(stream') : IsHwInfo(i)' /\ IsHwInfo(j)' => i = j
           /\ c.cmd = "VNSHWINFO" => \A i \in 1 .. Len(stream') : ~IsHwInfo(i)'
<1>1. /\ c = stream[1] /\ 1 \in 1 .. Len(stream) /\ Len(stream) \in Nat
      /\ \A i \in 1 .. Len(stream') : i + 1 \in 1 .. Len(stream) /\ stream'[i] = stream[i + 1]
      /\ Len(stream') \in Nat
  BY Taken, LenProperties DEF IInv, Shape
<1>2. \A i \in 1 .. Len(stream') : stream'[i].cmd = "VNS_AUTH_STATUS" /\ stream'[i].ok => authed'
  BY <1>1 DEF IInv, AuthInv
<1>3. \A i \in 1 .. Len(stream') : IsHwInfo(i)' => IsHwInfo(i + 1)
  BY <1>1 DEF IsHwInfo
<1>4. \A i \in 1 .. Len(stream') : IsHwInfo(i)' => server \in Announced /\ started = 0
  BY <1>1, <1>3 DEF IInv, HwInv
<1>5. ASSUME NEW i \in 1 .. Len(stream'), NEW j \in 1 .. Len(stream'), IsHwInfo(i)', IsHwInfo(j)'
      PROVE  i = j
  <2>1. i + 1 = j + 1
    BY <1>1, <1>3, <1>5 DEF IInv, HwInv
  <2> QED BY <2>1
<1>6. ASSUME c.cmd = "VNSHWINFO", NEW i \in 1 .. Len(stream'), IsHwInfo(i)'
      PROVE  FALSE
  <2>1. IsHwInfo(1) /\ IsHwInfo(i + 1)
    BY <1>1, <1>3, <1>6 DEF IsHwInfo
  <2>2. 1 = i + 1
    BY <1>1, <2>1 DEF IInv, HwInv
  <2> QED BY <2>2
<1> QED BY <1>2, <1>4, <1>5, <1>6

\* A step of main that reads nothing, starts nothing and leaves the server alone.
LEMMA QuietKeeps ==
    ASSUME IInv, UNCHANGED <<stream, server, authed, started, host, ifs, opened>>,
           pc' \notin {"start", "connect"},
           inited' \in BOOLEAN, inited => inited',
           pc' \in Accepted => pc \in Accepted,
           pc' \in Opened => pc \in Opened,
           pc' = "loop" => inited',
           started > 0 => pc' \in {"loop", "spinning"} \cup Ended /\ rt' = rt
    PROVE  IInv'
<1>1. Shape'
  BY DEF IInv, Shape
<1>2. AuthInv'
  BY DEF IInv, AuthInv
<1>3. OpenInv'
  BY DEF IInv, OpenInv
<1>4. HwInv'
  BY DEF IInv, HwInv, IsHwInfo
<1>5. RoutesHaveInterfaces'
  BY DEF IInv, RoutesHaveInterfaces
<1> QED BY <1>1, <1>2, <1>3, <1>4, <1>5 DEF IInv

\* Nothing is started before the loop.
LEMMA NotYetStarted ==
    ASSUME IInv, pc \in {"start", "connect", "load", "init", "open", "request", "status", "rtable"}
    PROVE  started = 0 /\ ~(started > 0)
<1>1. started \in {0, 1} /\ (started > 0 => pc \in {"loop", "spinning"} \cup Ended)
  BY DEF IInv, OpenInv, HwInv
<1>2. ~(pc \in {"loop", "spinning"} \cup Ended)
  BY DEF Ended
<1>3. ~(started > 0)
  BY <1>1, <1>2
<1> QED BY <1>1, <1>3

\* Loading the routing table of -r comes before anything else.
LEMMA StartKeeps ==
    ASSUME IInv, Start
    PROVE  IInv'
<1>1. pc = "start" /\ started = 0 /\ ~(started > 0)
  BY NotYetStarted DEF Start
<1>2. /\ UNCHANGED <<stream, server, authed, started, host, ifs, opened, inited>>
      /\ pc' \in {"connect", "exit 1"}
  BY DEF Start, sr_load_rt_wrap, config
<1>3. Shape'
  BY <1>1, <1>2 DEF IInv, Shape
<1>4. AuthInv'
  BY <1>1, <1>2 DEF IInv, AuthInv, Accepted
<1>5. OpenInv'
  BY <1>1, <1>2 DEF IInv, OpenInv, Opened, Accepted
<1>6. HwInv'
  BY <1>2 DEF IInv, HwInv, IsHwInfo
<1>7. RoutesHaveInterfaces'
  BY <1>1, <1>2 DEF RoutesHaveInterfaces
<1> QED BY <1>3, <1>4, <1>5, <1>6, <1>7 DEF IInv

\* The connection wakes the server up.
LEMMA ConnectKeeps ==
    ASSUME IInv, sr_connect_to_server
    PROVE  IInv'
<1>1. /\ pc = "connect" /\ started = 0 /\ ~(started > 0) /\ server = "away"
      /\ UNCHANGED <<stream, authed, started, host, ifs, opened, inited, rt>>
      /\ pc' \in {"request", "exit 1"} /\ server' \in {"request", server}
  BY NotYetStarted DEF sr_connect_to_server, config, IInv, Shape
<1>2. ~authed /\ ~opened /\ \A i \in 1 .. Len(stream) : ~IsHwInfo(i)
  BY <1>1 DEF IInv, AuthInv, HwInv, Judged, Announced
<1>3. Shape'
  BY <1>1 DEF IInv, Shape
<1>4. AuthInv'
  BY <1>1, <1>2 DEF IInv, AuthInv, Accepted
<1>5. OpenInv'
  BY <1>1, <1>2 DEF IInv, OpenInv, Opened, Accepted
<1>6. HwInv'
  BY <1>1, <1>2 DEF IInv, HwInv, IsHwInfo
<1>7. RoutesHaveInterfaces'
  BY <1>1 DEF RoutesHaveInterfaces
<1> QED BY <1>3, <1>4, <1>5, <1>6, <1>7 DEF IInv

\* The open command makes the server go on, once.
LEMMA OpenKeeps ==
    ASSUME IInv, Open
    PROVE  IInv'
<1>1. /\ pc = "open" /\ started = 0 /\ ~(started > 0) /\ authed
      /\ UNCHANGED <<stream, authed, started, host, ifs, inited, rt>>
      /\ \/ pc' \in {"rtable", "init"} /\ opened'
         \/ pc' = "exit 1" /\ opened' = opened
  BY NotYetStarted DEF Open, config, IInv, AuthInv, Accepted
<1>2. server' = server \/ (server = "wait open" /\ server' \in {"rtable", "hwinfo"})
  BY DEF Open
<1>3. Shape'
  BY <1>1 DEF IInv, Shape
<1>4. AuthInv'
  BY <1>1, <1>2 DEF IInv, AuthInv, Accepted, Judged
<1>5. OpenInv'
  BY <1>1 DEF IInv, OpenInv, Opened, Accepted
<1>6. HwInv'
  BY <1>1, <1>2 DEF IInv, HwInv, IsHwInfo, Announced
<1>7. RoutesHaveInterfaces'
  BY <1>1 DEF RoutesHaveInterfaces
<1> QED BY <1>3, <1>4, <1>5, <1>6, <1>7 DEF IInv

\* The other steps of main that read no command.
LEMMA LoadKeeps ==
    ASSUME IInv, LoadTemplate \/ sr_init \/ ReadError \/ Spin
    PROVE  IInv'
<1>1. CASE LoadTemplate
  <2>1. pc = "load" /\ started = 0 /\ ~(started > 0)
    BY <1>1, NotYetStarted DEF LoadTemplate
  <2>2. /\ UNCHANGED <<stream, server, authed, started, host, ifs, opened, inited>>
        /\ pc' \in {"init", "exit 1"}
    BY <1>1 DEF LoadTemplate, sr_load_rt_wrap, config
  <2> QED BY <2>1, <2>2, QuietKeeps DEF Accepted, Opened, IInv, Shape
<1>2. CASE sr_init
  <2>1. pc = "init" /\ started = 0 /\ ~(started > 0)
    BY <1>2, NotYetStarted DEF sr_init
  <2>2. /\ UNCHANGED <<stream, server, authed, started, host, ifs, opened>>
        /\ \/ pc' = "loop" /\ inited'
           \/ pc' = "aborted" /\ inited' = inited
    BY <1>2 DEF sr_init, config
  <2> QED BY <2>1, <2>2, QuietKeeps DEF Accepted, Opened, IInv, Shape
<1>3. CASE ReadError
  <2>1. pc' \in {"exit 0", "exit 1"}
    BY <1>3 DEF ReadError, Failed
  <2>2. UNCHANGED <<stream, server, authed, started, host, ifs, opened, inited, rt>>
    BY <1>3 DEF ReadError, config
  <2> QED BY <2>1, <2>2, QuietKeeps DEF Accepted, Opened, Ended, IInv, Shape
<1>4. CASE Spin
  <2>1. pc' = "spinning"
    BY <1>4 DEF Spin
  <2>2. UNCHANGED <<stream, server, authed, started, host, ifs, opened, inited, rt>>
    BY <1>4 DEF Spin, config
  <2> QED BY <2>1, <2>2, QuietKeeps DEF Accepted, Opened, Ended, IInv, Shape
<1> QED BY <1>1, <1>2, <1>3, <1>4

\* A command that starts nothing: refused, or handled where it is expected.
LEMMA ReadingKeeps ==
    ASSUME IInv, NEW c, NextCommand(c),
           UNCHANGED <<host, rt, ifs, started, inited, opened, authed>>,
           server' = server \/ (server = "wait reply" /\ server' = "status"),
           \/ pc' \in Ended
           \/ pc = "loop" /\ pc' = "loop"
           \/ pc = "request" /\ pc' = "status"
           \/ pc = "rtable" /\ pc' = "load"
           \/ pc = "status" /\ pc' = "open" /\ c.cmd = "VNS_AUTH_STATUS" /\ c.ok
    PROVE  IInv'
<1>1. /\ stream' \in Seq(Commands)
      /\ \A i \in 1 .. Len(stream') :
                  stream'[i].cmd = "VNS_AUTH_STATUS" /\ stream'[i].ok => authed'
      /\ \A i \in 1 .. Len(stream') : IsHwInfo(i)' => server \in Announced /\ started = 0
      /\ \A i, j \in 1 .. Len(stream') : IsHwInfo(i)' /\ IsHwInfo(j)' => i = j
  BY Taken, TakenKeeps
<1>2. c.cmd = "VNS_AUTH_STATUS" /\ c.ok => authed
  <2>1. c = stream[1] /\ 1 \in 1 .. Len(stream)
    BY Taken
  <2> QED BY <2>1 DEF IInv, AuthInv
<1>3. Shape'
  BY <1>1 DEF IInv, Shape, Ended
<1>4. AuthInv'
  BY <1>1, <1>2 DEF IInv, AuthInv, Accepted, Judged, Ended
<1>5. OpenInv'
  BY DEF IInv, OpenInv, Opened, Accepted, Ended
<1>6. HwInv'
  BY <1>1 DEF IInv, HwInv, Announced
<1>7. RoutesHaveInterfaces'
  BY DEF IInv, RoutesHaveInterfaces
<1> QED BY <1>3, <1>4, <1>5, <1>6, <1>7 DEF IInv

\* The interfaces come once, in the loop, and the routes are checked against them.
LEMMA HwInfoKeeps ==
    ASSUME IInv, NEW c, sr_handle_hwinfo(c)
    PROVE  IInv'
<1>1. /\ Read(c) /\ NextCommand(c) /\ c.cmd = "VNSHWINFO"
      /\ UNCHANGED <<host, rt, inited, opened, authed, server>>
  BY DEF sr_handle_hwinfo, Read, config
<1>2. pc = "loop" /\ Onward = "loop" /\ Failed = "exit 0"
  BY <1>1, ReadMeans, WhereTo
<1>3. started = 0 /\ server \in Announced
  <2>1. IsHwInfo(1) /\ 1 \in 1 .. Len(stream)
    BY <1>1, Taken DEF IsHwInfo
  <2> QED BY <2>1 DEF IInv, HwInv
<1>4. /\ stream' \in Seq(Commands)
      /\ \A i \in 1 .. Len(stream') :
                  stream'[i].cmd = "VNS_AUTH_STATUS" /\ stream'[i].ok => authed'
      /\ \A i \in 1 .. Len(stream') : ~IsHwInfo(i)'
  BY <1>1, Taken, TakenKeeps
<1>5. \/ started' = started /\ pc' \in Ended
      \/ /\ started' = started + 1 /\ pc' = "loop"
         /\ rt # <<>> /\ \A i \in DOMAIN rt : Contains(ifs', rt[i])
  BY <1>2 DEF sr_handle_hwinfo, sr_verify_routing_table, Ended
<1>6. Shape'
  BY <1>1, <1>2, <1>4, <1>5 DEF IInv, Shape, Ended
<1>7. AuthInv'
  BY <1>1, <1>2, <1>4, <1>5 DEF IInv, AuthInv, Accepted, Ended
<1>8. OpenInv'
  BY <1>1, <1>2, <1>3, <1>5 DEF IInv, OpenInv, Opened, Accepted, Ended
<1>9. HwInv'
  BY <1>1, <1>3, <1>4, <1>5 DEF HwInv
<1>10. RoutesHaveInterfaces'
  BY <1>1, <1>3, <1>5 DEF RoutesHaveInterfaces
<1> QED BY <1>6, <1>7, <1>8, <1>9, <1>10 DEF IInv

\* Every command of sr_read_from_server_expect keeps the invariant.
LEMMA CommandKeeps ==
    ASSUME IInv, NEW c, Command(c)
    PROVE  IInv'
<1>1. CASE Refuse(c)
  <2>1. pc' \in Ended
    BY <1>1 DEF Refuse, Failed, Ended
  <2> QED BY <1>1, <2>1, ReadingKeeps DEF Refuse, config
<1>2. CASE sr_handle_auth_request(c)
  <2>1. NextCommand(c) /\ (pc = "loop" \/ pc = "request")
    BY <1>2, ReadMeans DEF sr_handle_auth_request, Read
  <2>2. pc' \in Ended \/ (pc = "loop" /\ pc' = "loop") \/ (pc = "request" /\ pc' = "status")
    BY <1>2, <2>1, WhereTo DEF sr_handle_auth_request, Ended
  <2> QED BY <1>2, <2>1, <2>2, ReadingKeeps DEF sr_handle_auth_request, config
<1>3. CASE sr_handle_auth_status(c)
  <2>1. NextCommand(c) /\ c.cmd = "VNS_AUTH_STATUS" /\ (pc = "loop" \/ pc = "status")
    BY <1>3, ReadMeans DEF sr_handle_auth_status, Read
  <2>2. pc' \in Ended \/ (pc = "loop" /\ pc' = "loop") \/ (pc = "status" /\ pc' = "open" /\ c.ok)
    BY <1>3, <2>1, WhereTo DEF sr_handle_auth_status, Ended
  <2> QED BY <1>3, <2>1, <2>2, ReadingKeeps DEF sr_handle_auth_status, config
<1>4. CASE sr_handle_rtable(c)
  <2>1. NextCommand(c) /\ (pc = "loop" \/ pc = "rtable")
    BY <1>4, ReadMeans DEF sr_handle_rtable, Read
  <2>2. pc' \in Ended \/ (pc = "loop" /\ pc' = "loop") \/ (pc = "rtable" /\ pc' = "load")
    BY <1>4, <2>1, WhereTo DEF sr_handle_rtable, Ended
  <2> QED BY <1>4, <2>1, <2>2, ReadingKeeps DEF sr_handle_rtable, config
<1>5. CASE sr_handle_hwinfo(c)
  BY <1>5, HwInfoKeeps
<1>6. CASE VnsPacket(c)
  <2>1. NextCommand(c) /\ pc = "loop"
    BY <1>6, ReadMeans DEF VnsPacket, Read
  <2>2. pc' \in Ended \/ pc' = "loop"
    BY <1>6, <2>1, WhereTo DEF VnsPacket, Ended
  <2> QED BY <1>6, <2>1, <2>2, ReadingKeeps DEF VnsPacket, config
<1>7. CASE VnsClose(c)
  <2>1. NextCommand(c) /\ pc' \in Ended
    BY <1>7 DEF VnsClose, Read, Failed, Ended
  <2> QED BY <1>7, <2>1, ReadingKeeps DEF VnsClose, config
<1>8. CASE Ignore(c)
  <2>1. NextCommand(c) /\ pc = "loop"
    BY <1>8, ReadMeans DEF Ignore, Read
  <2>2. pc' = "loop"
    BY <1>8, <2>1, WhereTo DEF Ignore
  <2> QED BY <1>8, <2>1, <2>2, ReadingKeeps DEF Ignore, config
<1> QED BY <1>1, <1>2, <1>3, <1>4, <1>5, <1>6, <1>7, <1>8 DEF Command

\* A command that does not contradict what the server did before.
LEMMA SendingKeeps ==
    ASSUME IInv, NEW c \in Commands, stream' = Append(stream, c),
           UNCHANGED <<host, pc, rt, ifs, started, inited, opened>>,
           server' # "away", server # "away", authed' \in BOOLEAN,
           authed => authed', authed' => server' \in Judged,
           server \in Announced => server' \in Announced,
           c.cmd = "VNS_AUTH_STATUS" /\ c.ok => authed',
           c.cmd = "VNSHWINFO" => server \notin Announced /\ server' \in Announced
    PROVE  IInv'
<1> DEFINE n == Len(stream)
<1>1. /\ n \in Nat /\ stream' \in Seq(Commands) /\ Len(stream') = n + 1
      /\ stream'[n + 1] = c /\ \A i \in 1 .. n : stream'[i] = stream[i]
  BY DEF IInv, Shape
<1>2. \A i \in 1 .. Len(stream') : i \in 1 .. n \/ i = n + 1
  BY <1>1
<1>3. \A i \in 1 .. Len(stream') : IsHwInfo(i)' =>
          (i \in 1 .. n /\ IsHwInfo(i)) \/ (i = n + 1 /\ c.cmd = "VNSHWINFO")
  <2> SUFFICES ASSUME NEW i \in 1 .. Len(stream'), stream'[i].cmd = "VNSHWINFO"
               PROVE  \/ i \in 1 .. n /\ stream[i].cmd = "VNSHWINFO"
                      \/ i = n + 1 /\ c.cmd = "VNSHWINFO"
    BY DEF IsHwInfo
  <2>1. CASE i \in 1 .. n
    BY <1>1, <2>1
  <2>2. CASE i = n + 1
    BY <1>1, <2>2
  <2> QED BY <1>2, <2>1, <2>2
<1>9. c.cmd = "VNSHWINFO" => \A i \in 1 .. n : ~IsHwInfo(i)
  BY DEF IInv, HwInv
<1>10. \A i, j \in 1 .. n : IsHwInfo(i) /\ IsHwInfo(j) => i = j
  BY DEF IInv, HwInv
<1>11. \A i \in 1 .. n : IsHwInfo(i) => server \in Announced /\ started = 0
  BY DEF IInv, HwInv
<1>12. started \in {0, 1} /\ (server \notin Announced => started = 0)
  BY DEF IInv, HwInv
<1> HIDE DEF n
<1>4. Shape'
  BY <1>1 DEF IInv, Shape
<1>5. AuthInv'
  <2>1. ASSUME NEW i \in 1 .. Len(stream'), stream'[i].cmd = "VNS_AUTH_STATUS", stream'[i].ok
        PROVE  authed'
    BY <1>1, <1>2, <2>1 DEF IInv, AuthInv, n
  <2> QED BY <2>1 DEF IInv, AuthInv
<1>6. OpenInv'
  BY DEF IInv, OpenInv
<1>7. HwInv'
  <2>1. started' \in {0, 1} /\ (server' \notin Announced => started' = 0)
    BY <1>12
  <2>2. ASSUME NEW i \in 1 .. Len(stream'), IsHwInfo(i)'
        PROVE  server' \in Announced /\ started' = 0
    BY <1>3, <1>11, <1>12, <2>2
  <2>3. ASSUME NEW i \in 1 .. Len(stream'), NEW j \in 1 .. Len(stream'),
               IsHwInfo(i)', IsHwInfo(j)'
        PROVE  i = j
    BY <1>3, <1>9, <1>10, <2>3
  <2> QED BY <2>1, <2>2, <2>3 DEF HwInv
<1>8. RoutesHaveInterfaces'
  BY DEF IInv, RoutesHaveInterfaces
<1> QED BY <1>4, <1>5, <1>6, <1>7, <1>8 DEF IInv

\* Whatever the server sends keeps the invariant.
LEMMA ServerKeeps ==
    ASSUME IInv, ServerSends
    PROVE  IInv'
<1>0. /\ UNCHANGED <<host, pc, rt, ifs, started, inited, opened>>
      /\ authed \in BOOLEAN /\ host \in Hosts
      /\ authed => server \in Judged
  BY DEF ServerSends, config, IInv, Shape, AuthInv
<1>1. CASE server = "request" /\ Sends([cmd |-> "VNS_AUTH_REQUEST"], "wait reply")
           /\ UNCHANGED authed
  <2>1. [cmd |-> "VNS_AUTH_REQUEST"] \in Commands
    BY DEF Commands
  <2>2. server \notin Announced /\ ~authed
    BY <1>0, <1>1 DEF Announced, Judged
  <2> QED BY <1>0, <1>1, <2>1, <2>2, SendingKeeps DEF Sends
<1>2. ASSUME NEW ok \in BOOLEAN, server = "status", authed' = ok,
             Sends([cmd |-> "VNS_AUTH_STATUS", ok |-> ok],
                   IF ok THEN "wait open" ELSE "closed")
      PROVE  IInv'
  <2>1. [cmd |-> "VNS_AUTH_STATUS", ok |-> ok] \in Commands
    BY DEF Commands
  <2>2. server \notin Announced /\ ~authed
    BY <1>0, <1>2 DEF Announced, Judged
  <2>3. server' \in {"wait open", "closed"}
    BY <1>2 DEF Sends
  <2> QED BY <1>0, <1>2, <2>1, <2>2, <2>3, SendingKeeps DEF Sends, Judged
<1>3. ASSUME NEW t \in SentTables, server = "rtable", UNCHANGED authed,
             Sends([cmd |-> "VNS_RTABLE", host |-> host, table |-> t], "hwinfo")
      PROVE  IInv'
  <2>1. [cmd |-> "VNS_RTABLE", host |-> host, table |-> t] \in Commands
    BY <1>0 DEF Commands
  <2>2. server \notin Announced /\ "hwinfo" \in Judged
    BY <1>3 DEF Announced, Judged
  <2> QED BY <1>0, <1>3, <2>1, <2>2, SendingKeeps DEF Sends
<1>4. ASSUME NEW hw \in HwInfos, server = "hwinfo", UNCHANGED authed,
             Sends([cmd |-> "VNSHWINFO", ifaces |-> hw], "packets")
      PROVE  IInv'
  <2>1. [cmd |-> "VNSHWINFO", ifaces |-> hw] \in Commands
    BY DEF Commands
  <2>2. server \notin Announced /\ "packets" \in Judged /\ "packets" \in Announced
    BY <1>4 DEF Announced, Judged
  <2> QED BY <1>0, <1>4, <2>1, <2>2, SendingKeeps DEF Sends
<1>5. CASE server = "packets" /\ UNCHANGED authed
           /\ Sends([cmd |-> "VNSPACKET", iface |-> Eth0], "packets")
  <2>1. [cmd |-> "VNSPACKET", iface |-> Eth0] \in Commands
    BY DEF Commands
  <2> QED BY <1>0, <1>5, <2>1, SendingKeeps DEF Sends
<1>6. ASSUME NEW c \in {"VNSBANNER", "unknown"}, Sends([cmd |-> c], server), UNCHANGED authed
      PROVE  IInv'
  <2>1. [cmd |-> c] \in Commands
    BY DEF Commands
  <2> QED BY <1>0, <1>6, <2>1, SendingKeeps DEF Sends, Up
<1>7. CASE Sends([cmd |-> "VNSCLOSE"], "closed") /\ UNCHANGED authed
  <2>1. [cmd |-> "VNSCLOSE"] \in Commands
    BY DEF Commands
  <2>2. "closed" \in Judged /\ "closed" \in Announced
    BY DEF Judged, Announced
  <2> QED BY <1>0, <1>7, <2>1, <2>2, SendingKeeps DEF Sends, Up
<1> QED BY <1>1, <1>2, <1>3, <1>4, <1>5, <1>6, <1>7 DEF ServerSends

\* A lost connection keeps the invariant.
LEMMA LostKeeps ==
    ASSUME IInv, ServerLost
    PROVE  IInv'
<1>1. /\ UNCHANGED <<host, pc, rt, ifs, started, inited, opened, authed, stream>>
      /\ server # "away" /\ server' = "lost"
  BY DEF ServerLost, config
<1>2. Shape'
  BY <1>1 DEF IInv, Shape
<1>3. AuthInv'
  BY <1>1 DEF IInv, AuthInv, Judged
<1>4. OpenInv'
  BY <1>1 DEF IInv, OpenInv
<1>5. HwInv'
  BY <1>1 DEF IInv, HwInv, IsHwInfo, Announced
<1>6. RoutesHaveInterfaces'
  BY <1>1 DEF IInv, RoutesHaveInterfaces
<1> QED BY <1>2, <1>3, <1>4, <1>5, <1>6 DEF IInv

\* The invariant holds in every state.
LEMMA Inductive == Spec => []IInv
<1>1. Init => IInv
  <2> SUFFICES ASSUME Init PROVE IInv
    OBVIOUS
  <2>1. stream \in Seq(Commands) /\ Len(stream) = 0 /\ ~(started > 0)
    BY DEF Init
  <2>2. Shape
    BY <2>1 DEF Init, Shape
  <2>3. AuthInv
    BY <2>1 DEF Init, AuthInv, Accepted
  <2>4. OpenInv
    BY <2>1 DEF Init, OpenInv, Opened, Accepted
  <2>5. HwInv
    BY <2>1 DEF Init, HwInv
  <2>6. RoutesHaveInterfaces
    BY <2>1 DEF RoutesHaveInterfaces
  <2> QED BY <2>2, <2>3, <2>4, <2>5, <2>6 DEF IInv
<1>2. IInv /\ [Next]_vars => IInv'
  <2> SUFFICES ASSUME IInv, [Next]_vars PROVE IInv'
    OBVIOUS
  <2>1. CASE Main
    BY <2>1, StartKeeps, ConnectKeeps, OpenKeeps, LoadKeeps, CommandKeeps DEF Main
  <2>2. CASE ServerSends \/ ServerLost
    BY <2>2, ServerKeeps, LostKeeps
  <2>3. CASE UNCHANGED vars
    <3>1. UNCHANGED <<host, pc, rt, ifs, started, inited, opened, authed, stream, server>>
      BY <2>3 DEF vars
    <3> QED BY <3>1 DEF IInv, Shape, AuthInv, OpenInv, HwInv, IsHwInfo, RoutesHaveInterfaces
  <2> QED BY <2>1, <2>2, <2>3 DEF Next
<1> QED BY <1>1, <1>2, PTL DEF Spec

\* The open command goes out only to a server that accepted the reply, and the one
\* pwospf thread starts after the open command and after sr_init (main,
\* sr_connect_to_server, sr_handle_hwinfo).
THEOREM StartsInOrderAlways == Spec => []StartsInOrder
<1>1. IInv => StartsInOrder
  <2> SUFFICES ASSUME IInv PROVE StartsInOrder
    OBVIOUS
  <2>1. started > 0 => started = 1
    BY DEF IInv, HwInv
  <2> QED BY <2>1 DEF IInv, AuthInv, OpenInv, StartsInOrder
<1> QED BY <1>1, Inductive, PTL

\* From the start of the pwospf thread on, no static route leaves through an
\* interface the server did not announce (sr_verify_routing_table).
THEOREM RoutesHaveInterfacesAlways == Spec => []RoutesHaveInterfaces
<1>1. IInv => RoutesHaveInterfaces
  BY DEF IInv
<1> QED BY <1>1, Inductive, PTL

(***************************************************************************)
(* The routing table: sr_load_rt walks through the lines of its file.      *)
(***************************************************************************)
Loads(S) == [rt : Seq(S), last : S, ok : BOOLEAN]

\* No route has a bad address, whether or not the loading has ended.
Clean(t) == \A i \in 1 .. Len(t.rt) : t.rt[i] # Bad

\* One more line keeps the types.
LEMMA LoadLineTyped ==
    ASSUME NEW S, NEW t \in Loads(S), NEW line \in S
    PROVE  LoadLine(t, line) \in Loads(S)
<1>1. t.rt \in Seq(S) /\ t.last \in S
  BY DEF Loads
<1>2. ASSUME NEW e \in S PROVE sr_add_rt_entry(t, e) \in Loads(S)
  <2>1. Append(t.rt, e) \in Seq(S)
    BY <1>1
  <2> QED BY <2>1 DEF sr_add_rt_entry, Loads
<1>3. [t EXCEPT !.ok = FALSE] \in Loads(S)
  BY DEF Loads
<1>4. sscanf(t, line) \in S
  BY <1>1, Zenon DEF sscanf
<1> QED BY <1>2, <1>3, <1>4, Zenon DEF LoadLine

\* One more line keeps the routes clean, whichever words it leaves in place.
LEMMA LoadLineCleans ==
    ASSUME NEW S, NEW t \in Loads(S), NEW line \in S, Clean(t)
    PROVE  Clean(LoadLine(t, line))
<1>1. t.rt \in Seq(S) /\ t.ok \in BOOLEAN /\ DOMAIN t = {"rt", "last", "ok"}
  BY DEF Loads
<1>2. sscanf(t, line) \in S
  <2>1. t.last \in S
    BY DEF Loads
  <2> QED BY <2>1, Zenon DEF sscanf
<1>3. CASE ~t.ok
  BY <1>3 DEF LoadLine, Clean
<1>4. CASE t.ok /\ sscanf(t, line) = Bad
  <2>1. LoadLine(t, line) = [t EXCEPT !.ok = FALSE]
    BY <1>4 DEF LoadLine
  <2>2. LoadLine(t, line).rt = t.rt
    BY <1>1, <2>1
  <2> QED BY <2>2 DEF Clean
<1>5. CASE t.ok /\ sscanf(t, line) # Bad
  <2> DEFINE e == sscanf(t, line)
             a == LoadLine(t, line)
  <2>1. a = sr_add_rt_entry(t, e)
    BY <1>5 DEF LoadLine
  <2>2. a.rt = Append(t.rt, e)
    BY <1>1, <2>1 DEF sr_add_rt_entry
  <2> HIDE DEF e
  <2>3. \A i \in 1 .. Len(Append(t.rt, e)) : Append(t.rt, e)[i] # Bad
    BY <1>1, <1>2, <1>5 DEF Clean, e
  <2> HIDE DEF a
  <2> QED BY <2>2, <2>3 DEF Clean, a
<1> QED BY <1>1, <1>3, <1>4, <1>5

\* No route of a loaded table has a bad address.
LEMMA LoadedClean ==
    ASSUME NEW file \in RtFiles \cup OldTables \cup SentTables, NEW words
    PROVE  Bad \notin Range(sr_load_rt(file, words).rt)
<1>1. CASE file = Missing
  <2>1. sr_load_rt(file, words).rt = <<>>
    BY <1>1 DEF sr_load_rt
  <2> QED BY <2>1 DEF Range
<1>2. CASE file # Missing
  <2> DEFINE N == Len(file)
             S == Range(file) \cup {words}
             T == Loads(S)
             base == [rt |-> <<>>, last |-> words, ok |-> TRUE]
             Step(h, s) == IF s = {} THEN base ELSE LoadLine(h[s \ {Max(s)}], file[Max(s)])
             F == [p \in T \X (1 .. N) |-> LoadLine(p[1], file[p[2]])]
             h == CHOOSE g : g = [s \in SUBSET DOMAIN file |-> Step(g, s)]
  <2>1. file \in Seq(Range(file))
    BY <1>2, SessionAssumption
  <2>2. sr_load_rt(file, words) = h[DOMAIN file]
    BY <1>2, Zenon DEF sr_load_rt, FoldLeft, MapThenFoldSet
  <2>3. N \in Nat /\ DOMAIN file = 1 .. N /\ \A k \in 1 .. N : file[k] \in S
    BY <2>1
  <2>4. base \in T
    BY DEF Loads
  <2>5. \A t \in T, k \in 1 .. N : LoadLine(t, file[k]) \in T
    BY <2>3, LoadLineTyped
  <2>6. /\ F \in [T \X (1 .. N) -> T]
        /\ \A t \in T, k \in 1 .. N : F[<<t, k>>] = LoadLine(t, file[k])
    <3> HIDE DEF T
    <3> QED BY <2>5
  <2>7. Clean(base)
    BY DEF Clean
  <2>8. \A t \in T, k \in 1 .. N : Clean(t) => Clean(LoadLine(t, file[k]))
    BY <2>3, LoadLineCleans
  <2> HIDE DEF N, T, S, base, F
  <2>9. PICK g : IsWalkIn(F, base, T, N, g)
    BY <2>3, <2>4, <2>6, WalkIsIn
  <2>10. g = [s \in SUBSET DOMAIN file |-> Step(g, s)]
    <3>1. \A s \in SUBSET (1 .. N) : g[s] = Step(g, s)
      BY <2>6, <2>9 DEF IsWalkIn
    <3>2. g = [s \in SUBSET (1 .. N) |-> g[s]]
      BY <2>9 DEF IsWalkIn
    <3> HIDE DEF Step
    <3> QED BY <2>3, <3>1, <3>2
  <2>11. h = [s \in SUBSET DOMAIN file |-> Step(h, s)]
    BY <2>10, Zenon
  <2> HIDE DEF h
  <2>12. \A s \in SUBSET (1 .. N) : h[s] = Step(h, s)
    BY <2>3, <2>11
  <2> DEFINE G == {k \in 0 .. N : h[1 .. k] \in T /\ Clean(h[1 .. k])}
  <2>13. 0 \in G
    <3>1. 1 .. 0 = {} /\ {} \in SUBSET (1 .. N)
      OBVIOUS
    <3>2. h[1 .. 0] = base
      BY <2>12, <3>1
    <3> QED BY <2>3, <2>4, <2>7, <3>2
  <2>14. ASSUME NEW k \in 0 .. N - 1, k \in G PROVE k + 1 \in G
    <3>1. k + 1 \in Nat /\ k + 1 > 0 /\ 1 .. k + 1 \in SUBSET (1 .. N)
          /\ k + 1 \in 1 .. N /\ (k + 1) - 1 = k
      BY <2>3
    <3>2. Max(1 .. k + 1) = k + 1 /\ (1 .. k + 1) \ {k + 1} = 1 .. k /\ 1 .. k + 1 # {}
      BY <3>1, FirstPositions
    <3>3. h[1 .. k + 1] = LoadLine(h[1 .. k], file[k + 1])
      BY <2>12, <3>1, <3>2
    <3>4. h[1 .. k] \in T /\ Clean(h[1 .. k])
      BY <2>14
    <3>5. h[1 .. k + 1] \in T /\ Clean(h[1 .. k + 1])
      BY <2>5, <2>8, <3>1, <3>3, <3>4
    <3> QED BY <2>3, <3>1, <3>5
  <2>15. \A k \in 0 .. N - 1 : k \in G => k + 1 \in G
    BY <2>14
  <2> HIDE DEF G, Step
  <2>16. N \in G
    BY <2>3, <2>13, <2>15, UpTo
  <2>17. sr_load_rt(file, words) \in T /\ Clean(sr_load_rt(file, words))
    BY <2>2, <2>3, <2>16 DEF G
  <2> QED BY <2>17 DEF T, Loads, Clean, Range
<1> QED BY <1>1, <1>2

\* The tables that a file of -r or a file of rtable.<host> can hold.
LEMMA FilesAreTables ==
    ASSUME TypeOK
    PROVE  /\ rtfile \in RtFiles \cup OldTables \cup SentTables
           /\ files[VrHost] \in RtFiles \cup OldTables \cup SentTables
  BY SessionAssumption DEF TypeOK

\* Reading a table ends with clean routes, at the next position or at the exit.
LEMMA LoadTyped ==
    ASSUME NEW file \in RtFiles \cup OldTables \cup SentTables, NEW next,
           sr_load_rt_wrap(file, next)
    PROVE  Bad \notin Range(rt') /\ pc' \in {next, "exit 1"}
<1>1. PICK words \in Garbage :
          rt' = sr_load_rt(file, words).rt /\ (pc' = next \/ pc' = "exit 1")
  BY Zenon DEF sr_load_rt_wrap
<1>2. Bad \notin Range(sr_load_rt(file, words).rt)
  BY LoadedClean
<1> QED BY <1>1, <1>2

\* Where main can be.
Places == {"start", "connect", "open", "load", "init", "spinning"} \cup Reading \cup Ended

\* Where a call of sr_read_from_server_expect gets main, in one of its places.
LEMMA Somewhere ==
    ASSUME pc \in Reading
    PROVE  Onward \in Places /\ Failed \in Places
  BY WhereTo DEF Reading, Places, Ended

\* A command leaves the types as they are.
LEMMA CommandTyped ==
    ASSUME IInv, TypeOK, NEW c, Command(c)
    PROVE  TypeOK'
<1>1. /\ NextCommand(c) /\ pc \in Reading /\ Onward \in Places /\ Failed \in Places
      /\ UNCHANGED <<template, host, rtfile, rt, inited, opened, authed>>
  <2>1. NextCommand(c)
    BY DEF Command, Refuse, sr_handle_auth_request, sr_handle_auth_status,
           sr_handle_rtable, sr_handle_hwinfo, VnsPacket, VnsClose, Ignore, Read
  <2>2. UNCHANGED <<template, host, rtfile, rt, inited, opened, authed>>
    BY DEF Command, Refuse, sr_handle_auth_request, sr_handle_auth_status,
           sr_handle_rtable, sr_handle_hwinfo, VnsPacket, VnsClose, Ignore, config
  <2>3. pc \in Reading
    BY <2>1 DEF NextCommand
  <2> QED BY <2>1, <2>2, <2>3, Somewhere
<1>2. Len(stream') <= MaxStream
  <2>1. stream \in Seq(Commands) /\ stream # <<>> /\ stream' = Tail(stream)
    BY <1>1 DEF NextCommand, IInv, Shape
  <2>2. Len(stream') = Len(stream) - 1 /\ Len(stream) \in Nat
    BY <2>1
  <2>3. Len(stream) <= MaxStream /\ MaxStream \in Nat
    BY SessionAssumption DEF TypeOK
  <2> QED BY <2>2, <2>3
<1>3. "aborted" \in Places
  BY DEF Places, Ended
<1>4. pc' \in Places
  <2>1. CASE Refuse(c) \/ sr_handle_auth_request(c) \/ sr_handle_rtable(c)
    BY <1>1, <2>1 DEF Refuse, sr_handle_auth_request, sr_handle_rtable
  <2>2. CASE sr_handle_auth_status(c)
    BY <1>1, <2>2, Zenon DEF sr_handle_auth_status
  <2>3. CASE sr_handle_hwinfo(c)
    BY <1>1, <1>3, <2>3 DEF sr_handle_hwinfo
  <2>4. CASE VnsPacket(c)
    BY <1>1, <1>3, <2>4, Zenon DEF VnsPacket
  <2>5. CASE VnsClose(c) \/ Ignore(c)
    BY <1>1, <2>5 DEF VnsClose, Ignore
  <2> QED BY <2>1, <2>2, <2>3, <2>4, <2>5 DEF Command
<1>5. started' \in Nat
  <2>1. started \in Nat
    BY DEF TypeOK
  <2>2. CASE sr_handle_hwinfo(c)
    BY <2>1, <2>2 DEF sr_handle_hwinfo
  <2>3. CASE ~sr_handle_hwinfo(c)
    BY <2>1, <2>3 DEF Command, Refuse, sr_handle_auth_request, sr_handle_auth_status,
                      sr_handle_rtable, VnsPacket, VnsClose, Ignore
  <2> QED BY <2>2, <2>3
<1>6. files' \in [Hosts -> OldTables \cup SentTables]
  <2>1. files \in [Hosts -> OldTables \cup SentTables]
    BY DEF TypeOK
  <2>2. CASE sr_handle_rtable(c)
    <3>1. c.cmd = "VNS_RTABLE" /\ c \in Commands
      <4>1. c = stream[1] /\ 1 \in 1 .. Len(stream)
        BY <1>1, Taken
      <4>2. stream \in Seq(Commands)
        BY DEF IInv, Shape
      <4> QED BY <2>2, <4>1, <4>2 DEF sr_handle_rtable
    <3>2. c.table \in SentTables
      BY <3>1 DEF Commands
    <3>3. files' = files \/ files' = [files EXCEPT ![c.host] = c.table]
      BY <2>2 DEF sr_handle_rtable
    <3> QED BY <2>1, <3>2, <3>3
  <2>3. CASE ~sr_handle_rtable(c)
    BY <2>1, <2>3 DEF Command, Refuse, sr_handle_auth_request, sr_handle_auth_status,
                      sr_handle_hwinfo, VnsPacket, VnsClose, Ignore
  <2> QED BY <2>2, <2>3
<1> QED BY <1>1, <1>2, <1>4, <1>5, <1>6 DEF TypeOK, Places

\* So does the server, which sends only when there is room.
LEMMA ServerTyped ==
    ASSUME IInv, TypeOK, ServerSends
    PROVE  TypeOK'
<1>1. /\ UNCHANGED <<template, host, rtfile, files, pc, rt, started, inited, opened>>
      /\ authed' \in BOOLEAN
  BY DEF ServerSends, config, TypeOK
<1>2. Len(stream') <= MaxStream
  <2>1. \E c : Up /\ stream' = Append(stream, c)
    BY Zenon DEF ServerSends, Sends
  <2>2. stream \in Seq(Commands) /\ MaxStream \in Nat
    BY SessionAssumption DEF IInv, Shape
  <2>3. PICK c : Up /\ stream' = Append(stream, c)
    BY <2>1
  <2>4. Len(stream') = Len(stream) + 1 /\ Len(stream) \in Nat
    BY <2>2, <2>3
  <2>5. Len(stream) < MaxStream
    BY <2>3 DEF Up
  <2> QED BY <2>2, <2>4, <2>5
<1> QED BY <1>1, <1>2 DEF TypeOK

\* Types, and no static route with an address that inet_aton refused, for every file:
\* also one whose lines leave the words of an earlier line in place, or words nobody
\* wrote; the first bad address ends the loading (sr_load_rt, sr_load_rt_wrap).
THEOREM TypeCorrect == Spec => []TypeOK
<1>1. Init => TypeOK
  <2> SUFFICES ASSUME Init PROVE TypeOK
    OBVIOUS
  <2>1. files \in [Hosts -> OldTables \cup SentTables]
    <3>1. files \in [Hosts -> OldTables]
      BY DEF Init
    <3> QED BY <3>1
  <2>2. Bad \notin Range(rt)
    BY DEF Init, Range
  <2>3. Len(stream) <= MaxStream
    BY SessionAssumption DEF Init
  <2> QED BY <2>1, <2>2, <2>3 DEF Init, TypeOK
<1>2. IInv /\ TypeOK /\ [Next]_vars => TypeOK'
  <2> SUFFICES ASSUME IInv, TypeOK, [Next]_vars PROVE TypeOK'
    OBVIOUS
  <2>1. CASE Start
    <3>1. /\ UNCHANGED <<template, host, rtfile, files, started, inited, opened, authed, stream>>
          /\ pc' \in {"connect", "exit 1"}
          /\ Bad \notin Range(rt')
      <4>1. CASE template
        BY <2>1, <4>1 DEF Start, config, TypeOK
      <4>2. CASE ~template
        <5>1. sr_load_rt_wrap(rtfile, "connect")
          BY <2>1, <4>2 DEF Start
        <5> QED BY <2>1, <5>1, FilesAreTables, LoadTyped DEF Start, config
      <4> QED BY <4>1, <4>2
    <3> QED BY <3>1 DEF TypeOK, Ended
  <2>2. CASE LoadTemplate
    <3>1. /\ UNCHANGED <<template, host, rtfile, files, started, inited, opened, authed, stream>>
          /\ pc' \in {"init", "exit 1"}
          /\ Bad \notin Range(rt')
      <4>1. sr_load_rt_wrap(files[VrHost], "init")
        BY <2>2 DEF LoadTemplate
      <4> QED BY <2>2, <4>1, FilesAreTables, LoadTyped DEF LoadTemplate, config
    <3> QED BY <3>1 DEF TypeOK, Ended
  <2>3. CASE sr_connect_to_server \/ Open \/ sr_init \/ ReadError \/ Spin
    <3>1. UNCHANGED <<template, host, rtfile, files, rt, started, authed, stream>>
      BY <2>3 DEF sr_connect_to_server, Open, sr_init, ReadError, Spin, config
    <3>2. /\ pc' \in {"request", "rtable", "init", "loop", "spinning", "exit 0", "exit 1", "aborted"}
          /\ inited' \in BOOLEAN /\ opened' \in BOOLEAN
      BY <2>3 DEF sr_connect_to_server, Open, sr_init, ReadError, Spin, Failed, TypeOK
    <3> QED BY <3>1, <3>2 DEF TypeOK, Ended, Reading
  <2>4. CASE \E c \in Range(stream) : Command(c)
    BY <2>4, CommandTyped
  <2>5. CASE ServerSends
    BY <2>5, ServerTyped
  <2>6. CASE ServerLost \/ UNCHANGED vars
    <3>1. UNCHANGED <<template, host, rtfile, files, pc, rt, started, inited, opened, authed, stream>>
      BY <2>6 DEF ServerLost, vars, config
    <3> QED BY <3>1 DEF TypeOK
  <2> QED BY <2>1, <2>2, <2>3, <2>4, <2>5, <2>6 DEF Next, Main
<1> QED BY <1>1, <1>2, Inductive, PTL DEF Spec
=============================================================================
