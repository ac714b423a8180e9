----------------------------- MODULE MCSession ------------------------------
(***************************************************************************)
(* Session with three interface names, two host names and tables of one or *)
(* two lines, among them every kind of line.                               *)
(***************************************************************************)
EXTENDS Session

CONSTANTS eth0, eth1, eth2, vrhost, vhost1

hosts == {vrhost, vhost1}
rtFiles == {Missing, <<>>, <<eth1>>, <<Blank, eth1>>, <<eth0, Blank>>, <<eth0, Bad>>,
            <<eth0, eth2>>}
garbage == {Bad, eth1, eth2}
oldTables == {Missing, <<eth1>>}
sentTables == {<<eth0, eth1>>, <<eth0, eth2>>}
hwInfos == {<<>>, <<eth1>>, <<eth0, eth1>>}
=============================================================================
