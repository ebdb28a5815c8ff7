----------------------------- MODULE MCPortControl -----------------------------
(* An instance of PortControl: a front panel port in pipe 0, one in pipe   *)
(* 1, which is in loopback mode at first, and the CPU port.                *)
EXTENDS PortControl, TLC

MCMgids == {AllPorts}
MCDevPorts == {0, 64, 128}
MCRids == {32768 + dp : dp \in MCDevPorts}
MCDevPortOf == (<<1, 0>> :> 0) @@ (<<17, 0>> :> 128)

Arg(port, lane, speed) == [port |-> port, lane |-> lane, speed |-> speed]
(* Two ports, and a lane and a port that do not exist. *)
MCPortArgs == {Arg(1, NoArg, NoArg), Arg(17, 0, 100), Arg(1, 4, 10), Arg(65, 0, 100)}

Mac(a, spelling) == [address |-> a, spelling |-> spelling]
A == "b8:83:03:73:a6:a0"
MCAddresses == {A, Broadcast, TimingAddress}
MCMacArgs == {Mac(A, "lower")}

(* A good file, and one with an unknown speed and an unknown port. *)
Item(dp, speed, mac) == [dev_port |-> dp, speed |-> speed, mac |-> mac]
MCFiles == {{Item(0, 100, Mac(A, "lower")), Item(128, 10, Mac(A, "lower"))},
            {Item(0, 99, Mac(A, "lower")), Item(3, 10, Mac(A, "lower"))}}

DefaultOnly == {NoArg}

(* Whether a call to the switch has failed for no reason: the step taken   *)
(* is not one that PortControl takes without faults.                       *)
VARIABLE faulty
Faultless == INSTANCE PortControl WITH Faults <- FALSE
MCInit == PortInit /\ faulty = FALSE
MCNext == PortNext /\ faulty' = (faulty \/ ~ Faultless!PortNext)
MCSpec == MCInit /\ [][MCNext]_<<portVars, faulty>>

(* A broadcast goes to the active ports and to no other, although port_del *)
(* always ends in an exception and port_add runs again for a port that is  *)
(* active, as long as the switch refuses no call for a reason of its own.  *)
FloodExact == ~ faulty => s.pre.mgid[AllPorts] = {FloodRid(dp) : dp \in s.active_ports}
=============================================================================
