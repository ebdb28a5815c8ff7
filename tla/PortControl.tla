------------------------------ MODULE PortControl ------------------------------
(***************************************************************************)
(* The port and address commands of src/py/Job.py, with the objects they   *)
(* change: Ports.py, the flood group in PRE.py, NonSwitchMLForward.py and  *)
(* the alternate recirculation port of NextStep.py.                        *)
(*                                                                         *)
(* The command line runs one command at a time and nobody else changes     *)
(* this state, so a command is one step, or one for each item of a file.   *)
(* It is a chain of calls, any of which may raise an exception and end the *)
(* command half way: an outcome is a pair of the state it leaves behind    *)
(* and whether it returned.                                                *)
(***************************************************************************)
EXTENDS PRE, FiniteSets, Sequences, Functions

CONSTANTS DevPortOf,     \* $PORT_HDL_INFO: dev port of <<front panel port, lane>>
          PortArgs,      \* arguments of port_add and port_del
          MacArgs,       \* arguments of mac_address_add and mac_address_del
          Addresses,     \* MAC addresses, however they are spelled
          Files,         \* contents of the files port_file is given
          RecircArgs,    \* arguments of alternate_recirc_port_enable
          Faults         \* whether the driver may refuse a call for no reason

AllPorts == "all_ports_mgid"
FpPorts == DOMAIN DevPortOf
NoFp == <<0, 0>>
NoEntry == -1
Flood == -2
Broadcast == "ff:ff:ff:ff:ff:ff"
TimingAddress == "00:11:22:33:44:55"
NoArg == -1
Alternate == 192
DefaultRecirc == 0

ASSUME PortAssumption ==
    /\ AllPorts \in Mgids /\ {Broadcast, TimingAddress} \subseteq Addresses
    /\ \A f \in FpPorts : DevPortOf[f] \in DevPorts
    /\ \A f, g \in FpPorts : DevPortOf[f] = DevPortOf[g] => f = g
    /\ DevPorts \subseteq 0..511 /\ {32768 + dp : dp \in DevPorts} \subseteq Rids

VARIABLES s,        \* the tables of the switch and the state of the objects
          last,     \* the last command: its name, its port and whether it returned
          loading   \* the items port_file still has to load

portVars == <<s, last, loading>>

(* Ports.loopback_ports, and the ports delete_all_ports deletes. *)
LoopbackPorts == DevPorts \cap ({64} \cup {dp \in 128..191 \cup 256..319 \cup 384..447 : dp % 4 = 0})
ExternalPorts == DevPorts \cap (0..63 \cup 128..191 \cup 256..319 \cup 384..447)

StateType ==
    [port_table : [DevPorts -> {"absent", "up", "loopback"}],
     active_ports : SUBSET DevPorts,
     pre : PreType,
     forward : [Addresses -> DevPorts \cup {0, NoEntry, Flood}],
     mac_addresses : [MacArgs -> FpPorts \cup {NoFp}],
     recirculating : SUBSET {Alternate},
     recirc_port : RecircArgs \cup {Alternate, DefaultRecirc},
     removed : BOOLEAN,
     stray : SUBSET Rids]   \* history: nodes whose removal from the flood group
                            \* was refused when the dictionary forgot them

PortTypeOK == s \in StateType

----------------------------------------------------------------------------
(* Chains of calls.                                                        *)

Returns(t) == {<<t, TRUE>>}
Raises(t) == {<<t, FALSE>>}
Fault(t) == IF Faults THEN Raises(t) ELSE {}
Then(outcomes, Op(_)) == UNION {IF o[2] THEN Op(o[1]) ELSE {o} : o \in outcomes}
OnPre(t, results) == {<<[t EXCEPT !.pre = r[1]], r[2]>> : r \in results}

(* port_add and the others convert the arguments and their defaults. *)
Lane(arg) == IF arg.lane = NoArg THEN 0 ELSE arg.lane
Speed(arg) == IF arg.speed = NoArg THEN 100 ELSE arg.speed
ValidPort(arg) == arg.port \in 1..64 /\ Lane(arg) \in 0..3
ValidSpeed(arg) == Speed(arg) \in {10, 25, 40, 50, 100}
FpPort(arg) == <<arg.port, Lane(arg)>>

----------------------------------------------------------------------------
(* Ports.                                                                  *)

(* port_table.entry_add refuses a port that is in the table, in whatever   *)
(* mode.  A speed without an entry in the conversion table raises first.   *)
(* The port is looked up once more before it is listed as active.          *)
AddPorts(t, dp, valid) ==
    IF ~ valid \/ t.port_table[dp] # "absent"
    THEN Raises(t)
    ELSE LET u == [t EXCEPT !.port_table[dp] = "up"]
         IN  Fault(t) \cup Fault(u) \cup Returns([u EXCEPT !.active_ports = @ \cup {dp}])

PortsPortAdd(t, dp, valid) ==
    Fault(t) \cup
    IF dp \in t.active_ports THEN Returns(t) ELSE AddPorts(t, dp, valid)

(* active_ports.remove raises for a port that is not active. *)
PortDelete(t, dp) ==
    Fault(t) \cup
    IF dp \notin t.active_ports
    THEN Raises(t)
    ELSE LET u == [t EXCEPT !.active_ports = @ \ {dp}]
         IN  Fault(u) \cup Returns([u EXCEPT !.port_table[dp] = "absent"])

DeleteAllPorts(t) ==
    Fault(t) \cup
    Returns([t EXCEPT !.port_table = [dp \in DevPorts |-> IF dp \in ExternalPorts THEN "absent"
                                                           ELSE @[dp]],
                      !.active_ports = {}])

----------------------------------------------------------------------------
(* The flood group.  A refusal raises, except where worker_add erases an   *)
(* old node and in worker_clear_all, which log it and go on.               *)

FloodRid(dp) == 32768 + dp

FloodAddFaults(p, dp) ==
    LET tracked == TrackRid(p, AllPorts, FloodRid(dp), dp)
        erased == EraseNode(tracked, FloodRid(dp)) \cup {tracked}
    IN  {<<e, FALSE>> : e \in erased}
        \cup {<<AddNode(e, FloodRid(dp), dp), FALSE>>
              : e \in {q \in erased : CanAddNode(q, FloodRid(dp))}}

FloodAdd(t, dp) ==
    Fault(t) \cup
    OnPre([t EXCEPT !.stray = @ \ {FloodRid(dp)}],
          WorkerAdd(t.pre, AllPorts, FloodRid(dp), dp)
          \cup (IF Faults THEN FloodAddFaults(t.pre, dp) ELSE {}))

(* Mutant: the dictionary forgets the port before the calls that may fail. *)
FloodDelEarly(t, dp) ==
    LET u == [t EXCEPT !.pre = Forget(t.pre, AllPorts, dp)]
    IN  Fault(u) \cup OnPre(u, WorkerDel(u.pre, AllPorts, FloodRid(dp)))

FloodDel(t, dp) ==
    Fault(t) \cup Fault([t EXCEPT !.pre = LeaveGroup(@, AllPorts, FloodRid(dp))])
    \cup OnPre(t, WorkerDel(t.pre, AllPorts, FloodRid(dp)))

(* Mutant: the nodes are deleted and the dictionary is kept as it is, but  *)
(* the group is not changed.                                               *)
FloodClearNoGroup(t) ==
    Returns([t EXCEPT !.pre.rids[AllPorts] = [dp \in DevPorts |-> NoRid]])

(* The nodes the driver may refuse to touch in worker_clear_all. *)
Refusals(p) ==
    IF Faults THEN SUBSET {p.rids[AllPorts][dp] : dp \in Tracked(p, AllPorts)} ELSE {{}}

FloodClear(t) ==
    UNION {{<<[t EXCEPT !.pre = WorkerClearAll(@, AllPorts, stuck, kept),
                        !.stray = @ \cup stuck], TRUE>>
            : kept \in Refusals(t.pre)} : stuck \in Refusals(t.pre)}

----------------------------------------------------------------------------
(* NonSwitchMLForward.  The table knows an address by its number, the      *)
(* dictionary mac_addresses by the way it was spelled.                     *)

(* An exception of entry_add is caught and printed, one of the lookup of   *)
(* the port is not.                                                        *)
MacAddressAdd(t, m, f) ==
    Fault(t) \cup (IF Faults THEN Returns(t) ELSE {}) \cup
    IF t.forward[m.address] # NoEntry
    THEN Returns(t)
    ELSE Returns([t EXCEPT !.forward[m.address] = DevPortOf[f], !.mac_addresses[m] = f])

MacAddressDel(t, m) ==
    IF t.forward[m.address] = NoEntry
    THEN Raises(t)
    ELSE LET u == [t EXCEPT !.forward[m.address] = NoEntry]
         IN  Fault(t) \cup (IF u.mac_addresses[m] = NoFp THEN Raises(u)
                            ELSE Returns([u EXCEPT !.mac_addresses[m] = NoFp]))

----------------------------------------------------------------------------
(* The commands.                                                           *)

Did(name, dp, outcomes) ==
    /\ \E o \in outcomes : s' = o[1] /\ last' = [name |-> name, port |-> dp, ok |-> o[2]]
    /\ UNCHANGED loading

(* Mutant: a port that is active is not added to the group again. *)
JobPortAddSkip(t, dp, valid) ==
    IF dp \in t.active_ports THEN Returns(t)
    ELSE Then(PortsPortAdd(t, dp, valid), LAMBDA u : FloodAdd(u, dp))

(* Job.port_add. *)
JobPortAdd(t, dp, valid) ==
    Then(PortsPortAdd(t, dp, valid), LAMBDA u : FloodAdd(u, dp))

(* An argument that is not valid, or a port the switch does not have, ends *)
(* the command before it changes anything.                                 *)
PortAdd(arg) ==
    /\ ValidPort(arg) /\ ValidSpeed(arg) /\ FpPort(arg) \in FpPorts
    /\ LET dp == DevPortOf[FpPort(arg)] IN Did("port_add", dp, JobPortAdd(s, dp, TRUE))

(* Mutant: the flood group keeps a deleted port. *)
JobPortDelKeep(t, dp) == PortDelete(t, dp)

(* Job.port_del. *)
JobPortDel(t, dp) == Then(PortDelete(t, dp), LAMBDA u : FloodDel(u, dp))

PortDel(arg) ==
    /\ ValidPort(arg) /\ FpPort(arg) \in FpPorts
    /\ LET dp == DevPortOf[FpPort(arg)] IN Did("port_del", dp, JobPortDel(s, dp))

PortClearAll == Did("port_clear_all", NoPort, Then(DeleteAllPorts(s), FloodClear))

(* One item of the file: a dev port the switch does not have raises. *)
LoadItem(t, item) ==
    IF \A f \in FpPorts : DevPortOf[f] # item.dev_port
    THEN Raises(t)
    ELSE LET f == CHOOSE f \in FpPorts : DevPortOf[f] = item.dev_port
         IN  Then(JobPortAdd(t, item.dev_port, ValidSpeed(item)),
                  LAMBDA u : MacAddressAdd(u, item.mac, f))

(* port_load_file: the items come in the order of a dictionary; the first  *)
(* exception ends the command.                                             *)
PortFile(file) ==
    /\ loading' \in Bijection(1 .. Cardinality(file), file)
    /\ last' = [name |-> "port_file", port |-> NoPort, ok |-> TRUE]
    /\ UNCHANGED s

LoadNext ==
    /\ loading # <<>>
    /\ \E o \in LoadItem(s, Head(loading)) :
           /\ s' = o[1]
           /\ last' = [name |-> "port_file", port |-> NoPort, ok |-> o[2]]
           /\ loading' = IF o[2] THEN Tail(loading) ELSE <<>>

MacAdd(m, arg) ==
    /\ ValidPort(arg) /\ FpPort(arg) \in FpPorts
    /\ Did("mac_address_add", NoPort, MacAddressAdd(s, m, FpPort(arg)))

MacDel(m) == Did("mac_address_del", NoPort, MacAddressDel(s, m))

(* NonSwitchMLForward.timing_loop: the entry it adds stays. *)
TimingLoop ==
    Did("timing_loop", NoPort,
        LET t == [s EXCEPT !.forward[TimingAddress] = 0]
        IN  IF s.forward[TimingAddress] # NoEntry THEN Raises(s)
            ELSE Fault(s) \cup Fault(t) \cup Returns(t))

(* Ports.enable_alternate_recirc_port works on port 192 only, and only     *)
(* once the port was removed with the driver's own command line.           *)
EnableRecirc(t) ==
    Fault(t) \cup
    IF t.removed THEN Returns([t EXCEPT !.recirculating = {Alternate}]) ELSE Raises(t)

SetRecircPort(t, port) == Fault(t) \cup Returns([t EXCEPT !.recirc_port = port])

RecircEnable(t, port) == Then(EnableRecirc(t), LAMBDA u : SetRecircPort(u, port))

AlternateRecircPortEnable(arg) ==
    Did("alternate_recirc_port_enable", NoPort,
        RecircEnable(s, IF arg = NoArg THEN Alternate ELSE arg))

(* Ports.disable_alternate_recirc_port leaves the port as it is. *)
AlternateRecircPortDisable ==
    Did("alternate_recirc_port_disable", NoPort, SetRecircPort(s, DefaultRecirc))

(* bf_port_rmv on the driver's command line. *)
BfPortRmv ==
    /\ ~ s.removed
    /\ s' = [s EXCEPT !.removed = TRUE] /\ UNCHANGED <<last, loading>>

(* After Job.__init__ without a ports file. *)
PortInit ==
    /\ s = [port_table |-> [dp \in DevPorts |-> IF dp \in LoopbackPorts THEN "loopback" ELSE "absent"],
            active_ports |-> {}, pre |-> EmptyPre,
            forward |-> [a \in Addresses |-> IF a = Broadcast THEN Flood ELSE NoEntry],
            mac_addresses |-> [m \in MacArgs |-> NoFp],
            recirculating |-> {}, recirc_port |-> DefaultRecirc, removed |-> FALSE,
            stray |-> {}]
    /\ last = [name |-> "none", port |-> NoPort, ok |-> TRUE] /\ loading = <<>>

Command ==
    \/ \E arg \in PortArgs : PortAdd(arg) \/ PortDel(arg) \/ \E m \in MacArgs : MacAdd(m, arg)
    \/ PortClearAll \/ TimingLoop \/ AlternateRecircPortDisable \/ BfPortRmv
    \/ \E m \in MacArgs : MacDel(m)
    \/ \E file \in Files : PortFile(file)
    \/ \E arg \in RecircArgs : AlternateRecircPortEnable(arg)

PortNext == (loading = <<>> /\ Command) \/ LoadNext

PortSpec == PortInit /\ [][PortNext]_portVars

----------------------------------------------------------------------------
(* An active port is up on the switch, whatever call failed.  This is why  *)
(* add_ports appends to active_ports last and port_delete removes from it  *)
(* first.                                                                  *)
ActiveUp == \A dp \in s.active_ports : s.port_table[dp] = "up"

(* port_add is its own repair: when it returns, the port is active and     *)
(* gets broadcasts, even if an earlier port_add, port_del or               *)
(* port_clear_all was refused some call between the port table and the     *)
(* group.                                                                  *)
PortAddComplete ==
    (last.name = "port_add" /\ last.ok) =>
        /\ last.port \in s.active_ports
        /\ FloodRid(last.port) \in s.pre.mgid[AllPorts]
        /\ s.pre.node[FloodRid(last.port)] = last.port

(* port_clear_all only knows the nodes listed in rids, and no failed       *)
(* command makes rids forget a member: when it returns, the flood group    *)
(* has no member left but those whose removal the driver refused, in this  *)
(* or an earlier port_clear_all, and whose port was not added again.       *)
ClearAllEmpties ==
    (last.name = "port_clear_all" /\ last.ok) => s.pre.mgid[AllPorts] \subseteq s.stray

(* Why it does: every other member of the flood group is the node of a     *)
(* port and rids knows it, at whatever call a command ended.  With the     *)
(* types and ActiveUp this is inductive.                                   *)
FloodTracked(p, stray) ==
    \A r \in p.mgid[AllPorts] \ stray :
        \E dp \in DevPorts : r = FloodRid(dp) /\ p.rids[AllPorts][dp] = r
PortInv == PortTypeOK /\ FloodTracked(s.pre, s.stray) /\ ActiveUp

(* mac_addresses, from which the worker commands take the port of a        *)
(* worker, agrees with the table that forwards its packets: "keep set of   *)
(* mac addresses so we can delete them all".                               *)
MacsForwarded ==
    \A m \in MacArgs : s.mac_addresses[m] # NoFp =>
        s.forward[m.address] = DevPortOf[s.mac_addresses[m]]

(* Packets are only sent to an alternate recirculation port that           *)
(* recirculates them.                                                      *)
RecircReady == s.recirc_port # DefaultRecirc => s.recirc_port \in s.recirculating

(* "Clear all active ports.": a port in loopback mode, on which the        *)
(* aggregation passes through the pipes depend, stays in it.               *)
LoopbackKept == \A dp \in LoopbackPorts : s.port_table[dp] = "loopback"
=============================================================================
