------------------------------ MODULE ControlPlane ------------------------------
(***************************************************************************)
(* The controller of src/py: Job.py with its two threads, the command line *)
(* (Job.run) and the gRPC server (GRPCServer.py, one handler at a time),   *)
(* both calling the table objects, and the clients of                      *)
(* src/RDMAExampleClient/Connections.cpp that connect through the server.  *)
(*                                                                         *)
(* A handler is the sequence of the calls it still has to make, calls[t].  *)
(* One step executes one call, or one step of a method that takes several, *)
(* whose place the call then holds, so that the threads and the traffic    *)
(* interleave between any two steps.  An exception drops the rest of the   *)
(* sequence, as it does in the code.                                       *)
(*                                                                         *)
(* Jobs run one after the other.  Rank r of job j runs on HostOf[j][r],    *)
(* which stands for its MAC and IP address; PortOf[h] is the port of host  *)
(* h in mac_addresses, and a host outside its domain is not configured.    *)
(***************************************************************************)
EXTENDS PRE, FiniteSets, Sequences

CONSTANTS Jobs,         \* jobs are numbered 1..Jobs
          JobSize,      \* JobSize[j]: number of ranks of job j
          HostOf,       \* HostOf[j][r]: host of rank r of job j
          PortOf,       \* dev port of every configured host
          Opcodes,      \* list of the opcodes with a receive entry (six in the code)
          Queues,       \* queue pairs of a worker
          MaxWorkers,   \* 32 in the code
          BadMessage,   \* jobs whose packets per message are no power of two
          Commands,     \* command lines the operator may type; a bound: c from
                        \* job c.from on
          MaxCommands,  \* how many of them
          MaxRestarts   \* how often the controller is stopped and restarted

Threads == {"cli", "rpc"}
SwitchML == "switchml_mgid"
Registers == {"worker_bitmap", "worker_count", "exponents", "significands"}
Ranks(j) == 0 .. JobSize[j] - 1
CommandLine == 0     \* the "job" of workers added on the command line
NoRequest == [job |-> 0, rank |-> -1]
NoAddress == "none"
FirstAddress == "first"

CommandNames == {"worker_clear_all", "clear", "clear_all", "worker_add_roce",
                 "worker_add_udp", "worker_file", "set_switch_address", "worker_del"}

ASSUME ControlAssumption ==
    /\ SwitchML \in Mgids /\ Jobs \in Nat /\ Queues \in Nat /\ MaxWorkers \in Nat
    /\ Opcodes \in Seq({Opcodes[i] : i \in 1..Len(Opcodes)})
    /\ \A c \in Commands :
          /\ c.name \in CommandNames /\ c.from \in Nat
          /\ c.name \in {"worker_add_roce", "worker_add_udp"} => c.rank \in Rids
          /\ c.name = "worker_file" => c.ports \in Seq(DevPorts)
    /\ \A j \in 1..Jobs : JobSize[j] \in Nat \ {0} /\ Ranks(j) \subseteq Rids
    /\ \A h \in DOMAIN PortOf : PortOf[h] \in DevPorts

VARIABLES
    calls,     \* calls[t]: what thread t still has to execute
    failed,    \* failed[t]: its handler ended in an exception
    server,    \* "down", "started" or "serving", see GRPCServer.serve
    requests,  \* RDMAConnect requests that wait for the handler thread
    serving,   \* the request RDMAConnect is working for, or NoRequest
    job,       \* the current job, 0 before the first
    phase,     \* "connecting", "running" or "over"
    client,    \* client[r]: "start", "sent" or "connected"
    told,      \* told[r]: switch address in the response to rank r
    sw,        \* the tables and registers, and the objects' own state
    typed,     \* the commands typed so far
    restarts,  \* restarts so far
    alone,     \* history: since the first request of the current job was taken
               \* up, no command was under way and the controller did not stop
    orderly    \* history: since the controller started, no command and request
               \* were under way together and no port got a second worker

clients == <<requests, job, phase, client, told>>
bounds == <<typed, restarts>>
vars == <<calls, failed, server, serving, sw, clients, bounds, alone, orderly>>

----------------------------------------------------------------------------
(* The calls a handler makes, in the order of the code.                    *)

Call(op) == [op |-> op]
ClearCall(table) == [op |-> "clear", table |-> table]
AddCall(table, entry) == [op |-> "add", table |-> table, entry |-> entry]

RegisterCalls == <<[op |-> "clear_register", register |-> "worker_bitmap"],
                   [op |-> "clear_register", register |-> "worker_count"],
                   [op |-> "clear_register", register |-> "exponents"],
                   [op |-> "clear_register", register |-> "significands"]>>

(* Mutant: the queue pair entries are forgotten. *)
ClearSenderNoQueues == <<ClearCall("create_roce_packet")>>

(* rdma_sender.clear_workers. *)
ClearSender == <<ClearCall("create_roce_packet"), ClearCall("fill_in_qpn_and_psn")>>

(* Mutant: the registers are cleared while packets are still received. *)
ClearWorkersRegistersFirst ==
    RegisterCalls \o <<ClearCall("get_worker_bitmap"), ClearCall("receive_roce"),
                       Call("pre.worker_clear_all"), ClearCall("set_dst_addr")>>
    \o ClearSender

(* Mutant: the multicast group is forgotten. *)
ClearWorkersNoGroup ==
    <<ClearCall("get_worker_bitmap"), ClearCall("receive_roce")>> \o RegisterCalls
    \o <<ClearCall("set_dst_addr")>> \o ClearSender

(* Job.worker_clear_all.  The counters, the drop simulator and the debug   *)
(* log that it also clears are in modules of their own.                    *)
ClearWorkers == <<ClearCall("get_worker_bitmap"), ClearCall("receive_roce")>>
                \o RegisterCalls
                \o <<Call("pre.worker_clear_all"), ClearCall("set_dst_addr")>>
                \o ClearSender

(* Job.clear_all: the clear methods of tables_to_clear; those of NextStep  *)
(* and DebugLog do nothing, the one of RDMASender also resets the default  *)
(* entry that holds the address of the switch.                             *)
ClearTables == <<ClearCall("get_worker_bitmap"), ClearCall("receive_roce"),
                 ClearCall("set_dst_addr"), Call("reset_switch_mac_and_ip")>>
               \o ClearSender

(* RDMASender.add_write_worker: the number of packets in a message is only *)
(* looked at after the first entry has been added.                         *)
SenderCalls(r, h, bad) ==
    <<AddCall("create_roce_packet", [rid |-> r, host |-> h]),
      [op |-> "log2_packets_per_message", bad |-> bad]>>
    \o [q \in 1..Queues |-> AddCall("fill_in_qpn_and_psn", [rid |-> r, queue |-> q - 1])]

(* Job.worker_add_roce. *)
AddRoce(r, count, h, bad) ==
    IF count > MaxWorkers THEN <<>>
    ELSE <<[op |-> "rdma_receiver.add_entry", rid |-> r, host |-> h],
           [op |-> "worker_port_get", rid |-> r, host |-> h]>>
         \o SenderCalls(r, h, bad)

(* Job.worker_add_udp; ip says whether the entry matches on the address. *)
AddUdp(r, count, h, ip) ==
    IF count > MaxWorkers THEN <<>>
    ELSE <<AddCall("get_worker_bitmap", [rid |-> r, host |-> h, ip |-> ip]),
           [op |-> "worker_port_get", rid |-> r, host |-> h],
           AddCall("set_dst_addr", [rid |-> r, host |-> h])>>

(* Job.worker_load_file, from entry i of the list of ports. *)
LoadFrom(ports, i) == [op |-> "load_worker", ports |-> ports, next |-> i]

(* The commands of Job.  do_worker_del only raises an exception. *)
Handler(c) ==
    CASE c.name = "worker_clear_all"   -> ClearWorkers
      [] c.name = "clear"              -> RegisterCalls
      [] c.name = "clear_all"          -> ClearTables
      [] c.name = "worker_add_roce"    -> AddRoce(c.rank, c.count, c.host, c.bad)
      [] c.name = "worker_add_udp"     -> AddUdp(c.rank, c.count, c.host, TRUE)
      [] c.name = "worker_file"        -> ClearWorkers \o <<LoadFrom(c.ports, 1)>>
      [] c.name = "set_switch_address" -> <<[op |-> "set_address", addr |-> c.addr]>>
      [] c.name = "worker_del"         -> <<Call("worker_del")>>

----------------------------------------------------------------------------
(* Execution of one call by thread t.                                      *)

At(t, op) == calls[t] # <<>> /\ Head(calls[t]).op = op
Return(t) == calls' = [calls EXCEPT ![t] = Tail(@)] /\ UNCHANGED failed
Raise(t) == /\ calls' = [calls EXCEPT ![t] = <<>>]
            /\ failed' = [failed EXCEPT ![t] = TRUE]
Expand(t, steps) == calls' = [calls EXCEPT ![t] = steps \o Tail(@)] /\ UNCHANGED failed
Become(t, call) == Expand(t, <<call>>)
Elsewhere == UNCHANGED <<server, serving, clients, bounds, alone>>

(* table.entry_del(target): all entries. *)
ClearTable(t) ==
    /\ At(t, "clear")
    /\ sw' = [sw EXCEPT ![Head(calls[t]).table] = {}]
    /\ Return(t) /\ Elsewhere

(* Entries of one table with the same match key. *)
SameKey(table, d, e) ==
    CASE table = "get_worker_bitmap" -> d.host = e.host /\ d.ip = e.ip
      [] table \in {"set_dst_addr", "create_roce_packet"} -> d.rid = e.rid
      [] OTHER -> d = e

(* table.entry_add raises an exception when the key is there. *)
AddEntry(t) ==
    /\ At(t, "add")
    /\ LET c == Head(calls[t])
       IN  IF \E d \in sw[c.table] : SameKey(c.table, d, c.entry)
           THEN Raise(t) /\ UNCHANGED sw
           ELSE sw' = [sw EXCEPT ![c.table] = @ \cup {c.entry}] /\ Return(t)
    /\ Elsewhere

(* RDMAReceiver.add_entry: one entry for each opcode, for the address the  *)
(* job object holds at the time of the call.                               *)
ReceiverAddEntry(t) ==
    /\ At(t, "rdma_receiver.add_entry")
    /\ LET c == Head(calls[t])
       IN  Expand(t, [i \in 1..Len(Opcodes) |->
                AddCall("receive_roce", [rid |-> c.rid, host |-> c.host, opcode |-> Opcodes[i],
                                         addr |-> sw.switch_address])])
    /\ UNCHANGED sw /\ Elsewhere

(* PRE.worker_add, at one of its four steps. *)
WorkerAddCall(step, rid, dp) == [op |-> step, rid |-> rid, port |-> dp]

(* NonSwitchMLForward.worker_port_get, whose result PRE.worker_add gets. *)
WorkerPortGet(t) ==
    /\ At(t, "worker_port_get")
    /\ LET c == Head(calls[t])
       IN  IF c.host \in DOMAIN PortOf
           THEN Become(t, WorkerAddCall("track_rid", c.rid, PortOf[c.host]))
           ELSE Raise(t)
    /\ UNCHANGED sw /\ Elsewhere

(* math.log of 0, or a shift by a number that is not an integer. *)
Log2PacketsPerMessage(t) ==
    /\ At(t, "log2_packets_per_message")
    /\ IF Head(calls[t]).bad THEN Raise(t) ELSE Return(t)
    /\ UNCHANGED sw /\ Elsewhere

(* The early return of PRE.worker_add, or its first assignment. *)
PreTrackRid(t) ==
    /\ At(t, "track_rid")
    /\ LET c == Head(calls[t])
       IN  IF AlreadyAdded(sw.pre, SwitchML, c.rid)
           THEN UNCHANGED sw /\ Return(t)
           ELSE /\ sw' = [sw EXCEPT !.pre = TrackRid(@, SwitchML, c.rid, c.port)]
                /\ Become(t, WorkerAddCall("erase_node", c.rid, c.port))
    /\ Elsewhere

PreEraseNode(t) ==
    /\ At(t, "erase_node")
    /\ LET c == Head(calls[t])
       IN  /\ \E p \in EraseNode(sw.pre, c.rid) : sw' = [sw EXCEPT !.pre = p]
           /\ Become(t, WorkerAddCall("add_node", c.rid, c.port))
    /\ Elsewhere

PreAddNode(t) ==
    /\ At(t, "add_node")
    /\ LET c == Head(calls[t])
       IN  IF CanAddNode(sw.pre, c.rid)
           THEN /\ sw' = [sw EXCEPT !.pre = AddNode(@, c.rid, c.port)]
                /\ Become(t, WorkerAddCall("extend_group", c.rid, c.port))
           ELSE UNCHANGED sw /\ Raise(t)
    /\ Elsewhere

PreExtendGroup(t) ==
    /\ At(t, "extend_group")
    /\ LET c == Head(calls[t])
       IN  IF CanExtendGroup(sw.pre, c.rid)
           THEN sw' = [sw EXCEPT !.pre = ExtendGroup(@, SwitchML, c.rid)] /\ Return(t)
           ELSE UNCHANGED sw /\ Raise(t)
    /\ Elsewhere

(* PRE.worker_clear_all: items() is a list made before the first removal,  *)
(* in whatever order the dictionary has; left are the items still to do.   *)
ClearItems(left) == [op |-> "leave_group", left |-> left]
ClearItem(step, item, left) == [op |-> step, item |-> item, left |-> left]

PreWorkerClearAll(t) ==
    /\ At(t, "pre.worker_clear_all")
    /\ Become(t, ClearItems({[port |-> dp, rid |-> sw.pre.rids[SwitchML][dp]]
                             : dp \in Tracked(sw.pre, SwitchML)}))
    /\ UNCHANGED sw /\ Elsewhere

PreLeaveGroup(t) ==
    /\ At(t, "leave_group")
    /\ LET left == Head(calls[t]).left
       IN  \/ left = {} /\ UNCHANGED sw /\ Return(t)
           \/ \E item \in left :
                 /\ sw' = [sw EXCEPT !.pre = LeaveGroup(@, SwitchML, item.rid)]
                 /\ Become(t, ClearItem("delete_node", item, left \ {item}))
    /\ Elsewhere

PreDeleteNode(t) ==
    /\ At(t, "delete_node")
    /\ LET c == Head(calls[t])
       IN  /\ \E p \in DeleteNode(sw.pre, c.item.rid) : sw' = [sw EXCEPT !.pre = p]
           /\ Become(t, ClearItem("forget", c.item, c.left))
    /\ Elsewhere

PreForget(t) ==
    /\ At(t, "forget")
    /\ LET c == Head(calls[t])
       IN  IF CanForget(sw.pre, SwitchML, c.item.port)
           THEN /\ sw' = [sw EXCEPT !.pre = Forget(@, SwitchML, c.item.port)]
                /\ Become(t, ClearItems(c.left))
           ELSE UNCHANGED sw /\ Raise(t)
    /\ Elsewhere

(* register.entry_del in the clear_registers of one object. *)
ClearRegister(t) ==
    /\ At(t, "clear_register")
    /\ sw' = [sw EXCEPT !.dirty[Head(calls[t]).register] = {}]
    /\ Return(t) /\ Elsewhere

(* RDMASender.clear: default_entry_reset of the switch's own address. *)
ResetSwitchMacAndIp(t) ==
    /\ At(t, "reset_switch_mac_and_ip")
    /\ sw' = [sw EXCEPT !.sender_address = NoAddress]
    /\ Return(t) /\ Elsewhere

(* do_set_switch_address stores the address; the call that should follow   *)
(* raises an exception, which the command catches.                         *)
SetSwitchAddress(t) ==
    /\ At(t, "set_address")
    /\ sw' = [sw EXCEPT !.switch_address = Head(calls[t]).addr]
    /\ Raise(t) /\ Elsewhere

(* worker_del takes no argument and is called with one. *)
WorkerDelCommand(t) == At(t, "worker_del") /\ Raise(t) /\ UNCHANGED sw /\ Elsewhere

(* NonSwitchMLForward.get_macs_on_port. *)
HostsOn(dp) == {h \in DOMAIN PortOf : PortOf[h] = dp}

(* The loop of Job.worker_load_file: one UDP worker for each port of the   *)
(* file up to the first without a host; of two hosts either is taken.      *)
LoadWorker(t) ==
    /\ At(t, "load_worker")
    /\ LET c == Head(calls[t])
       IN  IF c.next > Len(c.ports) \/ HostsOn(c.ports[c.next]) = {}
           THEN Return(t)
           ELSE \E h \in HostsOn(c.ports[c.next]) :
                  Expand(t, AddUdp(c.next - 1, Len(c.ports), h, FALSE)
                            \o <<LoadFrom(c.ports, c.next + 1)>>)
    /\ UNCHANGED sw /\ Elsewhere

(* History: the dictionary entry of a port is taken from another worker. *)
TakesOver(t) ==
    /\ At(t, "track_rid")
    /\ LET c == Head(calls[t])
       IN  /\ ~ AlreadyAdded(sw.pre, SwitchML, c.rid)
           /\ sw.pre.rids[SwitchML][c.port] \notin {NoRid, c.rid}

Execute(t) ==
    /\ orderly' = (orderly /\ ~ TakesOver(t))
    /\ \/ ClearTable(t) \/ AddEntry(t) \/ ReceiverAddEntry(t) \/ WorkerPortGet(t)
       \/ Log2PacketsPerMessage(t) \/ PreTrackRid(t) \/ PreEraseNode(t) \/ PreAddNode(t)
       \/ PreExtendGroup(t) \/ PreWorkerClearAll(t) \/ PreLeaveGroup(t) \/ PreDeleteNode(t)
       \/ PreForget(t) \/ ClearRegister(t) \/ ResetSwitchMacAndIp(t) \/ SetSwitchAddress(t)
       \/ WorkerDelCommand(t) \/ LoadWorker(t)

----------------------------------------------------------------------------
(* The controller process.                                                 *)

NoWorkers == [get_worker_bitmap |-> {}, receive_roce |-> {}, set_dst_addr |-> {},
              create_roce_packet |-> {}, fill_in_qpn_and_psn |-> {},
              pre |-> EmptyPre, dirty |-> [x \in Registers |-> {}],
              switch_address |-> FirstAddress, sender_address |-> FirstAddress]

(* Job.__init__: the constructors clear the tables and then the registers. *)
(* The server is started last; its handler has no job yet.                 *)
Boot ==
    /\ server = "down"
    /\ server' = "started"
    /\ sw' = [NoWorkers EXCEPT !.pre = Setup(sw.pre)]
    /\ orderly' = TRUE
    /\ UNCHANGED <<calls, failed, serving, clients, bounds, alone>>

(* GRPCServer.serve: self.job = job, after server.start(). *)
Publish ==
    /\ server = "started"
    /\ server' = "serving"
    /\ UNCHANGED <<calls, failed, serving, sw, clients, bounds, alone, orderly>>

(* The process ends (do_exit, a signal, a crash).  The switch keeps its    *)
(* tables.  The calls in progress fail, and a client whose call failed     *)
(* exits and its job with it; clients that wait at a barrier, or run, are  *)
(* not told, and meet the tables that the next controller has cleared.     *)
Stop ==
    /\ server # "down" /\ restarts < MaxRestarts
    /\ server' = "down" /\ restarts' = restarts + 1
    /\ calls' = [t \in Threads |-> <<>>] /\ failed' = [t \in Threads |-> FALSE]
    /\ serving' = NoRequest /\ requests' = <<>>
    /\ phase' = IF phase = "connecting" /\ \E r \in Ranks(job) : client[r] = "sent"
                THEN "over" ELSE phase
    /\ alone' = FALSE
    /\ UNCHANGED <<job, client, told, sw, typed, orderly>>

(* Job.run_command_loop: an exception ends the command, not the loop.      *)
(* Nothing keeps the operator from typing while a job starts or runs.      *)
Type(c) ==
    /\ server = "serving" /\ calls["cli"] = <<>>
    /\ Len(typed) < MaxCommands /\ job >= c.from
    /\ calls' = [calls EXCEPT !["cli"] = Handler(c)]
    /\ failed' = [failed EXCEPT !["cli"] = FALSE]
    /\ typed' = Append(typed, c)
    /\ alone' = FALSE /\ orderly' = (orderly /\ serving = NoRequest)
    /\ UNCHANGED <<server, serving, sw, clients, restarts>>

(* GRPCServer.RDMAConnect.  Before self.job is set its use is an exception. *)
Accept ==
    /\ server # "down" /\ serving = NoRequest /\ requests # <<>>
    /\ LET q == Head(requests)
           add == AddRoce(q.rank, JobSize[q.job], HostOf[q.job][q.rank], q.job \in BadMessage)
       IN  /\ serving' = q
           /\ requests' = Tail(requests)
           /\ calls' = [calls EXCEPT !["rpc"] =
                  IF server = "started" THEN <<>>
                  ELSE IF q.rank = 0 THEN ClearWorkers \o add ELSE add]
           /\ failed' = [failed EXCEPT !["rpc"] = (server = "started")]
           /\ alone' = IF q.rank = 0 THEN calls["cli"] = <<>> ELSE alone
    /\ orderly' = (orderly /\ calls["cli"] = <<>>)
    /\ UNCHANGED <<server, sw, job, phase, client, told, bounds>>

(* Mutant: an exception leaves the client without an answer. *)
RespondOnlySuccess ==
    /\ serving # NoRequest /\ calls["rpc"] = <<>> /\ ~ failed["rpc"]
    /\ serving' = NoRequest
    /\ client' = [client EXCEPT ![serving.rank] = "connected"]
    /\ told' = [told EXCEPT ![serving.rank] = sw.switch_address]
    /\ UNCHANGED <<calls, failed, server, sw, requests, job, phase, bounds, alone, orderly>>

(* The response, or the error that makes the client exit and its job with  *)
(* it.  A request of a job that has ended is answered in vain.             *)
Respond ==
    /\ serving # NoRequest /\ calls["rpc"] = <<>>
    /\ serving' = NoRequest
    /\ IF serving.job # job \/ phase # "connecting"
       THEN UNCHANGED <<phase, client, told>>
       ELSE IF failed["rpc"]
            THEN phase' = "over" /\ UNCHANGED <<client, told>>
            ELSE /\ client' = [client EXCEPT ![serving.rank] = "connected"]
                 /\ told' = [told EXCEPT ![serving.rank] = sw.switch_address]
                 /\ UNCHANGED phase
    /\ UNCHANGED <<calls, failed, server, sw, requests, job, bounds, alone, orderly>>

----------------------------------------------------------------------------
(* The clients: Connections::exchange_connection_info.                     *)

StartJob ==
    /\ phase = "over" /\ job < Jobs
    /\ job' = job + 1 /\ phase' = "connecting"
    /\ client' = [r \in Ranks(job + 1) |-> "start"]
    /\ told' = [r \in Ranks(job + 1) |-> NoAddress]
    /\ alone' = FALSE
    /\ UNCHANGED <<calls, failed, server, serving, sw, requests, bounds, orderly>>

(* Mutant: no barrier. *)
MayConnectAtOnce(r) == TRUE

(* Rank 0 connects before the first barrier, the others after it. *)
MayConnect(r) == r = 0 \/ client[0] = "connected"

(* Without a server the call fails and the client exits. *)
Connect(r) ==
    /\ phase = "connecting" /\ client[r] = "start" /\ MayConnect(r)
    /\ IF server = "down"
       THEN phase' = "over" /\ UNCHANGED <<client, requests>>
       ELSE /\ client' = [client EXCEPT ![r] = "sent"]
            /\ requests' = Append(requests, [job |-> job, rank |-> r])
            /\ UNCHANGED phase
    /\ UNCHANGED <<calls, failed, server, serving, sw, job, told, bounds, alone, orderly>>

(* The last barrier lets all ranks go. *)
Begin ==
    /\ phase = "connecting" /\ \A r \in Ranks(job) : client[r] = "connected"
    /\ phase' = "running"
    /\ UNCHANGED <<calls, failed, server, serving, sw, requests, job, client, told, bounds,
                   alone, orderly>>

Finish ==
    /\ phase = "running"
    /\ phase' = "over"
    /\ UNCHANGED <<calls, failed, server, serving, sw, requests, job, client, told, bounds,
                   alone, orderly>>

(* A packet of rank r of job j arrives.  It may be a late or repeated one  *)
(* of a job that is over.  If a receive entry matches its sender, it goes  *)
(* through all registers.                                                  *)
Packet(j, r) ==
    /\ j < job \/ phase # "connecting"
    /\ \E e \in sw.receive_roce : e.host = HostOf[j][r] /\ e.rid = r
    /\ sw' = [sw EXCEPT !.dirty = [x \in Registers |-> @[x] \cup {j}]]
    /\ UNCHANGED <<calls, failed, server, serving, clients, bounds, alone, orderly>>

(* A packet of a UDP worker that was added on the command line. *)
UdpPacket ==
    /\ sw.get_worker_bitmap # {}
    /\ sw' = [sw EXCEPT !.dirty = [x \in Registers |-> @[x] \cup {CommandLine}]]
    /\ UNCHANGED <<calls, failed, server, serving, clients, bounds, alone, orderly>>

Init ==
    /\ calls = [t \in Threads |-> <<>>] /\ failed = [t \in Threads |-> FALSE]
    /\ server = "down" /\ serving = NoRequest /\ requests = <<>>
    /\ job = 0 /\ phase = "over" /\ client = <<>> /\ told = <<>>
    /\ sw = NoWorkers /\ typed = <<>> /\ restarts = 0
    /\ alone = FALSE /\ orderly = TRUE

Next ==
    \/ Boot \/ Publish \/ Stop \/ Accept \/ Respond
    \/ \E t \in Threads : Execute(t)
    \/ \E c \in Commands : Type(c)
    \/ StartJob \/ Begin \/ Finish
    \/ job > 0 /\ \E r \in Ranks(job) : Connect(r)
    \/ \E j \in 1..job : \E r \in Ranks(j) : Packet(j, r)
    \/ UdpPacket

(* Both threads run, the server takes its requests one after the other and *)
(* a client that may connect does.                                         *)
Fairness ==
    /\ WF_vars(Boot) /\ WF_vars(Publish) /\ WF_vars(Accept) /\ WF_vars(Respond)
    /\ \A t \in Threads : WF_vars(Execute(t))
    /\ WF_vars(\E r \in DOMAIN client : Connect(r)) /\ WF_vars(Begin)

Spec == Init /\ [][Next]_vars
FairSpec == Spec /\ Fairness

----------------------------------------------------------------------------
(* What the controller promises the jobs that it is left alone with.       *)

Fits == JobSize[job] <= MaxWorkers

(* PRE.worker_add skips a rank that is the number of a port in use. *)
Mistaken(r) == \E s \in Ranks(job) : HostOf[job][s] \in DOMAIN PortOf /\ PortOf[HostOf[job][s]] = r

Installed(r) ==
    LET h == HostOf[job][r]
    IN  /\ \A i \in 1..Len(Opcodes) : \E e \in sw.receive_roce :
               e.rid = r /\ e.host = h /\ e.opcode = Opcodes[i]
        /\ Mistaken(r) \/ (r \in sw.pre.mgid[SwitchML] /\ sw.pre.node[r] = PortOf[h])
        /\ [rid |-> r, host |-> h] \in sw.create_roce_packet
        /\ \A q \in 1..Queues : [rid |-> r, queue |-> q - 1] \in sw.fill_in_qpn_and_psn

(* "ensure switch has gotten all workers' job state before proceeding": a  *)
(* client that got its response from RDMAConnect is known to every table   *)
(* and stays so until its job ends, as long as nobody else commands the    *)
(* controller: its packets are received, broadcasts reach its port, and    *)
(* replies can be addressed to it.  This takes the barrier of              *)
(* exchange_connection_info, the order of the calls of worker_add_roce,    *)
(* and holds whatever failed, stopped or overlapping work left behind.     *)
AcknowledgedInstalled ==
    (phase # "over" /\ alone /\ Fits) =>
        \A r \in Ranks(job) : client[r] = "connected" => Installed(r)

(* While such a job runs, its broadcasts go to its workers and to nobody   *)
(* else, whatever workers were added before and however their jobs ended:  *)
(* worker_clear_all finds every node of the group in the dictionary,       *)
(* unless a second worker of a port has taken the entry of the first or a  *)
(* command overlapped a request.                                           *)
GroupExact ==
    (phase = "running" /\ alone /\ orderly /\ Fits) =>
        /\ sw.pre.mgid[SwitchML] \subseteq Ranks(job)
        /\ \A r \in Ranks(job) : r \in sw.pre.mgid[SwitchML] \/ Mistaken(r)

(* The jobs whose packets the receive entries of the current job accept: a *)
(* packet shows the host and the rank of its sender, but not its job.      *)
Alike(j) == \E r \in Ranks(j) \cap Ranks(job) : HostOf[j][r] = HostOf[job][r]

(* No packet of any other job is in a register a running job aggregates    *)
(* in: worker_clear_all removes the receive entries before it clears the   *)
(* registers, so that a late packet cannot slip in behind it.              *)
FreshRegisters ==
    (phase = "running" /\ alone) =>
        \A x \in Registers : \A j \in sw.dirty[x] : j \in 1..job /\ Alike(j)

(* "clear out old worker state first": when RDMAConnect starts to add rank *)
(* 0 and no command interferes, no table holds anything of an earlier job, *)
(* and neither does the group unless the dictionary has lost a node.       *)
ClearedBeforeFirst ==
    (serving # NoRequest /\ serving.rank = 0 /\ alone /\ At("rpc", "rdma_receiver.add_entry")) =>
        /\ Tracked(sw.pre, SwitchML) = {}
        /\ orderly => sw.pre.mgid[SwitchML] = {}
        /\ \A f \in {"get_worker_bitmap", "receive_roce", "set_dst_addr",
                     "create_roce_packet", "fill_in_qpn_and_psn"} : sw[f] = {}

Idle == calls = [t \in Threads |-> <<>>] /\ serving = NoRequest /\ requests = <<>>

(* "limit concurrency to 1 to avoid synchronization problems": when no     *)
(* handler is under way and none failed, a RoCE worker is in all the       *)
(* tables or in none.                                                      *)
NoHalfWorker ==
    (Idle /\ \A t \in Threads : ~ failed[t]) =>
        \A r \in Rids :
            LET received == {e.opcode : e \in {d \in sw.receive_roce : d.rid = r}}
                replied == \E e \in sw.create_roce_packet : e.rid = r
            IN  /\ received \in {{}, {Opcodes[i] : i \in 1..Len(Opcodes)}}
                /\ (received # {}) <=> replied
                /\ (r \in sw.pre.mgid[SwitchML]) <=> replied

(* "Clear all registers, counters, and tables.": after the command         *)
(* clear_all no register holds a value.                                    *)
ClearAllClears ==
    (typed # <<>> /\ typed[Len(typed)].name = "clear_all" /\ calls["cli"] = <<>>) =>
        \A x \in Registers : sw.dirty[x] = {}

(* "Set switch MAC and IP to be used for SwitchML": the switch sends from  *)
(* the address its clients were told.                                      *)
AddressUsed == phase = "running" => \A r \in Ranks(job) : told[r] = sw.sender_address

(* A job that has started either gets all its clients connected or ends:   *)
(* no request is left without an answer, whatever fails.                   *)
Settles == phase = "connecting" ~> phase # "connecting"
=============================================================================
