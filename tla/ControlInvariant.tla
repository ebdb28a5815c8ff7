--------------------------- MODULE ControlInvariant ----------------------------
(***************************************************************************)
(* The inductive invariant of the controller of ControlPlane.              *)
(*                                                                         *)
(* It looks at the calls a handler still has to make as a set: a table is  *)
(* clean, or the call that clears it is ahead; an entry is in its table,   *)
(* or the call that adds it is ahead.  The only thing it says of their     *)
(* order is Before.  What it says of the tables holds while the controller *)
(* is left alone with a job, what it says of the group while its work has  *)
(* been orderly; whatever else happens it keeps the shape of the state.    *)
(***************************************************************************)
EXTENDS ControlPlane

(* The entries (dev port, node) of the dictionary that a job makes. *)
Item(dp, r) == [port |-> dp, rid |-> r]
JobItems(j) == {Item(PortOf[HostOf[j][r]], r) : r \in {x \in Ranks(j) : HostOf[j][x] \in DOMAIN PortOf}}

----------------------------------------------------------------------------
(* The calls of a handler.                                                 *)

Todo(s) == {s[i] : i \in 1..Len(s)}

Tables == {"get_worker_bitmap", "receive_roce", "set_dst_addr",
           "create_roce_packet", "fill_in_qpn_and_psn"}
ClearOps == {"pre.worker_clear_all", "leave_group", "delete_node", "forget"}
AddOps == {"track_rid", "erase_node", "add_node", "extend_group"}
Begun == AddOps \cup (ClearOps \ {"pre.worker_clear_all"})

(* Receive entries are cleared before registers, all is cleared before     *)
(* anything is added.                                                      *)
Stage(c) ==
    IF c.op = "clear" /\ c.table \in {"get_worker_bitmap", "receive_roce"} THEN 1
    ELSE IF c.op = "clear_register" THEN 2
    ELSE IF c.op \in {"clear", "reset_switch_mac_and_ip"} \cup ClearOps THEN 3
    ELSE 4

(* c comes before d: the stages are in order, no method is begun before    *)
(* its turn, one worker is added to the group at a time and after its      *)
(* receive entries, and the loop of worker_load_file ends its handler.     *)
IsAdd(c) == c.op \in {"worker_port_get"} \cup AddOps
Before(c, d) == /\ Stage(c) <= Stage(d) /\ d.op \notin Begun
                /\ ~ (IsAdd(c) /\ IsAdd(d)) /\ c.op # "load_worker"
                /\ d.op = "rdma_receiver.add_entry" => Stage(c) < 4

IsList(s) == s \in Seq(Todo(s))
Ordered(s) == \A i, j \in 1..Len(s) : i < j => Before(s[i], s[j])
Listed(s) == IsList(s) /\ Ordered(s)

Clearing(T) == \E c \in T : c.op \in ClearOps
Adding(T) == \A c \in T : Stage(c) = 4

----------------------------------------------------------------------------
(* The dictionary of PRE and the multicast group.                          *)

ItemsOf(d) == {Item(dp, d[dp]) : dp \in {x \in DevPorts : d[x] # NoRid}}
Items == ItemsOf(sw.pre.rids[SwitchML])
Group == sw.pre.mgid[SwitchML]

(* Every node of the group is in the dictionary, or worker_clear_all would *)
(* not find it.                                                            *)
Grouped(items, group) == \A r \in group : \E a \in items : a.rid = r

(* A call of a handler, and its place in the method it is a step of, given *)
(* the dictionary and the group, while no other thread changes them.       *)
CallOK(c) ==
    /\ c.op \in {"clear", "add"} => c.table \in Tables
    /\ c.op = "load_worker" => c.next \in Nat \ {0}
    /\ c.op \in AddOps \cup {"worker_port_get"} => c.rid \in Nat
    /\ c.op \in AddOps => c.port \in DevPorts
PlaceOK(c, items, group) ==
    /\ c.op \in AddOps \ {"track_rid"} => Item(c.port, c.rid) \in items
    /\ c.op = "leave_group" => c.left = items
    /\ c.op \in {"delete_node", "forget"} =>
          c.item \notin c.left /\ c.left \cup {c.item} = items /\ c.item.rid \notin group
HandlerOK(T) == \A c \in T : CallOK(c)
PlacesOK(T, items, group) == \A c \in T : PlaceOK(c, items, group)

----------------------------------------------------------------------------
(* The invariant.                                                          *)

IsFunction(f, S) == f = [x \in S |-> f[x]]
Fields == Tables \cup {"pre", "dirty", "switch_address", "sender_address"}
PreShape(p) ==
    /\ IsFunction(p, {"mgid", "node", "rids"})
    /\ IsFunction(p.mgid, Mgids) /\ IsFunction(p.node, Rids) /\ IsFunction(p.rids, Mgids)
    /\ IsFunction(p.rids[SwitchML], DevPorts)
SwitchShape(x) == IsFunction(x, Fields) /\ IsFunction(x.dirty, Registers) /\ PreShape(x.pre)

Requests == [job : 1..Jobs, rank : Nat]
IsRequest(q) == q \in Requests /\ q.rank \in Ranks(q.job)

CallsShape == IsFunction(calls, Threads) /\ \A t \in Threads : Listed(calls[t])

Shape ==
    /\ CallsShape
    /\ failed \in [Threads -> BOOLEAN] /\ alone \in BOOLEAN /\ orderly \in BOOLEAN
    /\ server \in {"down", "started", "serving"}
    /\ requests \in Seq(Requests) /\ \A i \in 1..Len(requests) : IsRequest(requests[i])
    /\ serving = NoRequest \/ IsRequest(serving)
    /\ job \in 0..Jobs /\ phase \in {"connecting", "running", "over"}
    /\ phase # "over" => /\ job \in 1..Jobs
                         /\ client \in [Ranks(job) -> {"start", "sent", "connected"}]
    /\ SwitchShape(sw)

(* While the work is orderly, or a job alone, one thread works at a time. *)
Watched == orderly \/ alone
TurnsOK ==
    /\ server = "down" => /\ requests = <<>> /\ serving = NoRequest /\ ~ alone
                          /\ calls["cli"] = <<>>
    /\ serving = NoRequest => calls["rpc"] = <<>>
    /\ calls["cli"] # <<>> => ~ alone /\ (orderly => serving = NoRequest)

(* Requests are served in the order of the jobs; only the first rank of    *)
(* the current job can wait behind a rank of the job before.               *)
QueueOK ==
    /\ \A i \in 1..Len(requests) :
          /\ requests[i].job <= job
          /\ serving # NoRequest =>
                /\ serving.job <= requests[i].job /\ serving # requests[i]
                /\ requests[i].rank # 0 => serving.job = requests[i].job
          /\ requests[i].rank = 0 => requests[i].job = job /\ phase = "connecting"
          /\ (phase # "over" /\ requests[i].job = job) => client[requests[i].rank] = "sent"
    /\ \A i, k \in 1..Len(requests) :
          i < k => /\ requests[i].job <= requests[k].job /\ requests[i] # requests[k]
                   /\ requests[k].rank # 0 => requests[i].job = requests[k].job
    /\ serving # NoRequest =>
          /\ serving.job <= job
          /\ serving.rank = 0 => serving.job = job /\ phase = "connecting"
          /\ (phase # "over" /\ serving.job = job) => client[serving.rank] = "sent"
    /\ phase # "over" => \A r \in Ranks(job) :
          /\ (r # 0 /\ client[r] # "start") => client[0] = "connected"
          /\ phase = "running" => client[r] = "connected"
    /\ (phase # "over" /\ client[0] = "connected") =>
          /\ serving # NoRequest => serving.job = job
          /\ \A i \in 1..Len(requests) : requests[i].job = job

GroupOK == (server # "down" /\ orderly) => Grouped(Items, Group)
ThreadsOK ==
    \A t \in Threads :
        /\ HandlerOK(Todo(calls[t]))
        /\ Watched => PlacesOK(Todo(calls[t]), Items, Group)

(* The calls of RDMAConnect for request q. *)
RpcCall(q, c) ==
    LET h == HostOf[q.job][q.rank]
    IN  /\ c.op \in {"clear", "clear_register", "add", "rdma_receiver.add_entry",
                     "worker_port_get", "log2_packets_per_message"} \cup ClearOps \cup AddOps
        /\ c.op = "clear_register" => c.register \in Registers
        /\ c.op \in {"rdma_receiver.add_entry", "worker_port_get"} => c.rid = q.rank /\ c.host = h
        /\ c.op = "add" => c.table \in {"receive_roce", "create_roce_packet", "fill_in_qpn_and_psn"}
        /\ (c.op = "add" /\ c.table = "receive_roce") => c.entry.rid = q.rank /\ c.entry.host = h
        /\ c.op \in AddOps => c.rid = q.rank /\ h \in DOMAIN PortOf /\ c.port = PortOf[h]
        /\ c.op = "log2_packets_per_message" => c.bad = (q.job \in BadMessage)
RpcOK == \A c \in Todo(calls["rpc"]) : RpcCall(serving, c)

(* The tables of the current job, from the moment its first rank is        *)
(* served: clean of anything else, or about to be cleaned.                 *)
First == serving = [job |-> job, rank |-> 0] /\ ~ failed["rpc"]
Current == alone /\ phase # "over" /\ (client[0] = "connected" \/ First)
Accepted == {j \in 1..job : Alike(j)}
RegisterCall(x) == [op |-> "clear_register", register |-> x]
CleanOK(T) ==
    /\ sw.get_worker_bitmap = {} \/ ClearCall("get_worker_bitmap") \in T
    /\ \/ \A e \in sw.receive_roce : e.rid \in Ranks(job) /\ e.host = HostOf[job][e.rid]
       \/ ClearCall("receive_roce") \in T
    /\ \A x \in Registers : sw.dirty[x] \subseteq Accepted \/ RegisterCall(x) \in T
    /\ ClearCall("get_worker_bitmap") \in T \/ ClearCall("receive_roce") \in T =>
          \A x \in Registers : RegisterCall(x) \in T
    /\ Items \subseteq JobItems(job) \/ Clearing(T)
CurrentOK == Current => CleanOK(Todo(calls["rpc"]))

(* Before the first rank is added the tables are empty or about to be. *)
EmptyOK(T) ==
    (\E c \in T : c.op = "rdma_receiver.add_entry") =>
        /\ \A f \in Tables : sw[f] = {} \/ ClearCall(f) \in T
        /\ Items = {} \/ Clearing(T)
FirstOK == (alone /\ serving # NoRequest /\ serving.rank = 0) => EmptyOK(Todo(calls["rpc"]))

(* The rank that is served is installed, but for the calls ahead. *)
SendEntry(r) == [rid |-> r, host |-> HostOf[job][r]]
QueueEntry(r, q) == [rid |-> r, queue |-> q - 1]
Received(r, i) == \E e \in sw.receive_roce :
                      e.rid = r /\ e.host = HostOf[job][r] /\ e.opcode = Opcodes[i]
ProgressOK(r, T) ==
    /\ \A i \in 1..Len(Opcodes) :
          \/ Received(r, i) /\ Adding(T)
          \/ \E c \in T : c.op = "rdma_receiver.add_entry"
          \/ \E c \in T : c.op = "add" /\ c.table = "receive_roce" /\ c.entry.opcode = Opcodes[i]
    /\ \/ (Mistaken(r) \/ (r \in Group /\ sw.pre.node[r] = PortOf[HostOf[job][r]])) /\ Adding(T)
       \/ \E c \in T : IsAdd(c) /\ c.op # "extend_group"
       \/ (\E c \in T : c.op = "extend_group") /\ sw.pre.node[r] = PortOf[HostOf[job][r]]
    /\ \/ SendEntry(r) \in sw.create_roce_packet /\ Adding(T)
       \/ AddCall("create_roce_packet", SendEntry(r)) \in T
    /\ \A q \in 1..Queues :
          \/ QueueEntry(r, q) \in sw.fill_in_qpn_and_psn /\ Adding(T)
          \/ AddCall("fill_in_qpn_and_psn", QueueEntry(r, q)) \in T
    /\ job \notin BadMessage \/ \E c \in T : c.op = "log2_packets_per_message"
ServedOK ==
    (alone /\ Fits /\ phase # "over" /\ serving # NoRequest /\ serving.job = job /\ ~ failed["rpc"]) =>
        ProgressOK(serving.rank, Todo(calls["rpc"]))

ConnectedOK ==
    (alone /\ phase # "over") =>
        /\ client[0] = "connected" => Adding(Todo(calls["rpc"]))
        /\ Fits => \A r \in Ranks(job) :
               client[r] = "connected" => Installed(r) /\ job \notin BadMessage

IInv == /\ Shape /\ TurnsOK /\ QueueOK /\ GroupOK /\ ThreadsOK
        /\ RpcOK /\ CurrentOK /\ FirstOK /\ ServedOK /\ ConnectedOK
=============================================================================
