-------------------------------- MODULE Counters --------------------------------
(***************************************************************************)
(* The counters of the switch and the code that clears them: clear_counters *)
(* of Job.py and of the objects in counters_to_clear, the clearing in      *)
(* Job.worker_clear_all, and what adding a worker does to them.            *)
(*                                                                         *)
(* A table with a direct counter counts per entry; entry_mod can only set  *)
(* the counter of an entry that is there, so clear_counters first reads    *)
(* the entries and then modifies them, and the other thread may change the *)
(* table in between.  The counters per queue pair and per pool index are   *)
(* indexed arrays.  A counter is modelled by the jobs whose packets it     *)
(* counted; {} is zero.                                                    *)
(***************************************************************************)
EXTENDS Integers, Sequences, FiniteSets, SequencesExt

CONSTANTS Jobs,       \* jobs are numbered 1..Jobs
          WorkersOf,  \* WorkersOf[j]: the workers of job j, in rank order
          MaxClears   \* how often the operator types clear_counters

Threads == {"cli", "rpc"}
Tables == {"get_worker_bitmap", "receive_roce", "set_dst_addr", "create_roce_packet"}
QueuePairCounters == {"rdma_packet", "rdma_message", "rdma_sequence_violation", "simulated_drop"}
PoolCounters == {"recirculate", "broadcast", "retransmit", "drop"}
Workers == UNION {ToSet(WorkersOf[j]) : j \in 1..Jobs}

VARIABLES
    calls,     \* calls[t]: what thread t still has to execute
    read,      \* read[t]: the keys its last entry_get returned
    entries,   \* entries[x]: the workers with an entry in table x
    direct,    \* direct[x][w]: counter of that entry
    queue,     \* queue[c][w]: counters of the queue pairs of worker w
    pool,      \* pool[c]: counters of the pool indexes
    job,       \* the current job, 0 before the first
    phase,     \* "connecting", "running" or "over"
    clears,    \* clear_counters commands so far
    quiet      \* no packet was counted since the last clear_counters began

counters == <<direct, queue, pool>>
vars == <<calls, read, entries, counters, job, phase, clears, quiet>>

----------------------------------------------------------------------------
(* The calls.                                                              *)

On(op, x) == [op |-> op, on |-> x]
Of(op, x, w) == [op |-> op, on |-> x, worker |-> w]

(* clear_counters of an object with a direct counter. *)
ClearDirect(x) == <<On("entry_get", x), On("entry_mod", x)>>

(* NextStep.clear_counters: "we'll clear them manually". *)
ClearPools == <<On("clear_pool", "recirculate"), On("clear_pool", "broadcast"),
                On("clear_pool", "retransmit"), On("clear_pool", "drop")>>

(* Job.clear_counters, in the order of counters_to_clear.  The counters    *)
(* per queue pair are left: RDMAReceiver.clear_counters calls entry_del on *)
(* them, which "doesn't work yet".                                         *)
ClearCounters == ClearDirect("get_worker_bitmap") \o ClearDirect("receive_roce")
                 \o ClearDirect("set_dst_addr") \o ClearDirect("create_roce_packet")
                 \o ClearPools

ZeroQueues == <<On("clear_queue", "rdma_packet"), On("clear_queue", "rdma_message"),
                On("clear_queue", "rdma_sequence_violation"), On("clear_queue", "simulated_drop")>>

(* Mutant: the counters are zeroed while packets are still counted. *)
ClearReceiverLate == ZeroQueues \o <<On("entry_del", "receive_roce")>>

(* RDMAReceiver.clear. *)
ClearReceiver == <<On("entry_del", "receive_roce")>> \o ZeroQueues

(* Job.worker_clear_all, as far as it concerns these tables. *)
ClearWorkers == <<On("entry_del", "get_worker_bitmap")>> \o ClearReceiver \o ClearCounters
                \o <<On("entry_del", "set_dst_addr"), On("entry_del", "create_roce_packet")>>

(* RDMAReceiver.add_entry adds an entry and sets its counter to zero;      *)
(* RDMASender.add_write_worker adds an entry.                              *)
AddWorker(w) == <<Of("entry_add", "receive_roce", w), Of("zero_entry", "receive_roce", w),
                  Of("entry_add", "create_roce_packet", w)>>

(* The requests of a job: rank 0 clears, and the barrier keeps the others  *)
(* behind it.                                                              *)
Connects(j) ==
    ClearWorkers \o FlattenSeq([r \in 1..Len(WorkersOf[j]) |-> AddWorker(WorkersOf[j][r])])

----------------------------------------------------------------------------
At(t, op) == calls[t] # <<>> /\ Head(calls[t]).op = op
Return(t) == calls' = [calls EXCEPT ![t] = Tail(@)]
Raise(t) == calls' = [calls EXCEPT ![t] = <<>>]
Elsewhere == UNCHANGED <<job, phase, clears, quiet>>

EntryGet(t) ==
    /\ At(t, "entry_get")
    /\ read' = [read EXCEPT ![t] = entries[Head(calls[t]).on]]
    /\ Return(t)
    /\ UNCHANGED <<entries, counters>> /\ Elsewhere

(* Mutant: an exception ends the whole command. *)
EntryModUncaught(t) ==
    /\ At(t, "entry_mod")
    /\ LET x == Head(calls[t]).on
       IN  IF read[t] \subseteq entries[x]
           THEN /\ direct' = [direct EXCEPT ![x] = [w \in Workers |-> IF w \in read[t] THEN {} ELSE @[w]]]
                /\ Return(t)
           ELSE UNCHANGED direct /\ Raise(t)
    /\ UNCHANGED <<read, entries, queue, pool>> /\ Elsewhere

(* An entry that is gone makes entry_mod raise an exception, which         *)
(* Job.clear_counters catches before it turns to the next object.          *)
EntryMod(t) ==
    /\ At(t, "entry_mod")
    /\ LET x == Head(calls[t]).on
       IN  IF read[t] \subseteq entries[x]
           THEN direct' = [direct EXCEPT ![x] = [w \in Workers |-> IF w \in read[t] THEN {} ELSE @[w]]]
           ELSE UNCHANGED direct
    /\ Return(t)
    /\ UNCHANGED <<read, entries, queue, pool>> /\ Elsewhere

ClearPool(t) ==
    /\ At(t, "clear_pool")
    /\ pool' = [pool EXCEPT ![Head(calls[t]).on] = {}]
    /\ Return(t)
    /\ UNCHANGED <<read, entries, direct, queue>> /\ Elsewhere

ClearQueue(t) ==
    /\ At(t, "clear_queue")
    /\ queue' = [queue EXCEPT ![Head(calls[t]).on] = [w \in Workers |-> {}]]
    /\ Return(t)
    /\ UNCHANGED <<read, entries, direct, pool>> /\ Elsewhere

(* A direct counter goes with its entry. *)
EntryDel(t) ==
    /\ At(t, "entry_del")
    /\ entries' = [entries EXCEPT ![Head(calls[t]).on] = {}]
    /\ direct' = [direct EXCEPT ![Head(calls[t]).on] = [w \in Workers |-> {}]]
    /\ Return(t)
    /\ UNCHANGED <<read, queue, pool>> /\ Elsewhere

EntryAdd(t) ==
    /\ At(t, "entry_add")
    /\ entries' = [entries EXCEPT ![Head(calls[t]).on] = @ \cup {Head(calls[t]).worker}]
    /\ Return(t)
    /\ UNCHANGED <<read, counters>> /\ Elsewhere

ZeroEntry(t) ==
    /\ At(t, "zero_entry")
    /\ direct' = [direct EXCEPT ![Head(calls[t]).on][Head(calls[t]).worker] = {}]
    /\ Return(t)
    /\ UNCHANGED <<read, entries, queue, pool>> /\ Elsewhere

Execute(t) == \/ EntryGet(t) \/ EntryMod(t) \/ ClearPool(t) \/ ClearQueue(t)
              \/ EntryDel(t) \/ EntryAdd(t) \/ ZeroEntry(t)

----------------------------------------------------------------------------
StartJob ==
    /\ phase = "over" /\ calls["rpc"] = <<>> /\ job < Jobs
    /\ job' = job + 1 /\ phase' = "connecting"
    /\ calls' = [calls EXCEPT !["rpc"] = Connects(job + 1)]
    /\ UNCHANGED <<read, entries, counters, clears, quiet>>

Begin ==
    /\ phase = "connecting" /\ calls["rpc"] = <<>>
    /\ phase' = "running"
    /\ UNCHANGED <<calls, read, entries, counters, job, clears, quiet>>

Finish ==
    /\ phase = "running" /\ phase' = "over"
    /\ UNCHANGED <<calls, read, entries, counters, job, clears, quiet>>

(* do_clear_counters; the port counters it also clears are not modelled. *)
TypeClearCounters ==
    /\ calls["cli"] = <<>> /\ clears < MaxClears
    /\ calls' = [calls EXCEPT !["cli"] = ClearCounters]
    /\ clears' = clears + 1 /\ quiet' = TRUE
    /\ UNCHANGED <<read, entries, counters, job, phase>>

(* What NextStep may count for a packet, over its passes: it is consumed,  *)
(* answered, or the last of its slot.                                      *)
PassCounters(outcome) == CASE outcome = "CONSUME"    -> {"recirculate", "drop"}
                           [] outcome = "RETRANSMIT" -> {"recirculate", "retransmit"}
                           [] outcome = "BROADCAST"  -> {"recirculate", "broadcast"}

(* The workers whose entries count the copies that leave. *)
SentTo(w, outcome) == CASE outcome = "CONSUME"    -> {}
                        [] outcome = "RETRANSMIT" -> {w}
                        [] outcome = "BROADCAST"  -> Workers

(* A packet of job j, which may be over, is counted where it is received,  *)
(* on its passes and, with its answer, where that is sent.  This is one    *)
(* step: a driver call takes far longer than the passes of a packet.       *)
Packet(j, w) ==
    /\ j < job \/ phase # "connecting"
    /\ w \in entries["receive_roce"]
    /\ \E outcome \in {"CONSUME", "RETRANSMIT", "BROADCAST"} :
         LET sent == SentTo(w, outcome) \cap entries["create_roce_packet"]
         IN  /\ direct' = [direct EXCEPT
                    !["receive_roce"][w] = @ \cup {j},
                    !["create_roce_packet"] =
                        [v \in Workers |-> IF v \in sent THEN @[v] \cup {j} ELSE @[v]]]
             /\ pool' = [c \in PoolCounters |->
                            IF c \in PassCounters(outcome) THEN pool[c] \cup {j} ELSE pool[c]]
    /\ queue' = [c \in QueuePairCounters |-> [queue[c] EXCEPT ![w] = @ \cup {j}]]
    /\ quiet' = FALSE
    /\ UNCHANGED <<calls, read, entries, job, phase, clears>>

Init ==
    /\ calls = [t \in Threads |-> <<>>] /\ read = [t \in Threads |-> {}]
    /\ entries = [x \in Tables |-> {}]
    /\ direct = [x \in Tables |-> [w \in Workers |-> {}]]
    /\ queue = [c \in QueuePairCounters |-> [w \in Workers |-> {}]]
    /\ pool = [c \in PoolCounters |-> {}]
    /\ job = 0 /\ phase = "over" /\ clears = 0 /\ quiet = FALSE

Next ==
    \/ \E t \in Threads : Execute(t)
    \/ StartJob \/ Begin \/ Finish \/ TypeClearCounters
    \/ \E j \in 1..job : \E w \in ToSet(WorkersOf[j]) : Packet(j, w)

Spec == Init /\ [][Next]_vars

----------------------------------------------------------------------------
(* While a job runs, its counters have counted none of an earlier job's    *)
(* packets, although late packets go on arriving while worker_clear_all    *)
(* runs: entries are removed before the counters are zeroed.               *)
FreshCounters ==
    phase = "running" =>
        /\ \A x \in Tables : \A w \in Workers : direct[x][w] \subseteq {job}
        /\ \A c \in QueuePairCounters : \A w \in Workers : queue[c][w] \subseteq {job}
        /\ \A c \in PoolCounters : pool[c] \subseteq {job}

CommandDone == clears > 0 /\ calls["cli"] = <<>> /\ quiet

(* After clear_counters, and before the next packet, the counters of all   *)
(* entries and pool indexes are zero, even if the other thread replaced    *)
(* the entries between the reading and the modification.                   *)
Cleared ==
    CommandDone => /\ \A x \in Tables : \A w \in Workers : direct[x][w] = {}
                   /\ \A c \in PoolCounters : pool[c] = {}

(* "Clear counters.": and so are the counters per queue pair. *)
QueuePairsCleared ==
    CommandDone => \A c \in QueuePairCounters : \A w \in Workers : queue[c][w] = {}
=============================================================================
