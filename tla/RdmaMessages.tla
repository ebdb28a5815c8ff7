------------------------------ MODULE RdmaMessages ------------------------------
(***************************************************************************)
(* Messages of several packets.  A client posts a message on one of its    *)
(* queue pairs (src/RDMAExampleClient/ClientThread.cpp); its NIC cuts it   *)
(* into packets, of which only the first says which slot it is for; the    *)
(* network loses and reorders them; the switch works out the slot of each  *)
(* from the packet before it (src/p4/RDMAReceiver.p4).  A reply finds its  *)
(* queue pair from the slot (RDMASender.add_write_worker).  The numbers of *)
(* the queue pairs are the ones RDMAConnect hands out.                     *)
(*                                                                         *)
(* c = <<rank, queue>> is a queue pair of a client.  Its messages use the  *)
(* slots queue * PacketsPerMessage and those that follow, in both sets.    *)
(***************************************************************************)
EXTENDS Integers, Sequences, FiniteSets

CONSTANT Configs   \* set-ups to explore; a behaviour has one of them

VARIABLES
    config,    \* the set-up of this behaviour
    start,     \* start[c]: sequence number of the first packet of c in this job
    sent,      \* sent[c]: packets c has sent in this job
    message,   \* message[c]: the message c works on
    net,       \* packets under way
    receiver,  \* receiver_data_register, by queue pair index
    counter,   \* the counters of the receiver, by queue pair index
    taken,     \* the last packet the switch did not drop, and its slot
    tally,     \* tally[c]: what really happened to the packets of c
    heard,     \* heard[c]: the last packet of c that reached the switch in this job, or -1
    begun,     \* begun[c]: the first packet of some message of c has, in this job
    lost, jobs

wire == <<start, sent, message, net>>
history == <<taken, tally, heard, begun>>
rdmaVars == <<config, wire, receiver, counter, history, lost, jobs>>

Ranks == config.ranks
Queues == config.queues                \* queues of a rank are numbered from 0
PacketsPerMessage == config.packets
Lengths == config.lengths              \* packets of a message; the last one may be short
PsnModulus == config.psns              \* 2^24 in the code
InitialPsns == config.initial          \* qp_num/2 of a queue pair
QueuesPerWorker == 512                 \* max_num_queue_pairs_per_worker

(* Bounds. *)
Span == config.span                    \* see Recent
MaxPackets == config.max_packets       \* packets of one queue pair in a job
MaxLost == config.max_lost             \* packets lost in a behaviour
MaxJobs == config.max_jobs

Clients == Ranks \X (0 .. Queues - 1)
PoolIndices == 32768   \* pool_index_t has 15 bits, the lowest of which is the set
ErrorBit == 1073741824 \* 0x80000000 in the code, kept within 32-bit arithmetic

ASSUME RdmaAssumption == \A c \in Configs :
    /\ c.ranks \subseteq 0..31 /\ c.queues \in 1..QueuesPerWorker
    /\ c.packets \in Nat \ {0} /\ \E k \in 0..14 : c.packets = 2 ^ k
    /\ c.queues * (2 * c.packets) <= PoolIndices /\ c.lengths \subseteq 1 .. c.packets
    /\ c.psns \in Nat \ {0} /\ c.initial \subseteq 1 .. c.psns \div 2
    /\ c.span \in 1 .. c.psns \div 2
    /\ c.max_packets \in Nat /\ c.max_lost \in Nat /\ c.max_jobs \in Nat
    /\ \A a \in c.arguments : a.start \in Nat /\ a.count \in Nat /\ a.start + a.count <= QueuesPerWorker

----------------------------------------------------------------------------
(* Numbers.                                                                *)

(* RDMAConnect: 0x800000 | rank << 16 | i. *)
SwitchQpn(c) == 8388608 + c[1] * 65536 + c[2]

(* RDMAReceiver.add_entry: the entry of a worker matches on the top bits,  *)
(* 0x800000 | (rid & 0xff) << 16 with mask 0xff0000.                       *)
Matching(qpn) == {r \in Ranks : qpn \div 65536 = 128 + (r % 256)}

(* Mutant: the rank is left out. *)
QpIndexNoRank(qpn) == qpn % QueuesPerWorker

(* QP_INDEX: dst_qp[20:16] ++ dst_qp[8:0]. *)
QpIndex(qpn) == ((qpn \div 65536) % 32) * QueuesPerWorker + (qpn % QueuesPerWorker)

(* do_queue_pair_counters: the arguments the operator gives, which stay    *)
(* within the queue pairs of a worker; {start 0, count 8} without any.     *)
Arguments == config.arguments

(* get_queue_pair_counters: worker_id * worker_counter_offset + offset. *)
Ids(a) == {r * QueuesPerWorker + q : r \in Ranks, q \in a.start .. a.start + a.count - 1}

UsedIndices == {QpIndex(SwitchQpn(c)) : c \in Clients} \cup UNION {Ids(a) : a \in Arguments}

(* ClientThread: the rkey, whose lowest bit is the set. *)
Rkey(queue, set) == queue * PacketsPerMessage * 2 + set

(* Mutant: the bit of the set is not skipped. *)
ShiftedIndexNoSet(index) == index * PacketsPerMessage

(* RDMASender.add_write_worker: shifted_index and mask of the entry of a   *)
(* queue pair.  PacketsPerMessage is a power of two.                       *)
ShiftedIndex(index) == index * (2 * PacketsPerMessage)
Masked(pool_index) == (pool_index % PoolIndices) - (pool_index % (2 * PacketsPerMessage))

(* Queue pairs of one worker that match the slot of a reply. *)
ReplyQueues(pool_index) == {q \in 0 .. Queues - 1 : ShiftedIndex(q) = Masked(pool_index)}

----------------------------------------------------------------------------
(* The clients.                                                            *)

Opcode(i, n) == IF n = 1 THEN "only" ELSE IF i = 0 THEN "first"
                ELSE IF i = n - 1 THEN "last" ELSE "middle"

(* The NIC numbers the packets of a queue pair one after the other; rkey   *)
(* is in the header of the first packet of a message only.  about is what  *)
(* the packet is: its slot, its place in the message, and how many of its  *)
(* queue pair came before it in this job.                                  *)
PacketsOf(c, set, n) ==
    {[from |-> c, qpn |-> SwitchQpn(c), psn |-> (start[c] + (sent[c] + i)) % PsnModulus,
      opcode |-> Opcode(i, n), rkey |-> IF i = 0 THEN Rkey(c[2], set) ELSE -1,
      about |-> [slot |-> Rkey(c[2], set) + 2 * i, position |-> i, number |-> sent[c] + i]] :
     i \in 0 .. n - 1}

UnderWay(c) == {p \in net : p.from = c}

(* What is assumed of the network: neither the last packet that reached    *)
(* the switch nor one that is still under way is more than Span packets    *)
(* old.  Sequence numbers have 24 bits; Span is half of them at most.      *)
Recent(c, n) ==
    /\ sent[c] + n - heard[c] <= Span
    /\ \A p \in UnderWay(c) : sent[c] + n - p.about.number <= Span

Send(c, set, n) ==
    /\ sent[c] + n <= MaxPackets /\ Recent(c, n)
    /\ net' = net \cup PacketsOf(c, set, n)
    /\ sent' = [sent EXCEPT ![c] = @ + n]
    /\ UNCHANGED <<start, receiver, counter, history, lost, jobs, config>>

(* post_next_send_wr: the set is flipped.  The result that lets a client   *)
(* go on needs all packets of its message.                                 *)
PostNext(c, n) ==
    /\ message[c].missing = {}
    /\ message' = [message EXCEPT ![c] = [set |-> 1 - @.set, length |-> n, missing |-> 0 .. n - 1]]
    /\ Send(c, 1 - message[c].set, n)

(* repost_send_wr after a timeout: the same message with new numbers. *)
Repost(c) ==
    /\ message[c].missing # {}
    /\ Send(c, message[c].set, message[c].length)
    /\ UNCHANGED message

(* Every queue pair starts with its own sequence number.  RDMAConnect of   *)
(* rank 0 sets the counters to zero (RDMAReceiver.clear); nothing clears   *)
(* the register of the receiver.                                           *)
NoCount == [packets |-> 0, violations |-> 0, messages |-> 0]
NewMessages == [c \in Clients |-> [set |-> 1, length |-> 0, missing |-> {}]]

NewJob ==
    /\ jobs < MaxJobs
    /\ jobs' = jobs + 1
    /\ start' \in [Clients -> InitialPsns]
    /\ sent' = [c \in Clients |-> 0] /\ message' = NewMessages /\ net' = {}
    /\ counter' = [i \in UsedIndices |-> NoCount] /\ tally' = [c \in Clients |-> NoCount]
    /\ heard' = [c \in Clients |-> -1] /\ begun' = [c \in Clients |-> FALSE]
    /\ UNCHANGED <<receiver, taken, lost, config>>

Lose(p) ==
    /\ lost < MaxLost
    /\ net' = net \ {p} /\ lost' = lost + 1
    /\ UNCHANGED <<start, sent, message, receiver, counter, history, jobs, config>>

----------------------------------------------------------------------------
(* The switch.                                                             *)

Following(n) == IF n = PsnModulus - 1 THEN 0 ELSE n + 1

(* receiver_reset_action, for first and only packets. *)
Reset(value, p) == [next |-> Following(p.psn), pool_index |-> p.rkey]

(* Mutant: a packet that is out of sequence leaves no mark. *)
IncrementForgiving(value, p) ==
    IF p.psn = value.next
    THEN [next |-> Following(value.next), pool_index |-> value.pool_index + 2]
    ELSE value

(* receiver_increment_action, for middle and last packets.  The error      *)
(* stays in the register until the next message.                           *)
Increment(value, p) ==
    IF p.psn = value.next
    THEN [next |-> Following(value.next), pool_index |-> value.pool_index + 2]
    ELSE [next |-> value.next, pool_index |-> ErrorBit]

(* The counters that apply counts: every packet, and either a violation or *)
(* a message whose last packet arrived.                                    *)
Count(v, bad, opcode) ==
    [packets |-> v.packets + 1,
     violations |-> v.violations + (IF bad THEN 1 ELSE 0),
     messages |-> v.messages + (IF ~ bad /\ opcode \in {"last", "only"} THEN 1 ELSE 0)]

Receive(p) ==
    LET i == QpIndex(p.qpn)
        value == IF p.opcode \in {"first", "only"} THEN Reset(receiver[i], p)
                 ELSE Increment(receiver[i], p)
        bad == value.pool_index >= ErrorBit
    IN  /\ net' = net \ {p}
        /\ receiver' = [receiver EXCEPT ![i] = value]
        /\ counter' = [counter EXCEPT ![i] = Count(@, bad, p.opcode)]
        /\ tally' = [tally EXCEPT ![p.from] = Count(@, bad, p.opcode)]
        /\ heard' = [heard EXCEPT ![p.from] = p.about.number]
        /\ begun' = [begun EXCEPT ![p.from] = @ \/ p.opcode \in {"first", "only"}]
        /\ IF bad
           THEN UNCHANGED <<taken, message>>
           ELSE /\ taken' = [packet |-> p, slot |-> value.pool_index % PoolIndices,
                             workers |-> Matching(p.qpn), known |-> jobs = 1 \/ begun'[p.from]]
                /\ message' = [message EXCEPT ![p.from].missing =
                        IF p.about.slot % 2 = message[p.from].set
                        THEN @ \ {p.about.position} ELSE @]
        /\ UNCHANGED <<start, sent, lost, jobs, config>>

RdmaInit ==
    /\ config \in Configs
    /\ start \in [Clients -> InitialPsns]
    /\ sent = [c \in Clients |-> 0] /\ message = NewMessages
    /\ net = {} /\ taken = <<>>
    /\ receiver = [i \in UsedIndices |-> [next |-> 0, pool_index |-> 0]]
    /\ counter = [i \in UsedIndices |-> NoCount]
    /\ tally = [c \in Clients |-> NoCount]
    /\ heard = [c \in Clients |-> -1] /\ begun = [c \in Clients |-> FALSE]
    /\ lost = 0 /\ jobs = 1

RdmaNext ==
    \/ \E c \in Clients : Repost(c) \/ \E n \in Lengths : PostNext(c, n)
    \/ \E p \in net : Receive(p) \/ Lose(p)
    \/ NewJob

RdmaSpec == RdmaInit /\ [][RdmaNext]_rdmaVars

----------------------------------------------------------------------------
(* get_queue_pair_counters: the rows it prints for worker_ids. *)
Shown(a) == {[worker |-> i \div QueuesPerWorker, queue |-> i % QueuesPerWorker,
              count |-> counter[i]] : i \in Ids(a)}

(* "The goal for this component is to receive a RoCE RDMA UC packet stream,*)
(* and to compute the correct slot ID for each packet": a packet that is   *)
(* not dropped is taken for its own worker and for its own slot, with      *)
(* packets lost, reordered and sent again and sequence numbers that come   *)
(* round any number of times.  In the first job after the switch has       *)
(* started this is so from the first packet on; in a later one, where the  *)
(* register still has a number of the job before, once the first packet of *)
(* some message of the queue pair has arrived.                             *)
SlotExact ==
    (taken # <<>> /\ taken.known) => /\ taken.slot = taken.packet.about.slot
                                    /\ taken.workers = {taken.packet.from[1]}

(* "each QPN handles both sets of a slot in the pool": the reply to such a *)
(* packet, which is sent to all workers, finds exactly one queue pair at   *)
(* each, the one this worker uses for the same slots.                      *)
ReplyQueueExact ==
    (taken # <<>> /\ taken.known) => ReplyQueues(taken.slot) = {taken.packet.from[2]}

(* What happened to the packets of the queue pairs asked for. *)
TrueCount(r, q) == IF q < Queues THEN tally[<<r, q>>] ELSE NoCount
TrueRows(a) == {[worker |-> r, queue |-> q, count |-> TrueCount(r, q)] :
                r \in Ranks, q \in a.start .. a.start + a.count - 1}

(* The table of queue pair counters shows, for each worker and each of the *)
(* queue pairs asked for, what happened to the packets of this queue pair. *)
CountersShown == \A a \in Arguments : Shown(a) = TrueRows(a)
=============================================================================
