------------------------------- MODULE Slot1024 -------------------------------
(***************************************************************************)
(* One aggregation slot used with 1024-byte packets: the workers' client   *)
(* threads, the four pipes of the switch, the ports that packets           *)
(* recirculate through, and a network that loses packets.                  *)
(*                                                                         *)
(* A packet carries eight slices of 128 bytes.  It is consumed in pipes 0  *)
(* to 3 (CONSUME0 to CONSUME3), two slices in each, and the pass in pipe 3 *)
(* decides whether it is harvested.  A harvest collects the slices in      *)
(* passes HARVEST1 to HARVEST7, from pipe 3 back to pipe 0.                *)
(*                                                                         *)
(* NextStep chooses the loopback ports of the consume passes by the low    *)
(* four bits of worker_id.  Packets of workers that share a port keep      *)
(* their order, packets of other workers may overtake each other between   *)
(* two pipes.  The harvest passes of all workers share their ports.        *)
(*                                                                         *)
(* Workers are on ports of pipe 0, as README.md requires.                  *)
(***************************************************************************)
EXTENDS SwitchPass, Sequences, FiniteSetsExt, TLC

CONSTANTS MaxInFlight,    \* bound: a worker reposts only while fewer packets
                          \*   than this are under way
          AlternatePort,  \* the port of HARVEST4: 196, or another port of
                          \*   pipe 1 when alternate_recirc_port is set
          Losses,         \* where packets are lost: "network", "consume", "harvest"
          MaxLost         \* bound: packets lost in a behaviour

ASSUME Assumptions1024 ==
    /\ Workers \subseteq 0 .. 31
    /\ MaxInFlight \in Nat \ {0}
    /\ AlternatePort \in 128 .. 255
    /\ Losses \subseteq {"network", "consume", "harvest"} /\ MaxLost \in Nat

VARIABLES
    \* registers of pipe p for this slot, by set
    bitmap,       \* bitmap[p]: workers seen
    count,        \* count[p]: workers still missing
    sig,          \* sig[p]: the two slices that the pipe sums up
    expo,         \* the exponent maxima, which only pipe 0 computes
    \* packets inside the switch and in the network
    up,           \* up[w]: packets from w to the switch
    consume,      \* consume[p][port]: packets waiting for pass CONSUMEp at
                  \*   a loopback port, which has that number in all pipes
    harvest,      \* harvest[port]: packets queued at a recirculation port
    down,         \* down[w]: replies from the switch to w
    \* client threads
    posted,       \* posted[w]: message of the slot's send work request
    slot_bit,     \* slot_bit[w]: low bit of the work request's rkey
    finished,     \* finished[w]: the last message has been answered
    mem,          \* mem[w][m]: the buffer of message m in w's memory
    cq,           \* cq[w]: receive completions that w has not polled yet
    lost          \* packets lost so far

registers == <<bitmap, count, sig, expo>>
switch_vars == <<registers, consume, harvest>>
client_vars == <<posted, slot_bit, finished, mem, cq>>
vars == <<bitmap, count, sig, expo, up, consume, harvest, down,
          posted, slot_bit, finished, mem, cq, lost>>

Pipes == 0 .. 3
Slices == 8

\* Slice i of a message is marked by counting its contributions i times, so
\* that a slice in the wrong place shows.
Times(i, v) == [c \in Contributions |-> i * v[c]]
InputSlices(w, m) == [i \in 1 .. Slices |-> Times(i, Input(w, m))]

\* The loopback port of worker w: bits 6 to 0 of its dev port in any pipe.
LoopbackPort(w) == 4 * (w % 16)
LoopbackPorts == {LoopbackPort(w) : w \in Workers}

HarvestPorts == {452, 324, AlternatePort, 196, 64, 68}

\* Dev port numbers carry the pipe in their high bits.
PipeOf(port) == port \div 128

\* The port that a packet waits at for pass HARVESTn.
HarvestPort(n) ==
    CASE n = 1 -> 452
      [] n \in {2, 3} -> 324
      [] n = 4 -> AlternatePort
      [] n = 5 -> 196
      [] n = 6 -> 64
      [] n = 7 -> 68

-------------------------------------------------------------------------------
\* A packet inside the switch has the fields worker, msg and set, the slices
\* it still carries (data) and the exponent e0.  One that is
\* harvested has the number of its next pass.  first_flag, last_flag and
\* nonzero are the status bits that NextStep leaves in the metadata header.

Init ==
    /\ bitmap = [p \in Pipes |-> [s \in Sets |-> {}]]
    /\ count = [p \in Pipes |-> [s \in Sets |-> 0]]
    /\ sig = [p \in Pipes |-> [s \in Sets |-> [first |-> Zero, second |-> Zero]]]
    /\ expo = [s \in Sets |-> [first |-> {}, second |-> {}]]
    /\ up = [w \in Workers |-> << >>]
    /\ consume = [p \in 1 .. 3 |-> [port \in LoopbackPorts |-> << >>]]
    /\ harvest = [port \in HarvestPorts |-> << >>]
    /\ down = [w \in Workers |-> << >>]
    /\ posted = [w \in Workers |-> 0]
    /\ slot_bit = [w \in Workers |-> 1]
    /\ finished = [w \in Workers |-> FALSE]
    /\ mem = [w \in Workers |-> [m \in Messages |-> InputSlices(w, m)]]
    /\ cq = [w \in Workers |-> << >>]
    /\ lost = 0

-------------------------------------------------------------------------------
(* Client thread.                                                          *)

\* The packet that posting message m with the given slot bit puts on the wire.
Packet(w, m, bit) ==
    [worker |-> w, msg |-> m, set |-> bit, data |-> mem[w][m], e0 |-> {<<w, m>>},
     first_flag |-> FALSE, last_flag |-> FALSE, nonzero |-> FALSE]

Send(w, k) == up' = [up EXCEPT ![w] = Append(@, k)]

\* Mutant: the slot bit is not flipped.
PostNextSameSet(w) ==
    /\ posted[w] < MaxMessage
    /\ posted' = [posted EXCEPT ![w] = @ + 1]
    /\ slot_bit' = [slot_bit EXCEPT ![w] = 0]
    /\ Send(w, Packet(w, posted[w] + 1, 0))

\* post_next_send_wr, when there is a message left for the slot.
PostNext(w) ==
    /\ posted[w] < MaxMessage
    /\ posted' = [posted EXCEPT ![w] = @ + 1]
    /\ slot_bit' = [slot_bit EXCEPT ![w] = 1 - @]
    /\ Send(w, Packet(w, posted[w] + 1, 1 - slot_bit[w]))

\* post_next_send_wr, when there is none: nothing is posted.
PostNothing(w) ==
    /\ posted[w] = MaxMessage
    /\ UNCHANGED <<posted, slot_bit, up>>

\* post_initial_writes.
PostInitial(w) ==
    /\ posted[w] = 0
    /\ PostNext(w)
    /\ UNCHANGED <<switch_vars, down, finished, mem, cq, lost>>

\* Packets, replies and completions under way.
InFlight ==
    MapThenSumSet(LAMBDA w : Len(up[w]) + Len(down[w]) + Len(cq[w]), Workers)
    + MapThenSumSet(LAMBDA p : MapThenSumSet(LAMBDA port : Len(consume[p][port]), LoopbackPorts), 1 .. 3)
    + MapThenSumSet(LAMBDA port : Len(harvest[port]), HarvestPorts)

\* repost_send_wr, from check_for_timeouts.
Repost(w) ==
    /\ posted[w] > 0
    /\ InFlight < MaxInFlight
    /\ Send(w, Packet(w, posted[w], slot_bit[w]))
    /\ UNCHANGED <<switch_vars, client_vars, down, lost>>

\* handle_recv_completion: the set in the immediate must be the current one.
HandleRecv(w) ==
    /\ cq[w] # << >>
    /\ cq' = [cq EXCEPT ![w] = Tail(@)]
    /\ IF Head(cq[w]).set = slot_bit[w]
       THEN /\ PostNext(w) \/ PostNothing(w)
            /\ finished' = [finished EXCEPT ![w] = (posted[w] = MaxMessage)]
       ELSE UNCHANGED <<posted, slot_bit, up, finished>>
    /\ UNCHANGED <<switch_vars, down, mem, lost>>

\* The NIC writes a reply to the buffer of its message and raises a
\* receive completion.
RdmaWrite(w) ==
    /\ down[w] # << >>
    /\ LET q == Head(down[w]) IN
         /\ mem' = [mem EXCEPT ![w][q.msg] = q.data]
         /\ cq' = [cq EXCEPT ![w] = Append(@, [msg |-> q.msg, set |-> q.set])]
    /\ down' = [down EXCEPT ![w] = Tail(@)]
    /\ UNCHANGED <<switch_vars, up, posted, slot_bit, finished, lost>>

-------------------------------------------------------------------------------
(* Switch: the entries of next_step for 1024-byte packets.                 *)

\* CONSUME0: a new packet and a retransmission to a full set take the same
\* way.
NextStepConsume0(flag, map) == IF map = {} \/ flag = 0 THEN "recirculate" ELSE "drop"

\* Mutant: a retransmission to a full set is dropped in the last pipe.
NextStepConsume3NoReply(flag, map) ==
    IF flag = 1 THEN "HARVEST1"
    ELSE IF map = {} THEN "finish_consume"
    ELSE "drop"

NextStepConsume3(flag, map) ==
    IF flag = 1 THEN "HARVEST1"
    ELSE IF map = {} THEN "finish_consume"
    ELSE IF flag = 0 THEN "HARVEST1"
    ELSE "drop"

\* CONSUME1 and CONSUME2 pass every packet on.
NextStepConsume(p, flag, map) ==
    CASE p = 0 -> NextStepConsume0(flag, map)
      [] p \in {1, 2} -> "recirculate"
      [] p = 3 -> NextStepConsume3(flag, map)

\* The status bits in the metadata header are set in every pass and cleared
\* in none.
SetFlags(k, flag, map) ==
    [k EXCEPT !.first_flag = @ \/ flag = 0,
              !.last_flag = @ \/ flag = 1,
              !.nonzero = @ \/ map # {}]

\* The slices left when a consume pass has taken hdr.d0 and hdr.d1.
Rest(data) == SubSeq(data, 3, Len(data))

(* What a consume pass of packet k in pipe p reads and decides. *)
Before(p, k) == bitmap[p][k.set]
Map(p, k) == MapResult(bitmap[p], k.set, k.worker)
Flag(p, k) == FirstLastFlag(count[p][k.set], Map(p, k))
Step(p, k) == NextStepConsume(p, Flag(p, k), Map(p, k))

\* The registers after the pass.  The exponents are in pipe 0 only.
ConsumeRegisters(p, k) ==
    /\ bitmap' = [bitmap EXCEPT ![p] = UpdateBitmap(@, k.set, k.worker)]
    /\ count' = [count EXCEPT ![p][k.set] = UpdateCount(@, Map(p, k))]
    /\ sig' = [sig EXCEPT ![p][k.set] =
                 UpdateSignificands(@, Before(p, k), Map(p, k), k.data[1], k.data[2])]
    /\ expo' = IF p = 0
               THEN [expo EXCEPT ![k.set] =
                       UpdateExponents(@, Before(p, k), Map(p, k), k.e0, k.e0)]
               ELSE expo

\* The packet after the pass.
Consumed(p, k) ==
    SetFlags([k EXCEPT !.data = Rest(@), !.e0 = IF p = 0 THEN expo'[k.set].first ELSE @],
             Flag(p, k), Map(p, k))

\* The packet on its way to HARVEST1: hdr.d1 is the first slice of the reply.
Started(p, k) ==
    [pass |-> 1] @@
    [Consumed(p, k) EXCEPT !.data =
        <<ConsumedD1(sig[p][k.set], Before(p, k), Map(p, k), k.data[1], k.data[2])>>]

\* The ingress pass CONSUME0.
Consume0(w) ==
    /\ up[w] # << >>
    /\ LET k == Head(up[w]) IN
         /\ ConsumeRegisters(0, k)
         /\ consume' = IF Step(0, k) = "recirculate"
                       THEN [consume EXCEPT ![1][LoopbackPort(w)] = Append(@, Consumed(0, k))]
                       ELSE consume
    /\ up' = [up EXCEPT ![w] = Tail(@)]
    /\ UNCHANGED <<harvest, down, client_vars, lost>>

\* The ingress passes CONSUME1 to CONSUME3.
Consume(p, port) ==
    /\ consume[p][port] # << >>
    /\ LET k == Head(consume[p][port])
           taken == [consume EXCEPT ![p][port] = Tail(@)]
       IN
         /\ ConsumeRegisters(p, k)
         /\ consume' = IF Step(p, k) = "recirculate"
                       THEN [taken EXCEPT ![p + 1][port] = Append(@, Consumed(p, k))]
                       ELSE taken
         /\ harvest' = IF Step(p, k) = "HARVEST1"
                       THEN [harvest EXCEPT ![HarvestPort(1)] = Append(@, Started(p, k))]
                       ELSE harvest
    /\ UNCHANGED <<up, down, client_vars, lost>>

\* What the HARVEST7 pass of packet h does with it.
HarvestStep(h) == NextStepHarvest7(ReconstructFlag(h.first_flag, h.last_flag), h.nonzero)

\* The slice that a harvest pass reads: odd passes read0, even passes read1.
Harvested(h, port) ==
    IF h.pass % 2 = 1 THEN sig[PipeOf(port)][h.set].first ELSE sig[PipeOf(port)][h.set].second

ReplyOf(h, type, data) ==
    [type |-> type, msg |-> h.msg, set |-> h.set, data |-> data,
     e0 |-> h.e0, e1 |-> expo[h.set].second]

\* The ingress pass HARVESTn of the packet at the head of a recirculation
\* port.  The slice read is put in front of those read before.  After
\* HARVEST7 the packet is multicast, sent back or dropped.
Harvest(port) ==
    /\ harvest[port] # << >>
    /\ LET h == Head(harvest[port])
           data == <<Harvested(h, port)>> \o h.data
           taken == [harvest EXCEPT ![port] = Tail(@)]
       IN  IF h.pass < 7
           THEN /\ harvest' = [taken EXCEPT ![HarvestPort(h.pass + 1)] =
                                 Append(@, [h EXCEPT !.pass = @ + 1, !.data = data])]
                /\ UNCHANGED down
           ELSE /\ harvest' = taken
                /\ down' =
                     CASE HarvestStep(h) = "BROADCAST" ->
                            [w \in Workers |-> Append(down[w], ReplyOf(h, "BROADCAST", data))]
                       [] HarvestStep(h) = "RETRANSMIT" ->
                            [down EXCEPT ![h.worker] = Append(@, ReplyOf(h, "RETRANSMIT", data))]
                       [] OTHER -> down
    /\ UNCHANGED <<registers, up, consume, client_vars, lost>>

-------------------------------------------------------------------------------
(* Loss: in the network, by the drop simulator, or at a port that          *)
(* recirculates.                                                           *)

Lost(where) == where \in Losses /\ lost < MaxLost /\ lost' = lost + 1

LoseUp(w) ==
    /\ Lost("network") /\ up[w] # << >>
    /\ up' = [up EXCEPT ![w] = Tail(@)]
    /\ UNCHANGED <<switch_vars, client_vars, down>>

LoseConsume(p, port) ==
    /\ Lost("consume") /\ consume[p][port] # << >>
    /\ consume' = [consume EXCEPT ![p][port] = Tail(@)]
    /\ UNCHANGED <<registers, harvest, up, client_vars, down>>

LoseHarvest(port) ==
    /\ Lost("harvest") /\ harvest[port] # << >>
    /\ harvest' = [harvest EXCEPT ![port] = Tail(@)]
    /\ UNCHANGED <<registers, consume, up, client_vars, down>>

LoseDown(w) ==
    /\ Lost("network") /\ down[w] # << >>
    /\ down' = [down EXCEPT ![w] = Tail(@)]
    /\ UNCHANGED <<switch_vars, up, client_vars>>

-------------------------------------------------------------------------------

Worker(w) == PostInitial(w) \/ Repost(w) \/ HandleRecv(w) \/ RdmaWrite(w)

Next == \/ \E w \in Workers : Worker(w) \/ Consume0(w) \/ LoseUp(w) \/ LoseDown(w)
        \/ \E p \in 1 .. 3, port \in LoopbackPorts : Consume(p, port) \/ LoseConsume(p, port)
        \/ \E port \in HarvestPorts : Harvest(port) \/ LoseHarvest(port)

Spec == Init /\ [][Next]_vars

-------------------------------------------------------------------------------
(* Safety.                                                                 *)

\* Messages whose result w has taken.
Completed(w) == IF finished[w] THEN MaxMessage
                ELSE IF posted[w] = 0 THEN 0
                ELSE posted[w] - 1

Replies == UNION {{down[w][i] : i \in 1 .. Len(down[w])} : w \in Workers}

\* The eight slices of a reply, gathered in eight passes from registers that
\* go on serving other packets, are the reduction of one and the same
\* message, in their order: retransmissions "run through the same path as
\* novel packets to ensure ordering".  The last slice of a retransmission is
\* left out: the consume pass of a retransmission does not read it.
RepliesExact ==
    \A q \in Replies :
        /\ \A i \in 1 .. Slices - 1 : q.data[i] = Times(i, Total(q.msg))
        /\ q.type = "BROADCAST" => q.data[Slices] = Times(Slices, Total(q.msg))

\* A broadcast, which every worker takes for the result, is exact whatever
\* overtakes what on the way through the pipes, as long as no worker has
\* been given partial sums in answer to a retransmission (MCSlot1024).
BroadcastsExact ==
    \A q \in Replies : q.type = "BROADCAST" =>
        \A i \in 1 .. Slices : q.data[i] = Times(i, Total(q.msg))

\* Both exponents of a reply are maxima over all workers.
ExponentsExact ==
    \A q \in Replies : q.e0 = AllExponents(q.msg) /\ q.e1 = AllExponents(q.msg)

\* The comment on the (HARVEST7, first, not a retransmission) entry of
\* next_step says that it is never reached.
NoUnexpectedHarvest ==
    \A port \in HarvestPorts : \A i \in 1 .. Len(harvest[port]) :
        HarvestStep(harvest[port][i]) # "unexpected"

Abstract == INSTANCE AllReduce WITH
    Sum    <- [m \in Messages |-> [i \in 1 .. Slices - 1 |-> Times(i, Total(m))]],
    round  <- [w \in Workers |-> IF finished[w] THEN MaxMessage + 1 ELSE posted[w]],
    result <- [w \in Workers |-> [m \in 1 .. Completed(w) |-> SubSeq(mem[w][m], 1, Slices - 1)]]

\* The four pipes together implement the abstract all-reduce, on all slices
\* but the last one and under the same condition: a worker leaves a message
\* only after every worker has entered it, and with the sum of all inputs.
ImplementsAllReduce == Abstract!ASpec

-------------------------------------------------------------------------------
(* Liveness: pipes and NICs serve their queues, client threads poll, and   *)
(* MaxLost ends the losses.  Strong fairness of Repost makes up for the bound  *)
(* in its guard, which the code does not have.                             *)

Fairness ==
    /\ \A w \in Workers :
         /\ WF_vars(PostInitial(w)) /\ WF_vars(HandleRecv(w)) /\ SF_vars(Repost(w))
         /\ WF_vars(Consume0(w)) /\ WF_vars(RdmaWrite(w))
    /\ \A p \in 1 .. 3, port \in LoopbackPorts : WF_vars(Consume(p, port))
    /\ \A port \in HarvestPorts : WF_vars(Harvest(port))

FairSpec == Spec /\ Fairness

\* Every worker gets through all its messages, although the packet that
\* completes a set can be dropped instead of broadcast.
Termination == <>(\A w \in Workers : finished[w])

===============================================================================
