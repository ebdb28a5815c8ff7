------------------------------- MODULE Slot256 --------------------------------
(***************************************************************************)
(* One aggregation slot used with 256-byte packets: the workers' client    *)
(* threads, pipe 0 of the switch, its recirculation port 68, and a network *)
(* that loses packets in either direction.                                 *)
(*                                                                         *)
(* A worker sends message 1, 2, ... through the slot, one packet each,     *)
(* alternating between the two sets of the slot.  A packet's message       *)
(* number stands for the address of its buffer, which the switch copies    *)
(* into the reply and the NIC writes the reply to.  Buffers are reduced in *)
(* place.                                                                  *)
(*                                                                         *)
(* The path from a worker to the switch, the recirculation port and the    *)
(* path back to a worker keep the order of packets: all packets of a slot  *)
(* travel on one queue pair, and NextStep sends every 256-byte packet it   *)
(* recirculates to port 68.                                                *)
(***************************************************************************)
EXTENDS SwitchPass, Sequences, FiniteSetsExt

CONSTANT MaxInFlight    \* bound: a worker reposts only while fewer packets
                        \*   than this are under way

ASSUME MaxInFlightAssumption == MaxInFlight \in Nat \ {0}

VARIABLES
    \* registers of pipe 0 for this slot, by set
    bitmap,       \* workers seen
    count,        \* workers still missing
    sig,          \* the two halves of the significand sums
    expo,         \* the two exponent maxima
    recirc,       \* packets queued at recirculation port 68
    \* network
    up,           \* up[w]: packets from w to the switch
    down,         \* down[w]: replies from the switch to w
    \* client threads
    posted,       \* posted[w]: message of the slot's send work request
    slot_bit,     \* slot_bit[w]: low bit of the work request's rkey
    finished,     \* finished[w]: the last message has been answered
    mem,          \* mem[w][m]: the buffer of message m in w's memory
    cq            \* cq[w]: receive completions that w has not polled yet

switch_vars == <<bitmap, count, sig, expo, recirc>>
client_vars == <<posted, slot_bit, finished, mem, cq>>
vars == <<bitmap, count, sig, expo, recirc, up, down, posted, slot_bit, finished, mem, cq>>

-------------------------------------------------------------------------------
(* Types.                                                                  *)

Data == [d0 : Significands, d1 : Significands]

WritePacket == [msg : Messages, set : Sets, d0 : Significands, d1 : Significands]

\* A packet under harvest.  first_flag, last_flag and nonzero are the
\* status bits that NextStep leaves in the metadata header.
HarvestPacket == [worker : Workers, msg : Messages, set : Sets,
                  d1 : Significands, e0 : Exponents,
                  first_flag : BOOLEAN, last_flag : BOOLEAN, nonzero : BOOLEAN]

Reply == [type : {"BROADCAST", "RETRANSMIT"}, msg : Messages, set : Sets,
          d0 : Significands, d1 : Significands, e0 : Exponents, e1 : Exponents]

Completion == [msg : Messages, set : Sets]

TypeOK ==
    /\ bitmap \in [Sets -> SUBSET Workers]
    /\ count \in [Sets -> Nat]
    /\ sig \in [Sets -> [first : Significands, second : Significands]]
    /\ expo \in [Sets -> [first : Exponents, second : Exponents]]
    /\ recirc \in Seq(HarvestPacket)
    /\ up \in [Workers -> Seq(WritePacket)]
    /\ down \in [Workers -> Seq(Reply)]
    /\ posted \in [Workers -> 0 .. MaxMessage]
    /\ slot_bit \in [Workers -> Sets]
    /\ finished \in [Workers -> BOOLEAN]
    /\ mem \in [Workers -> [Messages -> Data]]
    /\ cq \in [Workers -> Seq(Completion)]

-------------------------------------------------------------------------------

Init ==
    /\ bitmap = [s \in Sets |-> {}]
    /\ count = [s \in Sets |-> 0]
    /\ sig = [s \in Sets |-> [first |-> Zero, second |-> Zero]]
    /\ expo = [s \in Sets |-> [first |-> {}, second |-> {}]]
    /\ recirc = << >>
    /\ up = [w \in Workers |-> << >>]
    /\ down = [w \in Workers |-> << >>]
    /\ posted = [w \in Workers |-> 0]
    /\ slot_bit = [w \in Workers |-> 1]
    /\ finished = [w \in Workers |-> FALSE]
    /\ mem = [w \in Workers |-> [m \in Messages |-> [d0 |-> Input(w, m), d1 |-> Input(w, m)]]]
    /\ cq = [w \in Workers |-> << >>]

-------------------------------------------------------------------------------
(* Client thread.                                                          *)

\* The packet that posting message m with the given slot bit puts on the wire.
Packet(w, m, bit) ==
    [msg |-> m, set |-> bit, d0 |-> mem[w][m].d0, d1 |-> mem[w][m].d1]

\* Mutant: the slot bit is not flipped.
PostNextSameSet(w) ==
    /\ posted[w] < MaxMessage
    /\ posted' = [posted EXCEPT ![w] = @ + 1]
    /\ slot_bit' = [slot_bit EXCEPT ![w] = 0]
    /\ up' = [up EXCEPT ![w] = Append(@, Packet(w, posted[w] + 1, 0))]

\* post_next_send_wr, when there is a message left for the slot.
PostNext(w) ==
    /\ posted[w] < MaxMessage
    /\ posted' = [posted EXCEPT ![w] = @ + 1]
    /\ slot_bit' = [slot_bit EXCEPT ![w] = 1 - @]
    /\ up' = [up EXCEPT ![w] = Append(@, Packet(w, posted[w] + 1, 1 - slot_bit[w]))]

\* post_next_send_wr, when there is none: nothing is posted.
PostNothing(w) ==
    /\ posted[w] = MaxMessage
    /\ UNCHANGED <<posted, slot_bit, up>>

\* post_initial_writes.
PostInitial(w) ==
    /\ posted[w] = 0
    /\ PostNext(w)
    /\ UNCHANGED <<switch_vars, down, finished, mem, cq>>

\* Packets, replies and completions under way.
InFlight ==
    Len(recirc) + MapThenSumSet(LAMBDA w : Len(up[w]) + Len(down[w]) + Len(cq[w]), Workers)

\* repost_send_wr, from check_for_timeouts.  The timer of the last message
\* is not disarmed by its reply, so a repost may follow that as well.
Repost(w) ==
    /\ posted[w] > 0
    /\ InFlight < MaxInFlight
    /\ up' = [up EXCEPT ![w] = Append(@, Packet(w, posted[w], slot_bit[w]))]
    /\ UNCHANGED <<switch_vars, client_vars, down>>

\* Mutant: the set in the immediate is not compared with the current one.
HandleRecvAnySet(w) ==
    /\ cq[w] # << >>
    /\ cq' = [cq EXCEPT ![w] = Tail(@)]
    /\ PostNext(w) \/ PostNothing(w)
    /\ finished' = [finished EXCEPT ![w] = (posted[w] = MaxMessage)]
    /\ UNCHANGED <<switch_vars, down, mem>>

\* handle_recv_completion: the set in the immediate must be the current one.
HandleRecv(w) ==
    /\ cq[w] # << >>
    /\ cq' = [cq EXCEPT ![w] = Tail(@)]
    /\ IF Head(cq[w]).set = slot_bit[w]
       THEN /\ PostNext(w) \/ PostNothing(w)
            /\ finished' = [finished EXCEPT ![w] = (posted[w] = MaxMessage)]
       ELSE UNCHANGED <<posted, slot_bit, up, finished>>
    /\ UNCHANGED <<switch_vars, down, mem>>

\* The NIC writes a reply to the buffer of its message and raises a
\* receive completion.
RdmaWrite(w) ==
    /\ down[w] # << >>
    /\ LET p == Head(down[w]) IN
         /\ mem' = [mem EXCEPT ![w][p.msg] = [d0 |-> p.d0, d1 |-> p.d1]]
         /\ cq' = [cq EXCEPT ![w] = Append(@, [msg |-> p.msg, set |-> p.set])]
    /\ down' = [down EXCEPT ![w] = Tail(@)]
    /\ UNCHANGED <<switch_vars, up, posted, slot_bit, finished>>

-------------------------------------------------------------------------------
(* Switch.                                                                 *)

\* The ingress pass of a packet of type CONSUME0.
Consume(w) ==
    /\ up[w] # << >>
    /\ LET p == Head(up[w])
           before == bitmap[p.set]
           map == MapResult(bitmap, p.set, w)
           flag == FirstLastFlag(count[p.set], map)
           e == {<<w, p.msg>>}
       IN
         /\ bitmap' = UpdateBitmap(bitmap, p.set, w)
         /\ count' = [count EXCEPT ![p.set] = UpdateCount(@, map)]
         /\ sig' = [sig EXCEPT ![p.set] = UpdateSignificands(@, before, map, p.d0, p.d1)]
         /\ expo' = [expo EXCEPT ![p.set] = UpdateExponents(@, before, map, e, e)]
         /\ recirc' =
              IF NextStepConsume256(flag, map) = "HARVEST7"
              THEN Append(recirc,
                     [worker |-> w, msg |-> p.msg, set |-> p.set,
                      d1 |-> ConsumedD1(sig[p.set], before, map, p.d0, p.d1),
                      e0 |-> expo'[p.set].first,
                      first_flag |-> flag = 0, last_flag |-> flag = 1,
                      nonzero |-> map # {}])
              ELSE recirc
    /\ up' = [up EXCEPT ![w] = Tail(@)]
    /\ UNCHANGED <<down, client_vars>>

\* What the HARVEST7 pass of packet h does with it.
HarvestStep(h) == NextStepHarvest7(ReconstructFlag(h.first_flag, h.last_flag), h.nonzero)

\* The reply made of packet h on its HARVEST7 pass: the first half and the
\* second exponent are read from the registers now, the rest was before.
ReplyOf(h, type) ==
    [type |-> type, msg |-> h.msg, set |-> h.set,
     d0 |-> sig[h.set].first, d1 |-> h.d1,
     e0 |-> h.e0, e1 |-> expo[h.set].second]

\* The ingress pass of a packet of type HARVEST7, the multicast of a
\* BROADCAST packet and the egress pass.
Harvest ==
    /\ recirc # << >>
    /\ LET h == Head(recirc) IN
         down' = CASE HarvestStep(h) = "BROADCAST" ->
                        [w \in Workers |-> Append(down[w], ReplyOf(h, "BROADCAST"))]
                   [] HarvestStep(h) = "RETRANSMIT" ->
                        [down EXCEPT ![h.worker] = Append(@, ReplyOf(h, "RETRANSMIT"))]
                   [] OTHER -> down
    /\ recirc' = Tail(recirc)
    /\ UNCHANGED <<bitmap, count, sig, expo, up, client_vars>>

-------------------------------------------------------------------------------
(* Loss: in the network, by the drop simulator (simulate_drop on ingress,  *)
(* simulate_egress_drop on egress), or at the recirculation port.          *)

LoseUp(w) ==
    /\ up[w] # << >>
    /\ up' = [up EXCEPT ![w] = Tail(@)]
    /\ UNCHANGED <<switch_vars, client_vars, down>>

LoseDown(w) ==
    /\ down[w] # << >>
    /\ down' = [down EXCEPT ![w] = Tail(@)]
    /\ UNCHANGED <<switch_vars, client_vars, up>>

LoseRecirc ==
    /\ recirc # << >>
    /\ recirc' = Tail(recirc)
    /\ UNCHANGED <<bitmap, count, sig, expo, up, down, client_vars>>

-------------------------------------------------------------------------------

Worker(w) == PostInitial(w) \/ Repost(w) \/ HandleRecv(w) \/ RdmaWrite(w)
Loss == LoseRecirc \/ \E w \in Workers : LoseUp(w) \/ LoseDown(w)

Next == \/ \E w \in Workers : Worker(w) \/ Consume(w)
        \/ Harvest
        \/ Loss

Spec == Init /\ [][Next]_vars

-------------------------------------------------------------------------------
(* Safety.                                                                 *)

\* Messages whose result w has taken.
Completed(w) == IF finished[w] THEN MaxMessage
                ELSE IF posted[w] = 0 THEN 0
                ELSE posted[w] - 1

\* Reply q carries the reduction of its message in its first half and in its
\* exponents, and a broadcast does so in its second half as well.
ReplyExact(q) ==
    /\ q.d0 = Total(q.msg)
    /\ q.e0 = AllExponents(q.msg) /\ q.e1 = AllExponents(q.msg)
    /\ q.type = "BROADCAST" => q.d1 = Total(q.msg)

\* Every reply that the switch sends is exact: it carries each worker's
\* input to its message once, and nothing of another message, although the
\* registers are read in two passes and serve two messages at a time.
RepliesExact == \A w \in Workers : \A i \in 1 .. Len(down[w]) : ReplyExact(down[w][i])

\* The retransmission tests (test/ThreeWorkerTests.py, RetransmitAfterReduction)
\* expect of a retransmitted reply what they expect of the broadcast: the
\* reduction, in both halves of the packet.
RetransmitsWhole ==
    \A w \in Workers : \A i \in 1 .. Len(down[w]) :
        down[w][i].d1 = Total(down[w][i].msg)

\* Once a worker has moved past a message, the first half of its buffer
\* holds the reduction, and no late or duplicate reply written by the NIC
\* changes that.
MemoryExact ==
    \A w \in Workers : \A m \in 1 .. Completed(w) : mem[w][m].d0 = Total(m)

\* A receive completion that handle_recv_completion takes for the current
\* message, judging by the set bit alone, is for the current message.
AcceptedIsCurrent ==
    \A w \in Workers : \A i \in 1 .. Len(cq[w]) :
        cq[w][i].set = slot_bit[w] => cq[w][i].msg = posted[w]

\* The comment on the (HARVEST7, first, not a retransmission) entry of
\* next_step says that it is never reached.
NoUnexpectedHarvest ==
    \A i \in 1 .. Len(recirc) : HarvestStep(recirc[i]) # "unexpected"

\* The registers of a set are written afresh for a message only when every
\* worker has taken the result they held before, so that no worker can
\* still ask for it.
NoEarlyOverwrite ==
    [][\A w \in Workers :
         Consume(w) /\ bitmap[Head(up[w]).set] = {} =>
            \A v \in Workers : posted[v] >= Head(up[w]).msg - 1]_vars

\* The pass that completes the bitmap of a set, and no other pass, sends the
\* packet on to be broadcast.  CountWorkers finds out from a count that it
\* keeps apart from the bitmap, and that it resets on its own.
BroadcastOnCompletion ==
    [][\A w \in Workers :
         Consume(w) =>
            ( (bitmap[Head(up[w]).set] # Workers /\ bitmap'[Head(up[w]).set] = Workers)
              <=> (recirc' # recirc /\ HarvestStep(recirc'[Len(recirc')]) = "BROADCAST") )]_vars

-------------------------------------------------------------------------------
(* The slot implements AllReduce: the result of a message is the first     *)
(* half of its buffer.                                                     *)

Abstract == INSTANCE AllReduce WITH
    Sum    <- [m \in Messages |-> Total(m)],
    round  <- [w \in Workers |-> IF finished[w] THEN MaxMessage + 1 ELSE posted[w]],
    result <- [w \in Workers |-> [m \in 1 .. Completed(w) |-> mem[w][m].d0]]

\* A worker leaves a message only after every worker has entered it, and
\* with the sum of all inputs, whatever is lost, late or sent twice.
ImplementsAllReduce == Abstract!ASpec

-------------------------------------------------------------------------------
(* Liveness.  Client threads poll: they start, and they handle what is in  *)
(* their completion queue.  The timer of a message that is not answered    *)
(* runs out again and again (check_for_timeouts runs on every turn of the  *)
(* polling loop); strong fairness makes up for the bound in the guard of   *)
(* Repost, which the code does not have.  A path that a worker tries for   *)
(* ever does not lose every packet of that worker.                         *)

HarvestFor(w) == recirc # << >> /\ Head(recirc).worker = w /\ Harvest

Fairness ==
    \A w \in Workers :
        /\ WF_vars(PostInitial(w)) /\ WF_vars(HandleRecv(w)) /\ SF_vars(Repost(w))
        /\ SF_vars(Consume(w)) /\ SF_vars(HarvestFor(w)) /\ SF_vars(RdmaWrite(w))

FairSpec == Spec /\ Fairness

\* Every worker gets through all its messages.
Termination == <>(\A w \in Workers : finished[w])

-------------------------------------------------------------------------------
(* The inductive invariant.                                                *)

\* The set that message m goes to.
SetOf(m) == (m + 1) % 2

\* The last message of w that the switch has consumed.
Consumed(w) == IF w \in bitmap[slot_bit[w]] THEN posted[w]
               ELSE IF posted[w] = 0 THEN 0
               ELSE posted[w] - 1

\* The workers whose message m, or a later one, has been consumed.
Arrived(m) == {w \in Workers : Consumed(w) >= m}

\* The client's slot bit, the bitmaps, and the distance between workers.
ClientInv ==
    \A w \in Workers :
        /\ slot_bit[w] = SetOf(posted[w])
        /\ \A s \in Sets : w \in bitmap[s] <=> Consumed(w) > 0 /\ SetOf(Consumed(w)) = s
        /\ \A v \in Workers : posted[w] <= Consumed(v) + 1
        /\ finished[w] => posted[w] = MaxMessage /\ Consumed(w) = MaxMessage

\* Packets on the way to the switch are in order, and those it has not
\* consumed carry the worker's own input.
UpInv ==
    \A w \in Workers : \A i \in 1 .. Len(up[w]) :
        /\ up[w][i].set = SetOf(up[w][i].msg)
        /\ Consumed(w) <= up[w][i].msg /\ up[w][i].msg <= posted[w]
        /\ up[w][i].msg > Consumed(w) =>
             up[w][i].d0 = Input(w, up[w][i].msg) /\ up[w][i].d1 = Input(w, up[w][i].msg)
        /\ \A j \in 1 .. i : up[w][j].msg <= up[w][i].msg

MemInv ==
    \A w \in Workers : \A m \in Messages :
        /\ m > Consumed(w) => mem[w][m] = [d0 |-> Input(w, m), d1 |-> Input(w, m)]
        /\ m <= Completed(w) => mem[w][m].d0 = Total(m)

\* What the registers hold: of a message that some worker has sent and none
\* is two ahead of, the inputs that have arrived.
PartialTotal(m) ==
    [c \in Contributions |-> IF c[2] = m /\ Consumed(c[1]) >= m THEN 1 ELSE 0]

RegisterInv ==
    /\ \A m \in Messages : Arrived(m) # {} /\ Arrived(m + 2) = {} =>
         /\ sig[SetOf(m)] = [first |-> PartialTotal(m), second |-> PartialTotal(m)]
         /\ expo[SetOf(m)] = [first |-> Arrived(m) \X {m}, second |-> Arrived(m) \X {m}]
         /\ count[SetOf(m)] = num_workers - Cardinality(Arrived(m))
    /\ \A s \in Sets : bitmap[s] = {} => count[s] = 0

Productive(h) == HarvestStep(h) \in {"BROADCAST", "RETRANSMIT"}

\* Packets under harvest.
RecircInv ==
    \A i \in 1 .. Len(recirc) :
        LET h == recirc[i] IN
            /\ h.set = SetOf(h.msg)
            /\ h.msg <= Consumed(h.worker)
            /\ \A w \in Workers : posted[w] <= h.msg + 1
            /\ HarvestStep(h) # "unexpected"
            /\ Productive(h) => /\ \A w \in Workers : Consumed(w) >= h.msg
                                /\ h.e0 = AllExponents(h.msg)
                                /\ \A j \in i .. Len(recirc) : h.msg <= recirc[j].msg
            /\ HarvestStep(h) = "BROADCAST" => h.d1 = Total(h.msg)

\* A reply or a completion for message m at w: the message is complete, w
\* is at most one ahead of it, and nothing behind it is older.
AnswerInv(w, m, set) ==
    /\ set = SetOf(m)
    /\ \A v \in Workers : Consumed(v) >= m
    /\ posted[w] <= m + 1
    /\ \A i \in 1 .. Len(recirc) : m <= recirc[i].msg

DownInv ==
    /\ RepliesExact
    /\ \A w \in Workers : \A i \in 1 .. Len(down[w]) :
        /\ AnswerInv(w, down[w][i].msg, down[w][i].set)
        /\ \A j \in 1 .. i : down[w][j].msg <= down[w][i].msg
        /\ \A j \in 1 .. Len(cq[w]) : cq[w][j].msg <= down[w][i].msg

CqInv ==
    \A w \in Workers : \A i \in 1 .. Len(cq[w]) :
        /\ AnswerInv(w, cq[w][i].msg, cq[w][i].set)
        /\ mem[w][cq[w][i].msg].d0 = Total(cq[w][i].msg)
        /\ \A j \in 1 .. i : cq[w][j].msg <= cq[w][i].msg

IInv == TypeOK /\ ClientInv /\ UpInv /\ MemInv /\ RegisterInv /\ RecircInv /\ DownInv /\ CqInv

===============================================================================
