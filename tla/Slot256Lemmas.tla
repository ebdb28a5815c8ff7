----------------------------- MODULE Slot256Lemmas ----------------------------
(***************************************************************************)
(* Lemmas about Slot256, for any number of workers and of messages: types, *)
(* what the proofs use of queues, data and sets, what a step leaves alone of *)
(* the parts of the inductive invariant, and that losses, harvest passes and *)
(* passes of retransmitted packets preserve it.                            *)
(***************************************************************************)
EXTENDS Slot256, FiniteSetTheorems, TLAPS

USE SMTT(30), ZenonT(20)

-------------------------------------------------------------------------------
(* Sequences.                                                              *)

\* What Append does to a queue.
LEMMA AppendFacts ==
    ASSUME NEW S, NEW q \in Seq(S), NEW x \in S
    PROVE  /\ Append(q, x) \in Seq(S)
           /\ Len(Append(q, x)) = Len(q) + 1
           /\ \A i \in 1 .. Len(q) : Append(q, x)[i] = q[i]
           /\ Append(q, x)[Len(q) + 1] = x
           /\ Len(q) \in Nat
    OBVIOUS

\* What taking the head off a queue does to it.
LEMMA TailFacts ==
    ASSUME NEW S, NEW q \in Seq(S), q # << >>
    PROVE  /\ Tail(q) \in Seq(S)
           /\ Len(Tail(q)) = Len(q) - 1
           /\ \A i \in 1 .. Len(q) - 1 : Tail(q)[i] = q[i + 1]
           /\ Head(q) = q[1] /\ Head(q) \in S
           /\ Len(q) \in Nat /\ Len(q) >= 1
    OBVIOUS

\* The elements of a queue are of the queue's type.
LEMMA ElementType ==
    ASSUME NEW S, NEW q \in Seq(S), NEW i \in 1 .. Len(q)
    PROVE  q[i] \in S /\ i \in Nat
    OBVIOUS

-------------------------------------------------------------------------------
(* Data and sets.                                                          *)

LEMMA DataTypes ==
    /\ Zero \in Significands
    /\ \A w \in Workers, m \in Messages : Input(w, m) \in Significands
    /\ \A u, v \in Significands : Plus(u, v) \in Significands
    BY DEF Zero, Input, Plus, Significands

LEMMA NumWorkers == num_workers \in Nat /\ num_workers >= 1
    BY WorkersAssumption, FS_CardinalityType, FS_EmptySet DEF num_workers

\* Messages alternate between the sets.
LEMMA SetOfFacts ==
    ASSUME NEW m \in Nat
    PROVE  /\ SetOf(m) \in Sets
           /\ SetOf(m + 1) = 1 - SetOf(m)
           /\ SetOf(m + 1) # SetOf(m)
           /\ SetOf(m + 2) = SetOf(m)
    BY DEF SetOf, Sets

-------------------------------------------------------------------------------
(* Types.                                                                  *)

LEMMA InitType == Init => TypeOK
    BY DataTypes, MaxMessageAssumption DEF Init, TypeOK, Sets, Data, Exponents

LEMMA PacketType ==
    ASSUME TypeOK, NEW w \in Workers, NEW m \in Messages, NEW bit \in Sets
    PROVE  Packet(w, m, bit) \in WritePacket
    BY DEF TypeOK, Packet, WritePacket, Data

LEMMA PostNextType ==
    ASSUME TypeOK, NEW w \in Workers, PostNext(w)
    PROVE  /\ posted' \in [Workers -> 0 .. MaxMessage]
           /\ slot_bit' \in [Workers -> Sets]
           /\ up' \in [Workers -> Seq(WritePacket)]
    <1>1. posted[w] + 1 \in Messages /\ posted[w] + 1 \in 0 .. MaxMessage
        BY MaxMessageAssumption DEF TypeOK, PostNext, Messages
    <1>2. 1 - slot_bit[w] \in Sets
        <2>1. slot_bit[w] \in Sets
            BY DEF TypeOK
        <2>2. QED
            BY <2>1 DEF Sets
    <1>3. Packet(w, posted[w] + 1, 1 - slot_bit[w]) \in WritePacket
        BY <1>1, <1>2, PacketType
    <1>4. up[w] \in Seq(WritePacket)
        BY DEF TypeOK
    <1>5. Append(up[w], Packet(w, posted[w] + 1, 1 - slot_bit[w])) \in Seq(WritePacket)
        BY <1>3, <1>4, AppendFacts, SMTT(40)
    <1>6. QED
        BY <1>1, <1>2, <1>5 DEF TypeOK, PostNext

LEMMA ConsumeType ==
    ASSUME TypeOK, NEW w \in Workers, Consume(w)
    PROVE  TypeOK'
    <1> DEFINE p == Head(up[w])
               before == bitmap[p.set]
               map == MapResult(bitmap, p.set, w)
               flag == FirstLastFlag(count[p.set], map)
               e == {<<w, p.msg>>}
               d1 == ConsumedD1(sig[p.set], before, map, p.d0, p.d1)
               h == [worker |-> w, msg |-> p.msg, set |-> p.set,
                     d1 |-> d1, e0 |-> expo'[p.set].first,
                     first_flag |-> flag = 0, last_flag |-> flag = 1,
                     nonzero |-> map # {}]
    <1>1. up[w] \in Seq(WritePacket) /\ up[w] # << >>
        BY DEF TypeOK, Consume
    <1>2. p \in WritePacket /\ Tail(up[w]) \in Seq(WritePacket)
        BY <1>1, TailFacts
    <1>3. /\ p.msg \in Messages /\ p.set \in Sets
          /\ p.d0 \in Significands /\ p.d1 \in Significands
        BY <1>2 DEF WritePacket
    <1>4. bitmap' \in [Sets -> SUBSET Workers]
        BY <1>3 DEF TypeOK, Consume, UpdateBitmap
    <1>5. count' \in [Sets -> Nat]
        <2>1. UpdateCount(count[p.set], map) \in Nat
            BY <1>3, NumWorkers, SMTT(40) DEF TypeOK, UpdateCount
        <2>2. QED
            BY <1>3, <2>1 DEF TypeOK, Consume
    <1>6. sig' \in [Sets -> [first : Significands, second : Significands]]
        <2>1. sig[p.set] \in [first : Significands, second : Significands]
            BY <1>3 DEF TypeOK
        <2>2. UpdateSignificands(sig[p.set], before, map, p.d0, p.d1)
                \in [first : Significands, second : Significands]
            BY <1>3, <2>1, DataTypes, SMTT(40) DEF UpdateSignificands
        <2>3. QED
            BY <1>3, <2>2 DEF TypeOK, Consume
    <1>7. expo' \in [Sets -> [first : Exponents, second : Exponents]]
        <2>1. expo[p.set] \in [first : Exponents, second : Exponents]
            BY <1>3 DEF TypeOK
        <2>2. e \in Exponents
            BY <1>3 DEF Exponents, Contributions
        <2>3. UpdateExponents(expo[p.set], before, map, e, e)
                \in [first : Exponents, second : Exponents]
            BY <2>1, <2>2 DEF UpdateExponents, Exponents
        <2>4. QED
            BY <1>3, <2>3 DEF TypeOK, Consume
    <1>8. recirc' \in Seq(HarvestPacket)
        <2>1. d1 \in Significands
            BY <1>3, DataTypes, SMTT(40) DEF TypeOK, ConsumedD1, UpdateSignificands
        <2>2. h \in HarvestPacket
            BY <1>3, <1>7, <2>1 DEF HarvestPacket
        <2>3. recirc \in Seq(HarvestPacket)
            BY DEF TypeOK
        <2>4. Append(recirc, h) \in Seq(HarvestPacket)
            BY <2>2, <2>3, AppendFacts, SMTT(40)
        <2>5. recirc' = Append(recirc, h) \/ recirc' = recirc
            BY DEF Consume
        <2>6. QED
            BY <2>3, <2>4, <2>5
    <1>9. up' \in [Workers -> Seq(WritePacket)]
        BY <1>2 DEF TypeOK, Consume
    <1>10. QED
        BY <1>4, <1>5, <1>6, <1>7, <1>8, <1>9, ZenonT(30) DEF TypeOK, Consume, client_vars

LEMMA HarvestType ==
    ASSUME TypeOK, Harvest
    PROVE  TypeOK'
    <1> DEFINE h == Head(recirc)
    <1>1. recirc \in Seq(HarvestPacket) /\ recirc # << >>
        BY DEF TypeOK, Harvest
    <1>2. h \in HarvestPacket /\ Tail(recirc) \in Seq(HarvestPacket)
        BY <1>1, TailFacts
    <1>3. ASSUME NEW type \in {"BROADCAST", "RETRANSMIT"}
          PROVE  ReplyOf(h, type) \in Reply
        BY <1>2, SMTT(40) DEF ReplyOf, Reply, HarvestPacket, TypeOK
    <1>4. down' \in [Workers -> Seq(Reply)]
        <2>1. \A w \in Workers : down[w] \in Seq(Reply)
            BY DEF TypeOK
        <2>2. CASE HarvestStep(h) = "BROADCAST"
            <3>1. down' = [w \in Workers |-> Append(down[w], ReplyOf(h, "BROADCAST"))]
                BY <2>2 DEF Harvest
            <3>2. \A w \in Workers : Append(down[w], ReplyOf(h, "BROADCAST")) \in Seq(Reply)
                BY <1>3, <2>1, AppendFacts
            <3>3. QED
                BY <3>1, <3>2
        <2>3. CASE HarvestStep(h) = "RETRANSMIT"
            <3>1. down' = [down EXCEPT ![h.worker] =
                                Append(down[h.worker], ReplyOf(h, "RETRANSMIT"))]
                BY <2>3 DEF Harvest
            <3>2. h.worker \in Workers
                BY <1>2 DEF HarvestPacket
            <3>3. Append(down[h.worker], ReplyOf(h, "RETRANSMIT")) \in Seq(Reply)
                BY <1>3, <2>1, <3>2, AppendFacts
            <3>4. QED
                BY <3>1, <3>2, <3>3 DEF TypeOK
        <2>4. CASE HarvestStep(h) # "BROADCAST" /\ HarvestStep(h) # "RETRANSMIT"
            BY <2>4 DEF Harvest, TypeOK
        <2>5. QED
            BY <2>2, <2>3, <2>4
    <1>5. QED
        BY <1>2, <1>4 DEF TypeOK, Harvest, client_vars

LEMMA RdmaWriteType ==
    ASSUME TypeOK, NEW w \in Workers, RdmaWrite(w)
    PROVE  TypeOK'
    <1> DEFINE p == Head(down[w])
    <1>1. down[w] \in Seq(Reply) /\ down[w] # << >>
        BY DEF TypeOK, RdmaWrite
    <1>2. p \in Reply /\ Tail(down[w]) \in Seq(Reply)
        BY <1>1, TailFacts
    <1>3. mem' \in [Workers -> [Messages -> Data]]
        BY <1>2 DEF TypeOK, RdmaWrite, Reply, Data
    <1>4. cq' \in [Workers -> Seq(Completion)]
        <2>1. [msg |-> p.msg, set |-> p.set] \in Completion
            BY <1>2 DEF Reply, Completion
        <2>2. Append(cq[w], [msg |-> p.msg, set |-> p.set]) \in Seq(Completion)
            BY <2>1, AppendFacts DEF TypeOK
        <2>3. QED
            BY <2>2 DEF TypeOK, RdmaWrite
    <1>5. down' \in [Workers -> Seq(Reply)]
        BY <1>2 DEF TypeOK, RdmaWrite
    <1>6. QED
        BY <1>3, <1>4, <1>5 DEF TypeOK, RdmaWrite, switch_vars

LEMMA HandleRecvType ==
    ASSUME TypeOK, NEW w \in Workers, HandleRecv(w)
    PROVE  TypeOK'
    <1>1. cq' \in [Workers -> Seq(Completion)]
        <2>1. Tail(cq[w]) \in Seq(Completion)
            BY TailFacts DEF TypeOK, HandleRecv
        <2>2. QED
            BY <2>1 DEF TypeOK, HandleRecv
    <1>2. /\ posted' \in [Workers -> 0 .. MaxMessage]
          /\ slot_bit' \in [Workers -> Sets]
          /\ up' \in [Workers -> Seq(WritePacket)]
        <2>1. CASE PostNext(w)
            BY <2>1, PostNextType
        <2>2. CASE UNCHANGED <<posted, slot_bit, up>>
            BY <2>2 DEF TypeOK
        <2>3. QED
            BY <2>1, <2>2 DEF HandleRecv, PostNothing
    <1>3. finished' \in [Workers -> BOOLEAN]
        BY Zenon DEF TypeOK, HandleRecv
    <1>4. QED
        BY <1>1, <1>2, <1>3, Zenon DEF TypeOK, HandleRecv, switch_vars

LEMMA RepostType ==
    ASSUME TypeOK, NEW w \in Workers, Repost(w)
    PROVE  TypeOK'
    <1>1. posted[w] \in Messages
        BY MaxMessageAssumption DEF TypeOK, Repost, Messages
    <1>2. Packet(w, posted[w], slot_bit[w]) \in WritePacket
        BY <1>1, PacketType DEF TypeOK
    <1>3. Append(up[w], Packet(w, posted[w], slot_bit[w])) \in Seq(WritePacket)
        BY <1>2, AppendFacts DEF TypeOK
    <1>4. QED
        BY <1>3 DEF TypeOK, Repost, switch_vars, client_vars

LEMMA LossType ==
    ASSUME TypeOK, Loss
    PROVE  TypeOK'
    <1>1. CASE LoseRecirc
        <2>1. Tail(recirc) \in Seq(HarvestPacket)
            BY <1>1, TailFacts DEF TypeOK, LoseRecirc
        <2>2. QED
            BY <1>1, <2>1 DEF TypeOK, LoseRecirc, client_vars
    <1>2. ASSUME NEW w \in Workers, LoseUp(w)
          PROVE  TypeOK'
        <2>1. Tail(up[w]) \in Seq(WritePacket)
            BY <1>2, TailFacts DEF TypeOK, LoseUp
        <2>2. QED
            BY <1>2, <2>1 DEF TypeOK, LoseUp, switch_vars, client_vars
    <1>3. ASSUME NEW w \in Workers, LoseDown(w)
          PROVE  TypeOK'
        <2>1. Tail(down[w]) \in Seq(Reply)
            BY <1>3, TailFacts DEF TypeOK, LoseDown
        <2>2. QED
            BY <1>3, <2>1 DEF TypeOK, LoseDown, switch_vars, client_vars
    <1>4. QED
        BY <1>1, <1>2, <1>3 DEF Loss

\* Every step keeps the types.
LEMMA NextType == TypeOK /\ [Next]_vars => TypeOK'
    <1> SUFFICES ASSUME TypeOK, [Next]_vars
                 PROVE  TypeOK'
        OBVIOUS
    <1>1. ASSUME NEW w \in Workers, PostInitial(w)
          PROVE  TypeOK'
        BY <1>1, PostNextType DEF TypeOK, PostInitial, switch_vars
    <1>2. CASE UNCHANGED vars
        BY <1>2 DEF TypeOK, vars
    <1>3. QED
        BY <1>1, <1>2, RepostType, HandleRecvType, RdmaWriteType, ConsumeType,
           HarvestType, LossType
           DEF Next, Worker

\* The variables keep their types: in particular the count of missing
\* workers never falls below zero, and no client posts a message beyond its
\* last.
THEOREM TypeCorrect == Spec => []TypeOK
    BY InitType, NextType, PTL DEF Spec

-------------------------------------------------------------------------------
(* The inductive invariant: what the switch has consumed.                  *)

\* Two messages at most one apart that share a set are the same.
LEMMA SameSet ==
    ASSUME NEW m \in Nat, NEW n \in Nat, m <= n, n <= m + 1, SetOf(m) = SetOf(n)
    PROVE  m = n
    BY SetOfFacts

\* Two different messages that share a set are at least two apart.
LEMMA SetApart ==
    ASSUME NEW m \in Nat, NEW n \in Nat, m < n, SetOf(m) = SetOf(n)
    PROVE  m + 2 <= n
    BY SetOfFacts

\* A worker is at most one message ahead of what the switch has consumed of it.
LEMMA ConsumedFacts ==
    ASSUME TypeOK, NEW w \in Workers
    PROVE  /\ posted[w] \in Nat /\ posted[w] <= MaxMessage
           /\ Consumed(w) \in Nat
           /\ Consumed(w) <= posted[w] /\ posted[w] <= Consumed(w) + 1
           /\ slot_bit[w] \in Sets
           /\ MaxMessage \in Nat
    <1>1. posted[w] \in 0 .. MaxMessage /\ slot_bit[w] \in Sets
        BY DEF TypeOK
    <1>2. QED
        BY <1>1, MaxMessageAssumption DEF Consumed

\* Steps that leave the bitmaps and the clients alone.
LEMMA ConsumedFrame ==
    ASSUME UNCHANGED <<bitmap, posted, slot_bit>>
    PROVE  \A w \in Workers : Consumed(w)' = Consumed(w)
    BY DEF Consumed

LEMMA ClientFrame ==
    ASSUME ClientInv, UNCHANGED <<bitmap, posted, slot_bit, finished>>
    PROVE  ClientInv'
    BY ConsumedFrame DEF ClientInv

\* The registers depend on the clients only through what has been consumed.
LEMMA RegisterFrame ==
    ASSUME RegisterInv, UNCHANGED <<bitmap, count, sig, expo>>,
           \A w \in Workers : Consumed(w)' = Consumed(w)
    PROVE  RegisterInv'
    <1>1. ASSUME NEW m
          PROVE  Arrived(m)' = Arrived(m) /\ PartialTotal(m)' = PartialTotal(m)
        <2>1. Arrived(m)' = Arrived(m)
            BY DEF Arrived
        <2>2. \A c \in Contributions : Consumed(c[1])' = Consumed(c[1])
            BY DEF Contributions
        <2>3. QED
            BY <2>1, <2>2 DEF PartialTotal
    <1>2. QED
        BY <1>1 DEF RegisterInv

\* The switch does not forget what it has consumed.
ConsumedGrows == \A w \in Workers : Consumed(w)' \in Nat /\ Consumed(w)' >= Consumed(w)

\* No packet comes under harvest that is older than a complete message to
\* which all packets under harvest belong or which they follow.
RecircOrdered ==
    \A m \in Messages :
        /\ \A v \in Workers : Consumed(v) >= m
        /\ \A i \in 1 .. Len(recirc) : m <= recirc[i].msg
        => \A i \in 1 .. Len(recirc') : m <= recirc'[i].msg

LEMMA SameGrows ==
    ASSUME TypeOK, \A w \in Workers : Consumed(w)' = Consumed(w)
    PROVE  ConsumedGrows
    BY ConsumedFacts DEF ConsumedGrows

LEMMA MemFrame ==
    ASSUME TypeOK, MemInv, UNCHANGED <<mem, posted, finished>>, ConsumedGrows
    PROVE  MemInv'
    <1>1. \A w \in Workers, m \in Messages : m > Consumed(w)' => m > Consumed(w)
        BY ConsumedFacts DEF ConsumedGrows, Messages
    <1>2. QED
        BY <1>1 DEF MemInv, Completed

LEMMA AnswerKept ==
    ASSUME TypeOK, ConsumedGrows, RecircOrdered,
           NEW w \in Workers, NEW m \in Messages, NEW set,
           AnswerInv(w, m, set)
    PROVE  /\ set = SetOf(m)
           /\ \A v \in Workers : Consumed(v)' >= m
           /\ posted[w] <= m + 1
           /\ \A i \in 1 .. Len(recirc') : m <= recirc'[i].msg
    <1>1. m \in Nat
        BY DEF Messages
    <1>2. \A v \in Workers : Consumed(v)' >= m
        BY <1>1, ConsumedFacts DEF AnswerInv, ConsumedGrows
    <1>3. QED
        BY <1>2 DEF AnswerInv, RecircOrdered

LEMMA DownElement ==
    ASSUME TypeOK, NEW w \in Workers, NEW i \in 1 .. Len(down[w])
    PROVE  down[w][i] \in Reply /\ down[w][i].msg \in Messages
    <1>1. down[w] \in Seq(Reply)
        BY DEF TypeOK
    <1>2. down[w][i] \in Reply
        BY <1>1, ElementType
    <1>3. QED
        BY <1>2 DEF Reply

LEMMA CqElement ==
    ASSUME TypeOK, NEW w \in Workers, NEW i \in 1 .. Len(cq[w])
    PROVE  cq[w][i].msg \in Messages
    <1>1. cq[w] \in Seq(Completion)
        BY DEF TypeOK
    <1>2. cq[w][i] \in Completion
        BY <1>1, ElementType
    <1>3. QED
        BY <1>2 DEF Completion

LEMMA DownFrame ==
    ASSUME TypeOK, DownInv, ConsumedGrows, RecircOrdered, UNCHANGED <<down, cq, posted>>
    PROVE  DownInv'
    <1>1. RepliesExact'
        BY DEF DownInv, RepliesExact
    <1>2. ASSUME NEW w \in Workers, NEW i \in 1 .. Len(down[w])
          PROVE  /\ AnswerInv(w, down[w][i].msg, down[w][i].set)'
                 /\ \A j \in 1 .. i : down[w][j].msg <= down[w][i].msg
                 /\ \A j \in 1 .. Len(cq[w]) : cq[w][j].msg <= down[w][i].msg
        <2>1. down[w][i].msg \in Messages
            BY DownElement
        <2>2. AnswerInv(w, down[w][i].msg, down[w][i].set)
            BY DEF DownInv
        <2>3. AnswerInv(w, down[w][i].msg, down[w][i].set)'
            BY <2>1, <2>2, AnswerKept DEF AnswerInv
        <2>4. QED
            BY <2>3 DEF DownInv
    <1>3. QED
        BY <1>1, <1>2 DEF DownInv

LEMMA CqFrame ==
    ASSUME TypeOK, CqInv, ConsumedGrows, RecircOrdered, UNCHANGED <<cq, mem, posted>>
    PROVE  CqInv'
    <1>1. ASSUME NEW w \in Workers, NEW i \in 1 .. Len(cq[w])
          PROVE  /\ AnswerInv(w, cq[w][i].msg, cq[w][i].set)'
                 /\ mem[w][cq[w][i].msg].d0 = Total(cq[w][i].msg)
                 /\ \A j \in 1 .. i : cq[w][j].msg <= cq[w][i].msg
        <2>1. cq[w][i].msg \in Messages
            BY CqElement
        <2>2. AnswerInv(w, cq[w][i].msg, cq[w][i].set)
            BY DEF CqInv
        <2>3. AnswerInv(w, cq[w][i].msg, cq[w][i].set)'
            BY <2>1, <2>2, AnswerKept DEF AnswerInv
        <2>4. QED
            BY <2>3 DEF CqInv
    <1>2. QED
        BY <1>1 DEF CqInv

\* What RecircInv says of one packet.
HarvestInv(h) ==
    /\ h.set = SetOf(h.msg)
    /\ h.msg <= Consumed(h.worker)
    /\ \A w \in Workers : posted[w] <= h.msg + 1
    /\ HarvestStep(h) # "unexpected"
    /\ Productive(h) => /\ \A w \in Workers : Consumed(w) >= h.msg
                        /\ h.e0 = AllExponents(h.msg)
    /\ HarvestStep(h) = "BROADCAST" => h.d1 = Total(h.msg)

LEMMA RecircSplit ==
    RecircInv <=>
        /\ \A i \in 1 .. Len(recirc) : HarvestInv(recirc[i])
        /\ \A i \in 1 .. Len(recirc) : Productive(recirc[i]) =>
             \A j \in i .. Len(recirc) : recirc[i].msg <= recirc[j].msg
    BY DEF RecircInv, HarvestInv

LEMMA HarvestKept ==
    ASSUME TypeOK, ConsumedGrows, UNCHANGED posted,
           NEW h \in HarvestPacket, HarvestInv(h)
    PROVE  HarvestInv(h)'
    <1>1. h.msg \in Nat /\ h.worker \in Workers
        BY DEF HarvestPacket, Messages
    <1>2. \A w \in Workers : Consumed(w) >= h.msg => Consumed(w)' >= h.msg
        BY <1>1, ConsumedFacts DEF ConsumedGrows
    <1>3. h.msg <= Consumed(h.worker)'
        BY <1>1, <1>2, ConsumedFacts DEF HarvestInv, ConsumedGrows
    <1>4. QED
        BY <1>2, <1>3 DEF HarvestInv

LEMMA RecircFrame ==
    ASSUME TypeOK, RecircInv, ConsumedGrows, UNCHANGED <<recirc, posted>>
    PROVE  RecircInv'
    <1>1. \A i \in 1 .. Len(recirc) : recirc[i] \in HarvestPacket /\ HarvestInv(recirc[i])
        BY RecircSplit, ElementType DEF TypeOK
    <1>2. ASSUME NEW i \in 1 .. Len(recirc)
          PROVE  HarvestInv(recirc[i])'
        BY <1>1, HarvestKept DEF HarvestInv
    <1>3. QED
        BY <1>2 DEF RecircInv, HarvestInv
-------------------------------------------------------------------------------
(* The inductive invariant: losses.                                        *)

\* The head of a path to the switch is lost or consumed.
LEMMA UpTail ==
    ASSUME TypeOK, UpInv, NEW w \in Workers, up[w] # << >>,
           up' = [up EXCEPT ![w] = Tail(@)],
           UNCHANGED posted, ConsumedGrows,
           \A v \in Workers : Consumed(v)' = Consumed(v) \/ (v = w /\ Consumed(v)' = up[w][1].msg)
    PROVE  UpInv'
    <1> SUFFICES ASSUME NEW v \in Workers, NEW i \in 1 .. Len(up'[v])
                 PROVE  /\ up'[v][i].set = SetOf(up'[v][i].msg)
                        /\ Consumed(v)' <= up'[v][i].msg /\ up'[v][i].msg <= posted[v]
                        /\ up'[v][i].msg > Consumed(v)' =>
                             /\ up'[v][i].d0 = Input(v, up'[v][i].msg)
                             /\ up'[v][i].d1 = Input(v, up'[v][i].msg)
                        /\ \A j \in 1 .. i : up'[v][j].msg <= up'[v][i].msg
        BY ZenonT(30) DEF UpInv
    <1>1. \E k \in 1 .. Len(up[v]) :
            /\ up'[v][i] = up[v][k]
            /\ \A j \in 1 .. i : \E n \in 1 .. k : up'[v][j] = up[v][n]
        <2>1. CASE v # w
            <3>1. up'[v] = up[v]
                BY <2>1 DEF TypeOK
            <3>2. QED
                BY <3>1
        <2>2. CASE v = w
            <3>1. up[w] \in Seq(WritePacket) /\ up'[w] = Tail(up[w])
                BY DEF TypeOK
            <3>2. /\ Len(up[w]) \in Nat /\ Len(up'[w]) = Len(up[w]) - 1
                  /\ \A k \in 1 .. Len(up[w]) - 1 : up'[w][k] = up[w][k + 1]
                BY <3>1, TailFacts, Zenon
            <3>3. i + 1 \in 1 .. Len(up[w]) /\ up'[w][i] = up[w][i + 1]
                BY <2>2, <3>2
            <3>4. \A j \in 1 .. i : j + 1 \in 1 .. i + 1 /\ up'[w][j] = up[w][j + 1]
                BY <2>2, <3>2
            <3>5. QED
                BY <2>2, <3>3, <3>4
        <2>3. QED
            BY <2>1, <2>2, Zenon
    <1>2. PICK k \in 1 .. Len(up[v]) :
            /\ up'[v][i] = up[v][k]
            /\ \A j \in 1 .. i : \E n \in 1 .. k : up'[v][j] = up[v][n]
        BY <1>1, Zenon
    <1>3. /\ up[v][k].set = SetOf(up[v][k].msg)
          /\ Consumed(v) <= up[v][k].msg /\ up[v][k].msg <= posted[v]
          /\ up[v][k].msg > Consumed(v) =>
               up[v][k].d0 = Input(v, up[v][k].msg) /\ up[v][k].d1 = Input(v, up[v][k].msg)
          /\ \A j \in 1 .. k : up[v][j].msg <= up[v][k].msg
        BY DEF UpInv
    <1>4. up[v][k].msg \in Nat
        <2>1. up[v] \in Seq(WritePacket)
            BY DEF TypeOK
        <2>2. up[v][k] \in WritePacket
            BY <2>1, ElementType
        <2>3. QED
            BY <2>2 DEF WritePacket, Messages
    <1>5. 1 \in 1 .. k
        OBVIOUS
    <1>6. Consumed(v)' <= up[v][k].msg
        BY <1>3, <1>5
    <1>7. up[v][k].msg > Consumed(v)' => up[v][k].msg > Consumed(v)
        BY <1>4, ConsumedFacts DEF ConsumedGrows
    <1>8. QED
        BY <1>2, <1>3, <1>6, <1>7, Zenon

\* Taking a packet off the recirculation port.
LEMMA RecircTail ==
    ASSUME TypeOK, RecircInv, recirc # << >>, recirc' = Tail(recirc), UNCHANGED posted,
           \A w \in Workers : Consumed(w)' = Consumed(w)
    PROVE  RecircInv' /\ RecircOrdered
    <1>1. recirc \in Seq(HarvestPacket)
        BY DEF TypeOK
    <1>2. /\ Len(recirc) \in Nat /\ Len(recirc') = Len(recirc) - 1
          /\ \A i \in 1 .. Len(recirc) - 1 : recirc'[i] = recirc[i + 1]
        BY <1>1, TailFacts
    <1>3. \A i \in 1 .. Len(recirc') :
            i + 1 \in 1 .. Len(recirc) /\ recirc'[i] = recirc[i + 1]
        BY <1>2
    <1>4. ConsumedGrows
        BY SameGrows
    <1>5. \A i \in 1 .. Len(recirc) : recirc[i] \in HarvestPacket /\ HarvestInv(recirc[i])
        BY <1>1, RecircSplit, ElementType
    <1>6. ASSUME NEW i \in 1 .. Len(recirc')
          PROVE  HarvestInv(recirc[i])'
        BY <1>3, <1>4, <1>5, HarvestKept DEF HarvestInv
    <1>7. ASSUME NEW i \in 1 .. Len(recirc'), Productive(recirc'[i]),
                 NEW j \in i .. Len(recirc')
          PROVE  recirc'[i].msg <= recirc'[j].msg
        <2>1. j + 1 \in i + 1 .. Len(recirc) /\ recirc'[j] = recirc[j + 1]
            BY <1>2
        <2>2. i + 1 \in 1 .. Len(recirc) /\ recirc'[i] = recirc[i + 1]
            BY <1>3
        <2>3. QED
            BY <1>7, <2>1, <2>2 DEF RecircInv
    <1>8. RecircInv'
        BY <1>6, <1>7 DEF RecircInv, HarvestInv
    <1>9. RecircOrdered
        BY <1>3 DEF RecircOrdered
    <1>10. QED
        BY <1>8, <1>9

LEMMA SameRecircOrdered ==
    ASSUME UNCHANGED recirc
    PROVE  RecircOrdered
    BY DEF RecircOrdered

\* The oldest reply on the way to a worker is lost, or becomes a completion.
LEMMA DownTail ==
    ASSUME TypeOK, DownInv, NEW w \in Workers, down[w] # << >>,
           down' = [down EXCEPT ![w] = Tail(@)],
           \A v \in Workers : \A j \in 1 .. Len(cq'[v]) :
              \/ \E n \in 1 .. Len(cq[v]) : cq'[v][j] = cq[v][n]
              \/ v = w /\ cq'[v][j].msg = down[w][1].msg,
           UNCHANGED <<posted, recirc>>,
           \A v \in Workers : Consumed(v)' = Consumed(v)
    PROVE  DownInv'
    <1>1. down[w] \in Seq(Reply) /\ down'[w] = Tail(down[w])
        BY DEF TypeOK
    <1>2. /\ Len(down[w]) \in Nat /\ Len(down'[w]) = Len(down[w]) - 1
          /\ \A i \in 1 .. Len(down[w]) - 1 : down'[w][i] = down[w][i + 1]
        BY <1>1, TailFacts, Zenon
    <1>3. ASSUME NEW v \in Workers, NEW i \in 1 .. Len(down'[v])
          PROVE  \E k \in 1 .. Len(down[v]) :
                    /\ down'[v][i] = down[v][k]
                    /\ \A j \in 1 .. i : \E n \in 1 .. k : down'[v][j] = down[v][n]
        <2>1. CASE v = w
            <3>1. i + 1 \in 1 .. Len(down[w]) /\ down'[w][i] = down[w][i + 1]
                BY <1>2, <2>1
            <3>2. \A j \in 1 .. i : j + 1 \in 1 .. i + 1 /\ down'[w][j] = down[w][j + 1]
                BY <1>2, <2>1
            <3>3. QED
                BY <2>1, <3>1, <3>2
        <2>2. CASE v # w
            <3>1. down'[v] = down[v]
                BY <2>2 DEF TypeOK
            <3>2. QED
                BY <3>1, Zenon
        <2>3. QED
            BY <2>1, <2>2, Zenon
    <1>4. ASSUME NEW v \in Workers, NEW i \in 1 .. Len(down'[v])
          PROVE  /\ AnswerInv(v, down[v][i].msg, down[v][i].set)'
                 /\ \A j \in 1 .. i : down'[v][j].msg <= down'[v][i].msg
                 /\ \A j \in 1 .. Len(cq'[v]) : cq'[v][j].msg <= down'[v][i].msg
        <2>1. PICK k \in 1 .. Len(down[v]) :
                    /\ down'[v][i] = down[v][k]
                    /\ \A j \in 1 .. i : \E n \in 1 .. k : down'[v][j] = down[v][n]
            BY <1>3, Zenon
        <2>2. AnswerInv(v, down[v][k].msg, down[v][k].set)
            BY DEF DownInv
        <2>3. AnswerInv(v, down[v][i].msg, down[v][i].set)'
            BY <2>1, <2>2 DEF AnswerInv
        <2>4. \A j \in 1 .. i : down'[v][j].msg <= down'[v][i].msg
            BY <2>1, Zenon DEF DownInv
        <2>5. ASSUME NEW j \in 1 .. Len(cq'[v])
              PROVE  cq'[v][j].msg <= down[v][k].msg
            <3>1. CASE \E n \in 1 .. Len(cq[v]) : cq'[v][j] = cq[v][n]
                BY <3>1 DEF DownInv
            <3>2. CASE v = w /\ cq'[v][j].msg = down[w][1].msg
                <4>1. 1 \in 1 .. k
                    BY <2>1
                <4>2. QED
                    BY <3>2, <4>1 DEF DownInv
            <3>3. QED
                BY <3>1, <3>2, ZenonT(30)
        <2>6. QED
            BY <2>1, <2>3, <2>4, <2>5, Zenon
    <1>5. RepliesExact'
        BY <1>3 DEF DownInv, RepliesExact
    <1>6. QED
        BY <1>4, <1>5, ZenonT(30) DEF DownInv

LEMMA LoseUpInv ==
    ASSUME IInv, NEW w \in Workers, LoseUp(w)
    PROVE  IInv'
    <1>1. TypeOK'
        BY LossType DEF IInv, Loss
    <1>2. \A v \in Workers : Consumed(v)' = Consumed(v)
        BY ConsumedFrame DEF LoseUp, switch_vars, client_vars
    <1>3. ConsumedGrows /\ RecircOrdered
        BY <1>2, SameGrows, SameRecircOrdered DEF IInv, LoseUp, switch_vars
    <1>4. UpInv'
        BY <1>2, <1>3, UpTail, ZenonT(30) DEF IInv, LoseUp, client_vars
    <1>5. QED
        BY <1>1, <1>2, <1>3, <1>4, ClientFrame, RegisterFrame, MemFrame, RecircFrame,
           DownFrame, CqFrame
           DEF IInv, LoseUp, switch_vars, client_vars

LEMMA UpFrame ==
    ASSUME UpInv, UNCHANGED <<up, posted>>, \A w \in Workers : Consumed(w)' = Consumed(w)
    PROVE  UpInv'
    BY DEF UpInv

LEMMA LoseDownInv ==
    ASSUME IInv, NEW w \in Workers, LoseDown(w)
    PROVE  IInv'
    <1>1. TypeOK'
        BY LossType DEF IInv, Loss
    <1>2. \A v \in Workers : Consumed(v)' = Consumed(v)
        BY ConsumedFrame DEF LoseDown, switch_vars, client_vars
    <1>3. ConsumedGrows /\ RecircOrdered
        BY <1>2, SameGrows, SameRecircOrdered DEF IInv, LoseDown, switch_vars
    <1>4. DownInv'
        BY <1>2, DownTail, Zenon DEF IInv, LoseDown, client_vars, switch_vars
    <1>5. QED
        BY <1>1, <1>2, <1>3, <1>4, ClientFrame, RegisterFrame, MemFrame, RecircFrame,
           UpFrame, CqFrame
           DEF IInv, LoseDown, switch_vars, client_vars

LEMMA LoseRecircInv ==
    ASSUME IInv, LoseRecirc
    PROVE  IInv'
    <1>1. TypeOK'
        BY LossType DEF IInv, Loss
    <1>2. \A v \in Workers : Consumed(v)' = Consumed(v)
        BY ConsumedFrame DEF LoseRecirc, client_vars
    <1>3. RecircInv' /\ RecircOrdered /\ ConsumedGrows
        BY <1>2, RecircTail, SameGrows DEF IInv, LoseRecirc, client_vars
    <1>4. QED
        BY <1>1, <1>2, <1>3, ClientFrame, RegisterFrame, MemFrame, UpFrame, DownFrame, CqFrame
           DEF IInv, LoseRecirc, client_vars

-------------------------------------------------------------------------------
(* The inductive invariant: the switch.                                    *)

\* The packet that a CONSUME pass recirculates, if any.
Recirculated(w, p, map, flag) ==
    [worker |-> w, msg |-> p.msg, set |-> p.set,
     d1 |-> ConsumedD1(sig[p.set], bitmap[p.set], map, p.d0, p.d1),
     e0 |-> expo'[p.set].first,
     first_flag |-> flag = 0, last_flag |-> flag = 1, nonzero |-> map # {}]

\* What a CONSUME pass of packet p does to the registers and the
\* recirculation port, with the map_result and the flag that it computes.
ConsumeEffect(w, p, map, flag) ==
    /\ bitmap' = UpdateBitmap(bitmap, p.set, w)
    /\ count' = [count EXCEPT ![p.set] = UpdateCount(count[p.set], map)]
    /\ sig' = [sig EXCEPT ![p.set] =
                 UpdateSignificands(sig[p.set], bitmap[p.set], map, p.d0, p.d1)]
    /\ expo' = [expo EXCEPT ![p.set] =
                  UpdateExponents(expo[p.set], bitmap[p.set], map,
                                  {<<w, p.msg>>}, {<<w, p.msg>>})]
    /\ recirc' = IF NextStepConsume256(flag, map) = "HARVEST7"
                 THEN Append(recirc, Recirculated(w, p, map, flag)) ELSE recirc

LEMMA ConsumeHasEffect ==
    ASSUME NEW w \in Workers, Consume(w), NEW p, p = Head(up[w]),
           NEW map, map = MapResult(bitmap, p.set, w),
           NEW flag, flag = FirstLastFlag(count[p.set], map)
    PROVE  ConsumeEffect(w, p, map, flag)
    <1>1. ConsumeEffect(w, Head(up[w]), MapResult(bitmap, Head(up[w]).set, w),
                        FirstLastFlag(count[Head(up[w]).set],
                                      MapResult(bitmap, Head(up[w]).set, w)))
        BY Zenon DEF Consume, ConsumeEffect, Recirculated
    <1>2. QED
        BY <1>1, Zenon

\* The registers of a message that every worker has sent, and that no worker
\* is two ahead of, hold its reduction.
LEMMA CompleteRegisters ==
    ASSUME TypeOK, RegisterInv, NEW m \in Messages,
           \A w \in Workers : Consumed(w) >= m /\ posted[w] <= m + 1
    PROVE  /\ sig[SetOf(m)] = [first |-> Total(m), second |-> Total(m)]
           /\ expo[SetOf(m)] = [first |-> AllExponents(m), second |-> AllExponents(m)]
           /\ count[SetOf(m)] = 0
    <1>1. Arrived(m) = Workers /\ Arrived(m) # {}
        BY WorkersAssumption DEF Arrived
    <1>2. Arrived(m + 2) = {}
        <2>1. m \in Nat
            BY DEF Messages
        <2>2. \A w \in Workers : ~(Consumed(w) >= m + 2)
            BY <2>1, ConsumedFacts
        <2>3. QED
            BY <2>2 DEF Arrived
    <1>3. PartialTotal(m) = Total(m)
        BY DEF PartialTotal, Total, Contributions
    <1>4. QED
        BY <1>1, <1>2, <1>3, NumWorkers DEF RegisterInv, AllExponents, num_workers

\* A productive harvest pass makes an exact reply.
LEMMA HarvestExact ==
    ASSUME IInv, recirc # << >>, NEW h, h = Head(recirc), Productive(h),
           NEW type \in {"BROADCAST", "RETRANSMIT"},
           type = "BROADCAST" => HarvestStep(h) = "BROADCAST"
    PROVE  /\ ReplyOf(h, type) \in Reply
           /\ ReplyExact(ReplyOf(h, type))
           /\ ReplyOf(h, type).msg = h.msg /\ ReplyOf(h, type).set = h.set
           /\ h.msg \in Messages /\ h.set = SetOf(h.msg)
           /\ \A v \in Workers : Consumed(v) >= h.msg /\ posted[v] <= h.msg + 1
           /\ \A j \in 1 .. Len(recirc) : h.msg <= recirc[j].msg
    <1>1. TypeOK
        BY DEF IInv
    <1>2. h = recirc[1] /\ h \in HarvestPacket /\ 1 \in 1 .. Len(recirc)
        <2>1. recirc \in Seq(HarvestPacket)
            BY <1>1 DEF TypeOK
        <2>2. QED
            BY <2>1, TailFacts
    <1>3. h.msg \in Messages
        BY <1>2 DEF HarvestPacket
    <1>4. HarvestInv(h) /\ \A j \in 1 .. Len(recirc) : h.msg <= recirc[j].msg
        BY <1>2, RecircSplit DEF IInv
    <1>5. \A v \in Workers : Consumed(v) >= h.msg /\ posted[v] <= h.msg + 1
        BY <1>4 DEF HarvestInv
    <1>6. /\ sig[h.set] = [first |-> Total(h.msg), second |-> Total(h.msg)]
          /\ expo[h.set] = [first |-> AllExponents(h.msg), second |-> AllExponents(h.msg)]
        BY <1>1, <1>3, <1>4, <1>5, CompleteRegisters DEF IInv, HarvestInv
    <1>7. ReplyExact(ReplyOf(h, type))
        <2>1. PICK r : r = ReplyOf(h, type)
            OBVIOUS
        <2>2. /\ r.msg = h.msg /\ r.d0 = Total(h.msg) /\ r.d1 = h.d1 /\ r.e0 = h.e0
              /\ r.e1 = AllExponents(h.msg) /\ r.type = type
            BY <1>6, <2>1 DEF ReplyOf
        <2>3. QED
            BY <1>4, <2>1, <2>2 DEF ReplyExact, HarvestInv
    <1>8. ReplyOf(h, type) \in Reply
        BY <1>1, <1>2, SMTT(40) DEF ReplyOf, Reply, HarvestPacket, TypeOK
    <1>9. ReplyOf(h, type).msg = h.msg /\ ReplyOf(h, type).set = h.set
        BY DEF ReplyOf
    <1>10. QED
        BY <1>3, <1>4, <1>5, <1>7, <1>8, <1>9 DEF HarvestInv

\* The switch sends reply r to some of the workers.
LEMMA DownAppend ==
    ASSUME IInv, NEW r \in Reply, ReplyExact(r), r.set = SetOf(r.msg),
           \A v \in Workers : Consumed(v) >= r.msg /\ posted[v] <= r.msg + 1,
           \A j \in 1 .. Len(recirc) : r.msg <= recirc[j].msg,
           recirc # << >>, Head(recirc).msg = r.msg,
           \A v \in Workers : down'[v] = down[v] \/ down'[v] = Append(down[v], r),
           RecircOrdered, UNCHANGED <<posted, cq>>,
           \A v \in Workers : Consumed(v)' = Consumed(v)
    PROVE  DownInv'
    <1>1. TypeOK /\ DownInv /\ CqInv
        BY DEF IInv
    <1>2. ConsumedGrows
        BY <1>1, SameGrows
    <1>3. r.msg \in Messages /\ r.msg \in Nat
        BY DEF Reply, Messages
    <1>4. 1 \in 1 .. Len(recirc) /\ recirc[1].msg = r.msg
        <2>1. recirc \in Seq(HarvestPacket)
            BY <1>1 DEF TypeOK
        <2>2. QED
            BY <2>1, TailFacts
    <1>5. ASSUME NEW v \in Workers, NEW i \in 1 .. Len(down'[v])
          PROVE  /\ ReplyExact(down'[v][i])
                 /\ AnswerInv(v, down'[v][i].msg, down'[v][i].set)
                 /\ down'[v][i].msg \in Messages
                 /\ \A j \in 1 .. i : down'[v][j].msg <= down'[v][i].msg
                 /\ \A j \in 1 .. Len(cq[v]) : cq[v][j].msg <= down'[v][i].msg
        <2>1. \A k \in 1 .. Len(down[v]) :
                /\ ReplyExact(down[v][k])
                /\ AnswerInv(v, down[v][k].msg, down[v][k].set)
                /\ down[v][k].msg \in Messages
                /\ \A j \in 1 .. k : down[v][j].msg <= down[v][k].msg
                /\ \A j \in 1 .. Len(cq[v]) : cq[v][j].msg <= down[v][k].msg
            BY <1>1, DownElement DEF DownInv, RepliesExact
        <2>2. CASE down'[v] = down[v]
            BY <2>1, <2>2
        <2>3. CASE down'[v] = Append(down[v], r)
            <3>1. down[v] \in Seq(Reply)
                BY <1>1 DEF TypeOK
            <3>2. /\ Len(down[v]) \in Nat /\ Len(down'[v]) = Len(down[v]) + 1
                  /\ \A k \in 1 .. Len(down[v]) : down'[v][k] = down[v][k]
                  /\ down'[v][Len(down[v]) + 1] = r
                BY <2>3, <3>1, AppendFacts
            <3>3. CASE i \in 1 .. Len(down[v])
                <4>1. \A j \in 1 .. i : j \in 1 .. Len(down[v])
                    BY <3>2, <3>3
                <4>2. QED
                    BY <2>1, <3>2, <3>3, <4>1
            <3>4. CASE i = Len(down[v]) + 1
                <4>1. down'[v][i] = r
                    BY <3>2, <3>4
                <4>2. \A k \in 1 .. Len(down[v]) : down[v][k].msg <= r.msg
                    BY <1>4, <2>1 DEF AnswerInv
                <4>3. \A j \in 1 .. Len(cq[v]) : cq[v][j].msg <= r.msg
                    BY <1>1, <1>4 DEF CqInv, AnswerInv
                <4>4. \A j \in 1 .. i : down'[v][j].msg <= r.msg
                    BY <1>3, <3>2, <3>4, <4>1, <4>2
                <4>5. AnswerInv(v, r.msg, r.set)
                    BY DEF AnswerInv
                <4>6. QED
                    BY <1>3, <4>1, <4>3, <4>4, <4>5, Zenon
            <3>5. i \in 1 .. Len(down[v]) \/ i = Len(down[v]) + 1
                BY <3>2
            <3>6. QED
                BY <3>3, <3>4, <3>5, Zenon
        <2>4. QED
            BY <2>2, <2>3
    <1>6. ASSUME NEW v \in Workers, NEW i \in 1 .. Len(down'[v])
          PROVE  AnswerInv(v, down[v][i].msg, down[v][i].set)'
        BY <1>1, <1>2, <1>5, AnswerKept, ZenonT(30) DEF AnswerInv
    <1>7. RepliesExact'
        BY <1>5 DEF RepliesExact
    <1>8. QED
        BY <1>5, <1>6, <1>7 DEF DownInv

LEMMA HarvestPreserves ==
    ASSUME IInv, Harvest
    PROVE  IInv'
    <1> DEFINE h == Head(recirc)
    <1>1. TypeOK /\ TypeOK'
        BY HarvestType DEF IInv
    <1>2. /\ UNCHANGED <<bitmap, count, sig, expo, up, posted, slot_bit, finished, mem, cq>>
          /\ recirc # << >> /\ recirc' = Tail(recirc)
        BY DEF Harvest, client_vars
    <1>3. \A v \in Workers : Consumed(v)' = Consumed(v)
        BY <1>2, ConsumedFrame
    <1>4. RecircInv' /\ RecircOrdered /\ ConsumedGrows
        BY <1>1, <1>2, <1>3, RecircTail, SameGrows DEF IInv
    <1>5. DownInv'
        <2>1. ASSUME NEW type \in {"BROADCAST", "RETRANSMIT"}, HarvestStep(h) = type,
                     \A v \in Workers :
                        down'[v] = down[v] \/ down'[v] = Append(down[v], ReplyOf(h, type))
              PROVE  DownInv'
            <3> DEFINE r == ReplyOf(h, type)
            <3>1. Productive(h)
                BY <2>1 DEF Productive
            <3>2. PICK g : g = h
                OBVIOUS
            <3>3. /\ r \in Reply /\ ReplyExact(r) /\ r.msg = h.msg /\ r.set = SetOf(r.msg)
                  /\ \A v \in Workers : Consumed(v) >= r.msg /\ posted[v] <= r.msg + 1
                  /\ \A j \in 1 .. Len(recirc) : r.msg <= recirc[j].msg
                BY <1>2, <2>1, <3>1, <3>2, HarvestExact
            <3>4. QED
                BY <1>2, <1>3, <1>4, <2>1, <3>3, DownAppend
        <2>2. CASE HarvestStep(h) = "BROADCAST"
            <3>1. down' = [v \in Workers |-> Append(down[v], ReplyOf(h, "BROADCAST"))]
                BY <2>2 DEF Harvest
            <3>2. QED
                BY <2>1, <2>2, <3>1
        <2>3. CASE HarvestStep(h) = "RETRANSMIT"
            <3>1. down' = [down EXCEPT ![h.worker] =
                                Append(down[h.worker], ReplyOf(h, "RETRANSMIT"))]
                BY <2>3 DEF Harvest
            <3>2. \A v \in Workers :
                    down'[v] = down[v] \/ down'[v] = Append(down[v], ReplyOf(h, "RETRANSMIT"))
                BY <1>1, <3>1, Zenon DEF TypeOK
            <3>3. QED
                BY <2>1, <2>3, <3>2
        <2>4. CASE HarvestStep(h) # "BROADCAST" /\ HarvestStep(h) # "RETRANSMIT"
            <3>1. down' = down
                BY <2>4 DEF Harvest
            <3>2. QED
                BY <1>1, <1>2, <1>4, <3>1, DownFrame DEF IInv
        <2>5. QED
            BY <2>2, <2>3, <2>4
    <1>6. QED
        BY <1>1, <1>2, <1>3, <1>4, <1>5, ClientFrame, UpFrame, MemFrame, RegisterFrame, CqFrame
           DEF IInv

\* A packet that reaches the switch is the next one of its worker, or a
\* retransmission of the last one consumed.
LEMMA ConsumePacket ==
    ASSUME IInv, NEW w \in Workers, up[w] # << >>, NEW p, p = Head(up[w])
    PROVE  /\ p = up[w][1] /\ p \in WritePacket
           /\ p.msg \in Messages /\ p.set \in Sets /\ p.set = SetOf(p.msg)
           /\ \A v \in Workers : posted[v] <= p.msg + 1
           /\ Consumed(w) <= p.msg
           /\ \/ p.msg = Consumed(w)
              \/ /\ p.msg = Consumed(w) + 1 /\ p.msg = posted[w]
                 /\ p.d0 = Input(w, p.msg) /\ p.d1 = Input(w, p.msg)
    <1>1. TypeOK /\ ClientInv /\ UpInv
        BY DEF IInv
    <1>2. p = up[w][1] /\ p \in WritePacket /\ 1 \in 1 .. Len(up[w])
        <2>1. up[w] \in Seq(WritePacket)
            BY <1>1 DEF TypeOK
        <2>2. QED
            BY <2>1, TailFacts
    <1>3. p.msg \in Messages /\ p.set \in Sets /\ p.msg \in Nat
        BY <1>2 DEF WritePacket, Messages
    <1>4. /\ p.set = SetOf(p.msg)
          /\ Consumed(w) <= p.msg /\ p.msg <= posted[w]
          /\ p.msg > Consumed(w) => p.d0 = Input(w, p.msg) /\ p.d1 = Input(w, p.msg)
        BY <1>1, <1>2 DEF UpInv
    <1>5. posted[w] <= Consumed(w) + 1 /\ Consumed(w) \in Nat /\ posted[w] \in Nat
        BY <1>1, ConsumedFacts
    <1>6. ASSUME NEW v \in Workers
          PROVE  posted[v] <= p.msg + 1
        <2>1. posted[v] <= Consumed(w) + 1 /\ posted[v] \in Nat
            BY <1>1, ConsumedFacts DEF ClientInv
        <2>2. QED
            BY <1>3, <1>4, <1>5, <2>1
    <1>7. p.msg = Consumed(w) \/ (p.msg = Consumed(w) + 1 /\ p.msg = posted[w] /\ p.msg > Consumed(w))
        BY <1>3, <1>4, <1>5
    <1>8. QED
        BY <1>2, <1>3, <1>4, <1>6, <1>7

\* A packet comes under harvest after its CONSUME pass, or none does.
LEMMA RecircAppend ==
    ASSUME TypeOK, RecircInv, ConsumedGrows, UNCHANGED posted,
           NEW w \in Workers, NEW h,
           recirc' = recirc \/ recirc' = Append(recirc, h),
           recirc' # recirc => /\ h \in HarvestPacket /\ h.msg >= Consumed(w)
                               /\ HarvestInv(h)'
    PROVE  RecircInv' /\ RecircOrdered
    <1>1. CASE recirc' = recirc
        BY <1>1, RecircFrame, SameRecircOrdered
    <1>2. CASE recirc' # recirc
        <2>1. /\ recirc \in Seq(HarvestPacket) /\ h \in HarvestPacket
              /\ recirc' = Append(recirc, h) /\ h.msg >= Consumed(w) /\ HarvestInv(h)'
            BY <1>2 DEF TypeOK
        <2>2. /\ Len(recirc) \in Nat /\ Len(recirc') = Len(recirc) + 1
              /\ \A i \in 1 .. Len(recirc) : recirc'[i] = recirc[i]
              /\ recirc'[Len(recirc) + 1] = h
            BY <2>1, AppendFacts
        <2>3. h.msg \in Nat /\ Consumed(w) \in Nat
            BY <2>1, ConsumedFacts DEF HarvestPacket, Messages
        <2>4. \A i \in 1 .. Len(recirc) :
                /\ recirc[i] \in HarvestPacket /\ recirc[i].msg \in Nat
                /\ HarvestInv(recirc[i])
            <3>1. \A i \in 1 .. Len(recirc) : recirc[i] \in HarvestPacket
                BY <2>1, ElementType
            <3>2. \A i \in 1 .. Len(recirc) : recirc[i].msg \in Nat
                BY <3>1 DEF HarvestPacket, Messages
            <3>3. QED
                BY <3>1, <3>2, RecircSplit
        <2>5. \A i \in 1 .. Len(recirc') : i \in 1 .. Len(recirc) \/ i = Len(recirc) + 1
            BY <2>2
        <2>6. ASSUME NEW i \in 1 .. Len(recirc')
              PROVE  HarvestInv(recirc[i])'
            <3>1. CASE i \in 1 .. Len(recirc)
                <4>1. PICK g : g = recirc[i]
                    OBVIOUS
                <4>2. HarvestInv(g)'
                    BY <2>4, <3>1, <4>1, HarvestKept, ZenonT(30)
                <4>3. QED
                    BY <2>2, <3>1, <4>1, <4>2, Zenon DEF HarvestInv
            <3>2. CASE i = Len(recirc) + 1
                BY <2>1, <2>2, <3>2 DEF HarvestInv
            <3>3. QED
                BY <2>5, <3>1, <3>2
        <2>7. ASSUME NEW i \in 1 .. Len(recirc'), Productive(recirc'[i]),
                     NEW j \in i .. Len(recirc')
              PROVE  recirc'[i].msg <= recirc'[j].msg
            <3>1. CASE j \in 1 .. Len(recirc)
                <4>1. i \in 1 .. Len(recirc) /\ j \in i .. Len(recirc)
                    BY <2>2, <3>1
                <4>2. QED
                    BY <2>2, <2>7, <3>1, <4>1 DEF RecircInv
            <3>2. CASE j = Len(recirc) + 1 /\ i \in 1 .. Len(recirc)
                <4>1. recirc[i].msg <= Consumed(w)
                    BY <2>2, <2>4, <2>7, <3>2 DEF HarvestInv
                <4>2. QED
                    BY <2>1, <2>2, <2>3, <2>4, <3>2, <4>1
            <3>3. CASE i = Len(recirc) + 1 /\ j = i
                BY <2>2, <2>3, <3>3
            <3>4. QED
                BY <2>2, <2>5, <3>1, <3>2, <3>3
        <2>8. RecircInv'
            BY <2>6, <2>7 DEF RecircInv, HarvestInv
        <2>9. RecircOrdered
            <3>1. ASSUME NEW m \in Messages, \A v \in Workers : Consumed(v) >= m,
                         \A i \in 1 .. Len(recirc) : m <= recirc[i].msg,
                         NEW i \in 1 .. Len(recirc')
                  PROVE  m <= recirc'[i].msg
                <4>1. m \in Nat /\ m <= h.msg
                    BY <2>1, <2>3, <3>1 DEF Messages
                <4>2. QED
                    BY <2>2, <2>5, <3>1, <4>1
            <3>2. QED
                BY <3>1 DEF RecircOrdered
        <2>10. QED
            BY <2>8, <2>9
    <1>3. QED
        BY <1>1, <1>2

\* What is left to show of a CONSUME pass once the effect on the bitmaps and
\* the registers is known.
LEMMA ConsumeRest ==
    ASSUME IInv, NEW w \in Workers, Consume(w), NEW h,
           ClientInv', RegisterInv',
           \A v \in Workers \ {w} : Consumed(v)' = Consumed(v),
           Consumed(w)' = Head(up[w]).msg,
           recirc' = recirc \/ recirc' = Append(recirc, h),
           recirc' # recirc => /\ h \in HarvestPacket /\ h.msg >= Consumed(w)
                               /\ HarvestInv(h)'
    PROVE  IInv'
    <1>1. TypeOK /\ UpInv /\ MemInv /\ RecircInv /\ DownInv /\ CqInv /\ TypeOK'
        BY ConsumeType, SMTT(40) DEF IInv
    <1>2. /\ UNCHANGED <<down, posted, slot_bit, finished, mem, cq>>
          /\ up[w] # << >> /\ up' = [up EXCEPT ![w] = Tail(@)]
        BY Zenon DEF Consume, client_vars
    <1>3. PICK p : p = Head(up[w])
        OBVIOUS
    <1>4. p = up[w][1] /\ p.msg \in Messages /\ Consumed(w) <= p.msg
        BY <1>2, <1>3, ConsumePacket
    <1>5. ConsumedGrows
        BY <1>1, <1>3, <1>4, ConsumedFacts DEF ConsumedGrows, Messages
    <1>6. UpInv'
        BY <1>1, <1>2, <1>3, <1>4, <1>5, UpTail, ZenonT(30)
    <1>7. RecircInv' /\ RecircOrdered
        BY <1>1, <1>2, <1>5, RecircAppend
    <1>8. QED
        BY <1>1, <1>2, <1>5, <1>6, <1>7, MemFrame, DownFrame, CqFrame DEF IInv

\* A set of workers as large as the whole is the whole.
LEMMA AllArrived ==
    ASSUME NEW A \in SUBSET Workers
    PROVE  /\ IsFiniteSet(A) /\ Cardinality(A) \in Nat /\ Cardinality(A) <= num_workers
           /\ Cardinality(A) = num_workers => A = Workers
    BY WorkersAssumption, FS_Subset, FS_CardinalityType DEF num_workers

\* A retransmission of a packet that the switch has consumed.
LEMMA ConsumeOld ==
    ASSUME IInv, NEW w \in Workers, Consume(w), Head(up[w]).msg = Consumed(w)
    PROVE  IInv'
    <1>1. TypeOK /\ ClientInv /\ RegisterInv
        BY DEF IInv
    <1>2. up[w] # << >> /\ UNCHANGED <<posted, slot_bit, finished>>
        BY Zenon DEF Consume, client_vars
    <1>3. PICK p, map, flag : /\ p = Head(up[w]) /\ map = MapResult(bitmap, p.set, w)
                              /\ flag = FirstLastFlag(count[p.set], map)
        BY Zenon
    <1>4. PICK h : h = Recirculated(w, p, map, flag)
        BY ZenonT(30)
    <1>5. /\ p \in WritePacket /\ p.msg \in Messages /\ p.set \in Sets /\ p.set = SetOf(p.msg)
          /\ \A v \in Workers : posted[v] <= p.msg + 1
        BY <1>2, <1>3, ConsumePacket
    <1>6. p.msg \in Nat /\ p.msg > 0 /\ p.msg = Consumed(w)
        BY <1>3, <1>5 DEF Messages
    <1>7. w \in bitmap[p.set] /\ \A s \in Sets : s # p.set => w \notin bitmap[s]
        BY <1>1, <1>5, <1>6 DEF ClientInv
    <1>8. map = {w} /\ bitmap[p.set] # {} /\ map # {}
        BY <1>3, <1>7 DEF MapResult
    <1>9. UNCHANGED <<bitmap, count, sig, expo>>
        <2>1. ConsumeEffect(w, p, map, flag)
            BY <1>3, ConsumeHasEffect
        <2>2. /\ bitmap \in [Sets -> SUBSET Workers] /\ count \in [Sets -> Nat]
              /\ sig = [s \in Sets |-> sig[s]] /\ expo = [s \in Sets |-> expo[s]]
            BY <1>1 DEF TypeOK
        <2>3. UpdateBitmap(bitmap, p.set, w) = bitmap
            BY <1>7, <2>2 DEF UpdateBitmap
        <2>4. /\ UpdateCount(count[p.set], map) = count[p.set]
              /\ UpdateSignificands(sig[p.set], bitmap[p.set], map, p.d0, p.d1) = sig[p.set]
              /\ UpdateExponents(expo[p.set], bitmap[p.set], map,
                                 {<<w, p.msg>>}, {<<w, p.msg>>}) = expo[p.set]
            BY <1>8, Zenon DEF UpdateCount, UpdateSignificands, UpdateExponents
        <2>5. QED
            BY <2>1, <2>2, <2>3, <2>4, ZenonT(30) DEF ConsumeEffect
    <1>10. \A v \in Workers : Consumed(v)' = Consumed(v)
        BY <1>2, <1>9, ConsumedFrame
    <1>11. recirc' = IF NextStepConsume256(flag, map) = "HARVEST7"
                     THEN Append(recirc, h) ELSE recirc
        <2>1. ConsumeEffect(w, p, map, flag)
            BY <1>3, ConsumeHasEffect
        <2>2. QED
            BY <1>4, <2>1, Zenon DEF ConsumeEffect
    <1>12. ASSUME recirc' # recirc
           PROVE  /\ h \in HarvestPacket /\ h.msg >= Consumed(w)
                  /\ HarvestInv(h)'
        <2>1. flag = 1 \/ flag = 0
            BY <1>8, <1>11, <1>12, SMTT(40) DEF NextStepConsume256
        <2>2. h \in HarvestPacket
            <3>1. PICK e : e = expo[p.set].first
                OBVIOUS
            <3>2. e \in Exponents
                BY <1>1, <1>5, <3>1 DEF TypeOK
            <3>3. p.d1 \in Significands
                BY <1>5 DEF WritePacket
            <3>4. h = [worker |-> w, msg |-> p.msg, set |-> p.set, d1 |-> p.d1, e0 |-> e,
                       first_flag |-> flag = 0, last_flag |-> flag = 1, nonzero |-> map # {}]
                BY <1>4, <1>8, <1>9, <3>1, Zenon DEF Recirculated, ConsumedD1
            <3>5. QED
                BY <1>5, <3>2, <3>3, <3>4 DEF HarvestPacket
        <2>3. h.nonzero = TRUE /\ h.first_flag = (flag = 0) /\ h.last_flag = (flag = 1)
              /\ h.msg = p.msg /\ h.set = p.set /\ h.worker = w /\ h.e0 = expo[p.set].first
            BY <1>4, <1>8, <1>9, ZenonT(30) DEF Recirculated
        <2>4. CASE flag = 1
            <3>1. HarvestStep(h) = "drop"
                <4>1. flag # 0
                    BY <2>4
                <4>2. ~h.first_flag /\ h.last_flag /\ h.nonzero
                    BY <2>3, <2>4, <4>1, ZenonT(30)
                <4>3. QED
                    BY <4>2 DEF HarvestStep, ReconstructFlag, NextStepHarvest7
            <3>2. HarvestInv(h)
                BY <1>5, <1>6, <2>3, <3>1, SMTT(40) DEF HarvestInv, Productive
            <3>3. QED
                BY <1>2, <1>6, <1>10, <2>2, <2>3, <3>2 DEF HarvestInv
        <2>5. CASE flag = 0
            <3>1. HarvestStep(h) = "RETRANSMIT"
                BY <2>3, <2>5, Zenon DEF HarvestStep, ReconstructFlag, NextStepHarvest7
            <3>2. Arrived(p.msg) = Workers
                <4>1. w \in Arrived(p.msg)
                    BY <1>6 DEF Arrived
                <4>2. CASE num_workers = 1
                    <5>1. PICK v : Workers = {v}
                        BY <4>2, WorkersAssumption, FS_Singleton DEF num_workers
                    <5>2. QED
                        BY <4>1, <5>1 DEF Arrived
                <4>3. CASE num_workers # 1
                    <5>1. count[p.set] = 0
                        BY <1>3, <2>5, <4>3 DEF FirstLastFlag
                    <5>2. Arrived(p.msg + 2) = {}
                        BY <1>1, <1>5, <1>6, ConsumedFacts DEF Arrived
                    <5>3. count[p.set] = num_workers - Cardinality(Arrived(p.msg))
                        BY <1>1, <1>5, <4>1, <5>2, Zenon DEF RegisterInv
                    <5>4. Arrived(p.msg) \in SUBSET Workers
                        BY DEF Arrived
                    <5>5. QED
                        BY <5>1, <5>3, <5>4, AllArrived, NumWorkers
                <4>4. QED
                    BY <4>2, <4>3
            <3>3. \A v \in Workers : Consumed(v) >= p.msg
                BY <3>2 DEF Arrived
            <3>4. h.e0 = AllExponents(p.msg)
                <4>1. expo[SetOf(p.msg)] =
                        [first |-> AllExponents(p.msg), second |-> AllExponents(p.msg)]
                    BY <1>1, <1>5, <3>3, CompleteRegisters, ZenonT(30)
                <4>2. QED
                    BY <1>5, <2>3, <4>1
            <3>5. HarvestInv(h)
                BY <1>5, <1>6, <2>3, <3>1, <3>3, <3>4 DEF HarvestInv
            <3>6. QED
                BY <1>2, <1>6, <1>10, <2>2, <2>3, <3>5 DEF HarvestInv
        <2>6. QED
            BY <2>1, <2>4, <2>5
    <1>13. ClientInv' /\ RegisterInv'
        BY <1>1, <1>2, <1>9, <1>10, ClientFrame, RegisterFrame
    <1>14. QED
        BY <1>10, <1>11, <1>12, <1>13, ConsumeRest
===============================================================================
