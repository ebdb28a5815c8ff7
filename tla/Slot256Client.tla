---------------------------- MODULE Slot256Client -----------------------------
(***************************************************************************)
(* Proof that the steps of the client thread and of its NIC preserve the   *)
(* inductive invariant of Slot256.                                         *)
(***************************************************************************)
EXTENDS Slot256Lemmas

USE SMTT(30), ZenonT(20)

-------------------------------------------------------------------------------
(* The inductive invariant: the client and its NIC.                        *)

\* A worker sends a packet of its current message.
LEMMA UpAppend ==
    ASSUME TypeOK, UpInv, NEW w \in Workers, NEW x \in WritePacket,
           up' = [up EXCEPT ![w] = Append(@, x)],
           posted' \in [Workers -> Nat], \A v \in Workers : posted'[v] >= posted[v],
           \A v \in Workers : Consumed(v)' = Consumed(v),
           x.msg = posted'[w], x.set = SetOf(x.msg),
           x.msg > Consumed(w) => x.d0 = Input(w, x.msg) /\ x.d1 = Input(w, x.msg)
    PROVE  UpInv'
    <1> SUFFICES ASSUME NEW v \in Workers, NEW i \in 1 .. Len(up'[v])
                 PROVE  /\ up'[v][i].set = SetOf(up'[v][i].msg)
                        /\ Consumed(v) <= up'[v][i].msg /\ up'[v][i].msg <= posted'[v]
                        /\ up'[v][i].msg > Consumed(v) =>
                             /\ up'[v][i].d0 = Input(v, up'[v][i].msg)
                             /\ up'[v][i].d1 = Input(v, up'[v][i].msg)
                        /\ \A j \in 1 .. i : up'[v][j].msg <= up'[v][i].msg
        BY DEF UpInv
    <1>1. /\ posted[v] \in Nat /\ posted'[v] \in Nat /\ posted'[v] >= posted[v]
          /\ Consumed(v) \in Nat /\ Consumed(v) <= posted[v]
        BY ConsumedFacts
    <1>2. \A k \in 1 .. Len(up[v]) : up[v][k].msg \in Nat
        <2>1. up[v] \in Seq(WritePacket)
            BY DEF TypeOK
        <2>2. \A k \in 1 .. Len(up[v]) : up[v][k] \in WritePacket
            BY <2>1, ElementType
        <2>3. QED
            BY <2>2 DEF WritePacket, Messages
    <1>3. CASE v # w
        <2>1. up'[v] = up[v]
            BY <1>3 DEF TypeOK
        <2>2. /\ up[v][i].set = SetOf(up[v][i].msg)
              /\ Consumed(v) <= up[v][i].msg /\ up[v][i].msg <= posted[v]
              /\ up[v][i].msg > Consumed(v) =>
                   up[v][i].d0 = Input(v, up[v][i].msg) /\ up[v][i].d1 = Input(v, up[v][i].msg)
              /\ \A j \in 1 .. i : up[v][j].msg <= up[v][i].msg
            BY <2>1, Zenon DEF UpInv
        <2>3. up[v][i].msg <= posted'[v]
            <3>1. up[v][i].msg \in Nat
                BY <1>2, <2>1, Zenon
            <3>2. QED
                BY <1>1, <2>2, <3>1
        <2>4. QED
            BY <2>1, <2>2, <2>3, Zenon
    <1>4. CASE v = w
        <2>1. up[w] \in Seq(WritePacket)
            BY DEF TypeOK
        <2>2. up'[w] = Append(up[w], x)
            BY DEF TypeOK
        <2>3. /\ Len(up[w]) \in Nat /\ Len(up'[w]) = Len(up[w]) + 1
              /\ \A k \in 1 .. Len(up[w]) : up'[w][k] = up[w][k]
              /\ up'[w][Len(up[w]) + 1] = x
            BY <2>1, <2>2, AppendFacts
        <2>4. CASE i \in 1 .. Len(up[w])
            <3>1. /\ up[v][i].set = SetOf(up[v][i].msg)
                  /\ Consumed(v) <= up[v][i].msg /\ up[v][i].msg <= posted[v]
                  /\ up[v][i].msg > Consumed(v) =>
                       up[v][i].d0 = Input(v, up[v][i].msg) /\ up[v][i].d1 = Input(v, up[v][i].msg)
                  /\ \A j \in 1 .. i : up[v][j].msg <= up[v][i].msg
                BY <1>4, <2>4 DEF UpInv
            <3>2. up[v][i].msg <= posted'[v]
                BY <1>1, <1>2, <1>4, <2>4, <3>1
            <3>3. \A j \in 1 .. i : j \in 1 .. Len(up[w])
                BY <2>3, <2>4
            <3>4. QED
                BY <1>4, <2>3, <2>4, <3>1, <3>2, <3>3
        <2>5. CASE i = Len(up[w]) + 1
            <3>1. up'[w][i] = x
                BY <2>3, <2>5
            <3>2. \A j \in 1 .. i : j = i \/ j \in 1 .. Len(up[w])
                BY <2>3, <2>5
            <3>3. \A j \in 1 .. Len(up[w]) : up[w][j].msg <= posted[w]
                BY DEF UpInv
            <3>4. \A j \in 1 .. i : up'[w][j].msg <= x.msg
                BY <1>1, <1>2, <1>4, <2>3, <3>1, <3>2, <3>3
            <3>5. Consumed(w) <= x.msg
                BY <1>1, <1>4
            <3>6. QED
                BY <1>1, <1>4, <3>1, <3>4, <3>5
        <2>6. QED
            BY <1>4, <2>3, <2>4, <2>5
    <1>5. QED
        BY <1>3, <1>4

LEMMA RepostInv ==
    ASSUME IInv, NEW w \in Workers, Repost(w)
    PROVE  IInv'
    <1>1. TypeOK /\ TypeOK'
        BY RepostType DEF IInv
    <1>2. \A v \in Workers : Consumed(v)' = Consumed(v)
        BY ConsumedFrame DEF Repost, switch_vars, client_vars
    <1>3. ConsumedGrows /\ RecircOrdered
        BY <1>1, <1>2, SameGrows, SameRecircOrdered DEF Repost, switch_vars
    <1>4. UpInv'
        <2> DEFINE x == Packet(w, posted[w], slot_bit[w])
        <2>1. posted[w] \in Messages
            BY <1>1, MaxMessageAssumption DEF TypeOK, Repost, Messages
        <2>2. x \in WritePacket
            BY <1>1, <2>1, PacketType, Zenon DEF TypeOK
        <2>3. x.msg = posted[w] /\ x.set = SetOf(x.msg)
            BY DEF Packet, IInv, ClientInv
        <2>4. x.msg > Consumed(w) => x.d0 = Input(w, x.msg) /\ x.d1 = Input(w, x.msg)
            <3>1. posted[w] > Consumed(w) =>
                    mem[w][posted[w]] = [d0 |-> Input(w, posted[w]), d1 |-> Input(w, posted[w])]
                BY <2>1 DEF IInv, MemInv
            <3>2. QED
                BY <3>1 DEF Packet
        <2>5. posted' = posted /\ up' = [up EXCEPT ![w] = Append(@, x)]
            BY DEF Repost, client_vars
        <2>6. posted' \in [Workers -> Nat] /\ \A v \in Workers : posted'[v] >= posted[v]
            <3>1. posted \in [Workers -> 0 .. MaxMessage]
                BY <1>1 DEF TypeOK
            <3>2. posted \in [Workers -> Nat]
                BY <3>1, MaxMessageAssumption
            <3>3. QED
                BY <2>5, <3>2
        <2>7. QED
            BY <1>1, <1>2, <2>2, <2>3, <2>4, <2>5, <2>6, UpAppend, Zenon DEF IInv
    <1>5. QED
        BY <1>1, <1>2, <1>3, <1>4, ClientFrame, RegisterFrame, MemFrame, RecircFrame,
           DownFrame, CqFrame
           DEF IInv, Repost, switch_vars, client_vars

LEMMA RdmaWriteInv ==
    ASSUME IInv, NEW w \in Workers, RdmaWrite(w)
    PROVE  IInv'
    <1> DEFINE p == Head(down[w])
               c == [msg |-> p.msg, set |-> p.set]
    <1>1. TypeOK /\ TypeOK'
        BY RdmaWriteType DEF IInv
    <1>2. UNCHANGED <<bitmap, count, sig, expo, recirc, up, posted, slot_bit, finished>>
        BY DEF RdmaWrite, switch_vars
    <1>3. \A v \in Workers : Consumed(v)' = Consumed(v)
        BY <1>2, ConsumedFrame
    <1>4. ConsumedGrows /\ RecircOrdered
        BY <1>1, <1>2, <1>3, SameGrows, SameRecircOrdered
    <1>5. /\ down[w] # << >> /\ p = down[w][1] /\ 1 \in 1 .. Len(down[w])
          /\ p \in Reply /\ p.msg \in Messages
        <2>1. down[w] \in Seq(Reply) /\ down[w] # << >>
            BY <1>1 DEF TypeOK, RdmaWrite
        <2>2. /\ p = down[w][1] /\ p \in Reply
              /\ Len(down[w]) \in Nat /\ Len(down[w]) >= 1
            BY <2>1, TailFacts
        <2>3. p.msg \in Messages
            BY <2>2 DEF Reply
        <2>4. QED
            BY <2>1, <2>2, <2>3
    <1>6. ReplyExact(p) /\ AnswerInv(w, p.msg, p.set)
        BY <1>5 DEF IInv, DownInv, RepliesExact
    <1>7. p.msg \in Nat /\ p.msg <= Consumed(w) /\ Consumed(w) \in Nat
        BY <1>1, <1>5, <1>6, ConsumedFacts DEF AnswerInv, Messages
    <1>8. /\ \A v \in Workers : \A m \in Messages : v # w \/ m # p.msg => mem'[v][m] = mem[v][m]
          /\ mem'[w][p.msg].d0 = Total(p.msg)
        BY <1>1, <1>5, <1>6 DEF TypeOK, RdmaWrite, ReplyExact
    <1>9. /\ \A v \in Workers \ {w} : cq'[v] = cq[v]
          /\ cq'[w] = Append(cq[w], c) /\ cq[w] \in Seq(Completion) /\ c \in Completion
        BY <1>1, <1>5 DEF TypeOK, RdmaWrite, Reply, Completion
    <1>10. /\ Len(cq[w]) \in Nat /\ Len(cq'[w]) = Len(cq[w]) + 1
           /\ \A j \in 1 .. Len(cq[w]) : cq'[w][j] = cq[w][j]
           /\ cq'[w][Len(cq[w]) + 1] = c
        BY <1>9, AppendFacts
    <1>11. MemInv'
        <2> SUFFICES ASSUME NEW v \in Workers, NEW m \in Messages
                     PROVE  /\ m > Consumed(v) =>
                                 mem'[v][m] = [d0 |-> Input(v, m), d1 |-> Input(v, m)]
                            /\ m <= Completed(v) => mem'[v][m].d0 = Total(m)
            BY <1>2, <1>3 DEF MemInv, Completed
        <2>1. CASE v # w \/ m # p.msg
            BY <1>8, <2>1 DEF IInv, MemInv
        <2>2. CASE v = w /\ m = p.msg
            BY <1>7, <1>8, <2>2
        <2>3. QED
            BY <2>1, <2>2
    <1>12. DownInv'
        <2>1. ASSUME NEW v \in Workers, NEW j \in 1 .. Len(cq'[v])
              PROVE  \/ \E n \in 1 .. Len(cq[v]) : cq'[v][j] = cq[v][n]
                     \/ v = w /\ cq'[v][j].msg = down[w][1].msg
            <3>1. CASE v # w
                BY <1>9, <3>1
            <3>2. CASE v = w /\ j \in 1 .. Len(cq[w])
                BY <1>10, <3>2
            <3>3. CASE v = w /\ j = Len(cq[w]) + 1
                BY <1>5, <1>10, <3>3
            <3>4. QED
                BY <1>10, <3>1, <3>2, <3>3
        <2>2. QED
            BY <1>1, <1>2, <1>3, <1>5, <2>1, DownTail, ZenonT(30) DEF IInv, RdmaWrite
    <1>13. CqInv'
        <2> SUFFICES ASSUME NEW v \in Workers, NEW i \in 1 .. Len(cq'[v])
                     PROVE  /\ AnswerInv(v, cq'[v][i].msg, cq'[v][i].set)
                            /\ mem'[v][cq'[v][i].msg].d0 = Total(cq'[v][i].msg)
                            /\ \A j \in 1 .. i : cq'[v][j].msg <= cq'[v][i].msg
            BY <1>2, <1>3 DEF CqInv, AnswerInv
        <2>1. \A k \in 1 .. Len(cq[v]) :
                /\ AnswerInv(v, cq[v][k].msg, cq[v][k].set)
                /\ mem'[v][cq[v][k].msg].d0 = Total(cq[v][k].msg)
                /\ \A j \in 1 .. k : cq[v][j].msg <= cq[v][k].msg
            BY <1>1, <1>8, CqElement DEF IInv, CqInv
        <2>2. CASE v # w
            BY <1>9, <2>1, <2>2
        <2>3. CASE v = w /\ i \in 1 .. Len(cq[w])
            <3>1. \A j \in 1 .. i : j \in 1 .. Len(cq[w])
                BY <1>10, <2>3
            <3>2. QED
                BY <1>10, <2>1, <2>3, <3>1, SMTT(40)
        <2>4. CASE v = w /\ i = Len(cq[w]) + 1
            <3>1. cq'[w][i] = c
                BY <1>10, <2>4
            <3>2. \A j \in 1 .. Len(cq[w]) : cq[w][j].msg <= p.msg
                BY <1>5 DEF IInv, DownInv
            <3>3. \A j \in 1 .. i : cq'[w][j].msg <= p.msg
                BY <1>7, <1>10, <2>4, <3>1, <3>2
            <3>4. QED
                BY <1>6, <1>8, <2>4, <3>1, <3>3
        <2>5. QED
            BY <1>10, <2>2, <2>3, <2>4
    <1>14. QED
        BY <1>1, <1>2, <1>3, <1>4, <1>11, <1>12, <1>13, ClientFrame, UpFrame,
           RegisterFrame, RecircFrame
           DEF IInv

\* A worker that posts its next message has had its last one consumed, so
\* nothing changes in what the switch has consumed.
LEMMA PostNextConsumed ==
    ASSUME TypeOK, ClientInv, NEW w \in Workers, PostNext(w), UNCHANGED bitmap,
           Consumed(w) = posted[w]
    PROVE  /\ \A v \in Workers : Consumed(v)' = Consumed(v)
           /\ posted'[w] = posted[w] + 1 /\ slot_bit'[w] = SetOf(posted[w] + 1)
           /\ \A v \in Workers \ {w} : posted'[v] = posted[v] /\ slot_bit'[v] = slot_bit[v]
    <1>1. /\ posted'[w] = posted[w] + 1 /\ slot_bit'[w] = 1 - slot_bit[w]
          /\ \A v \in Workers \ {w} : posted'[v] = posted[v] /\ slot_bit'[v] = slot_bit[v]
        BY DEF TypeOK, PostNext
    <1>2. posted[w] \in Nat /\ slot_bit[w] = SetOf(posted[w])
        BY ConsumedFacts DEF ClientInv
    <1>3. slot_bit'[w] = SetOf(posted[w] + 1) /\ SetOf(posted[w] + 1) # SetOf(posted[w])
          /\ SetOf(posted[w] + 1) \in Sets
        BY <1>1, <1>2, SetOfFacts
    <1>4. w \notin bitmap[SetOf(posted[w] + 1)]
        BY <1>3 DEF ClientInv
    <1>5. Consumed(w)' = posted[w]
        BY <1>1, <1>2, <1>3, <1>4 DEF Consumed
    <1>6. \A v \in Workers \ {w} : Consumed(v)' = Consumed(v)
        BY <1>1 DEF Consumed
    <1>7. QED
        BY <1>1, <1>3, <1>5, <1>6

\* A worker may post its next message when its current one is complete,
\* every worker has sent it, and no answer to an older one can still come.
LEMMA PostNextPreserves ==
    ASSUME IInv, TypeOK', NEW w \in Workers, PostNext(w),
           UNCHANGED <<switch_vars, down, mem>>,
           \A v \in Workers : Consumed(v) >= posted[w],
           posted[w] > 0 => mem[w][posted[w]].d0 = Total(posted[w]),
           finished' = [finished EXCEPT ![w] = FALSE],
           \A i \in 1 .. Len(recirc) : posted[w] <= recirc[i].msg,
           \A i \in 1 .. Len(down[w]) : posted[w] <= down[w][i].msg,
           \A v \in Workers : \A i \in 1 .. Len(cq'[v]) :
              /\ \E k \in 1 .. Len(cq[v]) :
                   /\ cq'[v][i] = cq[v][k]
                   /\ \A j \in 1 .. i : \E n \in 1 .. k : cq'[v][j] = cq[v][n]
              /\ v = w => posted[w] <= cq'[v][i].msg
    PROVE  IInv'
    <1>1. TypeOK /\ ClientInv /\ UpInv /\ MemInv /\ RegisterInv /\ RecircInv /\ DownInv /\ CqInv
        BY DEF IInv
    <1>2. UNCHANGED <<bitmap, count, sig, expo, recirc>>
        BY DEF switch_vars
    <1>3. /\ posted[w] \in Nat /\ posted[w] < MaxMessage
          /\ Consumed(w) = posted[w]
        BY <1>1, ConsumedFacts DEF PostNext
    <1>4. /\ \A v \in Workers : Consumed(v)' = Consumed(v)
          /\ posted'[w] = posted[w] + 1 /\ slot_bit'[w] = SetOf(posted[w] + 1)
          /\ \A v \in Workers \ {w} : posted'[v] = posted[v] /\ slot_bit'[v] = slot_bit[v]
        BY <1>1, <1>2, <1>3, PostNextConsumed
    <1>5. ConsumedGrows /\ RecircOrdered
        BY <1>1, <1>2, <1>4, SameGrows, SameRecircOrdered, SMTT(40)
    <1>6. /\ finished'[w] = FALSE /\ \A v \in Workers \ {w} : finished'[v] = finished[v]
          /\ finished[w] = FALSE
        BY <1>1, <1>3, ConsumedFacts, SMTT(40) DEF TypeOK, ClientInv
    <1>7. ClientInv'
        <2>1. ASSUME NEW v \in Workers
              PROVE  /\ slot_bit'[v] = SetOf(posted'[v])
                     /\ \A s \in Sets : v \in bitmap[s] <=> Consumed(v) > 0 /\ SetOf(Consumed(v)) = s
                     /\ \A u \in Workers : posted'[v] <= Consumed(u) + 1
                     /\ finished'[v] => posted'[v] = MaxMessage /\ Consumed(v) = MaxMessage
            <3>1. CASE v = w
                <4>1. \A u \in Workers : posted'[w] <= Consumed(u) + 1
                    BY <1>1, <1>3, <1>4, ConsumedFacts
                <4>2. QED
                    BY <1>1, <1>4, <1>6, <3>1, <4>1 DEF ClientInv
            <3>2. CASE v # w
                BY <1>1, <1>4, <1>6, <3>2, SMTT(40) DEF ClientInv
            <3>3. QED
                BY <3>1, <3>2
        <2>2. QED
            BY <1>2, <1>4, <2>1, SMTT(40) DEF ClientInv
    <1>8. UpInv'
        <2> DEFINE x == Packet(w, posted[w] + 1, 1 - slot_bit[w])
        <2>1. posted[w] + 1 \in Messages
            BY <1>3, MaxMessageAssumption DEF Messages
        <2>2. 1 - slot_bit[w] = SetOf(posted[w] + 1) /\ SetOf(posted[w] + 1) \in Sets
            <3>1. slot_bit[w] = SetOf(posted[w])
                BY <1>1 DEF ClientInv
            <3>2. posted[w] + 1 \in Nat
                BY <1>3
            <3>3. QED
                BY <1>3, <3>1, <3>2, SetOfFacts
        <2>3. x \in WritePacket
            BY <1>1, <2>1, <2>2, PacketType
        <2>4. x.msg = posted'[w] /\ x.set = SetOf(x.msg)
            BY <1>4, <2>2 DEF Packet
        <2>5. mem[w][posted[w] + 1] = [d0 |-> Input(w, posted[w] + 1), d1 |-> Input(w, posted[w] + 1)]
            BY <1>1, <1>3, <2>1 DEF MemInv
        <2>6. x.d0 = Input(w, x.msg) /\ x.d1 = Input(w, x.msg)
            BY <2>5 DEF Packet
        <2>7. posted' \in [Workers -> Nat]
            <3>1. posted' \in [Workers -> 0 .. MaxMessage]
                BY DEF TypeOK
            <3>2. QED
                BY <3>1, MaxMessageAssumption
        <2>8. \A v \in Workers : posted'[v] >= posted[v]
            BY <1>1, <1>3, <1>4, ConsumedFacts, SMTT(40)
        <2>9. up' = [up EXCEPT ![w] = Append(@, x)]
            BY DEF PostNext
        <2>10. QED
            BY <1>1, <1>4, <2>3, <2>4, <2>6, <2>7, <2>8, <2>9, UpAppend, ZenonT(30)
    <1>9. MemInv'
        <2>1. Completed(w)' = posted[w] /\ Completed(w) <= posted[w]
            BY <1>3, <1>4, <1>6 DEF Completed
        <2>2. \A v \in Workers \ {w} : Completed(v)' = Completed(v)
            BY <1>4, <1>6 DEF Completed
        <2>3. ASSUME NEW m \in Messages, m <= posted[w]
              PROVE  mem[w][m].d0 = Total(m)
            <3>1. m \in Nat /\ m > 0
                BY DEF Messages
            <3>2. CASE m = posted[w]
                BY <3>1, <3>2
            <3>3. CASE m < posted[w]
                <4>1. Completed(w) = posted[w] - 1
                    BY <1>3, <1>6, <3>1, <3>3 DEF Completed
                <4>2. m <= Completed(w)
                    BY <1>3, <3>1, <3>3, <4>1
                <4>3. QED
                    BY <1>1, <4>2, Zenon DEF MemInv
            <3>4. QED
                BY <1>3, <2>3, <3>1, <3>2, <3>3
        <2>4. QED
            BY <1>1, <1>4, <2>1, <2>2, <2>3 DEF MemInv
    <1>10. RegisterInv'
        BY <1>1, <1>2, <1>4, RegisterFrame
    <1>11. RecircInv'
        <2>1. ASSUME NEW i \in 1 .. Len(recirc), NEW v \in Workers
              PROVE  posted'[v] <= recirc[i].msg + 1
            <3>1. recirc[i].msg \in Nat
                <4>1. recirc[i] \in HarvestPacket
                    BY <1>1, ElementType, SMTT(40) DEF TypeOK
                <4>2. QED
                    BY <4>1, SMTT(40) DEF HarvestPacket, Messages
            <3>2. CASE v = w
                BY <1>3, <1>4, <3>1, <3>2
            <3>3. CASE v # w
                BY <1>1, <1>4, <3>3 DEF RecircInv
            <3>4. QED
                BY <3>2, <3>3
        <2>2. ASSUME NEW i \in 1 .. Len(recirc)
              PROVE  recirc[i].worker \in Workers
            <3>1. recirc[i] \in HarvestPacket
                BY <1>1, ElementType DEF TypeOK
            <3>2. QED
                BY <3>1, SMTT(40) DEF HarvestPacket
        <2>3. QED
            BY <1>1, <1>2, <1>4, <2>1, <2>2 DEF RecircInv
    <1>12. ASSUME NEW v \in Workers, NEW m \in Messages, NEW set, AnswerInv(v, m, set),
                  v = w => posted[w] <= m
           PROVE  /\ set = SetOf(m)
                  /\ \A u \in Workers : Consumed(u)' >= m
                  /\ posted'[v] <= m + 1
                  /\ \A i \in 1 .. Len(recirc') : m <= recirc'[i].msg
        <2>1. m \in Nat
            BY SMTT(40) DEF Messages
        <2>2. posted'[v] <= m + 1
            BY <1>3, <1>4, <1>12, <2>1, SMTT(40) DEF AnswerInv
        <2>3. QED
            BY <1>2, <1>4, <1>12, <2>2 DEF AnswerInv
    <1>13. DownInv'
        <2>1. RepliesExact'
            BY <1>1 DEF DownInv, RepliesExact
        <2>2. ASSUME NEW v \in Workers, NEW i \in 1 .. Len(down[v])
              PROVE  /\ AnswerInv(v, down[v][i].msg, down[v][i].set)'
                     /\ \A j \in 1 .. i : down[v][j].msg <= down[v][i].msg
                     /\ \A j \in 1 .. Len(cq'[v]) : cq'[v][j].msg <= down[v][i].msg
            <3>1. AnswerInv(v, down[v][i].msg, down[v][i].set) /\ down[v][i].msg \in Messages
                BY <1>1, DownElement DEF DownInv
            <3>2. AnswerInv(v, down[v][i].msg, down[v][i].set)'
                BY <1>12, <3>1, SMTT(40) DEF AnswerInv
            <3>3. \A j \in 1 .. Len(cq'[v]) : cq'[v][j].msg <= down[v][i].msg
                BY <1>1, Zenon DEF DownInv
            <3>4. QED
                BY <1>1, <3>2, <3>3, SMTT(40) DEF DownInv
        <2>3. QED
            BY <2>1, <2>2 DEF DownInv
    <1>14. CqInv'
        <2>1. ASSUME NEW v \in Workers, NEW i \in 1 .. Len(cq'[v])
              PROVE  /\ AnswerInv(v, cq[v][i].msg, cq[v][i].set)'
                     /\ mem[v][cq'[v][i].msg].d0 = Total(cq'[v][i].msg)
                     /\ \A j \in 1 .. i : cq'[v][j].msg <= cq'[v][i].msg
            <3>1. PICK k \in 1 .. Len(cq[v]) :
                       /\ cq'[v][i] = cq[v][k]
                       /\ \A j \in 1 .. i : \E n \in 1 .. k : cq'[v][j] = cq[v][n]
                BY ZenonT(30)
            <3>2. /\ AnswerInv(v, cq[v][k].msg, cq[v][k].set) /\ cq[v][k].msg \in Messages
                  /\ mem[v][cq[v][k].msg].d0 = Total(cq[v][k].msg)
                  /\ \A j \in 1 .. k : cq[v][j].msg <= cq[v][k].msg
                BY <1>1, CqElement DEF CqInv
            <3>3. v = w => posted[w] <= cq[v][k].msg
                BY <3>1, SMTT(40)
            <3>4. AnswerInv(v, cq[v][i].msg, cq[v][i].set)'
                BY <1>12, <3>1, <3>2, <3>3, ZenonT(40) DEF AnswerInv
            <3>5. QED
                BY <3>1, <3>2, <3>4, ZenonT(40)
        <2>2. QED
            BY <2>1 DEF CqInv
    <1>15. QED
        BY <1>7, <1>8, <1>9, <1>10, <1>11, <1>13, <1>14 DEF IInv

LEMMA PostInitialPreserves ==
    ASSUME IInv, NEW w \in Workers, PostInitial(w)
    PROVE  IInv'
    <1>1. TypeOK /\ ClientInv /\ RecircInv /\ DownInv /\ CqInv
        BY DEF IInv
    <1>2. TypeOK'
        BY <1>1, PostNextType DEF TypeOK, PostInitial, switch_vars
    <1>3. PostNext(w) /\ posted[w] = 0 /\ UNCHANGED <<switch_vars, down, mem, finished, cq>>
        BY DEF PostInitial
    <1>4. \A v \in Workers : Consumed(v) >= posted[w]
        BY <1>1, <1>3, ConsumedFacts
    <1>5. finished' = [finished EXCEPT ![w] = FALSE]
        <2>1. finished[w] = FALSE
            BY <1>1, <1>3, MaxMessageAssumption DEF TypeOK, ClientInv
        <2>2. QED
            BY <1>1, <1>3, <2>1 DEF TypeOK
    <1>6. \A i \in 1 .. Len(recirc) : posted[w] <= recirc[i].msg
        <2>1. \A i \in 1 .. Len(recirc) : recirc[i] \in HarvestPacket
            BY <1>1, ElementType DEF TypeOK
        <2>2. QED
            BY <1>3, <2>1 DEF HarvestPacket, Messages
    <1>7. \A i \in 1 .. Len(down[w]) : posted[w] <= down[w][i].msg
        BY <1>1, <1>3, DownElement DEF Messages
    <1>8. ASSUME NEW v \in Workers, NEW i \in 1 .. Len(cq'[v])
          PROVE  /\ \E k \in 1 .. Len(cq[v]) :
                      /\ cq'[v][i] = cq[v][k]
                      /\ \A j \in 1 .. i : \E n \in 1 .. k : cq'[v][j] = cq[v][n]
                 /\ v = w => posted[w] <= cq'[v][i].msg
        <2>1. i \in 1 .. Len(cq[v]) /\ cq' = cq
            BY <1>3
        <2>2. cq[v][i].msg \in Messages
            BY <1>1, <2>1, CqElement
        <2>3. posted[w] <= cq'[v][i].msg
            BY <1>3, <2>1, <2>2 DEF Messages
        <2>4. QED
            BY <2>1, <2>3
    <1>9. ~(posted[w] > 0)
        BY <1>3
    <1>10. UNCHANGED <<switch_vars, down, mem>>
        BY <1>3
    <1>11. QED
        BY <1>2, <1>3, <1>4, <1>5, <1>6, <1>7, <1>8, <1>9, <1>10, PostNextPreserves, ZenonT(30)

\* The completion that handle_recv_completion accepts is for the current
\* message, and answers to older ones are out of the way.
LEMMA AcceptFacts ==
    ASSUME IInv, NEW w \in Workers, cq[w] # << >>, Head(cq[w]).set = slot_bit[w]
    PROVE  /\ posted[w] > 0
           /\ \A v \in Workers : Consumed(v) >= posted[w]
           /\ mem[w][posted[w]].d0 = Total(posted[w])
           /\ \A i \in 1 .. Len(recirc) : posted[w] <= recirc[i].msg
           /\ \A i \in 1 .. Len(down[w]) : posted[w] <= down[w][i].msg
           /\ \A i \in 1 .. Len(cq[w]) : posted[w] <= cq[w][i].msg
    <1> DEFINE c == Head(cq[w])
    <1>1. TypeOK /\ ClientInv /\ DownInv /\ CqInv
        BY DEF IInv
    <1>2. c = cq[w][1] /\ 1 \in 1 .. Len(cq[w])
        <2>1. cq[w] \in Seq(Completion)
            BY <1>1 DEF TypeOK
        <2>2. QED
            BY <2>1, TailFacts
    <1>3. AnswerInv(w, c.msg, c.set) /\ c.msg \in Messages
        BY <1>1, <1>2, CqElement DEF CqInv
    <1>4. c.msg \in Nat /\ c.msg > 0
        BY <1>3 DEF Messages
    <1>5. c.msg <= posted[w] /\ posted[w] <= c.msg + 1 /\ posted[w] \in Nat
        BY <1>1, <1>3, <1>4, ConsumedFacts DEF AnswerInv
    <1>6. SetOf(c.msg) = SetOf(posted[w])
        BY <1>1, <1>3 DEF AnswerInv, ClientInv
    <1>7. c.msg = posted[w]
        BY <1>4, <1>5, <1>6, SameSet
    <1>8. /\ \A v \in Workers : Consumed(v) >= posted[w]
          /\ \A i \in 1 .. Len(recirc) : posted[w] <= recirc[i].msg
        BY <1>3, <1>7 DEF AnswerInv
    <1>9. mem[w][posted[w]].d0 = Total(posted[w])
        BY <1>1, <1>2, <1>7 DEF CqInv
    <1>10. \A i \in 1 .. Len(down[w]) : posted[w] <= down[w][i].msg
        BY <1>1, <1>2, <1>7 DEF DownInv
    <1>11. ASSUME NEW i \in 1 .. Len(cq[w])
           PROVE  posted[w] <= cq[w][i].msg
        <2>1. 1 \in 1 .. i
            OBVIOUS
        <2>2. QED
            BY <1>1, <1>2, <1>7, <2>1 DEF CqInv
    <1>12. QED
        BY <1>4, <1>7, <1>8, <1>9, <1>10, <1>11

\* Polling a completion leaves the rest in order.
LEMMA CqTail ==
    ASSUME TypeOK, NEW w \in Workers, cq[w] # << >>, cq' = [cq EXCEPT ![w] = Tail(@)],
           NEW v \in Workers, NEW i \in 1 .. Len(cq'[v])
    PROVE  \E k \in 1 .. Len(cq[v]) :
              /\ cq'[v][i] = cq[v][k]
              /\ \A j \in 1 .. i : \E n \in 1 .. k : cq'[v][j] = cq[v][n]
    <1>1. CASE v # w
        <2>1. cq'[v] = cq[v]
            BY <1>1 DEF TypeOK
        <2>2. QED
            BY <2>1
    <1>2. CASE v = w
        <2>1. cq[w] \in Seq(Completion) /\ cq'[w] = Tail(cq[w])
            BY DEF TypeOK
        <2>2. /\ Len(cq[w]) \in Nat /\ Len(cq'[w]) = Len(cq[w]) - 1
              /\ \A k \in 1 .. Len(cq[w]) - 1 : cq'[w][k] = cq[w][k + 1]
            BY <2>1, TailFacts, Zenon
        <2>3. i + 1 \in 1 .. Len(cq[w]) /\ cq'[w][i] = cq[w][i + 1]
            BY <1>2, <2>2
        <2>4. \A j \in 1 .. i : j + 1 \in 1 .. i + 1 /\ cq'[w][j] = cq[w][j + 1]
            BY <1>2, <2>2
        <2>5. QED
            BY <1>2, <2>3, <2>4
    <1>3. QED
        BY <1>1, <1>2, Zenon

LEMMA HandleRecvPreserves ==
    ASSUME IInv, NEW w \in Workers, HandleRecv(w)
    PROVE  IInv'
    <1>1. TypeOK /\ ClientInv /\ UpInv /\ MemInv /\ RegisterInv /\ RecircInv /\ DownInv /\ CqInv
        BY DEF IInv
    <1>2. TypeOK'
        BY <1>1, HandleRecvType
    <1>3. /\ UNCHANGED <<switch_vars, down, mem>>
          /\ UNCHANGED <<bitmap, count, sig, expo, recirc, down, mem>>
          /\ cq[w] # << >> /\ cq' = [cq EXCEPT ![w] = Tail(@)]
        BY DEF HandleRecv, switch_vars
    <1>4. ASSUME NEW v \in Workers, NEW i \in 1 .. Len(cq'[v])
          PROVE  \E k \in 1 .. Len(cq[v]) :
                    /\ cq'[v][i] = cq[v][k]
                    /\ \A j \in 1 .. i : \E n \in 1 .. k : cq'[v][j] = cq[v][n]
        BY <1>1, <1>3, CqTail, SMTT(40)
    <1>5. CASE Head(cq[w]).set = slot_bit[w] /\ PostNext(w)
        <2>1. /\ posted[w] > 0
              /\ \A v \in Workers : Consumed(v) >= posted[w]
              /\ mem[w][posted[w]].d0 = Total(posted[w])
              /\ \A i \in 1 .. Len(recirc) : posted[w] <= recirc[i].msg
              /\ \A i \in 1 .. Len(down[w]) : posted[w] <= down[w][i].msg
              /\ \A i \in 1 .. Len(cq[w]) : posted[w] <= cq[w][i].msg
            BY <1>3, <1>5, AcceptFacts
        <2>2. finished' = [finished EXCEPT ![w] = FALSE]
            <3>1. posted[w] # MaxMessage
                BY <1>1, <1>5, ConsumedFacts DEF PostNext
            <3>2. QED
                BY <1>5, <3>1, Zenon DEF HandleRecv
        <2>3. ASSUME NEW v \in Workers, NEW i \in 1 .. Len(cq'[v]), v = w
              PROVE  posted[w] <= cq'[v][i].msg
            BY <1>4, <2>1, <2>3
        <2>4. PostNext(w) /\ (posted[w] > 0 => mem[w][posted[w]].d0 = Total(posted[w]))
            BY <1>5, <2>1
        <2>5. QED
            BY <1>2, <1>3, <1>4, <2>1, <2>2, <2>3, <2>4, PostNextPreserves, ZenonT(30)
    <1>6. CASE UNCHANGED <<posted, slot_bit, up>>
        <2>1. \A v \in Workers : Consumed(v)' = Consumed(v)
            BY <1>3, <1>6, ConsumedFrame
        <2>2. ConsumedGrows /\ RecircOrdered
            BY <1>1, <1>3, <2>1, SameGrows, SameRecircOrdered, SMTT(40)
        <2>3. /\ \A v \in Workers \ {w} : finished'[v] = finished[v]
              /\ finished'[w] # finished[w] =>
                    /\ finished'[w] = (posted[w] = MaxMessage)
                    /\ \A v \in Workers : Consumed(v) >= posted[w]
                    /\ posted[w] > 0 /\ mem[w][posted[w]].d0 = Total(posted[w])
            <3>1. CASE Head(cq[w]).set = slot_bit[w]
                <4>1. finished' = [finished EXCEPT ![w] = (posted[w] = MaxMessage)]
                    BY <3>1, SMTT(40) DEF HandleRecv
                <4>2. QED
                    BY <1>1, <1>3, <3>1, <4>1, AcceptFacts, SMTT(40) DEF TypeOK
            <3>2. CASE Head(cq[w]).set # slot_bit[w]
                BY <3>2 DEF HandleRecv
            <3>3. QED
                BY <3>1, <3>2, SMTT(40)
        <2>4. ClientInv'
            <3>1. ASSUME NEW v \in Workers, finished'[v]
                  PROVE  posted[v] = MaxMessage /\ Consumed(v) = MaxMessage
                <4>1. CASE finished'[v] = finished[v]
                    BY <1>1, <3>1, <4>1 DEF ClientInv
                <4>2. CASE finished'[v] # finished[v]
                    <5>1. v = w /\ posted[w] = MaxMessage /\ Consumed(w) >= posted[w]
                        BY <2>3, <3>1, <4>2, ZenonT(30)
                    <5>2. QED
                        BY <1>1, <5>1, ConsumedFacts
                <4>3. QED
                    BY <4>1, <4>2
            <3>2. QED
                BY <1>1, <1>3, <1>6, <2>1, <3>1 DEF ClientInv
        <2>5. MemInv'
            <3>1. ASSUME NEW v \in Workers, NEW m \in Messages, m <= Completed(v)'
                  PROVE  mem[v][m].d0 = Total(m)
                <4>1. CASE finished'[v] = finished[v]
                    <5>1. Completed(v)' = Completed(v)
                        BY <1>6, <4>1 DEF Completed
                    <5>2. QED
                        BY <1>1, <3>1, <5>1, Zenon DEF MemInv
                <4>2. CASE finished'[v] # finished[v]
                    <5>1. /\ v = w /\ posted[w] > 0 /\ finished'[w] = (posted[w] = MaxMessage)
                          /\ mem[w][posted[w]].d0 = Total(posted[w])
                        BY <2>3, <4>2
                    <5>2. posted[w] \in Nat /\ m \in Nat /\ MaxMessage \in Nat
                        BY <1>1, ConsumedFacts DEF Messages
                    <5>3. m <= posted[w]
                        <6>1. finished'[w] => posted[w] = MaxMessage
                            BY <5>1, Zenon
                        <6>2. posted'[w] = posted[w]
                            BY <1>6
                        <6>3. Completed(w)' <= posted[w]
                            BY <5>2, <6>1, <6>2 DEF Completed
                        <6>4. Completed(w)' \in Nat
                            BY <5>1, <5>2, <6>2 DEF Completed
                        <6>5. QED
                            BY <3>1, <5>1, <5>2, <6>3, <6>4
                    <5>4. m = posted[w] \/ m <= posted[w] - 1
                        BY <5>2, <5>3
                    <5>5. posted[w] - 1 <= Completed(w)
                        BY <1>1, <5>1, <5>2 DEF Completed, ClientInv
                    <5>6. m <= posted[w] - 1 => m <= Completed(w)
                        BY <1>1, <5>1, <5>2, <5>5, SMTT(40) DEF Completed
                    <5>7. QED
                        BY <1>1, <5>1, <5>4, <5>6, ZenonT(30) DEF MemInv
                <4>3. QED
                    BY <4>1, <4>2
            <3>2. QED
                BY <1>1, <1>3, <2>1, <3>1 DEF MemInv
        <2>6. DownInv'
            <3>1. RepliesExact'
                BY <1>1, <1>3 DEF DownInv, RepliesExact
            <3>2. ASSUME NEW v \in Workers, NEW i \in 1 .. Len(down[v])
                  PROVE  /\ AnswerInv(v, down[v][i].msg, down[v][i].set)'
                         /\ \A j \in 1 .. Len(cq'[v]) : cq'[v][j].msg <= down[v][i].msg
                <4>1. AnswerInv(v, down[v][i].msg, down[v][i].set)
                    BY <1>1 DEF DownInv
                <4>2. AnswerInv(v, down[v][i].msg, down[v][i].set)'
                    BY <1>3, <1>6, <2>1, <4>1 DEF AnswerInv
                <4>3. QED
                    BY <1>1, <1>4, <4>2, ZenonT(30) DEF DownInv
            <3>3. QED
                BY <1>1, <1>3, <3>1, <3>2, SMTT(40) DEF DownInv
        <2>7. CqInv'
            <3>1. ASSUME NEW v \in Workers, NEW i \in 1 .. Len(cq'[v])
                  PROVE  /\ AnswerInv(v, cq[v][i].msg, cq[v][i].set)'
                         /\ mem[v][cq'[v][i].msg].d0 = Total(cq'[v][i].msg)
                         /\ \A j \in 1 .. i : cq'[v][j].msg <= cq'[v][i].msg
                <4>1. PICK k \in 1 .. Len(cq[v]) :
                           /\ cq'[v][i] = cq[v][k]
                           /\ \A j \in 1 .. i : \E n \in 1 .. k : cq'[v][j] = cq[v][n]
                    BY <1>4
                <4>2. AnswerInv(v, cq[v][k].msg, cq[v][k].set)
                    BY <1>1 DEF CqInv
                <4>3. AnswerInv(v, cq[v][i].msg, cq[v][i].set)'
                    BY <1>3, <1>6, <2>1, <4>1, <4>2 DEF AnswerInv
                <4>4. QED
                    BY <1>1, <4>1, <4>3, SMTT(40) DEF CqInv
            <3>2. QED
                BY <1>3, <3>1, ZenonT(30) DEF CqInv
        <2>8. QED
            BY <1>1, <1>2, <1>3, <1>6, <2>1, <2>2, <2>4, <2>5, <2>6, <2>7,
               UpFrame, RegisterFrame, RecircFrame, SMTT(40)
               DEF IInv
    <1>7. QED
        BY <1>5, <1>6 DEF HandleRecv, PostNothing

===============================================================================
