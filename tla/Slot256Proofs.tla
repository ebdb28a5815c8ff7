----------------------------- MODULE Slot256Proofs ----------------------------
(***************************************************************************)
(* The pass of a packet that the switch has not seen before preserves the  *)
(* inductive invariant of Slot256, so the invariant holds, for any number of *)
(* workers and of messages; what follows from it, and that Slot256         *)
(* implements AllReduce.                                                   *)
(***************************************************************************)
EXTENDS Slot256Client

USE SMTT(30), ZenonT(20)

\* The first packet of worker w for its message m reaches the switch.
NewPacket(w, m) ==
    /\ m \in Messages /\ m = Consumed(w) + 1 /\ m = posted[w]
    /\ UNCHANGED <<posted, slot_bit>>
    /\ bitmap' = UpdateBitmap(bitmap, SetOf(m), w)

\* What it changes in the bitmaps: all workers are at message m or just
\* before it, the bitmap of its set is the set of those that are at m.
LEMMA NewPacketFacts ==
    ASSUME TypeOK, ClientInv, NEW w \in Workers, NEW m, NewPacket(w, m)
    PROVE  /\ m \in Nat /\ m > 0 /\ SetOf(m) \in Sets
           /\ w \notin bitmap[SetOf(m)]
           /\ Consumed(w)' = m
           /\ \A v \in Workers \ {w} : Consumed(v)' = Consumed(v)
           /\ \A v \in Workers : Consumed(v) = m \/ Consumed(v) = m - 1
           /\ bitmap[SetOf(m)] = Arrived(m)
           /\ w \notin Arrived(m) /\ Arrived(m) \in SUBSET Workers
           /\ Arrived(m)' = Arrived(m) \cup {w}
           /\ \A n \in Nat : n # m => Arrived(n)' = Arrived(n)
           /\ Arrived(m + 2) = {}
    <1>1. /\ m \in Nat /\ m > 0 /\ SetOf(m) \in Sets /\ m - 1 \in Nat
          /\ Consumed(w) = m - 1 /\ SetOf(m - 1) # SetOf(m)
        <2>1. m \in Nat /\ m > 0 /\ m - 1 \in Nat
            BY DEF NewPacket, Messages
        <2>2. Consumed(w) = m - 1
            BY <2>1, ConsumedFacts DEF NewPacket
        <2>3. SetOf((m - 1) + 1) # SetOf(m - 1) /\ SetOf(m) \in Sets
            BY <2>1, SetOfFacts
        <2>4. (m - 1) + 1 = m
            BY <2>1
        <2>5. QED
            BY <2>1, <2>2, <2>3, <2>4
    <1>2. w \notin bitmap[SetOf(m)]
        BY <1>1 DEF ClientInv
    <1>3. \A s \in Sets : bitmap'[s] = IF s = SetOf(m) THEN bitmap[s] \cup {w} ELSE bitmap[s] \ {w}
        BY DEF NewPacket, UpdateBitmap
    <1>4. Consumed(w)' = m
        <2>1. slot_bit[w] = SetOf(m)
            BY DEF ClientInv, NewPacket
        <2>2. w \in bitmap'[slot_bit'[w]]
            BY <1>1, <1>3, <2>1, Zenon DEF NewPacket
        <2>3. QED
            BY <2>2 DEF Consumed, NewPacket
    <1>5. ASSUME NEW v \in Workers \ {w}
          PROVE  Consumed(v)' = Consumed(v)
        <2>1. slot_bit[v] \in Sets
            BY ConsumedFacts
        <2>2. v \in bitmap'[slot_bit[v]] <=> v \in bitmap[slot_bit[v]]
            BY <1>3, <2>1, Zenon
        <2>3. QED
            BY <2>2 DEF Consumed, NewPacket
    <1>6. ASSUME NEW v \in Workers
          PROVE  /\ Consumed(v) \in Nat /\ (Consumed(v) = m \/ Consumed(v) = m - 1)
                 /\ v \in bitmap[SetOf(m)] <=> Consumed(v) >= m
        <2>1. Consumed(v) \in Nat /\ posted[v] \in Nat /\ Consumed(v) <= posted[v]
            BY ConsumedFacts
        <2>2. m <= Consumed(v) + 1 /\ posted[v] <= (m - 1) + 1
            <3>1. posted[w] <= Consumed(v) + 1 /\ posted[v] <= Consumed(w) + 1
                BY DEF ClientInv
            <3>2. m = posted[w]
                BY DEF NewPacket
            <3>3. QED
                BY <1>1, <3>1, <3>2
        <2>3. Consumed(v) = m \/ Consumed(v) = m - 1
            BY <1>1, <2>1, <2>2
        <2>4. v \in bitmap[SetOf(m)] <=> Consumed(v) > 0 /\ SetOf(Consumed(v)) = SetOf(m)
            BY <1>1 DEF ClientInv
        <2>5. CASE Consumed(v) = m
            BY <1>1, <2>1, <2>4, <2>5
        <2>6. CASE Consumed(v) = m - 1
            <3>1. ~(Consumed(v) >= m)
                BY <1>1, <2>6
            <3>2. SetOf(Consumed(v)) # SetOf(m)
                BY <1>1, <2>6
            <3>3. QED
                BY <2>1, <2>3, <2>4, <3>1, <3>2
        <2>7. QED
            BY <2>3, <2>5, <2>6
    <1>7. bitmap[SetOf(m)] = Arrived(m)
        <2>1. bitmap[SetOf(m)] \in SUBSET Workers
            BY <1>1 DEF TypeOK
        <2>2. QED
            BY <1>6, <2>1 DEF Arrived
    <1>8. w \notin Arrived(m) /\ Arrived(m) \in SUBSET Workers
        BY <1>2, <1>7 DEF Arrived
    <1>9. ASSUME NEW n \in Nat
          PROVE  /\ n # m => Arrived(n)' = Arrived(n)
                 /\ n = m => Arrived(n)' = Arrived(n) \cup {w}
        <2>1. CASE n = m
            BY <1>1, <1>4, <1>5, <2>1 DEF Arrived
        <2>2. CASE n # m
            <3>1. Consumed(w)' >= n <=> Consumed(w) >= n
                BY <1>1, <1>4, <2>2
            <3>2. \A v \in Workers : Consumed(v)' >= n <=> Consumed(v) >= n
                BY <1>5, <3>1
            <3>3. QED
                BY <2>2, <3>2 DEF Arrived
        <2>3. QED
            BY <2>1, <2>2
    <1>10. Arrived(m + 2) = {}
        <2>1. \A v \in Workers : ~(Consumed(v) >= m + 2)
            BY <1>1, <1>6
        <2>2. QED
            BY <2>1 DEF Arrived
    <1>11. QED
        BY <1>1, <1>2, <1>4, <1>5, <1>6, <1>7, <1>8, <1>9, <1>10

LEMMA NewPacketClient ==
    ASSUME TypeOK, ClientInv, NEW w \in Workers, NEW m, NewPacket(w, m), UNCHANGED finished
    PROVE  ClientInv'
    <1>1. /\ m \in Nat /\ m > 0 /\ SetOf(m) \in Sets
          /\ Consumed(w)' = m
          /\ \A v \in Workers \ {w} : Consumed(v)' = Consumed(v)
        BY NewPacketFacts
    <1>2. \A s \in Sets : bitmap'[s] = IF s = SetOf(m) THEN bitmap[s] \cup {w} ELSE bitmap[s] \ {w}
        BY DEF NewPacket, UpdateBitmap
    <1>3. m = Consumed(w) + 1 /\ m = posted[w] /\ UNCHANGED <<posted, slot_bit>>
        BY DEF NewPacket
    <1>4. \A v \in Workers, s \in Sets :
            v \in bitmap'[s] <=> Consumed(v)' > 0 /\ SetOf(Consumed(v)') = s
        <2>1. ASSUME NEW v \in Workers, NEW s \in Sets
              PROVE  v \in bitmap'[s] <=> Consumed(v)' > 0 /\ SetOf(Consumed(v)') = s
            <3>1. CASE v = w
                BY <1>1, <1>2, <3>1, Zenon
            <3>2. CASE v # w
                <4>1. v \in bitmap'[s] <=> v \in bitmap[s]
                    BY <1>2, <3>2, Zenon
                <4>2. QED
                    BY <1>1, <3>2, <4>1 DEF ClientInv
            <3>3. QED
                BY <3>1, <3>2
        <2>2. QED
            BY <2>1
    <1>5. \A u, v \in Workers : posted[u] <= Consumed(v)' + 1
        <2>1. ASSUME NEW u \in Workers, NEW v \in Workers
              PROVE  posted[u] <= Consumed(v)' + 1
            <3>1. posted[u] <= Consumed(v) + 1 /\ posted[u] \in Nat /\ Consumed(v) \in Nat
                BY ConsumedFacts DEF ClientInv
            <3>2. Consumed(v)' = Consumed(v) \/ Consumed(v)' = Consumed(v) + 1
                BY <1>1, <1>3
            <3>3. QED
                BY <3>1, <3>2
        <2>2. QED
            BY <2>1
    <1>6. \A v \in Workers : finished[v] => posted[v] = MaxMessage /\ Consumed(v)' = MaxMessage
        <2>1. ~finished[w]
            BY <1>3, ConsumedFacts, SMTT(40) DEF ClientInv
        <2>2. QED
            BY <1>1, <2>1 DEF ClientInv
    <1>7. QED
        BY <1>3, <1>4, <1>5, <1>6 DEF ClientInv

\* The effect of a worker's packet on the registers of its set.
LEMMA NewPacketRegisters ==
    ASSUME TypeOK, ClientInv, RegisterInv, NEW w \in Workers, NEW m, NewPacket(w, m),
           NEW s, s = SetOf(m), NEW d, d = Input(w, m), NEW e, e = {<<w, m>>}
    PROVE  /\ UpdateSignificands(sig[s], bitmap[s], {}, d, d)
                = [first |-> PartialTotal(m)', second |-> PartialTotal(m)']
           /\ UpdateExponents(expo[s], bitmap[s], {}, e, e)
                = [first |-> Arrived(m)' \X {m}, second |-> Arrived(m)' \X {m}]
           /\ UpdateCount(count[s], {}) = num_workers - Cardinality(Arrived(m)')
           /\ FirstLastFlag(count[s], {}) = 1 <=> Arrived(m)' = Workers
    <1> DEFINE A == Arrived(m)
    <1>1. /\ m \in Nat /\ m > 0 /\ SetOf(m) \in Sets
          /\ Consumed(w)' = m
          /\ \A v \in Workers \ {w} : Consumed(v)' = Consumed(v)
          /\ bitmap[s] = A
          /\ w \notin A /\ A \in SUBSET Workers
          /\ Arrived(m)' = A \cup {w}
          /\ Arrived(m + 2) = {}
        BY NewPacketFacts
    <1>2. m \in Messages
        BY DEF NewPacket
    <1>3. A # {} => /\ sig[s] = [first |-> PartialTotal(m), second |-> PartialTotal(m)]
                    /\ expo[s] = [first |-> A \X {m}, second |-> A \X {m}]
                    /\ count[s] = num_workers - Cardinality(A)
        BY <1>1, <1>2 DEF RegisterInv
    <1>4. A = {} => count[s] = 0
        BY <1>1 DEF RegisterInv
    <1>5. \A v \in Workers : (Consumed(v)' >= m) <=> (Consumed(v) >= m \/ v = w)
        BY <1>1
    <1>6. UpdateSignificands(sig[s], bitmap[s], {}, d, d)
            = [first |-> PartialTotal(m)', second |-> PartialTotal(m)']
        <2>1. CASE A = {}
            <3>1. \A v \in Workers : ~(Consumed(v) >= m)
                BY <2>1 DEF Arrived
            <3>2. \A c \in Contributions : c = <<w, m>> <=> c[2] = m /\ Consumed(c[1])' >= m
                BY <1>2, <1>5, <3>1 DEF Contributions
            <3>3. PartialTotal(m)' = d
                BY <3>2 DEF PartialTotal, Input
            <3>4. QED
                BY <1>1, <2>1, <3>3 DEF UpdateSignificands
        <2>2. CASE A # {}
            <3>1. w \notin A /\ ~(Consumed(w) >= m)
                BY <1>1 DEF Arrived
            <3>2. \A c \in Contributions :
                    (IF c[2] = m /\ Consumed(c[1])' >= m THEN 1 ELSE 0)
                    = (IF c[2] = m /\ Consumed(c[1]) >= m THEN 1 ELSE 0)
                      + (IF c = <<w, m>> THEN 1 ELSE 0)
                BY <1>2, <1>5, <3>1 DEF Contributions
            <3>3. PartialTotal(m)' = Plus(PartialTotal(m), d)
                BY <3>2, SMTT(40) DEF PartialTotal, Plus, Input
            <3>4. QED
                BY <1>1, <1>3, <2>2, <3>3 DEF UpdateSignificands
        <2>3. QED
            BY <2>1, <2>2, SMTT(40)
    <1>7. UpdateExponents(expo[s], bitmap[s], {}, e, e)
            = [first |-> Arrived(m)' \X {m}, second |-> Arrived(m)' \X {m}]
        <2>1. CASE A = {}
            <3>1. Arrived(m)' \X {m} = e
                BY <1>1, <2>1
            <3>2. QED
                BY <1>1, <2>1, <3>1, Zenon DEF UpdateExponents
        <2>2. CASE A # {}
            <3>1. Arrived(m)' \X {m} = (A \X {m}) \cup e
                BY <1>1
            <3>2. expo[s].first = A \X {m} /\ expo[s].second = A \X {m}
                BY <1>3, <2>2
            <3>3. UpdateExponents(expo[s], bitmap[s], {}, e, e)
                    = [first |-> expo[s].first \cup e, second |-> expo[s].second \cup e]
                BY <1>1, <2>2 DEF UpdateExponents
            <3>4. QED
                BY <3>1, <3>2, <3>3, Zenon
        <2>3. QED
            BY <2>1, <2>2
    <1>8. /\ IsFiniteSet(A) /\ Cardinality(A) \in Nat
          /\ Cardinality(A \cup {w}) = Cardinality(A) + 1
          /\ Cardinality(A) <= num_workers - 1
          /\ Cardinality(A \cup {w}) = num_workers <=> A \cup {w} = Workers
          /\ A = {} => Cardinality(A) = 0
          /\ A # {} => Cardinality(A) > 0
        <2>1. IsFiniteSet(A) /\ Cardinality(A) \in Nat
            BY <1>1, AllArrived
        <2>2. Cardinality(A \cup {w}) = Cardinality(A) + 1
            BY <1>1, <2>1, FS_AddElement, ZenonT(40)
        <2>3. /\ Cardinality(A \cup {w}) <= num_workers
              /\ Cardinality(A \cup {w}) = num_workers => A \cup {w} = Workers
            BY <1>1, AllArrived
        <2>4. A \cup {w} = Workers => Cardinality(A \cup {w}) = num_workers
            BY DEF num_workers
        <2>5. /\ A = {} => Cardinality(A) = 0
              /\ A # {} => Cardinality(A) # 0
            BY <2>1, FS_EmptySet
        <2>6. QED
            BY <2>1, <2>2, <2>3, <2>4, <2>5, NumWorkers, SMTT(40)
    <1>9. UpdateCount(count[s], {}) = num_workers - Cardinality(A \cup {w})
        <2>1. CASE A = {}
            BY <1>4, <1>8, <2>1, NumWorkers DEF UpdateCount
        <2>2. CASE A # {}
            BY <1>3, <1>8, <2>2, NumWorkers DEF UpdateCount
        <2>3. QED
            BY <2>1, <2>2
    <1>10. FirstLastFlag(count[s], {}) = 1 <=> A \cup {w} = Workers
        <2>1. CASE num_workers = 1
            BY <1>8, <2>1 DEF FirstLastFlag
        <2>2. CASE num_workers # 1
            <3>1. CASE A = {}
                BY <1>4, <1>8, <2>2, <3>1, NumWorkers, SMTT(40) DEF FirstLastFlag
            <3>2. CASE A # {}
                BY <1>3, <1>8, <2>2, <3>2, NumWorkers, SMTT(40) DEF FirstLastFlag
            <3>3. QED
                BY <3>1, <3>2
        <2>3. QED
            BY <2>1, <2>2
    <1>11. QED
        BY <1>1, <1>6, <1>7, <1>9, <1>10, SMTT(40)

\* A worker's packet for a message that it has not sent before.
LEMMA ConsumeNew ==
    ASSUME IInv, NEW w \in Workers, Consume(w), Head(up[w]).msg = Consumed(w) + 1
    PROVE  IInv'
    <1>1. TypeOK /\ ClientInv /\ RegisterInv
        BY SMTT(40) DEF IInv
    <1>2. up[w] # << >> /\ UNCHANGED <<posted, slot_bit, finished>>
        BY DEF Consume, client_vars
    <1>3. PICK p : p = Head(up[w])
        OBVIOUS
    <1>4. /\ p \in WritePacket /\ p.msg \in Messages /\ p.set \in Sets /\ p.set = SetOf(p.msg)
          /\ \A v \in Workers : posted[v] <= p.msg + 1
          /\ p.msg = Consumed(w) + 1 /\ p.msg = posted[w]
          /\ p.d0 = Input(w, p.msg) /\ p.d1 = Input(w, p.msg)
        <2>1. Consumed(w) + 1 # Consumed(w)
            BY <1>1, ConsumedFacts
        <2>2. QED
            BY <1>2, <1>3, <2>1, ConsumePacket
    <1>5. PICK m, s, d, e : m = p.msg /\ s = p.set /\ d = Input(w, m) /\ e = {<<w, m>>}
        BY ZenonT(40)
    <1>6. NewPacket(w, m) /\ s = SetOf(m) /\ s \in Sets /\ m \in Messages
        BY <1>2, <1>3, <1>4, <1>5, ZenonT(30) DEF NewPacket, Consume
    <1>7. /\ m \in Nat /\ m > 0
          /\ w \notin bitmap[s]
          /\ Consumed(w)' = m
          /\ \A v \in Workers \ {w} : Consumed(v)' = Consumed(v)
          /\ \A v \in Workers : Consumed(v) = m \/ Consumed(v) = m - 1
          /\ bitmap[s] = Arrived(m)
          /\ Arrived(m)' = Arrived(m) \cup {w}
          /\ \A n \in Nat : n # m => Arrived(n)' = Arrived(n)
          /\ Arrived(m + 2) = {}
        BY <1>1, <1>6, NewPacketFacts
    <1>8. MapResult(bitmap, s, w) = {}
        BY <1>7 DEF MapResult
    <1>9. ClientInv'
        BY <1>1, <1>2, <1>6, NewPacketClient, SMTT(40)
    <1>10. /\ UpdateSignificands(sig[s], bitmap[s], {}, d, d)
                = [first |-> PartialTotal(m)', second |-> PartialTotal(m)']
           /\ UpdateExponents(expo[s], bitmap[s], {}, e, e)
                = [first |-> Arrived(m)' \X {m}, second |-> Arrived(m)' \X {m}]
           /\ UpdateCount(count[s], {}) = num_workers - Cardinality(Arrived(m)')
           /\ FirstLastFlag(count[s], {}) = 1 <=> Arrived(m)' = Workers
        BY <1>1, <1>5, <1>6, NewPacketRegisters, SMTT(40)
    <1>11. /\ sig' = [sig EXCEPT ![s] = UpdateSignificands(sig[s], bitmap[s], {}, d, d)]
           /\ expo' = [expo EXCEPT ![s] = UpdateExponents(expo[s], bitmap[s], {}, e, e)]
           /\ count' = [count EXCEPT ![s] = UpdateCount(count[s], {})]
        BY <1>3, <1>4, <1>5, <1>8, ZenonT(40) DEF Consume
    <1>12. /\ sig'[s] = [first |-> PartialTotal(m)', second |-> PartialTotal(m)']
           /\ expo'[s] = [first |-> Arrived(m)' \X {m}, second |-> Arrived(m)' \X {m}]
           /\ count'[s] = num_workers - Cardinality(Arrived(m)')
           /\ \A t \in Sets : t # s => sig'[t] = sig[t] /\ expo'[t] = expo[t] /\ count'[t] = count[t]
        BY <1>1, <1>6, <1>10, <1>11, ZenonT(40) DEF TypeOK
    <1>13. \A t \in Sets : bitmap'[t] = IF t = s THEN bitmap[t] \cup {w} ELSE bitmap[t] \ {w}
        BY <1>6 DEF NewPacket, UpdateBitmap
    <1>14. RegisterInv'
        <2>1. ASSUME NEW n \in Messages, Arrived(n)' # {}, Arrived(n + 2)' = {}
              PROVE  /\ sig'[SetOf(n)] = [first |-> PartialTotal(n)', second |-> PartialTotal(n)']
                     /\ expo'[SetOf(n)] = [first |-> Arrived(n)' \X {n}, second |-> Arrived(n)' \X {n}]
                     /\ count'[SetOf(n)] = num_workers - Cardinality(Arrived(n)')
            <3>1. n \in Nat /\ n > 0 /\ n + 2 \in Nat
                BY SMTT(40) DEF Messages
            <3>2. CASE n = m
                BY <1>6, <1>12, <3>2
            <3>3. CASE SetOf(n) = SetOf(m) /\ n < m
                <4>1. n + 2 <= m
                    BY <1>7, <3>1, <3>3, SetApart
                <4>2. Consumed(w)' >= n + 2
                    BY <1>7, <3>1, <4>1
                <4>3. QED
                    BY <2>1, <4>2 DEF Arrived
            <3>4. CASE SetOf(n) = SetOf(m) /\ n > m
                <4>1. \A v \in Workers : ~(Consumed(v)' >= n)
                    BY <1>7, <3>1, <3>4, SMTT(40)
                <4>2. QED
                    BY <2>1, <4>1 DEF Arrived
            <3>5. CASE SetOf(n) # SetOf(m)
                <4>1. n # m /\ n + 2 # m
                    BY <3>1, <3>5, SetOfFacts
                <4>2. Arrived(n)' = Arrived(n) /\ Arrived(n + 2)' = Arrived(n + 2)
                    BY <1>7, <3>1, <4>1
                <4>3. PartialTotal(n)' = PartialTotal(n)
                    <5>1. \A v \in Workers : (Consumed(v)' >= n) <=> (Consumed(v) >= n)
                        BY <1>7, <3>1, <4>2 DEF Arrived
                    <5>2. \A c \in Contributions : (Consumed(c[1])' >= n) <=> (Consumed(c[1]) >= n)
                        BY <5>1 DEF Contributions
                    <5>3. QED
                        BY <5>2 DEF PartialTotal
                <4>4. SetOf(n) \in Sets /\ SetOf(n) # s
                    BY <1>6, <3>1, <3>5, SetOfFacts
                <4>5. QED
                    BY <1>1, <1>12, <2>1, <4>2, <4>3, <4>4 DEF RegisterInv
            <3>6. QED
                BY <1>7, <3>1, <3>2, <3>3, <3>4, <3>5
        <2>2. ASSUME NEW t \in Sets, bitmap'[t] = {}
              PROVE  count'[t] = 0
            <3>1. t # s /\ bitmap[t] \ {w} = {} /\ count'[t] = count[t]
                BY <1>12, <1>13, <2>2, ZenonT(40)
            <3>2. CASE bitmap[t] = {}
                BY <1>1, <3>1, <3>2 DEF RegisterInv
            <3>3. CASE bitmap[t] # {}
                <4>1. w \in bitmap[t]
                    BY <3>1, <3>3
                <4>2. Consumed(w) > 0 /\ SetOf(Consumed(w)) = t /\ Consumed(w) = m - 1
                    BY <1>1, <1>4, <1>5, <1>7, <4>1, ConsumedFacts DEF ClientInv
                <4>3. m - 1 \in Messages
                    BY <1>6, <1>7, <4>2, MaxMessageAssumption DEF Messages
                <4>4. ASSUME NEW v \in Workers
                      PROVE  Consumed(v) >= m - 1 /\ posted[v] <= (m - 1) + 1
                    <5>1. Consumed(v) >= m - 1
                        BY <1>7
                    <5>2. posted[v] <= Consumed(w) + 1
                        BY <1>1 DEF ClientInv
                    <5>3. QED
                        BY <4>2, <5>1, <5>2
                <4>5. count[SetOf(m - 1)] = 0
                    BY <1>1, <4>3, <4>4, CompleteRegisters, Zenon
                <4>6. QED
                    BY <3>1, <4>2, <4>5
            <3>4. QED
                BY <3>2, <3>3, SMTT(40)
        <2>3. QED
            BY <2>1, <2>2, SMTT(40) DEF RegisterInv
    <1>15. PICK h : h = [worker |-> w, msg |-> m, set |-> s,
                         d1 |-> ConsumedD1(sig[s], bitmap[s], {}, d, d),
                         e0 |-> expo'[s].first,
                         first_flag |-> FirstLastFlag(count[s], {}) = 0,
                         last_flag |-> FirstLastFlag(count[s], {}) = 1,
                         nonzero |-> {} # {}]
        BY ZenonT(40)
    <1>16. recirc' = IF NextStepConsume256(FirstLastFlag(count[s], {}), {}) = "HARVEST7"
                     THEN Append(recirc, h) ELSE recirc
        <2>1. PICK map, flag : /\ map = MapResult(bitmap, p.set, w)
                               /\ flag = FirstLastFlag(count[p.set], map)
            BY Zenon
        <2>2. /\ p.msg = m /\ p.set = s /\ p.d0 = d /\ p.d1 = d /\ map = {}
              /\ flag = FirstLastFlag(count[s], {})
            BY <1>4, <1>5, <1>8, <2>1, Zenon
        <2>3. h = Recirculated(w, p, map, flag)
            BY <1>15, <2>2, Zenon DEF Recirculated
        <2>4. ConsumeEffect(w, p, map, flag)
            BY <1>3, <2>1, ConsumeHasEffect
        <2>5. QED
            BY <2>2, <2>3, <2>4, Zenon DEF ConsumeEffect
    <1>17. ASSUME recirc' # recirc
           PROVE  h \in HarvestPacket /\ h.msg >= Consumed(w) /\ HarvestInv(h)'
        <2>1. FirstLastFlag(count[s], {}) = 1
            BY <1>16, <1>17, SMTT(40) DEF NextStepConsume256
        <2>2. Arrived(m)' = Workers
            BY <1>10, <2>1, Zenon
        <2>3. \A v \in Workers : Consumed(v)' >= m
            BY <2>2 DEF Arrived
        <2>4. PartialTotal(m)' = Total(m)
            <3>1. \A c \in Contributions : Consumed(c[1])' >= m
                BY <2>3, SMTT(40) DEF Contributions
            <3>2. QED
                BY <3>1 DEF PartialTotal, Total
        <2>5. h.d1 = Total(m)
            <3>1. h.d1 = UpdateSignificands(sig[s], bitmap[s], {}, d, d).second
                BY <1>15, SMTT(40) DEF ConsumedD1
            <3>2. QED
                BY <1>10, <2>4, <3>1, SMTT(40)
        <2>6. h.e0 = AllExponents(m)
            BY <1>12, <1>15, <2>2, SMTT(40) DEF AllExponents
        <2>7. h.msg = m /\ h.set = s /\ h.worker = w
            BY <1>15, Zenon
        <2>8. HarvestStep(h) = "BROADCAST"
            <3>1. FirstLastFlag(count[s], {}) # 0
                BY <2>1, SMTT(40)
            <3>2. ~h.first_flag /\ h.last_flag /\ ~h.nonzero
                BY <1>15, <2>1, <3>1, Zenon
            <3>3. QED
                BY <3>2 DEF HarvestStep, ReconstructFlag, NextStepHarvest7
        <2>9. Productive(h)
            BY <2>8 DEF Productive
        <2>10. h \in HarvestPacket
            <3>1. h.d1 \in Significands
                BY <2>5 DEF Total, Significands
            <3>2. h.e0 \in Exponents
                BY <1>6, <2>6, SMTT(40) DEF AllExponents, Exponents, Contributions
            <3>3. QED
                BY <1>6, <1>15, <3>1, <3>2 DEF HarvestPacket
        <2>11. m <= Consumed(w)' /\ \A v \in Workers : posted'[v] <= m + 1
            BY <1>2, <1>4, <1>5, <1>7, SMTT(40)
        <2>12. HarvestInv(h)'
            BY <1>6, <2>3, <2>5, <2>6, <2>7, <2>8, <2>11 DEF HarvestInv
        <2>13. QED
            BY <1>1, <1>4, <1>5, <2>7, <2>10, <2>12, ConsumedFacts
    <1>18. recirc' = recirc \/ recirc' = Append(recirc, h)
        BY <1>16
    <1>19. QED
        BY <1>3, <1>5, <1>7, <1>9, <1>14, <1>17, <1>18, ConsumeRest

LEMMA ConsumePreserves ==
    ASSUME IInv, NEW w \in Workers, Consume(w)
    PROVE  IInv'
    <1>1. up[w] # << >>
        BY Zenon DEF Consume
    <1>2. PICK p : p = Head(up[w])
        OBVIOUS
    <1>3. p.msg = Consumed(w) \/ p.msg = Consumed(w) + 1
        BY <1>1, <1>2, ConsumePacket
    <1>4. QED
        BY <1>2, <1>3, ConsumeOld, ConsumeNew, SMTT(40)

\* The flag of a pass is 1 and its packet is new exactly when the pass
\* completes the bitmap of the packet's set.
LEMMA CompletionFlag ==
    ASSUME IInv, NEW w \in Workers, Consume(w), NEW p, p = Head(up[w]),
           NEW map, map = MapResult(bitmap, p.set, w)
    PROVE  (map = {} /\ FirstLastFlag(count[p.set], map) = 1)
           <=> (bitmap[p.set] # Workers /\ bitmap'[p.set] = Workers)
    <1>1. TypeOK /\ ClientInv /\ RegisterInv
        BY DEF IInv
    <1>2. /\ up[w] # << >> /\ UNCHANGED <<posted, slot_bit>>
          /\ bitmap' = UpdateBitmap(bitmap, p.set, w)
        BY DEF Consume, client_vars
    <1>3. /\ p.msg \in Messages /\ p.set \in Sets /\ p.set = SetOf(p.msg)
          /\ p.msg = Consumed(w) \/ (p.msg = Consumed(w) + 1 /\ p.msg = posted[w])
        BY <1>2, ConsumePacket
    <1>4. bitmap'[p.set] = bitmap[p.set] \cup {w}
        BY <1>2, <1>3 DEF UpdateBitmap
    <1>5. CASE p.msg = Consumed(w)
        <2>1. Consumed(w) > 0
            BY <1>3, <1>5 DEF Messages
        <2>2. w \in bitmap[p.set]
            BY <1>1, <1>3, <1>5, <2>1 DEF ClientInv
        <2>3. map # {} /\ bitmap'[p.set] = bitmap[p.set]
            BY <1>4, <2>2 DEF MapResult
        <2>4. QED
            BY <2>3, Zenon
    <1>6. CASE p.msg = Consumed(w) + 1 /\ p.msg = posted[w]
        <2>1. NewPacket(w, p.msg)
            BY <1>2, <1>3, <1>6 DEF NewPacket
        <2>2. /\ w \notin bitmap[p.set] /\ bitmap[p.set] = Arrived(p.msg)
              /\ Arrived(p.msg)' = Arrived(p.msg) \cup {w}
            BY <1>1, <1>3, <2>1, NewPacketFacts
        <2>3. map = {}
            BY <2>2 DEF MapResult
        <2>4. FirstLastFlag(count[p.set], {}) = 1 <=> Arrived(p.msg)' = Workers
            BY <1>1, <1>3, <2>1, NewPacketRegisters, ZenonT(30)
        <2>5. bitmap[p.set] # Workers /\ bitmap'[p.set] = Arrived(p.msg)'
            BY <1>4, <2>2
        <2>6. QED
            BY <2>3, <2>4, <2>5, ZenonT(30)
    <1>7. QED
        BY <1>3, <1>5, <1>6

\* So that pass, and no other, sends its packet on to be broadcast.
LEMMA CompletionStep ==
    ASSUME IInv, NEW w \in Workers, Consume(w)
    PROVE  (bitmap[Head(up[w]).set] # Workers /\ bitmap'[Head(up[w]).set] = Workers)
           <=> (recirc' # recirc /\ HarvestStep(recirc'[Len(recirc')]) = "BROADCAST")
    <1>1. PICK p, map, flag : /\ p = Head(up[w]) /\ map = MapResult(bitmap, p.set, w)
                              /\ flag = FirstLastFlag(count[p.set], map)
        BY Zenon
    <1>2. PICK h : h = Recirculated(w, p, map, flag)
        BY Zenon
    <1>3. recirc' = IF NextStepConsume256(flag, map) = "HARVEST7"
                    THEN Append(recirc, h) ELSE recirc
        <2>1. ConsumeEffect(w, p, map, flag)
            BY <1>1, ConsumeHasEffect
        <2>2. QED
            BY <1>2, <2>1, Zenon DEF ConsumeEffect
    <1>4. (h.first_flag <=> flag = 0) /\ (h.last_flag <=> flag = 1) /\ (h.nonzero <=> map # {})
        BY <1>2, Zenon DEF Recirculated
    <1>5. HarvestStep(h) = "BROADCAST" <=> map = {} /\ flag = 1
        BY <1>4 DEF HarvestStep, ReconstructFlag, NextStepHarvest7
    <1>6. (recirc' # recirc /\ HarvestStep(recirc'[Len(recirc')]) = "BROADCAST")
          <=> map = {} /\ flag = 1
        <2>1. PICK S : S = HarvestPacket \cup {h}
            BY Zenon
        <2>2. recirc \in Seq(S) /\ h \in S
            <3>1. recirc \in Seq(HarvestPacket)
                BY DEF IInv, TypeOK
            <3>2. QED
                BY <2>1, <3>1
        <2>3. Append(recirc, h) # recirc /\ Append(recirc, h)[Len(Append(recirc, h))] = h
            BY <2>2, AppendFacts
        <2>4. CASE NextStepConsume256(flag, map) = "HARVEST7"
            BY <1>3, <1>5, <2>3, <2>4
        <2>5. CASE NextStepConsume256(flag, map) # "HARVEST7"
            BY <1>3, <2>5 DEF NextStepConsume256
        <2>6. QED
            BY <2>4, <2>5
    <1>7. map = {} /\ flag = 1 <=> (bitmap[p.set] # Workers /\ bitmap'[p.set] = Workers)
        BY <1>1, CompletionFlag
    <1>8. QED
        BY <1>1, <1>6, <1>7, Zenon

-------------------------------------------------------------------------------
(* The inductive invariant holds, and what follows from it.                *)

LEMMA InitInv == Init => IInv
    <1> SUFFICES ASSUME Init
                 PROVE  IInv
        OBVIOUS
    <1>1. TypeOK
        BY InitType
    <1>2. \A w \in Workers : posted[w] = 0 /\ slot_bit[w] = 1 /\ ~finished[w] /\ Consumed(w) = 0
        BY DEF Init, Consumed
    <1>3. ClientInv
        <2>1. SetOf(0) = 1 /\ 0 <= 0 + 1
            BY DEF SetOf
        <2>2. \A s \in Sets : bitmap[s] = {}
            BY DEF Init
        <2>3. QED
            BY <1>2, <2>1, <2>2 DEF ClientInv
    <1>4. UpInv /\ DownInv /\ CqInv /\ RecircInv
        BY DEF Init, UpInv, DownInv, CqInv, RecircInv, RepliesExact
    <1>5. MemInv
        <2>1. \A w \in Workers, m \in Messages :
                mem[w][m] = [d0 |-> Input(w, m), d1 |-> Input(w, m)]
            BY DEF Init
        <2>2. \A w \in Workers, m \in Messages : ~(m <= Completed(w))
            BY <1>2 DEF Completed, Messages
        <2>3. QED
            BY <2>1, <2>2 DEF MemInv
    <1>6. RegisterInv
        <2>1. \A m \in Messages : Arrived(m) = {}
            BY <1>2 DEF Arrived, Messages
        <2>2. \A s \in Sets : count[s] = 0
            BY DEF Init
        <2>3. QED
            BY <2>1, <2>2 DEF RegisterInv
    <1>7. QED
        BY <1>1, <1>3, <1>4, <1>5, <1>6 DEF IInv

LEMMA StutterInv ==
    ASSUME IInv, UNCHANGED vars
    PROVE  IInv'
    <1>1. TypeOK' /\ TypeOK
        BY NextType DEF IInv
    <1>2. UNCHANGED <<bitmap, count, sig, expo, recirc, up, down, posted, slot_bit, finished, mem, cq>>
        BY DEF vars
    <1>3. \A w \in Workers : Consumed(w)' = Consumed(w)
        BY <1>2, ConsumedFrame
    <1>4. ConsumedGrows /\ RecircOrdered
        BY <1>1, <1>2, <1>3, SameGrows, SameRecircOrdered
    <1>5. QED
        BY <1>1, <1>2, <1>3, <1>4, ClientFrame, UpFrame, MemFrame, RegisterFrame, RecircFrame,
           DownFrame, CqFrame
           DEF IInv

LEMMA NextInv == IInv /\ [Next]_vars => IInv'
    BY PostInitialPreserves, RepostInv, HandleRecvPreserves, RdmaWriteInv, ConsumePreserves,
       HarvestPreserves, LoseUpInv, LoseDownInv, LoseRecircInv, StutterInv
       DEF Next, Worker, Loss

\* The inductive invariant of the slot: the registers of a set hold what has
\* arrived of the one message it can be used for, and every packet, reply
\* and completion under way belongs to a message whose answers are not yet
\* overtaken.
THEOREM Invariant == Spec => []IInv
    BY InitInv, NextInv, PTL DEF Spec

\* Every reply the switch sends carries the exact reduction of its message.
THEOREM ExactReplies == Spec => []RepliesExact
    <1>1. IInv => RepliesExact
        BY DEF IInv, DownInv
    <1>2. QED
        BY <1>1, Invariant, PTL

\* Once a worker has moved past a message, its buffer holds the reduction.
THEOREM ExactMemory == Spec => []MemoryExact
    <1>1. IInv => MemoryExact
        <2> SUFFICES ASSUME IInv, NEW w \in Workers, NEW m \in 1 .. Completed(w)
                     PROVE  mem[w][m].d0 = Total(m)
            BY DEF MemoryExact
        <2>1. Completed(w) \in Nat /\ Completed(w) <= MaxMessage
            BY ConsumedFacts DEF IInv, Completed
        <2>2. m \in Messages /\ m <= Completed(w)
            BY <2>1, MaxMessageAssumption DEF Messages
        <2>3. QED
            BY <2>2, Zenon DEF IInv, MemInv
    <1>2. QED
        BY <1>1, Invariant, PTL

\* The set bit is enough for a client to tell the answer to its current
\* message from late and repeated answers to the message before.
THEOREM CurrentAccepted == Spec => []AcceptedIsCurrent
    <1>1. IInv => AcceptedIsCurrent
        <2> SUFFICES ASSUME IInv, NEW w \in Workers, NEW i \in 1 .. Len(cq[w]),
                            cq[w][i].set = slot_bit[w]
                     PROVE  cq[w][i].msg = posted[w]
            BY DEF AcceptedIsCurrent
        <2>1. TypeOK /\ ClientInv /\ CqInv
            BY DEF IInv
        <2>2. AnswerInv(w, cq[w][i].msg, cq[w][i].set) /\ cq[w][i].msg \in Nat
            BY <2>1, CqElement DEF CqInv, Messages
        <2>3. cq[w][i].msg <= posted[w] /\ posted[w] <= cq[w][i].msg + 1 /\ posted[w] \in Nat
            BY <2>1, <2>2, ConsumedFacts DEF AnswerInv
        <2>4. SetOf(cq[w][i].msg) = SetOf(posted[w])
            BY <2>1, <2>2, ZenonT(30) DEF AnswerInv, ClientInv
        <2>5. QED
            BY <2>2, <2>3, <2>4, SameSet
    <1>2. QED
        BY <1>1, Invariant, PTL

\* The entry of next_step that "shouldn't ever" be reached is not reached by
\* 256-byte packets.
THEOREM HarvestExpected == Spec => []NoUnexpectedHarvest
    <1>1. IInv => NoUnexpectedHarvest
        BY DEF IInv, RecircInv, NoUnexpectedHarvest
    <1>2. QED
        BY <1>1, Invariant, PTL

\* A set is written afresh only when every worker has taken its last result.
THEOREM OverwriteSafe == Spec => NoEarlyOverwrite
    <1> DEFINE Safe == \A w \in Workers :
                         Consume(w) /\ bitmap[Head(up[w]).set] = {} =>
                            \A v \in Workers : posted[v] >= Head(up[w]).msg - 1
    <1>1. IInv => Safe
        <2> SUFFICES ASSUME IInv, NEW w \in Workers, Consume(w), NEW v \in Workers
                     PROVE  posted[v] >= Head(up[w]).msg - 1
            OBVIOUS
        <2>1. PICK p : p = Head(up[w])
            OBVIOUS
        <2>2. p.msg \in Messages /\ (p.msg = Consumed(w) \/ p.msg = Consumed(w) + 1)
            <3>1. up[w] # << >>
                BY Zenon DEF Consume
            <3>2. QED
                BY <2>1, <3>1, ConsumePacket, ZenonT(30)
        <2>3. posted[w] <= Consumed(v) + 1 /\ p.msg <= posted[w]
            <3>1. up[w] \in Seq(WritePacket) /\ up[w] # << >>
                BY Zenon DEF IInv, TypeOK, Consume
            <3>2. 1 \in 1 .. Len(up[w]) /\ p = up[w][1]
                BY <2>1, <3>1, TailFacts
            <3>3. QED
                BY <3>2, SMTT(40) DEF IInv, UpInv, ClientInv
        <2>4. /\ Consumed(v) \in Nat /\ Consumed(v) <= posted[v]
              /\ posted[v] \in Nat /\ posted[w] \in Nat
            BY ConsumedFacts DEF IInv
        <2>5. p.msg \in Nat
            BY <2>2 DEF Messages
        <2>6. posted[v] >= p.msg - 1
            BY <2>3, <2>4, <2>5
        <2>7. QED
            BY <2>1, <2>6
    <1>2. QED
        BY <1>1, Invariant, PTL DEF NoEarlyOverwrite

\* The pass that completes a set, and no other, sends its packet on to be
\* broadcast: the count of CountWorkers agrees with the bitmap, also when it
\* is left over from the message before and when there is one worker only.
THEOREM BroadcastOnce == Spec => BroadcastOnCompletion
    <1>1. IInv /\ [Next]_vars =>
            [\A w \in Workers :
               Consume(w) =>
                ( (bitmap[Head(up[w]).set] # Workers /\ bitmap'[Head(up[w]).set] = Workers)
                  <=> (recirc' # recirc /\ HarvestStep(recirc'[Len(recirc')]) = "BROADCAST") )]_vars
        BY CompletionStep, Zenon
    <1>2. QED
        BY <1>1, Invariant, PTL DEF Spec, BroadcastOnCompletion

-------------------------------------------------------------------------------
(* Slot256 implements AllReduce.  By the inductive invariant, what a worker*)
(* has got so far are the sums of the messages it has left; so only the    *)
(* steps that move a worker on are visible in AllReduce.                   *)

Round(w) == IF finished[w] THEN MaxMessage + 1 ELSE posted[w]

Result(w) == [m \in 1 .. Completed(w) |-> mem[w][m].d0]

\* What a worker has got are the sums of the messages it has left.
ResultsExact == \A w \in Workers : Result(w) = [m \in 1 .. Completed(w) |-> Total(m)]

LEMMA InvResults == IInv => ResultsExact
    <1> SUFFICES ASSUME IInv, NEW w \in Workers
                 PROVE  Result(w) = [m \in 1 .. Completed(w) |-> Total(m)]
        BY DEF ResultsExact
    <1>1. Completed(w) \in Nat /\ Completed(w) <= MaxMessage /\ MaxMessage \in Nat
        BY ConsumedFacts DEF IInv, Completed
    <1>2. \A m \in 1 .. Completed(w) : m \in Messages /\ m <= Completed(w)
        BY <1>1 DEF Messages
    <1>3. \A m \in 1 .. Completed(w) : mem[w][m].d0 = Total(m)
        BY <1>2, Zenon DEF IInv, MemInv
    <1>4. QED
        BY <1>3 DEF Result

\* A step that moves no worker on is a stuttering step of AllReduce.
LEMMA AbstractStutter ==
    ASSUME ResultsExact, ResultsExact', UNCHANGED <<posted, finished>>
    PROVE  UNCHANGED Abstract!avars
    <1>1. \A w \in Workers : Completed(w)' = Completed(w) /\ Round(w)' = Round(w)
        BY DEF Completed, Round
    <1>2. \A w \in Workers : Result(w)' = Result(w)
        BY <1>1, ZenonT(30) DEF ResultsExact
    <1>3. QED
        BY <1>1, <1>2 DEF Abstract!avars, Round, Result

LEMMA AbstractEnter ==
    ASSUME IInv, ResultsExact, ResultsExact', NEW w \in Workers, PostInitial(w)
    PROVE  Abstract!Enter(w)
    <1>1. /\ posted[w] = 0 /\ posted' = [posted EXCEPT ![w] = 1] /\ finished' = finished
          /\ ~finished[w] /\ posted \in [Workers -> 0 .. MaxMessage]
        BY MaxMessageAssumption DEF PostInitial, PostNext, IInv, ClientInv, TypeOK
    <1>2. \A v \in Workers : Completed(v)' = Completed(v)
        BY <1>1 DEF Completed
    <1>3. \A v \in Workers : Result(v)' = Result(v)
        BY <1>2, Zenon DEF ResultsExact
    <1>4. /\ Round(w) = 0 /\ Round(w)' = 1
          /\ \A v \in Workers \ {w} : Round(v)' = Round(v)
        BY <1>1 DEF Round
    <1>5. [v \in Workers |-> Round(v)'] = [[v \in Workers |-> Round(v)] EXCEPT ![w] = 1]
        BY <1>4, Zenon
    <1>6. [v \in Workers |-> Result(v)'] = [v \in Workers |-> Result(v)]
        BY <1>3
    <1>7. QED
        BY <1>4, <1>5, <1>6 DEF Abstract!Enter, Round, Result

LEMMA AbstractLeave ==
    ASSUME IInv, ResultsExact, ResultsExact', NEW w \in Workers, HandleRecv(w)
    PROVE  Abstract!Leave(w) \/ UNCHANGED <<posted, finished>>
    <1>1. TypeOK /\ ClientInv
        BY DEF IInv
    <1>2. CASE Head(cq[w]).set # slot_bit[w]
        BY <1>2 DEF HandleRecv
    <1>3. CASE Head(cq[w]).set = slot_bit[w] /\ finished[w]
        <2>1. posted[w] = MaxMessage
            BY <1>1, <1>3 DEF ClientInv
        <2>2. UNCHANGED posted
            BY <1>1, <1>3, <2>1, ConsumedFacts DEF HandleRecv, PostNext, PostNothing
        <2>3. finished' = [finished EXCEPT ![w] = TRUE]
            BY <1>3, <2>1, Zenon DEF HandleRecv
        <2>4. finished' = finished
            BY <1>1, <1>3, <2>3 DEF TypeOK
        <2>5. QED
            BY <2>2, <2>4
    <1>4. CASE Head(cq[w]).set = slot_bit[w] /\ ~finished[w]
        <2>1. posted[w] \in Nat /\ posted[w] <= MaxMessage /\ MaxMessage \in Nat
            BY <1>1, ConsumedFacts
        <2>2. posted[w] > 0 /\ \A v \in Workers : Consumed(v) >= posted[w]
            BY <1>4, AcceptFacts DEF HandleRecv
        <2>3. Round(w) = posted[w] /\ \A v \in Workers : Round(v) >= Round(w)
            BY <1>1, <1>4, <2>1, <2>2, ConsumedFacts DEF Round
        <2>4. finished' = [finished EXCEPT ![w] = (posted[w] = MaxMessage)]
            BY <1>4 DEF HandleRecv
        <2>5. \/ posted[w] < MaxMessage /\ posted' = [posted EXCEPT ![w] = posted[w] + 1]
              \/ posted[w] = MaxMessage /\ posted' = posted
            BY <1>4 DEF HandleRecv, PostNext, PostNothing
        <2>6. \A v \in Workers \ {w} : posted'[v] = posted[v] /\ finished'[v] = finished[v]
            BY <1>1, <2>4, <2>5 DEF TypeOK
        <2>7. Round(w)' = posted[w] + 1 /\ Completed(w)' = posted[w]
            <3>1. CASE posted[w] < MaxMessage
                <4>1. posted[w] # MaxMessage
                    BY <2>1, <3>1
                <4>2. ~finished'[w]
                    BY <1>1, <2>4, <4>1, ZenonT(30) DEF TypeOK
                <4>3. posted'[w] = posted[w] + 1
                    BY <1>1, <2>5, <4>1 DEF TypeOK
                <4>4. QED
                    BY <2>1, <4>2, <4>3 DEF Round, Completed
            <3>2. CASE posted[w] = MaxMessage
                <4>1. finished'[w]
                    BY <1>1, <2>4, <3>2, ZenonT(30) DEF TypeOK
                <4>2. QED
                    BY <3>2, <4>1 DEF Round, Completed
            <3>3. QED
                BY <2>1, <3>1, <3>2
        <2>8. \A v \in Workers \ {w} : Round(v)' = Round(v) /\ Completed(v)' = Completed(v)
            BY <2>6 DEF Round, Completed
        <2>9. [v \in Workers |-> Round(v)'] = [[v \in Workers |-> Round(v)] EXCEPT ![w] = Round(w) + 1]
            BY <2>3, <2>7, <2>8, Zenon
        <2>10. \A v \in Workers \ {w} : Result(v)' = Result(v)
            BY <2>8, Zenon DEF ResultsExact
        <2>11. Result(w)' = [m \in 1 .. Round(w) |-> [n \in Messages |-> Total(n)][m]]
            <3>1. Result(w)' = [m \in 1 .. Round(w) |-> Total(m)]
                BY <2>3, <2>7 DEF ResultsExact
            <3>2. \A m \in 1 .. Round(w) : m \in Messages
                BY <2>1, <2>3 DEF Messages
            <3>3. QED
                BY <3>1, <3>2
        <2>12. [v \in Workers |-> Result(v)'] =
                 [[v \in Workers |-> Result(v)] EXCEPT
                    ![w] = [m \in 1 .. Round(w) |-> [n \in Messages |-> Total(n)][m]]]
            BY <2>10, <2>11, Zenon
        <2>13. Round(w) \in 1 .. MaxMessage
            BY <2>1, <2>2, <2>3
        <2>14. Abstract!Leave(w)
            BY <2>3, <2>9, <2>12, <2>13 DEF Abstract!Leave, Round, Result
        <2>15. QED
            BY <2>14
    <1>5. QED
        BY <1>2, <1>3, <1>4

\* The slot implements AllReduce: a worker leaves a message only after every
\* worker has entered it, and with the sum of all inputs, whatever packets
\* are lost, late or sent twice.
THEOREM Refinement == Spec => ImplementsAllReduce
    <1>1. Init => Abstract!AInit
        <2> SUFFICES ASSUME Init
                     PROVE  Abstract!AInit
            OBVIOUS
        <2>1. \A w \in Workers : Round(w) = 0 /\ Completed(w) = 0
            BY DEF Init, Round, Completed
        <2>2. ResultsExact
            BY InitInv, InvResults
        <2>3. \A w \in Workers : Result(w) = [m \in 1 .. 0 |-> [n \in Messages |-> Total(n)][m]]
            BY <2>1, <2>2 DEF ResultsExact
        <2>4. QED
            BY <2>1, <2>3 DEF Abstract!AInit, Round, Result
    <1>2. ASSUME IInv, ResultsExact, ResultsExact', [Next]_vars
          PROVE  [Abstract!ANext]_(Abstract!avars)
        <2>1. ASSUME UNCHANGED <<posted, finished>>
              PROVE  [Abstract!ANext]_(Abstract!avars)
            BY <1>2, <2>1, AbstractStutter
        <2>2. ASSUME NEW w \in Workers, PostInitial(w)
              PROVE  [Abstract!ANext]_(Abstract!avars)
            BY <1>2, <2>2, AbstractEnter DEF Abstract!ANext
        <2>3. ASSUME NEW w \in Workers, HandleRecv(w)
              PROVE  [Abstract!ANext]_(Abstract!avars)
            BY <1>2, <2>1, <2>3, AbstractLeave, SMTT(40) DEF Abstract!ANext
        <2>4. ASSUME NEW w \in Workers,
                     Repost(w) \/ RdmaWrite(w) \/ Consume(w) \/ LoseUp(w) \/ LoseDown(w)
              PROVE  UNCHANGED <<posted, finished>>
            BY <2>4, Zenon DEF Repost, RdmaWrite, Consume, LoseUp, LoseDown, client_vars
        <2>5. ASSUME Harvest \/ LoseRecirc \/ UNCHANGED vars
              PROVE  UNCHANGED <<posted, finished>>
            BY <2>5 DEF Harvest, LoseRecirc, client_vars, vars
        <2>6. QED
            BY <1>2, <2>1, <2>2, <2>3, <2>4, <2>5 DEF Next, Worker, Loss
    <1>3. QED
        BY <1>1, <1>2, Invariant, InvResults, PTL DEF Spec, ImplementsAllReduce, Abstract!ASpec
===============================================================================
