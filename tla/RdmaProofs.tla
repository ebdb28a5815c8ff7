------------------------------- MODULE RdmaProofs -------------------------------
(***************************************************************************)
(* Proofs about RdmaMessages, for every set-up: any ranks, queues, message *)
(* lengths, numbers of packets and of jobs, losses and order of arrival.   *)
(*                                                                         *)
(* The argument about a slot has two halves.  Consecutive packets of a     *)
(* queue pair, the second of which relies on the register, belong to the   *)
(* same message (InSequence).  And the register of a queue pair is marked  *)
(* as in error, or it is as the switch started with it (Untouched), or it  *)
(* expects the packet after the last one that arrived, for the next slot   *)
(* (Followed).  Sequence numbers come round, so that a packet is           *)
(* recognised by its number only among those Recent lets be under way.     *)
(***************************************************************************)
EXTENDS RdmaMessages, TLAPS

USE SMTT(30), ZenonT(20)

Index(c) == QpIndex(SwitchQpn(c))
Register(c) == receiver[Index(c)]

(* What the index of a queue pair is made of. *)
RankNumbers == 0..31
QueueNumbers == 0..511
RowOf(rank, queue) == rank * QueuesPerWorker + queue

(* A packet that relies on the register. *)
Later(p) == p.opcode \in {"middle", "last"}

(* The sequence number of packet k of c, counted from the start of the job. *)
Number(c, k) == (start[c] + k) % PsnModulus

PacketInv(p) ==
    /\ p.from \in Clients /\ p.qpn = SwitchQpn(p.from)
    /\ p.about.number \in Nat /\ p.about.number < sent[p.from]
    /\ sent[p.from] - p.about.number <= Span
    /\ p.psn = Number(p.from, p.about.number)
    /\ p.opcode \in {"first", "only", "middle", "last"}
    /\ \E set \in {0, 1}, i \in 0 .. PacketsPerMessage - 1 :
        p.about.slot = Rkey(p.from[2], set) + 2 * i
    /\ ~ Later(p) => p.rkey = p.about.slot

InSequence ==
    \A p, q \in net :
        p.from = q.from /\ Later(p) /\ p.about.number = q.about.number + 1
        => p.about.slot = q.about.slot + 2

HeardInv(c) == -1 <= heard[c] /\ heard[c] < sent[c] /\ sent[c] - heard[c] <= Span

Untouched(c) == jobs = 1 /\ heard[c] = -1 /\ Register(c).next = 0

Followed(c) ==
    /\ heard[c] # -1 /\ Register(c).next = Number(c, heard[c] + 1)
    /\ \A p \in UnderWay(c) : Later(p) /\ p.about.number = heard[c] + 1
                              => p.about.slot = Register(c).pool_index + 2

(* In a later job nothing is known of the register until a first packet. *)
Known(c) == jobs = 1 \/ begun[c]

RegisterInv(c) ==
    Known(c) => Register(c).pool_index >= ErrorBit \/ Untouched(c) \/ Followed(c)

TypeInv ==
    /\ config \in Configs /\ jobs \in Nat \ {0}
    /\ start \in [Clients -> 1 .. PsnModulus \div 2] /\ sent \in [Clients -> Nat]
    /\ heard \in [Clients -> Int] /\ begun \in [Clients -> BOOLEAN]
    /\ message \in [Clients -> [set : {0, 1}, length : 0 .. PacketsPerMessage, missing : SUBSET Nat]]
    /\ receiver \in [UsedIndices -> [next : Int, pool_index : Nat]]

RdmaInv ==
    /\ TypeInv /\ (\A p \in net : PacketInv(p)) /\ InSequence
    /\ \A c \in Clients : HeardInv(c) /\ RegisterInv(c)
    /\ SlotExact /\ ReplyQueueExact

(* No counter is shared: the counters of a queue pair are its tally, and   *)
(* the others are zero.                                                    *)
CounterInv ==
    /\ DOMAIN counter = UsedIndices /\ DOMAIN tally = Clients
    /\ \A c \in Clients : counter[Index(c)] = tally[c]
    /\ \A i \in UsedIndices : (\A c \in Clients : i # Index(c)) => counter[i] = NoCount

----------------------------------------------------------------------------
(* Numbers.                                                                *)

(* What is assumed of a set-up, in the words of the model. *)
LEMMA ConfigFacts ==
    ASSUME config \in Configs
    PROVE  /\ Ranks \subseteq 0..31 /\ Queues \in 1..512
           /\ PacketsPerMessage \in Nat \ {0} /\ Queues * (2 * PacketsPerMessage) <= PoolIndices
           /\ Lengths \subseteq 1 .. PacketsPerMessage
           /\ PsnModulus \in Nat \ {0} /\ InitialPsns \subseteq 1 .. PsnModulus \div 2
           /\ Span \in Nat \ {0} /\ Span <= PsnModulus \div 2
           /\ \A a \in Arguments : a.start \in Nat /\ a.count \in Nat /\ a.start + a.count <= 512
BY RdmaAssumption DEF Ranks, Queues, PacketsPerMessage, Lengths, PsnModulus, InitialPsns,
   Span, Arguments, QueuesPerWorker

(* The remainder of a number whose quotient is known. *)
LEMMA Remainder ==
    ASSUME NEW d \in Nat \ {0}, NEW q \in Nat, NEW r \in 0 .. d - 1
    PROVE  (q * d + r) % d = r
<1>1. PICK a \in Nat : a = q * d
  BY SMT
<1>2. (a + r) = d * ((a + r) \div d) + ((a + r) % d) /\ ((a + r) % d) \in 0 .. d - 1
      /\ ((a + r) \div d) \in Int
  BY <1>1, SMT
<1>3. PICK k \in Int, m \in 0 .. d - 1 : a + r = d * k + m /\ m = (a + r) % d
  BY <1>2, Zenon
<1>4. d * q + r = d * k + m
  BY <1>1, <1>3, SMT
<1>5. q = k
  <2>1. CASE q < k
    <3>1. d * (k - q) >= d
      BY <2>1, SMT
    <3> QED
      BY <1>4, <3>1, SMT
  <2>2. CASE k < q
    <3>1. d * (q - k) >= d
      BY <2>2, SMT
    <3> QED
      BY <1>4, <3>1, SMT
  <2> QED
    BY <2>1, <2>2
<1> QED
  BY <1>1, <1>3, <1>4, <1>5, SMT

LEMMA ClientFacts ==
    ASSUME config \in Configs, NEW c \in Clients
    PROVE  /\ c[1] \in Ranks /\ c[1] \in RankNumbers /\ c = <<c[1], c[2]>>
           /\ c[2] \in QueueNumbers /\ c[2] \in Nat /\ c[2] \in 0 .. Queues - 1
<1>1. c[1] \in Ranks /\ c[2] \in 0 .. Queues - 1 /\ c = <<c[1], c[2]>>
  BY DEF Clients
<1>2. c[1] \in RankNumbers
  BY <1>1, ConfigFacts DEF RankNumbers
<1>3. c[2] \in QueueNumbers /\ c[2] \in Nat
  BY <1>1, ConfigFacts DEF QueueNumbers
<1> QED
  BY <1>1, <1>2, <1>3

LEMMA RowUnique ==
    ASSUME NEW r \in RankNumbers, NEW q \in QueueNumbers,
           NEW s \in RankNumbers, NEW t \in QueueNumbers, RowOf(r, q) = RowOf(s, t)
    PROVE  r = s /\ q = t
BY SMT DEF RankNumbers, QueueNumbers, RowOf, QueuesPerWorker

LEMMA RowParts ==
    ASSUME NEW r \in RankNumbers, NEW q \in QueueNumbers
    PROVE  RowOf(r, q) \div QueuesPerWorker = r /\ RowOf(r, q) % QueuesPerWorker = q
BY SMT DEF RankNumbers, QueueNumbers, RowOf, QueuesPerWorker

(* The bits of the number of a queue pair. *)
LEMMA QpnParts ==
    ASSUME NEW r \in RankNumbers, NEW q \in QueueNumbers, NEW n, n = 8388608 + r * 65536 + q
    PROVE  /\ n \div 65536 = 128 + r /\ QpIndex(n) = RowOf(r, q)
           /\ \A x \in RankNumbers : n \div 65536 = 128 + (x % 256) <=> x = r
<1>1. n \div 65536 = 128 + r
  BY SMT DEF RankNumbers, QueueNumbers
<1>2. n % 512 = q
  BY SMT DEF RankNumbers, QueueNumbers
<1>3. (128 + r) % 32 = r
  BY SMT DEF RankNumbers
<1>4. QpIndex(n) = RowOf(r, q)
  BY <1>1, <1>2, <1>3, SMT DEF QpIndex, RowOf, QueuesPerWorker
<1>5. \A x \in RankNumbers : 128 + r = 128 + (x % 256) <=> x = r
  BY SMT DEF RankNumbers
<1> QED
  BY <1>1, <1>4, <1>5, SMT

(* QP_INDEX keeps the queue pairs of all workers apart, and the number of  *)
(* a queue pair matches the entry of its own worker only.                  *)
LEMMA IndexValue ==
    ASSUME config \in Configs, NEW c \in Clients
    PROVE  /\ Index(c) = RowOf(c[1], c[2])
           /\ Index(c) \in UsedIndices
           /\ Matching(SwitchQpn(c)) = {c[1]}
<1>1. PICK r \in RankNumbers, q \in QueueNumbers : r = c[1] /\ q = c[2]
  BY ClientFacts
<1>2. PICK n : n = SwitchQpn(c) /\ n = 8388608 + r * 65536 + q
  BY <1>1, SMT DEF SwitchQpn
<1>3. Index(c) = RowOf(c[1], c[2])
  BY <1>1, <1>2, QpnParts, SMT DEF Index
<1>4. Index(c) \in UsedIndices
  BY DEF UsedIndices, Index
<1>5. Matching(n) = {r}
  <2>1. r \in Ranks /\ Ranks \subseteq RankNumbers
    BY <1>1, ClientFacts, ConfigFacts DEF RankNumbers
  <2>2. \A x \in RankNumbers : n \div 65536 = 128 + (x % 256) <=> x = r
    BY <1>2, QpnParts, SMT
  <2> QED
    BY <2>1, <2>2, SMT DEF Matching
<1> QED
  BY <1>1, <1>2, <1>3, <1>4, <1>5, SMT

LEMMA IndexInjective ==
    ASSUME config \in Configs, NEW c \in Clients, NEW d \in Clients, Index(c) = Index(d)
    PROVE  c = d
<1>1. PICK r \in RankNumbers, q \in QueueNumbers :
        r = c[1] /\ q = c[2] /\ c = <<r, q>> /\ Index(c) = RowOf(r, q)
  BY ClientFacts, IndexValue
<1>2. PICK s \in RankNumbers, t \in QueueNumbers :
        s = d[1] /\ t = d[2] /\ d = <<s, t>> /\ Index(d) = RowOf(s, t)
  BY ClientFacts, IndexValue
<1>3. RowOf(r, q) = RowOf(s, t)
  BY <1>1, <1>2, Zenon
<1>4. r = s /\ q = t
  BY <1>3, RowUnique, ZenonT(30)
<1> QED
  BY <1>1, <1>2, <1>4

LEMMA MaskLeaves ==
    ASSUME NEW d \in Nat \ {0}, NEW q \in Nat, NEW r \in 0 .. d - 1, NEW M \in Nat,
           q * d + d <= M
    PROVE  /\ q * d + r \in 0 .. M - 1 /\ (q * d + r) % M = q * d + r
           /\ ((q * d + r) % M) - ((q * d + r) % d) = q * d
<1>1. PICK a \in Nat : a = q * d
  OBVIOUS
<1>2. (a + r) % d = r
  BY <1>1, Remainder
<1>3. a + r \in 0 .. M - 1
  BY <1>1
<1>4. (a + r) % M = a + r
  BY <1>3, SMT
<1>5. (a + r) - r = a
  OBVIOUS
<1> QED
  BY <1>1, <1>2, <1>3, <1>4, <1>5

LEMMA Cancelled ==
    ASSUME NEW d \in Nat \ {0}, NEW q \in Int, NEW k \in Int, k * d = q * d
    PROVE  k = q
<1>1. CASE k < q
  <2>1. d * (q - k) >= d
    BY <1>1
  <2> QED
    BY <2>1
<1>2. CASE q < k
  <2>1. d * (k - q) >= d
    BY <1>2
  <2> QED
    BY <2>1
<1> QED
  BY <1>1, <1>2

(* The entry of a queue pair matches the slots of its messages, those of   *)
(* both sets, and no other entry does.                                     *)
LEMMA ReplyQueue ==
    ASSUME config \in Configs, NEW q \in 0 .. Queues - 1, NEW set \in {0, 1},
           NEW i \in 0 .. PacketsPerMessage - 1, NEW slot, slot = Rkey(q, set) + 2 * i
    PROVE  /\ slot \in 0 .. PoolIndices - 1 /\ slot % PoolIndices = slot
           /\ ReplyQueues(slot) = {q}
<1>1. PICK P, Q, M : P = PacketsPerMessage /\ Q = Queues /\ M = PoolIndices
  OBVIOUS
<1>2. P \in Nat \ {0} /\ Q \in Nat /\ Q * (2 * P) <= M /\ M \in Nat
  <2>1. PoolIndices \in Nat
    BY DEF PoolIndices
  <2> QED
    BY <1>1, <2>1, ConfigFacts
<1>3. PICK d, r : d = 2 * P /\ r = set + 2 * i
  OBVIOUS
<1>4. /\ q \in 0 .. Q - 1 /\ q \in Nat /\ d \in Nat \ {0} /\ r \in 0 .. d - 1
      /\ slot = q * d + r /\ Q * d <= M
  <2>1. q \in 0 .. Q - 1 /\ i \in 0 .. P - 1 /\ slot = q * P * 2 + set + 2 * i
    BY <1>1, Zenon DEF Rkey
  <2> QED
    BY <1>2, <1>3, <2>1
<1>5. q * d + d <= M
  <2>1. (Q - (q + 1)) * d >= 0
    BY <1>2, <1>4
  <2> QED
    BY <1>2, <1>4, <2>1
<1>6. /\ q * d + r \in 0 .. M - 1 /\ (q * d + r) % M = q * d + r
      /\ ((q * d + r) % M) - ((q * d + r) % d) = q * d
  BY <1>2, <1>4, <1>5, MaskLeaves, ZenonT(30)
<1>7. Masked(slot) = q * d
  BY <1>1, <1>3, <1>4, <1>6, Zenon DEF Masked
<1>8. \A k \in 0 .. Q - 1 : k * d = q * d <=> k = q
  <2>1. q \in Int /\ \A k \in 0 .. Q - 1 : k \in Int
    BY <1>2, <1>4
  <2> QED
    BY <1>4, <2>1, Cancelled
<1>9. \A k \in 0 .. Q - 1 : ShiftedIndex(k) = Masked(slot) <=> k = q
  BY <1>1, <1>3, <1>7, <1>8, Zenon DEF ShiftedIndex
<1>10. ReplyQueues(slot) = {q}
  BY <1>1, <1>4, <1>9, Zenon DEF ReplyQueues
<1> QED
  BY <1>1, <1>4, <1>6, <1>10, Zenon

----------------------------------------------------------------------------
(* Sequence numbers.                                                       *)

(* Of numbers less than a round apart, no two are congruent. *)
LEMMA Congruent ==
    ASSUME NEW N \in Nat \ {0}, NEW x \in Nat, NEW a \in Nat, NEW b \in Nat,
           a - b < N, b - a < N, (x + a) % N = (x + b) % N
    PROVE  a = b
<1>1. PICK i \in Int, k \in Int, m \in Int : x + a = N * i + m /\ x + b = N * k + m
  <2>1. /\ x + a = N * ((x + a) \div N) + ((x + a) % N) /\ ((x + a) \div N) \in Int
        /\ ((x + a) % N) \in Int
        /\ x + b = N * ((x + b) \div N) + ((x + b) % N) /\ ((x + b) \div N) \in Int
    BY SMT
  <2> QED
    BY <2>1, Zenon
<1>2. CASE i < k
  <2>1. N * (k - i) >= N
    BY <1>2, SMT
  <2> QED
    BY <1>1, <2>1, SMT
<1>3. CASE k < i
  <2>1. N * (i - k) >= N
    BY <1>3, SMT
  <2> QED
    BY <1>1, <2>1, SMT
<1> QED
  BY <1>1, <1>2, <1>3, SMT

LEMMA NextNumber ==
    ASSUME NEW N \in Nat \ {0}, NEW y \in Nat
    PROVE  (y + 1) % N = (IF y % N = N - 1 THEN 0 ELSE (y % N) + 1) /\ y % N \in 0 .. N - 1
<1>1. PICK q \in Nat, m \in 0 .. N - 1 : y = q * N + m /\ m = y % N
  <2>1. y = (y \div N) * N + (y % N) /\ (y \div N) \in Nat /\ (y % N) \in 0 .. N - 1
    BY SMT
  <2> QED
    BY <2>1, Zenon
<1>2. CASE m = N - 1
  <2>1. ((q + 1) * N + 0) % N = 0
    <3>1. q + 1 \in Nat /\ 0 \in 0 .. N - 1
      OBVIOUS
    <3> QED
      BY <3>1, Remainder, Zenon
  <2>2. y + 1 = (q + 1) * N + 0
    <3>1. PICK a \in Nat : a = q * N
      BY SMT
    <3>2. (q + 1) * N = q * N + N
      BY SMT
    <3>3. y = a + (N - 1) /\ (q + 1) * N = a + N
      BY <1>1, <1>2, <3>1, <3>2, Zenon
    <3> QED
      BY <3>1, <3>3
  <2> QED
    BY <1>1, <1>2, <2>1, <2>2
<1>3. CASE m # N - 1
  <2>1. m + 1 \in 0 .. N - 1
    BY <1>3
  <2>2. (q * N + (m + 1)) % N = m + 1
    BY <2>1, Remainder, Zenon
  <2>3. y + 1 = q * N + (m + 1)
    BY <1>1, SMT
  <2> QED
    BY <1>1, <1>3, <2>2, <2>3
<1> QED
  BY <1>1, <1>2, <1>3

(* Numbers that start in the lower half do not soon come round to 0. *)
LEMMA LowerHalf ==
    ASSUME NEW N \in Nat \ {0}, NEW x \in 1 .. N \div 2, NEW k \in Nat, k < N \div 2
    PROVE  (x + k) % N # 0
<1>1. PICK h \in Nat : h = N \div 2 /\ 2 * h <= N
  OBVIOUS
<1>2. x + k \in 1 .. N - 1
  BY <1>1
<1> QED
  BY <1>2

(* What the numbers of the model are. *)
LEMMA NumberFacts ==
    ASSUME TypeInv, NEW c \in Clients, NEW k \in Nat
    PROVE  /\ Following(Number(c, k)) = Number(c, k + 1) /\ Number(c, k) \in Nat
           /\ \A j \in Nat : Number(c, k) = Number(c, j) /\ k - j < PsnModulus
                             /\ j - k < PsnModulus => k = j
           /\ k < PsnModulus \div 2 => Number(c, k) # 0
<1>1. PICK N, x : N = PsnModulus /\ x = start[c]
  OBVIOUS
<1>2. N \in Nat \ {0} /\ x \in 1 .. N \div 2 /\ x \in Nat
  <2>1. N \in Nat \ {0}
    BY <1>1, ConfigFacts DEF TypeInv
  <2>2. x \in 1 .. N \div 2
    BY <1>1 DEF TypeInv
  <2> QED
    BY <2>1, <2>2
<1>3. Following(Number(c, k)) = Number(c, k + 1) /\ Number(c, k) \in Nat
  <2>1. x + k \in Nat
    BY <1>2
  <2>2. /\ ((x + k) + 1) % N = (IF (x + k) % N = N - 1 THEN 0 ELSE ((x + k) % N) + 1)
        /\ (x + k) % N \in 0 .. N - 1
    BY <1>2, <2>1, NextNumber, Zenon
  <2>3. (x + k) + 1 = x + (k + 1)
    BY <1>2
  <2>4. Number(c, k) = (x + k) % N /\ Number(c, k + 1) = (x + (k + 1)) % N
    BY <1>1, Zenon DEF Number
  <2>5. (x + k) % N \in Nat
    BY <1>2, <2>2
  <2> QED
    BY <1>1, <2>2, <2>3, <2>4, <2>5, Zenon DEF Following
<1>4. ASSUME NEW j \in Nat, Number(c, k) = Number(c, j), k - j < N, j - k < N PROVE k = j
  <2>1. (x + k) % N = (x + j) % N
    BY <1>1, <1>4, Zenon DEF Number
  <2> QED
    BY <1>2, <1>4, <2>1, Congruent, Zenon
<1>5. k < N \div 2 => Number(c, k) # 0
  BY <1>1, <1>2, LowerHalf, Zenon DEF Number
<1> QED
  BY <1>1, <1>3, <1>4, <1>5, Zenon

----------------------------------------------------------------------------
(* Packets.                                                                *)

(* Packets.                                                                *)

LEMMA RkeyType ==
    ASSUME config \in Configs, NEW c \in Clients, NEW set \in {0, 1}
    PROVE  Rkey(c[2], set) \in Nat
<1>1. c[2] \in Nat /\ PacketsPerMessage \in Nat
  BY ConfigFacts, ClientFacts
<1> QED
  BY <1>1 DEF Rkey

LEMMA SlotType ==
    ASSUME TypeInv, NEW p, PacketInv(p)
    PROVE  p.about.slot \in Nat
<1>1. PICK set \in {0, 1}, k \in 0 .. PacketsPerMessage - 1 :
        p.about.slot = Rkey(p.from[2], set) + 2 * k
  BY DEF PacketInv
<1>2. Rkey(p.from[2], set) \in Nat
  BY RkeyType DEF TypeInv, PacketInv
<1>3. k \in Nat
  BY ConfigFacts DEF TypeInv
<1> QED
  BY <1>1, <1>2, <1>3

(* Packet i of a message. *)
LEMMA NewPacket ==
    ASSUME config \in Configs, NEW c \in Clients, NEW set \in {0, 1},
           NEW n \in 0 .. PacketsPerMessage, NEW p \in PacketsOf(c, set, n)
    PROVE  \E i \in Nat :
              /\ i < n /\ i \in 0 .. PacketsPerMessage - 1
              /\ p.from = c /\ p.qpn = SwitchQpn(c)
              /\ p.about.number = sent[c] + i /\ p.psn = Number(c, sent[c] + i)
              /\ p.opcode \in {"first", "only", "middle", "last"}
              /\ p.about.slot = Rkey(c[2], set) + 2 * i
              /\ Later(p) => i >= 1
              /\ ~ Later(p) => p.rkey = p.about.slot
<1>1. PacketsPerMessage \in Nat
  BY ConfigFacts
<1>2. PICK i \in 0 .. n - 1 :
        p = [from |-> c, qpn |-> SwitchQpn(c), psn |-> (start[c] + (sent[c] + i)) % PsnModulus,
             opcode |-> Opcode(i, n), rkey |-> IF i = 0 THEN Rkey(c[2], set) ELSE -1,
             about |-> [slot |-> Rkey(c[2], set) + 2 * i, position |-> i, number |-> sent[c] + i]]
  BY DEF PacketsOf
<1>3. i \in Nat /\ i < n /\ i \in 0 .. PacketsPerMessage - 1
  BY <1>1
<1>4. /\ p.from = c /\ p.qpn = SwitchQpn(c) /\ p.psn = Number(c, sent[c] + i)
      /\ p.opcode = Opcode(i, n) /\ p.about.slot = Rkey(c[2], set) + 2 * i
      /\ p.rkey = (IF i = 0 THEN Rkey(c[2], set) ELSE -1) /\ p.about.number = sent[c] + i
  BY <1>2 DEF Number
<1>5. /\ p.opcode \in {"first", "only", "middle", "last"}
      /\ Later(p) => i >= 1
      /\ ~ Later(p) => i = 0
  BY <1>1, <1>3, <1>4 DEF Opcode, Later
<1>6. i = 0 => p.rkey = p.about.slot
  BY <1>4, RkeyType
<1> QED
  BY <1>3, <1>4, <1>5, <1>6

(* What depends on the set-up only. *)
LEMMA SameConfig ==
    ASSUME config' = config
    PROVE  /\ Clients' = Clients /\ UsedIndices' = UsedIndices /\ Arguments' = Arguments
           /\ PsnModulus' = PsnModulus /\ PacketsPerMessage' = PacketsPerMessage
           /\ Span' = Span
           /\ \A q, set : Rkey(q, set)' = Rkey(q, set)
           /\ \A x : ReplyQueues(x)' = ReplyQueues(x)
BY DEF Clients, UsedIndices, Ids, Arguments, PsnModulus, PacketsPerMessage, Span,
       Rkey, ReplyQueues, ShiftedIndex, Masked, Ranks, Queues

LEMMA SamePacket ==
    ASSUME config' = config, NEW p, PacketInv(p), start' = start, sent'[p.from] = sent[p.from]
    PROVE  PacketInv(p)'
BY SameConfig DEF PacketInv, Number, Later

(* Queue pairs a step has nothing to do with. *)
LEMMA SameRegister ==
    ASSUME config' = config, start' = start, jobs' = jobs, NEW d,
           Register(d)' = Register(d), UnderWay(d)' \subseteq UnderWay(d),
           heard'[d] = heard[d], begun'[d] = begun[d], RegisterInv(d)
    PROVE  RegisterInv(d)'
<1>1. Untouched(d) => Untouched(d)'
  BY DEF Untouched
<1>2. Followed(d) => Followed(d)'
  BY SameConfig DEF Followed, Number, Later
<1> QED
  BY <1>1, <1>2 DEF RegisterInv, Known, ErrorBit

----------------------------------------------------------------------------
(* A message is sent.                                                      *)

LEMMA SendFacts ==
    ASSUME TypeInv, NEW c \in Clients, NEW set \in {0, 1}, NEW n \in 0 .. PacketsPerMessage,
           Send(c, set, n)
    PROVE  /\ config \in Configs /\ n \in Nat /\ sent[c] \in Nat
           /\ sent'[c] = sent[c] + n /\ sent' \in [Clients -> Nat]
           /\ \A d \in Clients : d # c => sent'[d] = sent[d]
           /\ net' = net \cup PacketsOf(c, set, n)
           /\ sent[c] + n - heard[c] <= Span
           /\ \A p \in UnderWay(c) : sent[c] + n - p.about.number <= Span
           /\ UNCHANGED <<config, start, receiver, heard, begun, taken, jobs>>
<1>1. config \in Configs /\ n \in Nat /\ sent \in [Clients -> Nat]
  BY ConfigFacts DEF TypeInv
<1>2. /\ sent' = [sent EXCEPT ![c] = sent[c] + n]
      /\ net' = net \cup PacketsOf(c, set, n)
      /\ sent[c] + n - heard[c] <= Span
      /\ \A p \in UnderWay(c) : sent[c] + n - p.about.number <= Span
      /\ UNCHANGED <<config, start, receiver, heard, begun, taken, jobs>>
  BY Zenon DEF Send, Recent, history
<1>3. sent[c] \in Nat /\ sent[c] + n \in Nat
  BY <1>1
<1>4. sent'[c] = sent[c] + n /\ sent' \in [Clients -> Nat]
      /\ \A d \in Clients : d # c => sent'[d] = sent[d]
  BY <1>1, <1>2, <1>3, Zenon
<1> QED
  BY <1>1, <1>2, <1>3, <1>4, Zenon

LEMMA SendPackets ==
    ASSUME TypeInv, NEW c \in Clients, NEW set \in {0, 1}, NEW n \in 0 .. PacketsPerMessage,
           Send(c, set, n), \A p \in net : PacketInv(p), HeardInv(c), NEW p \in net'
    PROVE  PacketInv(p)'
<1>1. /\ config \in Configs /\ config' = config /\ start' = start /\ n \in Nat /\ sent[c] \in Nat
      /\ sent'[c] = sent[c] + n /\ net' = net \cup PacketsOf(c, set, n)
  BY SendFacts, Zenon
<1>2. CASE p \in net /\ p.from # c
  <2>1. p.from \in Clients
    BY <1>2 DEF PacketInv
  <2>2. sent'[p.from] = sent[p.from]
    BY <1>2, <2>1, SendFacts
  <2> QED
    BY <1>1, <1>2, <2>2, SamePacket
<1>3. CASE p \in net /\ p.from = c
  <2>1. PacketInv(p)
    BY <1>3
  <2>2. sent[c] + n - p.about.number <= Span
    BY <1>3, SendFacts DEF UnderWay
  <2>3. p.about.number \in Nat /\ p.about.number < sent[c]
    BY <1>3, <2>1 DEF PacketInv
  <2>4. p.about.number < sent'[c] /\ sent'[c] - p.about.number <= Span
    BY <1>1, <2>2, <2>3
  <2>5. p.psn = Number(c, p.about.number)'
    BY <1>1, <1>3, <2>1, SameConfig DEF PacketInv, Number
  <2> QED
    BY <1>1, <1>3, <2>1, <2>3, <2>4, <2>5, SameConfig DEF PacketInv, Later
<1>4. CASE p \in PacketsOf(c, set, n)
  <2>1. PICK i \in Nat :
              /\ i < n /\ i \in 0 .. PacketsPerMessage - 1
              /\ p.from = c /\ p.qpn = SwitchQpn(c)
              /\ p.about.number = sent[c] + i /\ p.psn = Number(c, sent[c] + i)
              /\ p.opcode \in {"first", "only", "middle", "last"}
              /\ p.about.slot = Rkey(c[2], set) + 2 * i
              /\ Later(p) => i >= 1
              /\ ~ Later(p) => p.rkey = p.about.slot
    BY <1>1, <1>4, NewPacket
  <2>2. p.about.number \in Nat /\ p.about.number < sent'[c] /\ sent'[c] - p.about.number <= Span
    <3>1. sent[c] + n - heard[c] <= Span /\ heard[c] < sent[c] /\ heard[c] \in Int /\ Span \in Nat
      BY <1>1, SendFacts, ConfigFacts DEF HeardInv, TypeInv
    <3> QED
      BY <1>1, <2>1, <3>1
  <2>3. p.psn = Number(c, p.about.number)'
    BY <1>1, <2>1, SameConfig DEF Number
  <2>4. \E s \in {0, 1}, k \in 0 .. PacketsPerMessage - 1 :
            p.about.slot = Rkey(p.from[2], s) + 2 * k
    BY <2>1
  <2> QED
    BY <1>1, <2>1, <2>2, <2>3, <2>4, SameConfig, ZenonT(30) DEF PacketInv, Later
<1> QED
  BY <1>1, <1>2, <1>3, <1>4

LEMMA SendInSequence ==
    ASSUME TypeInv, NEW c \in Clients, NEW set \in {0, 1}, NEW n \in 0 .. PacketsPerMessage,
           Send(c, set, n), \A p \in net : PacketInv(p), InSequence
    PROVE  InSequence'
<1>1. config \in Configs /\ net' = net \cup PacketsOf(c, set, n) /\ sent[c] \in Nat
  BY SendFacts
<1>2. ASSUME NEW p \in net', NEW q \in net', p.from = q.from, Later(p),
             p.about.number = q.about.number + 1
      PROVE  p.about.slot = q.about.slot + 2
  <2>1. CASE p \in net /\ q \in net
    BY <1>2, <2>1 DEF InSequence
  <2>2. ASSUME NEW r \in PacketsOf(c, set, n)
        PROVE  \E i \in Nat : /\ r.from = c /\ r.about.number = sent[c] + i
                              /\ r.about.slot = Rkey(c[2], set) + 2 * i /\ (Later(r) => i >= 1)
    BY <1>1, NewPacket
  <2>3. ASSUME NEW r \in net, r.from = c PROVE r.about.number \in Nat /\ r.about.number < sent[c]
    BY <2>3 DEF PacketInv
  <2>4. CASE p \in PacketsOf(c, set, n) /\ q \in PacketsOf(c, set, n)
    <3>1. PICK i \in Nat : p.about.number = sent[c] + i /\ p.about.slot = Rkey(c[2], set) + 2 * i
      BY <2>2, <2>4
    <3>2. PICK j \in Nat : q.about.number = sent[c] + j /\ q.about.slot = Rkey(c[2], set) + 2 * j
      BY <2>2, <2>4
    <3>3. i = j + 1
      BY <1>1, <1>2, <3>1, <3>2
    <3>4. Rkey(c[2], set) \in Nat
      BY <1>1, RkeyType
    <3> QED
      BY <3>1, <3>2, <3>3, <3>4
  <2>5. CASE p \in PacketsOf(c, set, n) /\ q \in net
    <3>1. PICK i \in Nat : p.from = c /\ p.about.number = sent[c] + i /\ i >= 1
      BY <1>2, <2>2, <2>5
    <3>2. q.about.number \in Nat /\ q.about.number < sent[c]
      BY <1>2, <2>3, <2>5, <3>1, Zenon
    <3> QED
      BY <1>1, <1>2, <3>1, <3>2
  <2>6. CASE p \in net /\ q \in PacketsOf(c, set, n)
    <3>1. PICK i \in Nat : q.from = c /\ q.about.number = sent[c] + i
      BY <2>2, <2>6
    <3>2. p.about.number \in Nat /\ p.about.number < sent[c]
      BY <1>2, <2>3, <2>6, <3>1
    <3> QED
      BY <1>1, <1>2, <3>1, <3>2
  <2> QED
    BY <1>1, <2>1, <2>4, <2>5, <2>6
<1> QED
  BY <1>2 DEF InSequence, Later

LEMMA SendRegister ==
    ASSUME TypeInv, NEW c \in Clients, NEW set \in {0, 1}, NEW n \in 0 .. PacketsPerMessage,
           Send(c, set, n), NEW d \in Clients, HeardInv(d), RegisterInv(d)
    PROVE  HeardInv(d)' /\ RegisterInv(d)'
<1>1. /\ config \in Configs /\ n \in Nat /\ net' = net \cup PacketsOf(c, set, n)
      /\ UNCHANGED <<config, start, receiver, heard, begun, jobs>>
      /\ sent[d] \in Nat /\ heard[d] \in Int
  BY SendFacts DEF TypeInv
<1>2. Register(d)' = Register(d) /\ Span' = Span
  BY <1>1, SameConfig DEF Register, Index, QpIndex, SwitchQpn
<1>3. CASE d # c
  <2>1. sent'[d] = sent[d]
    BY <1>3, SendFacts
  <2>2. UnderWay(d)' = UnderWay(d)
    <3>1. \A p \in PacketsOf(c, set, n) : p.from = c
      BY <1>1, NewPacket
    <3> QED
      BY <1>1, <1>3, <3>1 DEF UnderWay
  <2> QED
    BY <1>1, <1>2, <2>1, <2>2, SameRegister DEF HeardInv
<1>4. CASE d = c
  <2>1. HeardInv(d)'
    BY <1>1, <1>2, <1>4, SendFacts DEF HeardInv
  <2>2. Untouched(d) => Untouched(d)'
    BY <1>1, <1>2 DEF Untouched
  <2>3. ASSUME Followed(d) PROVE Followed(d)'
    <3>1. ASSUME NEW p \in UnderWay(d)', Later(p), p.about.number = heard[d] + 1
          PROVE  p \in UnderWay(d)
      <4>1. CASE p \in PacketsOf(c, set, n)
        <5>1. PICK i \in Nat : p.about.number = sent[c] + i /\ (Later(p) => i >= 1)
          BY <1>1, <4>1, NewPacket
        <5> QED
          BY <1>1, <1>4, <3>1, <5>1 DEF HeardInv
      <4> QED
        BY <1>1, <3>1, <4>1 DEF UnderWay
    <3>2. \A p \in UnderWay(d)' : Later(p) /\ p.about.number = heard[d] + 1
                                  => p.about.slot = Register(d).pool_index + 2
      BY <2>3, <3>1 DEF Followed
    <3> QED
      BY <1>1, <1>2, <2>3, <3>2, SameConfig DEF Followed, Number, Later
  <2> QED
    BY <1>1, <1>2, <2>1, <2>2, <2>3 DEF RegisterInv, Known, ErrorBit
<1> QED
  BY <1>3, <1>4

----------------------------------------------------------------------------
(* A packet arrives.                                                       *)

Value(p) == IF p.opcode \in {"first", "only"} THEN Reset(Register(p.from), p)
            ELSE Increment(Register(p.from), p)

LEMMA RegisterType ==
    ASSUME TypeInv, NEW c \in Clients
    PROVE  /\ Index(c) \in UsedIndices /\ Register(c) \in [next : Int, pool_index : Nat]
           /\ Register(c).next \in Int /\ Register(c).pool_index \in Nat
<1>1. Index(c) \in UsedIndices
  BY IndexValue DEF TypeInv
<1> QED
  BY <1>1 DEF TypeInv, Register

LEMMA ReceiveFacts ==
    ASSUME TypeInv, NEW p \in net, PacketInv(p), Receive(p)
    PROVE  /\ config \in Configs /\ p.from \in Clients /\ net' = net \ {p}
           /\ UNCHANGED <<config, start, sent, jobs>>
           /\ receiver' = [receiver EXCEPT ![Index(p.from)] = Value(p)]
           /\ heard' = [heard EXCEPT ![p.from] = p.about.number]
           /\ begun' = [begun EXCEPT ![p.from] = @ \/ p.opcode \in {"first", "only"}]
           /\ Register(p.from)' = Value(p) /\ heard'[p.from] = p.about.number
           /\ begun'[p.from] = (begun[p.from] \/ ~ Later(p))
           /\ \A d \in Clients : d # p.from =>
                Register(d)' = Register(d) /\ heard'[d] = heard[d] /\ begun'[d] = begun[d]
           /\ \/ Value(p).pool_index >= ErrorBit /\ taken' = taken /\ message' = message
              \/ /\ ~ Value(p).pool_index >= ErrorBit
                 /\ taken' = [packet |-> p, slot |-> Value(p).pool_index % PoolIndices,
                              workers |-> Matching(SwitchQpn(p.from)),
                              known |-> jobs = 1 \/ begun'[p.from]]
                 /\ message' = [message EXCEPT ![p.from].missing =
                        IF p.about.slot % 2 = message[p.from].set
                        THEN @ \ {p.about.position} ELSE @]
<1>1. config \in Configs /\ p.from \in Clients /\ p.qpn = SwitchQpn(p.from)
  BY DEF TypeInv, PacketInv
<1>2. QpIndex(p.qpn) = Index(p.from) /\ receiver[QpIndex(p.qpn)] = Register(p.from)
  BY <1>1 DEF Index, Register
<1>3. /\ UNCHANGED <<config, start, sent, jobs>> /\ net' = net \ {p}
      /\ receiver' = [receiver EXCEPT ![Index(p.from)] = Value(p)]
      /\ heard' = [heard EXCEPT ![p.from] = p.about.number]
      /\ begun' = [begun EXCEPT ![p.from] = @ \/ p.opcode \in {"first", "only"}]
  BY <1>2, Zenon DEF Receive, Value
<1>4. \/ Value(p).pool_index >= ErrorBit /\ taken' = taken /\ message' = message
      \/ /\ ~ Value(p).pool_index >= ErrorBit
         /\ taken' = [packet |-> p, slot |-> Value(p).pool_index % PoolIndices,
                      workers |-> Matching(SwitchQpn(p.from)),
                      known |-> jobs = 1 \/ begun'[p.from]]
         /\ message' = [message EXCEPT ![p.from].missing =
                IF p.about.slot % 2 = message[p.from].set
                THEN @ \ {p.about.position} ELSE @]
  BY <1>1, <1>2, Zenon DEF Receive, Value
<1>5. DOMAIN receiver = UsedIndices /\ DOMAIN heard = Clients /\ DOMAIN begun = Clients
  BY DEF TypeInv
<1>6. Register(p.from)' = Value(p)
  BY <1>1, <1>3, <1>5, RegisterType DEF Register, Index, QpIndex, SwitchQpn
<1>7. ASSUME NEW d \in Clients, d # p.from PROVE Register(d)' = Register(d)
  <2>1. Index(d) # Index(p.from)
    BY <1>1, <1>7, IndexInjective
  <2> QED
    BY <1>3, <1>5, <2>1, RegisterType DEF Register, Index, QpIndex, SwitchQpn
<1>8. heard'[p.from] = p.about.number
      /\ \A d \in Clients : d # p.from => heard'[d] = heard[d] /\ begun'[d] = begun[d]
  BY <1>1, <1>3, <1>5, Zenon
<1>9. begun'[p.from] = (begun[p.from] \/ ~ Later(p))
  <2>1. (p.opcode \in {"first", "only"}) = (~ Later(p))
    BY DEF PacketInv, Later
  <2>2. begun'[p.from] = (begun[p.from] \/ p.opcode \in {"first", "only"})
    BY <1>1, <1>3, <1>5, Zenon
  <2> QED
    BY <2>1, <2>2, Zenon
<1> QED
  BY <1>1, <1>3, <1>4, <1>6, <1>7, <1>8, <1>9, Zenon

LEMMA ValueType ==
    ASSUME TypeInv, NEW p \in net, PacketInv(p)
    PROVE  Value(p) \in [next : Int, pool_index : Nat]
<1>1. config \in Configs /\ p.from \in Clients /\ PsnModulus \in Nat \ {0}
  BY ConfigFacts DEF TypeInv, PacketInv
<1>2. PICK v : v = Register(p.from) /\ v.next \in Int /\ v.pool_index \in Nat
  BY <1>1, RegisterType
<1>3. \A y \in Int : Following(y) \in Int
  BY <1>1 DEF Following
<1>4. p.psn \in Int
  BY <1>1, NumberFacts DEF PacketInv
<1>5. CASE p.opcode \in {"first", "only"}
  <2>1. p.rkey \in Nat
    BY <1>5, SlotType DEF PacketInv, Later
  <2> QED
    BY <1>3, <1>4, <1>5, <2>1 DEF Value, Reset
<1>6. CASE p.opcode \notin {"first", "only"}
  <2>1. Value(p) = Increment(v, p) /\ ErrorBit \in Nat
    BY <1>2, <1>6 DEF Value, ErrorBit
  <2> QED
    BY <1>2, <1>3, <2>1 DEF Increment
<1> QED
  BY <1>5, <1>6

(* Where the register is known: it is in error, or it has the slot of the  *)
(* packet and expects the packet that follows.                             *)
LEMMA ReceiveValue ==
    ASSUME TypeInv, NEW p \in net, PacketInv(p), HeardInv(p.from), RegisterInv(p.from),
           Known(p.from) \/ ~ Later(p)
    PROVE  \/ Value(p).pool_index >= ErrorBit
           \/ Value(p) = [next |-> Following(p.psn), pool_index |-> p.about.slot]
<1> DEFINE c == p.from
           k == p.about.number
<1>1. PICK v : v = Register(c) /\ v.pool_index \in Nat
  BY RegisterType DEF PacketInv
<1>2. CASE ~ Later(p)
  BY <1>2 DEF Value, Reset, PacketInv, Later
<1>3. CASE Later(p)
  <2>1. Value(p) = Increment(v, p)
    BY <1>1, <1>3 DEF Value, PacketInv, Later
  <2>2. CASE p.psn # v.next
    BY <2>1, <2>2 DEF Increment, ErrorBit
  <2>3. CASE p.psn = v.next
    <3>1. Value(p) = [next |-> Following(p.psn), pool_index |-> v.pool_index + 2]
      BY <2>1, <2>3 DEF Increment
    <3>2. /\ c \in Clients /\ k \in Nat /\ k < sent[c] /\ sent[c] - k <= Span
          /\ p.psn = Number(c, k) /\ sent[c] \in Nat /\ heard[c] \in Int
          /\ -1 <= heard[c] /\ heard[c] < sent[c] /\ sent[c] - heard[c] <= Span
      BY DEF PacketInv, HeardInv, TypeInv
    <3>3. Span \in Nat /\ PsnModulus \in Nat /\ Span <= PsnModulus \div 2 /\ Span < PsnModulus
      BY ConfigFacts DEF TypeInv
    <3>4. CASE v.pool_index >= ErrorBit
      BY <1>1, <3>1, <3>4 DEF ErrorBit
    <3>5. CASE Untouched(c)
      <4>1. heard[c] = -1 /\ v.next = 0
        BY <1>1, <3>5 DEF Untouched
      <4>2. k < PsnModulus \div 2
        BY <3>2, <3>3, <4>1
      <4>3. Number(c, k) # 0
        BY <3>2, <4>2, NumberFacts, Zenon
      <4> QED
        BY <2>3, <3>2, <4>1, <4>3, Zenon
    <3>6. CASE Followed(c)
      <4>1. v.next = Number(c, heard[c] + 1) /\ heard[c] # -1
        BY <1>1, <3>6 DEF Followed
      <4>2. heard[c] + 1 \in Nat /\ k - (heard[c] + 1) < PsnModulus /\ (heard[c] + 1) - k < PsnModulus
        BY <3>2, <3>3, <4>1
      <4>3. k = heard[c] + 1
        BY <2>3, <3>2, <4>1, <4>2, NumberFacts, Zenon
      <4>4. p.about.slot = v.pool_index + 2
        BY <1>1, <1>3, <3>6, <4>3 DEF Followed, UnderWay
      <4> QED
        BY <3>1, <4>4
    <3> QED
      BY <1>1, <1>3, <3>4, <3>5, <3>6 DEF RegisterInv
  <2> QED
    BY <2>2, <2>3
<1> QED
  BY <1>2, <1>3

LEMMA ReceiveRegister ==
    ASSUME TypeInv, NEW p \in net, \A q \in net : PacketInv(q), InSequence, Receive(p),
           NEW d \in Clients, \A c \in Clients : HeardInv(c) /\ RegisterInv(c)
    PROVE  HeardInv(d)' /\ RegisterInv(d)'
<1>1. /\ config \in Configs /\ p.from \in Clients /\ PacketInv(p) /\ net' = net \ {p}
      /\ UNCHANGED <<config, start, sent, jobs>>
      /\ Register(p.from)' = Value(p) /\ heard'[p.from] = p.about.number
      /\ begun'[p.from] = (begun[p.from] \/ ~ Later(p))
      /\ \A c \in Clients : c # p.from =>
            Register(c)' = Register(c) /\ heard'[c] = heard[c] /\ begun'[c] = begun[c]
  BY ReceiveFacts, Zenon
<1>2. Span' = Span
  BY <1>1, SameConfig
<1>3. CASE d # p.from
  <2>1. UnderWay(d)' \subseteq UnderWay(d)
    BY <1>1 DEF UnderWay
  <2>2. HeardInv(d)'
    BY <1>1, <1>2, <1>3 DEF HeardInv
  <2> QED
    BY <1>1, <1>3, <2>1, <2>2, SameRegister, Zenon
<1>4. CASE d = p.from
  <2>1. HeardInv(d)'
    <3>1. p.about.number \in Nat /\ p.about.number < sent[d] /\ sent[d] - p.about.number <= Span
      BY <1>1, <1>4 DEF PacketInv
    <3>2. -1 <= p.about.number
      BY <3>1
    <3> QED
      BY <1>1, <1>2, <1>4, <3>1, <3>2 DEF HeardInv
  <2>2. CASE ~ Known(d)'
    BY <2>1, <2>2 DEF RegisterInv
  <2>3. CASE Known(d)'
    <3>1. Known(d) \/ ~ Later(p)
      BY <1>1, <1>4, <2>3, Zenon DEF Known
    <3>2. CASE Value(p).pool_index >= ErrorBit
      BY <1>1, <1>4, <2>1, <3>2 DEF RegisterInv, ErrorBit
    <3>3. CASE Value(p) = [next |-> Following(p.psn), pool_index |-> p.about.slot]
      <4>1. Register(d)'.next = Following(p.psn) /\ Register(d)'.pool_index = p.about.slot
        BY <1>1, <1>4, <3>3
      <4>2. p.about.number \in Nat /\ p.psn = Number(d, p.about.number)
        BY <1>1, <1>4 DEF PacketInv
      <4>3. Register(d)'.next = Number(d, p.about.number + 1)
        BY <4>1, <4>2, NumberFacts, Zenon
      <4>4. ASSUME NEW q \in UnderWay(d)', Later(q), q.about.number = p.about.number + 1
            PROVE  q.about.slot = p.about.slot + 2
        BY <1>1, <1>4, <4>4 DEF InSequence, UnderWay
      <4>5. (Register(d).next = Number(d, heard[d] + 1))'
        BY <1>1, <1>4, <4>3, SameConfig DEF Number
      <4>6. heard'[d] = p.about.number /\ p.about.number # -1
        BY <1>1, <1>4, <4>2
      <4>7. Followed(d)'
        BY <4>1, <4>4, <4>5, <4>6 DEF Followed, Later
      <4> QED
        BY <2>1, <4>7 DEF RegisterInv
    <3> QED
      BY <1>1, <1>4, <3>1, <3>2, <3>3, ReceiveValue
  <2> QED
    BY <2>2, <2>3
<1> QED
  BY <1>3, <1>4

(* The packet is taken for its own slot. *)
LEMMA ReceiveTaken ==
    ASSUME TypeInv, NEW p \in net, PacketInv(p), HeardInv(p.from), RegisterInv(p.from),
           Receive(p), SlotExact, ReplyQueueExact
    PROVE  SlotExact' /\ ReplyQueueExact'
<1>1. config \in Configs /\ config' = config /\ p.from \in Clients
  BY ReceiveFacts, Zenon
<1>2. CASE taken' = taken
  BY <1>1, <1>2, SameConfig DEF SlotExact, ReplyQueueExact
<1>3. CASE /\ ~ Value(p).pool_index >= ErrorBit
           /\ taken' = [packet |-> p, slot |-> Value(p).pool_index % PoolIndices,
                        workers |-> Matching(SwitchQpn(p.from)),
                        known |-> jobs = 1 \/ begun'[p.from]]
  <2>1. taken'.known = (jobs = 1 \/ begun'[p.from]) /\ taken'.packet = p
        /\ taken'.slot = Value(p).pool_index % PoolIndices
        /\ taken'.workers = Matching(SwitchQpn(p.from))
    BY <1>3
  <2>2. CASE ~ taken'.known
    BY <2>2 DEF SlotExact, ReplyQueueExact
  <2>3. CASE taken'.known
    <3>1. Known(p.from) \/ ~ Later(p)
      BY <2>1, <2>3, ReceiveFacts, Zenon DEF Known
    <3>2. Value(p).pool_index = p.about.slot
      BY <1>3, <3>1, ReceiveValue
    <3>3. PICK set \in {0, 1}, k \in 0 .. PacketsPerMessage - 1 :
            p.about.slot = Rkey(p.from[2], set) + 2 * k
      BY DEF PacketInv
    <3>4. p.from[2] \in 0 .. Queues - 1
      BY <1>1 DEF Clients
    <3>5. p.about.slot % PoolIndices = p.about.slot /\ ReplyQueues(p.about.slot) = {p.from[2]}
      BY <1>1, <3>3, <3>4, ReplyQueue
    <3>6. taken'.slot = p.about.slot /\ taken'.workers = {p.from[1]}
      <4>1. Matching(SwitchQpn(p.from)) = {p.from[1]}
        BY <1>1, IndexValue, ZenonT(30)
      <4> QED
        BY <2>1, <3>2, <3>5, <4>1
    <3>7. (ReplyQueues(taken.slot) = {taken.packet.from[2]})'
      BY <1>1, <2>1, <3>5, <3>6, SameConfig, Zenon
    <3> QED
      BY <2>1, <3>6, <3>7 DEF SlotExact, ReplyQueueExact
  <2> QED
    BY <2>2, <2>3
<1> QED
  BY <1>2, <1>3, ReceiveFacts, Zenon

----------------------------------------------------------------------------
(* The steps.                                                              *)

(* post_next_send_wr and repost_send_wr. *)
LEMMA PostStep ==
    ASSUME RdmaInv, NEW c \in Clients, Repost(c) \/ \E n \in Lengths : PostNext(c, n)
    PROVE  RdmaInv'
<1>1. config \in Configs /\ message[c].set \in {0, 1}
      /\ message[c].length \in 0 .. PacketsPerMessage /\ PacketsPerMessage \in Nat
      /\ Lengths \subseteq 1 .. PacketsPerMessage
  BY ConfigFacts DEF RdmaInv, TypeInv
<1>2. PICK set \in {0, 1}, n \in 0 .. PacketsPerMessage :
        /\ Send(c, set, n)
        /\ \/ message' = message
           \/ message' = [message EXCEPT ![c] = [set |-> set, length |-> n, missing |-> 0 .. n - 1]]
  <2>1. CASE Repost(c)
    BY <1>1, <2>1 DEF Repost
  <2>2. ASSUME NEW n \in Lengths, PostNext(c, n)
        PROVE  /\ 1 - message[c].set \in {0, 1} /\ n \in 0 .. PacketsPerMessage
               /\ Send(c, 1 - message[c].set, n)
               /\ message' = [message EXCEPT ![c] = [set |-> 1 - message[c].set, length |-> n,
                                                     missing |-> 0 .. n - 1]]
    BY <1>1, <2>2 DEF PostNext
  <2> QED
    BY <2>1, <2>2
<1>3. TypeInv /\ (\A p \in net : PacketInv(p)) /\ InSequence
      /\ \A d \in Clients : HeardInv(d) /\ RegisterInv(d)
  BY DEF RdmaInv
<1>4. UNCHANGED <<config, start, receiver, heard, begun, taken, jobs>> /\ sent' \in [Clients -> Nat]
  BY <1>2, <1>3, SendFacts, Zenon
<1>5. message' \in [Clients -> [set : {0, 1}, length : 0 .. PacketsPerMessage, missing : SUBSET Nat]]
  <2>1. 0 .. n - 1 \in SUBSET Nat
    BY <1>1
  <2>2. message \in [Clients -> [set : {0, 1}, length : 0 .. PacketsPerMessage, missing : SUBSET Nat]]
    BY <1>3 DEF TypeInv
  <2>3. PICK m \in [set : {0, 1}, length : 0 .. PacketsPerMessage, missing : SUBSET Nat] :
          m = [set |-> set, length |-> n, missing |-> 0 .. n - 1]
    BY <2>1, Zenon
  <2> QED
    BY <1>2, <2>2, <2>3, Zenon
<1>6. TypeInv'
  BY <1>3, <1>4, <1>5, SameConfig, ZenonT(30) DEF TypeInv
<1>7. \A p \in net' : PacketInv(p)'
  BY <1>2, <1>3, SendPackets
<1>8. InSequence'
  BY <1>2, <1>3, SendInSequence
<1>9. \A d \in Clients : HeardInv(d)' /\ RegisterInv(d)'
  BY <1>2, <1>3, SendRegister, ZenonT(30)
<1>10. SlotExact' /\ ReplyQueueExact'
  BY <1>4, SameConfig DEF RdmaInv, SlotExact, ReplyQueueExact
<1> QED
  BY <1>4, <1>6, <1>7, <1>8, <1>9, <1>10, SameConfig DEF RdmaInv

LEMMA ReceiveStep ==
    ASSUME RdmaInv, NEW p \in net, Receive(p)
    PROVE  RdmaInv'
<1>1. /\ TypeInv /\ (\A q \in net : PacketInv(q)) /\ InSequence /\ PacketInv(p)
      /\ \A d \in Clients : HeardInv(d) /\ RegisterInv(d)
  BY DEF RdmaInv
<1>2. /\ config \in Configs /\ p.from \in Clients /\ net' = net \ {p}
      /\ UNCHANGED <<config, start, sent, jobs>>
      /\ receiver' = [receiver EXCEPT ![Index(p.from)] = Value(p)]
      /\ heard' = [heard EXCEPT ![p.from] = p.about.number]
      /\ begun' = [begun EXCEPT ![p.from] = @ \/ p.opcode \in {"first", "only"}]
      /\ \/ message' = message
         \/ message' = [message EXCEPT ![p.from].missing =
                IF p.about.slot % 2 = message[p.from].set
                THEN @ \ {p.about.position} ELSE @]
  BY <1>1, ReceiveFacts, Zenon
<1>3. receiver' \in [UsedIndices -> [next : Int, pool_index : Nat]]
  BY <1>1, <1>2, ValueType, Zenon DEF TypeInv
<1>4. message' \in [Clients -> [set : {0, 1}, length : 0 .. PacketsPerMessage, missing : SUBSET Nat]]
  BY <1>1, <1>2 DEF TypeInv
<1>5. heard' \in [Clients -> Int] /\ begun' \in [Clients -> BOOLEAN]
  <2>1. p.about.number \in Int
    BY <1>1 DEF PacketInv
  <2>2. heard' \in [Clients -> Int]
    BY <1>1, <1>2, <2>1, Zenon DEF TypeInv
  <2>3. begun' \in [Clients -> BOOLEAN]
    BY <1>1, <1>2, Zenon DEF TypeInv
  <2> QED
    BY <2>2, <2>3
<1>6. TypeInv'
  BY <1>1, <1>2, <1>3, <1>4, <1>5, SameConfig, Zenon DEF TypeInv
<1>7. \A q \in net' : PacketInv(q)'
  BY <1>1, <1>2, SamePacket
<1>8. InSequence'
  BY <1>1, <1>2 DEF InSequence, Later
<1>9. \A d \in Clients : HeardInv(d)' /\ RegisterInv(d)'
  BY <1>1, ReceiveRegister
<1>10. SlotExact' /\ ReplyQueueExact'
  BY <1>1, <1>2, ReceiveTaken DEF RdmaInv
<1> QED
  BY <1>2, <1>6, <1>7, <1>8, <1>9, <1>10, SameConfig DEF RdmaInv

LEMMA LoseStep ==
    ASSUME RdmaInv, NEW p \in net, Lose(p)
    PROVE  RdmaInv'
<1>1. /\ TypeInv /\ (\A q \in net : PacketInv(q)) /\ InSequence
      /\ \A d \in Clients : HeardInv(d) /\ RegisterInv(d)
  BY DEF RdmaInv
<1>2. net' = net \ {p}
      /\ UNCHANGED <<config, start, sent, message, receiver, heard, begun, taken, jobs>>
  BY Zenon DEF Lose, history
<1>3. TypeInv'
  BY <1>1, <1>2, SameConfig, ZenonT(30) DEF TypeInv
<1>4. \A q \in net' : PacketInv(q)'
  BY <1>1, <1>2, SamePacket
<1>5. InSequence'
  BY <1>1, <1>2 DEF InSequence, Later
<1>6. ASSUME NEW d \in Clients PROVE HeardInv(d)' /\ RegisterInv(d)'
  <2>1. Register(d)' = Register(d) /\ UnderWay(d)' \subseteq UnderWay(d)
    BY <1>2 DEF Register, UnderWay, Index, QpIndex, SwitchQpn
  <2>2. HeardInv(d)'
    BY <1>1, <1>2, SameConfig DEF HeardInv
  <2> QED
    BY <1>1, <1>2, <2>1, <2>2, SameRegister
<1>7. SlotExact' /\ ReplyQueueExact'
  BY <1>2, SameConfig DEF RdmaInv, SlotExact, ReplyQueueExact
<1> QED
  BY <1>2, <1>3, <1>4, <1>5, <1>6, <1>7, SameConfig DEF RdmaInv

(* A new job begins with nothing under way and nothing known of the registers. *)
LEMMA NewJobStep ==
    ASSUME RdmaInv, NewJob
    PROVE  RdmaInv'
<1>1. /\ config \in Configs /\ config' = config /\ jobs \in Nat \ {0} /\ jobs' = jobs + 1
      /\ net' = {} /\ sent' = [c \in Clients |-> 0] /\ start' \in [Clients -> InitialPsns]
      /\ heard' = [c \in Clients |-> -1] /\ begun' = [c \in Clients |-> FALSE]
      /\ receiver' = receiver /\ taken' = taken /\ message' = NewMessages
  BY DEF RdmaInv, TypeInv, NewJob
<1>2. start' \in [Clients -> 1 .. PsnModulus \div 2]
  <2>1. InitialPsns \subseteq 1 .. PsnModulus \div 2
    BY <1>1, ConfigFacts
  <2> QED
    BY <1>1, <2>1, Zenon
<1>3. message' \in [Clients -> [set : {0, 1}, length : 0 .. PacketsPerMessage, missing : SUBSET Nat]]
  <2>1. 0 \in 0 .. PacketsPerMessage
    BY <1>1, ConfigFacts
  <2> QED
    BY <1>1, <2>1 DEF NewMessages
<1>4. /\ sent' \in [Clients -> Nat] /\ heard' \in [Clients -> Int]
      /\ begun' \in [Clients -> BOOLEAN] /\ jobs' \in Nat \ {0} /\ jobs' # 1
  BY <1>1
<1>5. TypeInv'
  BY <1>1, <1>2, <1>3, <1>4, SameConfig, ZenonT(30) DEF RdmaInv, TypeInv
<1>6. ASSUME NEW d \in Clients PROVE HeardInv(d)' /\ RegisterInv(d)'
  <2>1. heard'[d] = -1 /\ sent'[d] = 0 /\ ~ begun'[d] /\ Span' \in Nat \ {0}
    BY <1>1, SameConfig, ConfigFacts
  <2> QED
    BY <1>4, <2>1 DEF HeardInv, RegisterInv, Known
<1>7. SlotExact' /\ ReplyQueueExact'
  BY <1>1, SameConfig DEF RdmaInv, SlotExact, ReplyQueueExact
<1> QED
  BY <1>1, <1>5, <1>6, <1>7, SameConfig DEF RdmaInv, InSequence

LEMMA Stutters ==
    ASSUME RdmaInv, UNCHANGED rdmaVars
    PROVE  RdmaInv'
<1>1. UNCHANGED <<config, start, sent, message, net, receiver, heard, begun, taken, jobs>>
  BY DEF rdmaVars, wire, history
<1>2. \A p \in net : PacketInv(p)'
  BY <1>1, SamePacket DEF RdmaInv
<1>3. TypeInv'
  BY <1>1, SameConfig, ZenonT(30) DEF RdmaInv, TypeInv
<1>4. InSequence'
  BY <1>1 DEF RdmaInv, InSequence, Later
<1>5. ASSUME NEW d \in Clients PROVE HeardInv(d)' /\ RegisterInv(d)'
  <2>1. HeardInv(d)'
    BY <1>1, SameConfig DEF RdmaInv, HeardInv
  <2>2. Register(d)' = Register(d) /\ UnderWay(d)' = UnderWay(d)
    BY <1>1 DEF Register, UnderWay, Index, QpIndex, SwitchQpn
  <2> QED
    BY <1>1, <2>1, <2>2, SameRegister DEF RdmaInv
<1>6. SlotExact' /\ ReplyQueueExact'
  BY <1>1, SameConfig DEF RdmaInv, SlotExact, ReplyQueueExact
<1> QED
  BY <1>1, <1>2, <1>3, <1>4, <1>5, <1>6, SameConfig DEF RdmaInv

LEMMA Step == RdmaInv /\ [RdmaNext]_rdmaVars => RdmaInv'
<1> SUFFICES ASSUME RdmaInv, [RdmaNext]_rdmaVars PROVE RdmaInv'
  OBVIOUS
<1>1. ASSUME NEW c \in Clients, Repost(c) \/ \E n \in Lengths : PostNext(c, n) PROVE RdmaInv'
  BY <1>1, PostStep
<1>2. ASSUME NEW p \in net, Receive(p) PROVE RdmaInv'
  BY <1>2, ReceiveStep
<1>3. ASSUME NEW p \in net, Lose(p) PROVE RdmaInv'
  BY <1>3, LoseStep
<1>4. CASE NewJob
  BY <1>4, NewJobStep
<1>5. CASE UNCHANGED rdmaVars
  BY <1>5, Stutters
<1> QED
  BY <1>1, <1>2, <1>3, <1>4, <1>5 DEF RdmaNext

LEMMA Start == RdmaInit => RdmaInv
<1> SUFFICES ASSUME RdmaInit PROVE RdmaInv
  OBVIOUS
<1>1. /\ config \in Configs /\ net = {} /\ taken = <<>> /\ jobs = 1
      /\ sent = [c \in Clients |-> 0] /\ start \in [Clients -> InitialPsns]
      /\ heard = [c \in Clients |-> -1] /\ begun = [c \in Clients |-> FALSE]
      /\ message = NewMessages
      /\ receiver = [i \in UsedIndices |-> [next |-> 0, pool_index |-> 0]]
  BY DEF RdmaInit
<1>2. /\ InitialPsns \subseteq 1 .. PsnModulus \div 2 /\ Span \in Nat \ {0}
      /\ PacketsPerMessage \in Nat
  BY <1>1, ConfigFacts
<1>3. TypeInv
  <2>1. start \in [Clients -> 1 .. PsnModulus \div 2]
    BY <1>1, <1>2, Zenon
  <2>2. message \in [Clients -> [set : {0, 1}, length : 0 .. PacketsPerMessage, missing : SUBSET Nat]]
    BY <1>1, <1>2 DEF NewMessages
  <2>3. receiver \in [UsedIndices -> [next : Int, pool_index : Nat]]
    BY <1>1
  <2>4. sent \in [Clients -> Nat] /\ heard \in [Clients -> Int] /\ begun \in [Clients -> BOOLEAN]
        /\ jobs \in Nat \ {0}
    BY <1>1
  <2> QED
    BY <1>1, <2>1, <2>2, <2>3, <2>4 DEF TypeInv
<1>4. ASSUME NEW c \in Clients PROVE HeardInv(c) /\ RegisterInv(c)
  <2>1. Register(c).next = 0 /\ sent[c] = 0 /\ heard[c] = -1
    BY <1>1, IndexValue DEF Register
  <2> QED
    BY <1>1, <1>2, <2>1 DEF HeardInv, RegisterInv, Untouched
<1> QED
  BY <1>1, <1>3, <1>4 DEF RdmaInv, InSequence, SlotExact, ReplyQueueExact

----------------------------------------------------------------------------
(* The register of the receiver (RDMAReceiver.p4): with packets lost,      *)
(* reordered and sent again, over any number of packets and of jobs, a     *)
(* packet that is not dropped is taken for its own worker and its own      *)
(* slot.  In a job after the first one this begins with the first packet   *)
(* of a message that arrives.                                              *)
THEOREM SlotExactCorrect == RdmaSpec => []SlotExact
<1>1. RdmaInv => SlotExact
  BY DEF RdmaInv
<1> QED
  BY <1>1, Start, Step, PTL DEF RdmaSpec

(* RDMASender.add_write_worker: the reply to such a packet finds at every  *)
(* worker the one queue pair this worker uses for the slot.                *)
THEOREM ReplyQueueCorrect == RdmaSpec => []ReplyQueueExact
<1>1. RdmaInv => ReplyQueueExact
  BY DEF RdmaInv
<1> QED
  BY <1>1, Start, Step, PTL DEF RdmaSpec

----------------------------------------------------------------------------
(* The counters.                                                           *)

LEMMA CounterStart == RdmaInit => CounterInv
<1> SUFFICES ASSUME RdmaInit PROVE CounterInv
  OBVIOUS
<1>1. config \in Configs /\ counter = [i \in UsedIndices |-> NoCount]
      /\ tally = [c \in Clients |-> NoCount]
  BY DEF RdmaInit
<1>2. \A c \in Clients : Index(c) \in UsedIndices
  BY <1>1, IndexValue
<1> QED
  BY <1>1, <1>2 DEF CounterInv

LEMMA CounterStep == RdmaInv /\ CounterInv /\ [RdmaNext]_rdmaVars => CounterInv'
<1> SUFFICES ASSUME RdmaInv, CounterInv, [RdmaNext]_rdmaVars PROVE CounterInv'
  OBVIOUS
<1>1. config \in Configs /\ config' = config
  BY ZenonT(30) DEF RdmaInv, TypeInv, RdmaNext, Repost, PostNext, Send, Receive, Lose, NewJob, rdmaVars
<1>2. \A c : Index(c)' = Index(c)
  BY DEF Index, QpIndex, SwitchQpn
<1>3. \A c \in Clients : Index(c) \in UsedIndices
  BY <1>1, IndexValue
<1>4. ASSUME UNCHANGED <<counter, tally>> PROVE CounterInv'
  BY <1>1, <1>2, <1>4, SameConfig DEF CounterInv, NoCount
<1>5. CASE NewJob
  BY <1>1, <1>2, <1>3, <1>5, SameConfig DEF CounterInv, NewJob, NoCount
<1>6. ASSUME NEW p \in net, Receive(p) PROVE CounterInv'
  <2>1. p.from \in Clients /\ QpIndex(p.qpn) = Index(p.from)
    BY DEF RdmaInv, PacketInv, Index
  <2>2. PICK bad :
          /\ counter' = [counter EXCEPT ![Index(p.from)] = Count(@, bad, p.opcode)]
          /\ tally' = [tally EXCEPT ![p.from] = Count(@, bad, p.opcode)]
    BY <1>6, <2>1, Zenon DEF Receive
  <2>3. \A d \in Clients : d # p.from => Index(d) # Index(p.from)
    BY <1>1, <2>1, IndexInjective
  <2>4. ASSUME NEW d \in Clients PROVE counter'[Index(d)] = tally'[d]
    <3>1. counter[Index(d)] = tally[d] /\ Index(d) \in DOMAIN counter /\ d \in DOMAIN tally
      BY <1>3 DEF CounterInv
    <3>2. CASE d = p.from
      BY <2>2, <3>1, <3>2
    <3>3. CASE d # p.from
      BY <2>2, <2>3, <3>1, <3>3
    <3> QED
      BY <3>2, <3>3
  <2>5. DOMAIN counter' = DOMAIN counter /\ DOMAIN tally' = DOMAIN tally
    BY <2>2
  <2>6. ASSUME NEW i \in UsedIndices, \A c \in Clients : i # Index(c)
        PROVE  counter'[i] = NoCount
    BY <2>1, <2>2, <2>6 DEF CounterInv
  <2> QED
    BY <1>1, <1>2, <2>4, <2>5, <2>6, SameConfig DEF CounterInv, NoCount
<1>7. ASSUME NEW c \in Clients, Repost(c) \/ \E n \in Lengths : PostNext(c, n)
      PROVE  UNCHANGED <<counter, tally>>
  BY <1>7 DEF Repost, PostNext, Send, history
<1> QED
  BY <1>4, <1>5, <1>6, <1>7 DEF RdmaNext, Lose, rdmaVars, history

LEMMA CountersRow ==
    ASSUME config \in Configs, CounterInv
    PROVE  CountersShown
<1>1. SUFFICES ASSUME NEW a \in Arguments PROVE Shown(a) = TrueRows(a)
  BY Zenon DEF CountersShown
<1>2. ASSUME NEW r \in Ranks, NEW k \in a.start .. a.start + a.count - 1
      PROVE  /\ RowOf(r, k) \div QueuesPerWorker = r /\ RowOf(r, k) % QueuesPerWorker = k
             /\ counter[RowOf(r, k)] = TrueCount(r, k)
  <2>1. r \in RankNumbers /\ k \in QueueNumbers /\ k \in Nat /\ Queues \in Nat
    BY <1>1, ConfigFacts DEF RankNumbers, QueueNumbers
  <2>2. RowOf(r, k) \in UsedIndices
    BY <1>1 DEF UsedIndices, Ids, RowOf
  <2>3. CASE k < Queues
    <3>1. <<r, k>> \in Clients
      BY <2>1, <2>3 DEF Clients
    <3>2. Index(<<r, k>>) = RowOf(r, k)
      BY <3>1, IndexValue
    <3> QED
      BY <2>1, <2>3, <3>1, <3>2, RowParts DEF CounterInv, TrueCount
  <2>4. CASE ~ k < Queues
    <3>1. ASSUME NEW c \in Clients, RowOf(r, k) = Index(c) PROVE FALSE
      <4>1. c[1] \in RankNumbers /\ c[2] \in QueueNumbers /\ c[2] \in 0 .. Queues - 1
        BY ClientFacts
      <4>2. Index(c) = RowOf(c[1], c[2])
        BY IndexValue
      <4>3. c[2] # k
        BY <2>1, <2>4, <4>1
      <4> QED
        BY <2>1, <3>1, <4>1, <4>2, <4>3, RowUnique
    <3> QED
      BY <2>1, <2>2, <2>4, <3>1, RowParts DEF CounterInv, TrueCount
  <2> QED
    BY <2>3, <2>4
<1>3. ASSUME NEW row \in Shown(a) PROVE row \in TrueRows(a)
  <2>1. PICK i \in Ids(a) : row = [worker |-> i \div QueuesPerWorker, queue |-> i % QueuesPerWorker,
                                  count |-> counter[i]]
    BY DEF Shown
  <2>2. PICK r \in Ranks, k \in a.start .. a.start + a.count - 1 : i = RowOf(r, k)
    BY DEF Ids, RowOf
  <2>3. row = [worker |-> r, queue |-> k, count |-> TrueCount(r, k)]
    BY <1>2, <2>1, <2>2
  <2> QED
    BY <2>3 DEF TrueRows
<1>4. ASSUME NEW row \in TrueRows(a) PROVE row \in Shown(a)
  <2>1. PICK r \in Ranks, k \in a.start .. a.start + a.count - 1 :
          row = [worker |-> r, queue |-> k, count |-> TrueCount(r, k)]
    BY DEF TrueRows
  <2>2. PICK i \in Ids(a) : i = RowOf(r, k)
    BY DEF Ids, RowOf
  <2>3. row = [worker |-> i \div QueuesPerWorker, queue |-> i % QueuesPerWorker, count |-> counter[i]]
    BY <1>2, <2>1, <2>2
  <2> QED
    BY <2>3 DEF Shown
<1> QED
  BY <1>3, <1>4

(* counters.get_queue_pair_counters and QP_INDEX of RDMAReceiver.p4: in    *)
(* every job, no two queue pairs share a counter, and each row the         *)
(* operator asks for shows what happened to the packets of the queue pair  *)
(* it names.                                                               *)
THEOREM CountersCorrect == RdmaSpec => []CountersShown
<1>1. RdmaInv /\ CounterInv => CountersShown
  BY CountersRow DEF RdmaInv, TypeInv
<1> QED
  BY <1>1, Start, CounterStart, Step, CounterStep, PTL DEF RdmaSpec
=============================================================================
