------------------------------- MODULE ClientProofs -------------------------------
(***************************************************************************)
(* Proofs about the module ClientThread, for any buffer lengths, any       *)
(* message size and any number of reductions.                              *)
(***************************************************************************)
EXTENDS ClientThread, SequenceTheorems, TLAPS

USE SMTT(30), ZenonT(20)

(* What has been received and not handled, oldest first. *)
inbox == completions \o cq

Messages == Nat \X Int
Packets == [bit : {0, 1}, message : Messages]
Completions == [kind : {"write"}, slot : Slots]
               \cup [kind : {"recv"}, slot : Slots, bit : {0, 1}, message : Messages]

TypeOK ==
    /\ thread_id \in ThreadIds /\ length \in Lengths
    /\ reduction \in Nat /\ outstanding \in Int /\ initial \in Nat
    /\ pointers \in [Slots -> Int] /\ slot_bit \in [Slots -> {0, 1}]
    /\ current \in [Slots -> Messages]
    /\ timeouts \in QueueType
    /\ completions \in Seq(Completions) /\ cq \in Seq(Completions)
    /\ writes \in [Slots -> Nat] /\ up \in [Slots -> Seq(Packets)]

(* The thread handles completions exactly while it has some. *)
FlowInv ==
    /\ pc \in {"barrier", "post", "loop", "handle", "timeouts"}
    /\ pc = "handle" <=> completions # <<>>
    /\ pc = "post" => initial \in Slots
    /\ reduction = 0 => pc = "barrier"

(* The links of the timers agree with each other. *)
TimersLinked(q) ==
    /\ q.next[Sentinel] = Nil /\ q.previous[q.head] = Nil
    /\ \A e \in Elements : q.previous[e] # Nil => q.next[q.previous[e]] = e
    /\ \A i \in Entries : q.next[i] # Nil => q.previous[q.next[i]] = i
    /\ \A i \in Entries : q.next[i] = Nil => q.previous[i] = Nil /\ q.head # i

(* A slot's message is one of this reduction, posted, or an older one. *)
CurrentInv ==
    \A i \in Slots :
        /\ current[i][1] <= reduction
        /\ (current[i][1] = reduction /\ reduction > 0) => current[i] \in posted

(* The timer of slot i is set or will be. *)
Timed(i) ==
    \/ timeouts.next[i] # Nil
    \/ writes[i] > 0
    \/ \E k \in 1..Len(inbox) : inbox[k].kind = "write" /\ inbox[k].slot = i

ThreadInv ==
    /\ TypeOK /\ FlowInv /\ TimersLinked(timeouts) /\ CurrentInv
    /\ \A i \in Waiting : Timed(i)

----------------------------------------------------------------------------
(* One slot.                                                               *)

(* With several slots a second answer to the last message of one is        *)
(* counted again, and with three threads thread_end_pointer lies beyond    *)
(* the share, so that RunEndsComplete is false.                            *)
OneSlot == SlotsPerCore = 1 /\ Cores <= 2

(* The messages of the share, and the k-th of them in this reduction. *)
ShareSize == EndMessage(thread_id, length) - StartMessage(thread_id, length)
Nth(k) == <<reduction, ThreadStart(thread_id, length) + k * MessageFloats>>

(* n messages are posted and a of them answered. *)
Counting(n, a) ==
    /\ n <= ShareSize /\ a <= n /\ n <= a + 1
    /\ pointers[0] = ThreadStart(thread_id, length) + n * MessageFloats
    /\ accepted = {Nth(k) : k \in 0..(a - 1)}
    /\ n > 0 => current[0] = Nth(n - 1)
    /\ outstanding = 2 * ShareSize - n - a
    /\ pc = "post" => n = 0
    /\ pc \in {"loop", "handle", "timeouts"} => n > a \/ a = ShareSize
    /\ pc = "barrier" => a = ShareSize
    /\ pc = "handle" => outstanding > 0

(* Answers received and packets to be answered: those of the slot's bit    *)
(* are copies of its message and come last.                                *)
Answers(in) == {k \in 1..Len(in) : in[k].kind = "recv"}

Ordered(in, out, bit, message) ==
    /\ \A j, k \in Answers(in) : (j < k /\ in[j].bit = bit) => in[k].bit = bit
    /\ \A j \in Answers(in), k \in 1..Len(out) : in[j].bit = bit => out[k].bit = bit
    /\ \A j, k \in 1..Len(out) : (j < k /\ out[j].bit = bit) => out[k].bit = bit
    /\ \A k \in Answers(in) : in[k].bit = bit => in[k].message = message
    /\ \A k \in 1..Len(out) : out[k].bit = bit => out[k].message = message

AllOf(in, out, bit) ==
    (\A k \in Answers(in) : in[k].bit = bit) /\ (\A k \in 1..Len(out) : out[k].bit = bit)

OrderInv == Ordered(inbox, up[0], slot_bit[0], current[0])
AllFresh == AllOf(inbox, up[0], slot_bit[0])

(* After the answer to its message a slot has no older answers to expect.  *)
SingleInv ==
    /\ Len(completions) <= 1
    /\ OrderInv
    /\ IF reduction = 0 THEN AllFresh
       ELSE \E n \in Nat : \E a \in Nat : Counting(n, a) /\ (n = a => AllFresh)

(* An empty buffer: nothing is ever posted. *)
EmptyInv ==
    /\ timeouts = NewQueue /\ writes[0] = 0 /\ up[0] = <<>> /\ inbox = <<>>
    /\ pointers[0] >= 0 /\ accepted = {}
    /\ IF pc = "barrier" THEN reduction > 0 => ShareSize = 0
       ELSE outstanding = 2 * ShareSize

(* The invariant of a thread with one slot. *)
SlotInv == IF length = 0 THEN EmptyInv ELSE SingleInv

----------------------------------------------------------------------------
(* Timers.                                                                 *)

LEMMA SlotFacts ==
    /\ Slots = Entries /\ Entries \subseteq Elements /\ Elements \subseteq Nat
    /\ Sentinel \in Elements /\ Sentinel \notin Entries
    /\ \A e \in Elements : e # Sentinel => e \in Entries
    /\ Nil \notin Elements /\ 0 \in Slots /\ SlotsPerCore \in Nat
BY SlotsHaveTimers, PartitionAssumption, NumEntriesAssumption
   DEF Slots, Entries, Elements, Sentinel, Nil

(* remove takes one timer out of the queue, and no other. *)
LEMMA RemoveTimer ==
    ASSUME NEW q \in QueueType, TimersLinked(q), NEW i \in Entries, NEW r, r = Remove(q, i)
    PROVE  /\ r \in QueueType /\ TimersLinked(r)
           /\ r.next[i] = Nil /\ r.previous[i] = Nil /\ r.head # i
           /\ \A k \in Entries \ {i} : q.next[k] # Nil => r.next[k] # Nil
<1> USE SlotFacts
<1>1. PICK p, n, h : p = q.previous[i] /\ n = q.next[i] /\ h = q.head
  OBVIOUS
<1>2. /\ p \in Elements \cup {Nil} /\ n \in Elements \cup {Nil} /\ h \in Elements
      /\ q.next \in [Elements -> Elements \cup {Nil}]
      /\ q.previous \in [Elements -> Elements \cup {Nil}]
      /\ q.timestamp \in [Elements -> Nat]
  BY <1>1 DEF QueueType
<1>3. /\ r.timestamp = [q.timestamp EXCEPT ![i] = 0]
      /\ r.next = [e \in Elements |-> IF e = i THEN Nil ELSE IF e = p THEN n ELSE q.next[e]]
      /\ r.previous = [e \in Elements |-> IF e = i THEN Nil ELSE IF e = n THEN p
                                           ELSE q.previous[e]]
      /\ r.head = IF h = i THEN n ELSE h
  BY <1>1 DEF Remove
<1>4. /\ q.next[Sentinel] = Nil /\ q.previous[h] = Nil
      /\ \A e \in Elements : q.previous[e] # Nil => q.next[q.previous[e]] = e
      /\ \A k \in Entries : q.next[k] # Nil => q.previous[q.next[k]] = k
      /\ \A k \in Entries : q.next[k] = Nil => q.previous[k] = Nil /\ h # k
  BY <1>1, Zenon DEF TimersLinked
<1>5. /\ n = Nil => p = Nil /\ h # i
      /\ n # Nil => q.previous[n] = i
      /\ p # Nil => q.next[p] = i /\ p \in Entries
      /\ h = i => n # i
  BY <1>1, <1>2, <1>4, ZenonT(30)
<1>6. r.head \in Elements /\ r.head # i
  BY <1>2, <1>3, <1>5
<1>7. r \in QueueType
  <2>1. /\ r.timestamp \in [Elements -> Nat]
        /\ r.next \in [Elements -> Elements \cup {Nil}]
        /\ r.previous \in [Elements -> Elements \cup {Nil}]
    BY <1>2, <1>3
  <2>2. r = [timestamp |-> r.timestamp, next |-> r.next, previous |-> r.previous, head |-> r.head]
    BY DEF Remove
  <2> QED  BY <1>6, <2>1, <2>2 DEF QueueType
<1>8. r.next[Sentinel] = Nil /\ r.previous[r.head] = Nil
  BY <1>2, <1>3, <1>4, <1>5, <1>6
<1>9. ASSUME NEW e \in Elements, r.previous[e] # Nil PROVE r.next[r.previous[e]] = e
  <2>1. e # i
    BY <1>3, <1>9
  <2>2. CASE e = n
    <3>1. r.previous[e] = p /\ p # Nil /\ p # i
      BY <1>1, <1>2, <1>3, <1>5, <1>9, <2>1, <2>2
    <3> QED  BY <1>3, <1>5, <2>2, <3>1, Zenon
  <2>3. CASE e # n
    <3>0. r.previous[e] = q.previous[e]
      BY <1>3, <2>1, <2>3
    <3>1. PICK x \in Elements : r.previous[e] = x /\ q.next[x] = e
      BY <1>2, <1>4, <1>9, <3>0, Zenon
    <3>2. x # i /\ x # p
      BY <1>1, <1>2, <1>5, <2>1, <2>3, <3>1
    <3> QED  BY <1>3, <3>1, <3>2
  <2> QED  BY <2>2, <2>3
<1>10. ASSUME NEW k \in Entries, r.next[k] # Nil PROVE r.previous[r.next[k]] = k
  <2>1. k # i
    BY <1>3, <1>10
  <2>2. CASE k = p
    <3>1. r.next[k] = n /\ n # Nil /\ n # i
      BY <1>1, <1>2, <1>3, <1>5, <1>10, <2>1, <2>2
    <3> QED  BY <1>2, <1>3, <2>2, <3>1
  <2>3. CASE k # p
    <3>0. r.next[k] = q.next[k]
      BY <1>3, <2>1, <2>3
    <3>1. PICK y \in Elements : r.next[k] = y /\ q.previous[y] = k
      BY <1>2, <1>4, <1>10, <3>0, Zenon
    <3>2. y # i /\ y # n
      BY <1>1, <1>2, <1>5, <2>1, <2>3, <3>1
    <3> QED  BY <1>3, <3>1, <3>2
  <2> QED  BY <2>2, <2>3
<1>11. ASSUME NEW k \in Entries, r.next[k] = Nil PROVE r.previous[k] = Nil /\ r.head # k
  BY <1>2, <1>3, <1>4, <1>5, <1>11
<1>12. TimersLinked(r)
  BY <1>8, <1>9, <1>10, <1>11 DEF TimersLinked
<1>13. \A k \in Entries \ {i} : q.next[k] # Nil => r.next[k] # Nil
  BY <1>2, <1>3, <1>5
<1> QED  BY <1>3, <1>6, <1>7, <1>12, <1>13

(* The same of a slot's timer. *)
LEMMA SlotTimerOff ==
    ASSUME timeouts \in QueueType, TimersLinked(timeouts), NEW i \in Slots,
           timeouts' = Remove(timeouts, i)
    PROVE  /\ timeouts' \in QueueType /\ TimersLinked(timeouts')
           /\ \A j \in Slots \ {i} : timeouts.next[j] # Nil => timeouts'.next[j] # Nil
<1>1. Slots = Entries
  BY SlotFacts
<1>2. PICK q, r : q = timeouts /\ r = timeouts'
  OBVIOUS
<1>3. q \in QueueType /\ TimersLinked(q) /\ i \in Entries /\ r = Remove(q, i)
  BY <1>1, <1>2, Zenon
<1>4. /\ r \in QueueType /\ TimersLinked(r)
      /\ \A k \in Entries \ {i} : q.next[k] # Nil => r.next[k] # Nil
  BY <1>3, RemoveTimer
<1> QED  BY <1>1, <1>2, <1>4, Zenon

(* push sets one timer, and takes none away. *)
LEMMA PushTimer ==
    ASSUME NEW q \in QueueType, TimersLinked(q), NEW i \in Entries, NEW s, s = Push(q, i, 0)
    PROVE  /\ s \in QueueType /\ TimersLinked(s) /\ s.next[i] # Nil
           /\ \A k \in Entries : q.next[k] # Nil => s.next[k] # Nil
<1>1. PICK r : r = Remove(q, i)
  OBVIOUS
<1>2. /\ r \in QueueType /\ TimersLinked(r)
      /\ r.next[i] = Nil /\ r.previous[i] = Nil /\ r.head # i
      /\ \A k \in Entries \ {i} : q.next[k] # Nil => r.next[k] # Nil
  BY <1>1, RemoveTimer
<1> USE SlotFacts
<1>3. PICK h : h = r.head /\ h \in Elements
  BY <1>2 DEF QueueType
<1>4. /\ r.next \in [Elements -> Elements \cup {Nil}]
      /\ r.previous \in [Elements -> Elements \cup {Nil}]
      /\ r.timestamp \in [Elements -> Nat]
  BY <1>2 DEF QueueType
<1>5. s = Prepend(r, i, 0)
  BY <1>1 DEF Push
<1>6. /\ s.timestamp = [r.timestamp EXCEPT ![i] = 0]
      /\ s.next = [r.next EXCEPT ![i] = h]
      /\ s.previous = [[r.previous EXCEPT ![i] = Nil] EXCEPT ![h] = i]
      /\ s.head = i
  BY <1>3, <1>5 DEF Prepend
<1>7. /\ r.next[Sentinel] = Nil /\ r.previous[h] = Nil
      /\ \A e \in Elements : r.previous[e] # Nil => r.next[r.previous[e]] = e
      /\ \A k \in Entries : r.next[k] # Nil => r.previous[r.next[k]] = k
      /\ \A k \in Entries : r.next[k] = Nil => r.previous[k] = Nil /\ h # k
  BY <1>2, <1>3 DEF TimersLinked
<1>8. /\ \A e \in Elements : s.next[e] = IF e = i THEN h ELSE r.next[e]
      /\ \A e \in Elements : s.previous[e] = IF e = h THEN i ELSE r.previous[e]
      /\ h # i
  BY <1>2, <1>3, <1>4, <1>6
<1>9. s \in QueueType
  <2>1. /\ s.timestamp \in [Elements -> Nat]
        /\ s.next \in [Elements -> Elements \cup {Nil}]
        /\ s.previous \in [Elements -> Elements \cup {Nil}]
        /\ s.head \in Elements
    BY <1>3, <1>4, <1>6
  <2>2. s = [timestamp |-> s.timestamp, next |-> s.next, previous |-> s.previous, head |-> s.head]
    BY <1>5 DEF Prepend
  <2> QED  BY <2>1, <2>2 DEF QueueType
<1>10. s.next[Sentinel] = Nil /\ s.previous[s.head] = Nil
  <2>1. s.next[Sentinel] = r.next[Sentinel]
    BY <1>8
  <2>2. s.previous[i] = r.previous[i]
    BY <1>8
  <2> QED  BY <1>2, <1>6, <1>7, <2>1, <2>2, Zenon
<1>11. ASSUME NEW e \in Elements, s.previous[e] # Nil PROVE s.next[s.previous[e]] = e
  <2>1. CASE e = h
    BY <1>8, <2>1
  <2>2. CASE e # h
    <3>1. r.previous[e] # Nil /\ s.previous[e] = r.previous[e] /\ r.next[r.previous[e]] = e
      BY <1>7, <1>8, <1>11, <2>2
    <3>2. r.previous[e] # i /\ r.previous[e] \in Elements
      BY <1>2, <1>4, <3>1, Zenon
    <3> QED  BY <1>8, <3>1, <3>2, Zenon
  <2> QED  BY <2>1, <2>2
<1>12. ASSUME NEW k \in Entries, s.next[k] # Nil PROVE s.previous[s.next[k]] = k
  <2>1. CASE k = i
    BY <1>3, <1>8, <2>1, Zenon
  <2>2. CASE k # i
    <3>1. s.next[k] = r.next[k] /\ r.next[k] # Nil /\ r.previous[r.next[k]] = k
      BY <1>7, <1>8, <1>12, <2>2
    <3>2. r.next[k] # h /\ r.next[k] \in Elements
      BY <1>4, <1>7, <3>1
    <3> QED  BY <1>8, <3>1, <3>2, Zenon
  <2> QED  BY <2>1, <2>2
<1>13. ASSUME NEW k \in Entries, s.next[k] = Nil PROVE s.previous[k] = Nil /\ s.head # k
  <2>1. k # i
    BY <1>3, <1>8, <1>13
  <2> QED  BY <1>6, <1>7, <1>8, <1>13, <2>1
<1>14. TimersLinked(s)
  BY <1>10, <1>11, <1>12, <1>13 DEF TimersLinked
<1>15. s.next[i] # Nil /\ \A k \in Entries : q.next[k] # Nil => s.next[k] # Nil
  BY <1>2, <1>3, <1>8
<1> QED  BY <1>9, <1>14, <1>15

(* The oldest timer is that of a slot. *)
LEMMA OldestTimer ==
    ASSUME NEW q \in QueueType, TimersLinked(q), Bottom(q) # Nil
    PROVE  Bottom(q) \in Slots
<1> USE SlotFacts
<1>1. Bottom(q) \in Elements
  BY DEF Bottom, QueueType
<1>2. q.next[Bottom(q)] = Sentinel
  BY Zenon DEF Bottom, TimersLinked
<1>3. Bottom(q) # Sentinel
  BY <1>2 DEF TimersLinked
<1> QED  BY <1>1, <1>3, Zenon

----------------------------------------------------------------------------
(* Queues of completions.                                                  *)

LEMMA QueueAppend ==
    ASSUME NEW S, NEW s \in Seq(S), NEW t \in Seq(S), NEW x \in S
    PROVE  /\ Append(t, x) \in Seq(S) /\ s \o Append(t, x) \in Seq(S)
           /\ Len(s \o t) \in Nat /\ Len(s \o Append(t, x)) = Len(s \o t) + 1
           /\ \A k \in 1..Len(s \o t) : (s \o Append(t, x))[k] = (s \o t)[k]
           /\ (s \o Append(t, x))[Len(s \o t) + 1] = x
OBVIOUS

LEMMA QueueTail ==
    ASSUME NEW S, NEW s \in Seq(S), NEW t \in Seq(S), s # <<>>
    PROVE  /\ Tail(s) \in Seq(S) /\ Head(s) \in S /\ Head(s) = (s \o t)[1]
           /\ Len(s \o t) \in Nat /\ Len(s \o t) > 0
           /\ Len(Tail(s) \o t) = Len(s \o t) - 1 /\ Len(Tail(s)) = Len(s) - 1
           /\ \A k \in 1..(Len(s \o t) - 1) : (Tail(s) \o t)[k] = (s \o t)[k + 1]
<1>1. Len(s) \in Nat /\ Len(s) > 0 /\ Tail(s) \in Seq(S) /\ Len(Tail(s)) = Len(s) - 1
      /\ \A k \in 1..(Len(s) - 1) : Tail(s)[k] = s[k + 1]
  OBVIOUS
<1>2. Head(s) = s[1] /\ Head(s) \in S
  OBVIOUS
<1>3. /\ Len(s \o t) = Len(s) + Len(t) /\ Len(t) \in Nat
      /\ \A k \in 1..(Len(s) + Len(t)) :
            (s \o t)[k] = IF k <= Len(s) THEN s[k] ELSE t[k - Len(s)]
  BY ConcatProperties
<1>4. /\ Len(Tail(s) \o t) = Len(s) - 1 + Len(t)
      /\ \A k \in 1..(Len(s) - 1 + Len(t)) :
            (Tail(s) \o t)[k] = IF k <= Len(s) - 1 THEN Tail(s)[k] ELSE t[k - (Len(s) - 1)]
  BY <1>1, ConcatProperties
<1>5. ASSUME NEW k \in 1..(Len(s \o t) - 1) PROVE (Tail(s) \o t)[k] = (s \o t)[k + 1]
  <2>1. k \in 1..(Len(s) - 1 + Len(t)) /\ k + 1 \in 1..(Len(s) + Len(t))
    BY <1>1, <1>3
  <2>2. CASE k <= Len(s) - 1
    BY <1>1, <1>3, <1>4, <2>1, <2>2
  <2>3. CASE ~ (k <= Len(s) - 1)
    <3>1. k - (Len(s) - 1) = k + 1 - Len(s) /\ ~ (k + 1 <= Len(s))
      BY <1>1, <2>1, <2>3
    <3> QED  BY <1>3, <1>4, <2>1, <2>3, <3>1
  <2> QED  BY <2>2, <2>3
<1> QED  BY <1>1, <1>2, <1>3, <1>4, <1>5

(* The least of two numbers. *)
LEMMA MinOfTwo ==
    ASSUME NEW x \in Int, NEW y \in Int
    PROVE  Min({x, y}) = IF x <= y THEN x ELSE y
<1>1. \E z \in {x, y} : \A w \in {x, y} : z <= w
  OBVIOUS
<1>2. Min({x, y}) \in {x, y} /\ \A w \in {x, y} : Min({x, y}) <= w
  BY <1>1 DEF Min
<1> QED  BY <1>2

(* Polling moves completions from one queue to the other. *)
LEMMA PollKeeps ==
    ASSUME TypeOK, completions = <<>>, NEW n \in Nat, n <= Len(cq),
           completions' = SubSeq(cq, 1, n), cq' = SubSeq(cq, n + 1, Len(cq))
    PROVE  /\ inbox' = inbox /\ completions' \in Seq(Completions) /\ cq' \in Seq(Completions)
           /\ Len(completions') = n
<1>1. cq \in Seq(Completions) /\ Len(cq) \in Nat
  BY DEF TypeOK
<1>2. completions' \in Seq(Completions) /\ cq' \in Seq(Completions) /\ Len(completions') = n
  BY <1>1, SubSeqProperties
<1>3. SubSeq(cq, 1, n) \o SubSeq(cq, n + 1, Len(cq)) = SubSeq(cq, 1, Len(cq))
  <2>1. 1 \in 1..(Len(cq) + 1) /\ n \in (1 - 1)..Len(cq) /\ Len(cq) \in n..Len(cq)
    BY <1>1
  <2> QED  BY <1>1, <2>1, ConcatAdjacentSubSeq, Zenon
<1>4. SubSeq(cq, 1, Len(cq)) = cq /\ completions \o cq = cq
  BY <1>1, SubSeqFull, ConcatEmptySeq
<1> QED  BY <1>2, <1>3, <1>4, Zenon DEF inbox

----------------------------------------------------------------------------
(* The numbers of compute_thread_pointers.                                 *)

LEMMA PartitionTypes ==
    ASSUME NEW t \in ThreadIds, NEW l \in Nat
    PROVE  /\ TotalMessages(l) \in Nat /\ Base(l) \in Nat /\ Adjustment(l) \in 0..(Cores - 1)
           /\ StartMessage(t, l) \in Nat /\ EndMessage(t, l) \in Nat
           /\ ThreadStart(t, l) \in Nat /\ ThreadEnd(t, l) \in Int
           /\ ExpectedOperations(t, l) = 2 * (EndMessage(t, l) - StartMessage(t, l))
           /\ \A i \in Slots : FirstPointer(t, l, i) \in Int
<1>1. Cores \in Nat \ {0} /\ SlotsPerCore \in Nat \ {0} /\ MessageFloats \in Nat \ {0}
      /\ t \in Nat
  BY PartitionAssumption DEF ThreadIds
<1>2. TotalMessages(l) \in Nat
  <2>1. l * SizeofFloat - 1 \in Int /\ MessageFloats * SizeofFloat \in Nat
        /\ MessageFloats * SizeofFloat > 1
    BY <1>1 DEF SizeofFloat
  <2>2. CASE l * SizeofFloat - 1 >= 0
    BY <2>1, <2>2 DEF TotalMessages, Quotient
  <2>3. CASE ~ (l * SizeofFloat - 1 >= 0)
    <3>1. - (l * SizeofFloat - 1) = 1
      BY <2>3 DEF SizeofFloat
    <3>2. 1 \div (MessageFloats * SizeofFloat) = 0
      BY <2>1
    <3> QED  BY <2>3, <3>1, <3>2 DEF TotalMessages, Quotient
  <2> QED  BY <2>2, <2>3
<1>3. Base(l) \in Nat /\ Adjustment(l) \in 0..(Cores - 1)
  BY <1>1, <1>2 DEF Base, Adjustment
<1>4. StartMessage(t, l) \in Nat
  <2>1. Min({t, Adjustment(l)}) \in Nat
    BY <1>1, <1>3, MinOfTwo
  <2>2. t * Base(l) \in Nat
    BY <1>1, <1>3
  <2> QED  BY <2>1, <2>2 DEF StartMessage
<1>5. EndMessage(t, l) \in Nat
  BY <1>3, <1>4 DEF EndMessage
<1>6. ThreadStart(t, l) \in Nat /\ EndMessage(t, l) * MessageFloats \in Nat
  BY <1>1, <1>4, <1>5 DEF ThreadStart
<1>7. ThreadEnd(t, l) \in Int
  <2>1. ThreadStart(t, l) + EndMessage(t, l) * MessageFloats \in Int
    BY <1>6
  <2> QED  BY <2>1, MinOfTwo DEF ThreadEnd
<1>8. ASSUME NEW i \in Slots PROVE FirstPointer(t, l, i) \in Int
  <2>1. i * MessageFloats \in Int
    BY <1>1 DEF Slots
  <2> QED  BY <1>6, <2>1 DEF FirstPointer
<1> QED  BY <1>2, <1>3, <1>4, <1>5, <1>6, <1>7, <1>8 DEF ExpectedOperations

----------------------------------------------------------------------------
(* compute_thread_pointers.                                                *)

(* Division rounds down. *)
LEMMA Rounding ==
    ASSUME NEW a \in Nat, NEW b \in Nat \ {0}, NEW q, q = a \div b
    PROVE  /\ q \in Nat /\ q * b <= a /\ a < (q + 1) * b
           /\ a = b * q + (a % b) /\ a % b \in 0..(b - 1)
<1>1. q \in Int /\ a = b * q + (a % b) /\ a % b \in 0..(b - 1)
  OBVIOUS
<1>2. (q + 1) * b = b * q + b /\ q * b = b * q
  BY <1>1
<1>3. q \in Nat
  OBVIOUS
<1>4. q * b <= a /\ a < (q + 1) * b
  BY <1>1, <1>2, <1>3
<1> QED  BY <1>1, <1>3, <1>4, Zenon

(* Multiples of one number are ordered as their factors. *)
LEMMA Multiples ==
    ASSUME NEW j \in Nat, NEW k \in Nat, NEW b \in Nat \ {0}
    PROVE  j * b \in Nat /\ (j < k <=> j * b < k * b) /\ (j <= k <=> j * b <= k * b)
<1>1. j * b \in Nat /\ k * b \in Nat
  OBVIOUS
<1>2. ASSUME NEW x \in Nat, NEW y \in Nat, x < y PROVE x * b < y * b
  <2>1. PICK d \in Nat : y = x + d + 1
    BY <1>2
  <2>2. y * b = x * b + d * b + b /\ d * b \in Nat /\ x * b \in Nat
    BY <2>1
  <2> QED  BY <2>2
<1>3. j < k => j * b < k * b
  BY <1>2
<1>4. k < j => k * b < j * b
  BY <1>2
<1> QED  BY <1>1, <1>3, <1>4

(* Message k starts within the buffer exactly if it is one of the total. *)
LEMMA TotalCovers ==
    ASSUME NEW l \in Nat, l > 0, NEW T, T = TotalMessages(l)
    PROVE T \in Nat /\ T > 0 /\ \A k \in Nat : k * MessageFloats < l <=> k < T
<1> DEFINE M == MessageFloats
<1>1. M \in Nat \ {0}
  BY PartitionAssumption
<1>2. PICK q : q = (l * 4 - 1) \div (M * 4) /\ T = q + 1
  BY DEF TotalMessages, Quotient, SizeofFloat
<1>3. l * 4 - 1 \in Nat /\ M * 4 \in Nat \ {0}
  BY <1>1
<1>4. q \in Nat /\ q * (M * 4) <= l * 4 - 1 /\ l * 4 - 1 < (q + 1) * (M * 4)
  BY <1>2, <1>3, Rounding, Zenon
<1>5. q * (M * 4) = 4 * (q * M) /\ (q + 1) * (M * 4) = 4 * ((q + 1) * M)
      /\ q * M \in Nat /\ (q + 1) * M \in Nat
  BY <1>1, <1>4
<1>6. q * M < l /\ l <= (q + 1) * M
  BY <1>4, <1>5
<1>7. ASSUME NEW k \in Nat PROVE k * M < l <=> k < T
  <2>1. /\ k <= q => k * M <= q * M
        /\ q + 1 <= k => (q + 1) * M <= k * M
        /\ k * M \in Nat
    BY <1>1, <1>4, Multiples
  <2> QED  BY <1>2, <1>4, <1>5, <1>6, <2>1
<1> QED  BY <1>2, <1>4, <1>7

(* The total is dealt out: Base to every thread, and one more to the first *)
(* Adjustment threads.                                                     *)
LEMMA Dealt ==
    ASSUME NEW l \in Nat
    PROVE  \E T \in Nat : \E B \in Nat : \E A \in Nat :
             /\ T = TotalMessages(l) /\ B = Base(l) /\ A = Adjustment(l)
             /\ Cores \in Nat \ {0} /\ A < Cores /\ T = Cores * B + A
             /\ \A t \in ThreadIds :
                   /\ StartMessage(t, l) = t * B + (IF t <= A THEN t ELSE A)
                   /\ EndMessage(t, l) = t * B + B + (IF t + 1 <= A THEN t + 1 ELSE A)
                   /\ t \in Nat /\ t < Cores /\ t * B \in Nat
<1>0. PICK T, B, A : T = TotalMessages(l) /\ B = Base(l) /\ A = Adjustment(l)
  OBVIOUS
<1>1. Cores \in Nat \ {0} /\ T \in Nat
  <2>1. 0 \in ThreadIds
    BY PartitionAssumption DEF ThreadIds
  <2> QED  BY <1>0, <2>1, PartitionAssumption, PartitionTypes
<1>2. B = T \div Cores /\ A = T % Cores
  BY <1>0 DEF Base, Adjustment
<1>3. B \in Nat /\ A \in Nat /\ A < Cores /\ T = Cores * B + A
  <2>1. B \in Nat /\ T = Cores * B + A /\ A \in 0..(Cores - 1)
    <3>1. /\ B \in Nat /\ T = Cores * B + (T % Cores)
          /\ T % Cores \in 0..(Cores - 1)
      BY <1>1, <1>2, Rounding, Zenon
    <3> QED  BY <1>2, <3>1, Zenon
  <2> QED  BY <1>1, <2>1
<1>4. ASSUME NEW t \in ThreadIds
      PROVE  /\ StartMessage(t, l) = t * B + (IF t <= A THEN t ELSE A)
             /\ EndMessage(t, l) = t * B + B + (IF t + 1 <= A THEN t + 1 ELSE A)
             /\ t \in Nat /\ t < Cores /\ t * B \in Nat
  <2>1. t \in Nat /\ t < Cores
    BY <1>1 DEF ThreadIds
  <2>2. t * B \in Nat
    BY <1>3, <2>1
  <2>3. Min({t, A}) = IF t <= A THEN t ELSE A
    BY <1>3, <2>1, MinOfTwo
  <2>4. StartMessage(t, l) = t * B + (IF t <= A THEN t ELSE A)
    BY <1>0, <2>3 DEF StartMessage
  <2>5. EndMessage(t, l) = StartMessage(t, l) + B + (IF t < A THEN 1 ELSE 0)
    BY <1>0 DEF EndMessage
  <2> QED  BY <1>3, <2>1, <2>2, <2>4, <2>5
<1> QED  BY <1>0, <1>1, <1>3, <1>4

(* With at most two threads thread_end_pointer is the end of the share.    *)
LEMMA OwnShare ==
    ASSUME Cores <= 2, NEW t \in ThreadIds, NEW l \in Nat, l > 0, NEW n \in Nat
    PROVE  /\ EndMessage(t, l) - StartMessage(t, l) \in Nat
           /\ ThreadStart(t, l) + n * MessageFloats < ThreadEnd(t, l)
                 <=> n < EndMessage(t, l) - StartMessage(t, l)
<1>0. PICK s, e, M : s = StartMessage(t, l) /\ e = EndMessage(t, l) /\ M = MessageFloats
  OBVIOUS
<1>1. PICK T \in Nat, B \in Nat, A \in Nat :
           /\ T = TotalMessages(l) /\ B = Base(l) /\ A = Adjustment(l)
           /\ Cores \in Nat \ {0} /\ A < Cores /\ T = Cores * B + A
           /\ \A u \in ThreadIds :
                 /\ StartMessage(u, l) = u * B + (IF u <= A THEN u ELSE A)
                 /\ EndMessage(u, l) = u * B + B + (IF u + 1 <= A THEN u + 1 ELSE A)
                 /\ u \in Nat /\ u < Cores /\ u * B \in Nat
  BY Dealt, Zenon
<1>2. /\ Cores \in Nat \ {0} /\ A < Cores /\ T = Cores * B + A
      /\ s = t * B + (IF t <= A THEN t ELSE A)
      /\ e = t * B + B + (IF t + 1 <= A THEN t + 1 ELSE A)
      /\ t \in Nat /\ t < Cores
  BY <1>0, <1>1
<1>3. s \in Nat /\ e \in Nat /\ s <= e /\ e <= T /\ (s = 0 \/ e = T)
  <2>1. CASE Cores = 1
    BY <1>2, <2>1
  <2>2. CASE Cores = 2 /\ t = 0
    BY <1>2, <2>2
  <2>3. CASE Cores = 2 /\ t = 1
    BY <1>2, <2>3
  <2> QED  BY <1>2, <2>1, <2>2, <2>3
<1>4. M \in Nat \ {0} /\ s * M \in Nat /\ e * M \in Nat /\ n * M \in Nat
  BY <1>0, <1>3, PartitionAssumption
<1>5. ThreadStart(t, l) = s * M /\ ThreadEnd(t, l) = IF s * M + e * M <= l THEN s * M + e * M ELSE l
  <2>1. s * M + e * M \in Int
    BY <1>4
  <2> QED  BY <1>0, <2>1, MinOfTwo DEF ThreadStart, ThreadEnd
<1>6. s * M + n * M < l <=> s + n < T
  <2>1. s * M + n * M = (s + n) * M /\ s + n \in Nat
    BY <1>3, <1>4
  <2>2. \A k \in Nat : k * M < l <=> k < T
    BY <1>0, <1>1, TotalCovers, Zenon
  <2>3. (s + n) * M < l <=> s + n < T
    BY <2>1, <2>2
  <2> QED  BY <2>1, <2>3, Zenon
<1>7. n * M < e * M <=> n < e
  BY <1>3, <1>4, Multiples
<1>8. s * M + n * M < s * M + e * M <=> n < e
  BY <1>4, <1>7
<1>9. s * M + n * M < ThreadEnd(t, l) <=> (n < e /\ s + n < T)
  BY <1>4, <1>5, <1>6, <1>8
<1>10. (n < e /\ s + n < T) <=> n < e - s
  BY <1>2, <1>3
<1>11. ThreadStart(t, l) + n * MessageFloats = s * M + n * M
  BY <1>0, <1>5
<1> QED  BY <1>0, <1>3, <1>9, <1>10, <1>11

(* Every message of the buffer is in the share of a thread. *)
LEMMA MessageHasThread ==
    ASSUME NEW l \in Nat, l > 0, NEW m \in Nat, m < TotalMessages(l)
    PROVE  \E t \in ThreadIds : StartMessage(t, l) <= m /\ m < EndMessage(t, l)
<1>1. PICK T \in Nat, B \in Nat, A \in Nat :
           /\ T = TotalMessages(l) /\ B = Base(l) /\ A = Adjustment(l)
           /\ Cores \in Nat \ {0} /\ A < Cores /\ T = Cores * B + A
           /\ \A v \in ThreadIds :
                 /\ StartMessage(v, l) = v * B + (IF v <= A THEN v ELSE A)
                 /\ EndMessage(v, l) = v * B + B + (IF v + 1 <= A THEN v + 1 ELSE A)
                 /\ v \in Nat /\ v < Cores /\ v * B \in Nat
  BY Dealt, Zenon
<1>2. /\ Cores \in Nat \ {0} /\ T \in Nat /\ B \in Nat /\ A \in Nat /\ A < Cores
      /\ T = Cores * B + A
      /\ \A t \in ThreadIds :
            /\ StartMessage(t, l) = t * B + (IF t <= A THEN t ELSE A)
            /\ EndMessage(t, l) = t * B + B + (IF t + 1 <= A THEN t + 1 ELSE A)
  BY <1>1
<1>3. A * (B + 1) \in Nat /\ Cores * B \in Nat /\ A * B \in Nat /\ A * (B + 1) = A * B + A
  BY <1>2
<1>4. CASE m < A * (B + 1)
  <2>1. PICK t : t = m \div (B + 1)
    OBVIOUS
  <2>2. t \in Nat /\ t * (B + 1) <= m /\ m < (t + 1) * (B + 1)
    <3>1. B + 1 \in Nat \ {0}
      BY <1>2
    <3> QED  BY <2>1, <3>1, Rounding, Zenon
  <2>3. t < A
    <3>1. t * (B + 1) \in Nat /\ t * (B + 1) < A * (B + 1)
      BY <1>2, <1>3, <1>4, <2>2
    <3> QED  BY <1>2, <2>2, <3>1, Multiples
  <2>4. t \in ThreadIds
    BY <1>2, <2>2, <2>3 DEF ThreadIds
  <2>5. t * (B + 1) = t * B + t /\ (t + 1) * (B + 1) = t * B + B + t + 1 /\ t * B \in Nat
    BY <1>2, <2>2
  <2>6. StartMessage(t, l) = t * B + t /\ EndMessage(t, l) = t * B + B + (t + 1)
    BY <1>2, <2>2, <2>3, <2>4
  <2> QED  BY <1>2, <2>2, <2>4, <2>5, <2>6
<1>5. CASE ~ (m < A * (B + 1))
  <2>1. PICK r : r = m - A * (B + 1) /\ r \in Nat
    BY <1>3, <1>5
  <2>2. r < Cores * B - A * B
    <3>1. m < T
      BY <1>1, Zenon
    <3>2. PICK y, z, w : y = Cores * B /\ z = A * B /\ w = A * (B + 1)
      OBVIOUS
    <3>3. y \in Nat /\ z \in Nat /\ w = z + A /\ T = y + A /\ r = m - w
      BY <1>2, <1>3, <2>1, <3>2, Zenon
    <3>4. r < y - z
      BY <3>1, <3>3
    <3> QED  BY <3>2, <3>4
  <2>3. B \in Nat \ {0}
    BY <1>2, <2>1, <2>2
  <2>4. PICK t : t = A + r \div B
    OBVIOUS
  <2>5. PICK d \in Nat : t = A + d /\ d * B <= r /\ r < (d + 1) * B
    BY <2>1, <2>3, <2>4, Rounding, Zenon
  <2>6. d < Cores - A
    <3>1. (Cores - A) * B = Cores * B - A * B /\ Cores - A \in Nat /\ d * B \in Nat
      BY <1>2, <2>5
    <3>2. d * B < (Cores - A) * B
      BY <1>3, <2>1, <2>2, <2>5, <3>1
    <3> QED  BY <2>3, <2>5, <3>1, <3>2, Multiples
  <2>7. t \in ThreadIds /\ t \in Nat
    BY <1>2, <2>5, <2>6 DEF ThreadIds
  <2>8. t * B = A * B + d * B /\ (d + 1) * B = d * B + B /\ d * B \in Nat /\ t * B \in Nat
    BY <1>2, <2>5
  <2>9. StartMessage(t, l) = t * B + A /\ EndMessage(t, l) = t * B + B + A
    BY <1>2, <2>5, <2>7
  <2> QED  BY <1>2, <1>3, <2>1, <2>5, <2>7, <2>8, <2>9
<1> QED  BY <1>4, <1>5

(* The share of a thread comes before those of the later threads. *)
LEMMA SharesApart ==
    ASSUME NEW l \in Nat, NEW t \in ThreadIds, NEW u \in ThreadIds, t < u
    PROVE  EndMessage(t, l) <= StartMessage(u, l)
<1>1. PICK T \in Nat, B \in Nat, A \in Nat :
           /\ T = TotalMessages(l) /\ B = Base(l) /\ A = Adjustment(l)
           /\ Cores \in Nat \ {0} /\ A < Cores /\ T = Cores * B + A
           /\ \A v \in ThreadIds :
                 /\ StartMessage(v, l) = v * B + (IF v <= A THEN v ELSE A)
                 /\ EndMessage(v, l) = v * B + B + (IF v + 1 <= A THEN v + 1 ELSE A)
                 /\ v \in Nat /\ v < Cores /\ v * B \in Nat
  BY Dealt, Zenon
<1>2. /\ B \in Nat /\ A \in Nat /\ t \in Nat /\ u \in Nat
      /\ EndMessage(t, l) = t * B + B + (IF t + 1 <= A THEN t + 1 ELSE A)
      /\ StartMessage(u, l) = u * B + (IF u <= A THEN u ELSE A)
  BY <1>1
<1>3. PICK d \in Nat : u = t + 1 + d
  BY <1>2
<1>4. u * B = t * B + B + d * B /\ d * B \in Nat /\ t * B \in Nat
  BY <1>2, <1>3
<1> QED  BY <1>2, <1>3, <1>4

(* No share goes beyond the buffer. *)
LEMMA ShareInBuffer ==
    ASSUME NEW l \in Nat, NEW t \in ThreadIds
    PROVE  /\ StartMessage(t, l) \in Nat /\ EndMessage(t, l) \in Nat /\ TotalMessages(l) \in Nat
           /\ EndMessage(t, l) <= TotalMessages(l)
<1>1. PICK T \in Nat, B \in Nat, A \in Nat :
           /\ T = TotalMessages(l) /\ B = Base(l) /\ A = Adjustment(l)
           /\ Cores \in Nat \ {0} /\ A < Cores /\ T = Cores * B + A
           /\ \A v \in ThreadIds :
                 /\ StartMessage(v, l) = v * B + (IF v <= A THEN v ELSE A)
                 /\ EndMessage(v, l) = v * B + B + (IF v + 1 <= A THEN v + 1 ELSE A)
                 /\ v \in Nat /\ v < Cores /\ v * B \in Nat
  BY Dealt, Zenon
<1>2. /\ StartMessage(t, l) = t * B + (IF t <= A THEN t ELSE A)
      /\ EndMessage(t, l) = t * B + B + (IF t + 1 <= A THEN t + 1 ELSE A)
      /\ t \in Nat /\ t < Cores /\ t * B \in Nat
  BY <1>1
<1>3. PICK d \in Nat : Cores = t + 1 + d
  BY <1>1, <1>2
<1>4. Cores * B = t * B + B + d * B /\ d * B \in Nat
  BY <1>1, <1>2, <1>3
<1> QED  BY <1>1, <1>2, <1>4

(* A thread posts the messages that it counts on. *)
LEMMA SharePosted ==
    ASSUME NEW l \in Nat \ {0}, NEW t \in ThreadIds, NEW p \in Share(t, l)
    PROVE  p \in PostedBy(t, l)
<1>0. PICK s, e, T, M : /\ s = StartMessage(t, l) /\ e = EndMessage(t, l)
                        /\ T = TotalMessages(l) /\ M = MessageFloats
  OBVIOUS
<1>1. s \in Nat /\ e \in Nat /\ T \in Nat /\ e <= T /\ M \in Nat \ {0}
  BY <1>0, ShareInBuffer, PartitionAssumption
<1>2. PICK k \in s..(e - 1) : p = k * M
  BY <1>0 DEF Share
<1>3. PICK n \in Nat : k = s + n /\ n < e
  BY <1>1, <1>2
<1>4. /\ k \in Nat /\ s * M \in Nat /\ n * M \in Nat /\ e * M \in Nat
      /\ p = s * M + n * M
  BY <1>1, <1>2, <1>3
<1>5. FirstPointer(t, l, n) = p
  BY <1>0, <1>4 DEF FirstPointer, ThreadStart
<1>6. n \in 0..T
  BY <1>1, <1>3
<1>7. p < l
  BY <1>0, <1>1, <1>2, <1>4, TotalCovers
<1>8. n * M < e * M
  BY <1>1, <1>3, Multiples
<1>9. p < ThreadEnd(t, l)
  <2>1. s * M + e * M \in Int
    BY <1>4
  <2>2. ThreadEnd(t, l) = IF s * M + e * M <= l THEN s * M + e * M ELSE l
    BY <1>0, <2>1, MinOfTwo DEF ThreadStart, ThreadEnd
  <2> QED  BY <1>4, <1>7, <1>8, <2>1, <2>2
<1>10. p \in {FirstPointer(t, l, i) : i \in 0..T}
  BY <1>5, <1>6, Zenon
<1> QED  BY <1>0, <1>9, <1>10, Zenon DEF PostedBy

(* One thread or two post nothing else. *)
LEMMA PostedInShare ==
    ASSUME Cores <= 2, NEW l \in Nat \ {0}, NEW t \in ThreadIds, NEW p \in PostedBy(t, l)
    PROVE  p \in Share(t, l)
<1>1. PICK n \in 0..TotalMessages(l) : p = FirstPointer(t, l, n) /\ p < ThreadEnd(t, l)
  BY Zenon DEF PostedBy
<1>2. /\ StartMessage(t, l) \in Nat /\ EndMessage(t, l) \in Nat /\ n \in Nat
      /\ MessageFloats \in Nat
  BY ShareInBuffer, PartitionAssumption
<1>3. ThreadStart(t, l) + n * MessageFloats < ThreadEnd(t, l)
  BY <1>1, Zenon DEF FirstPointer
<1>4. n < EndMessage(t, l) - StartMessage(t, l)
  BY <1>2, <1>3, OwnShare
<1>5. PICK k : k = StartMessage(t, l) + n
  OBVIOUS
<1>6. k \in StartMessage(t, l)..(EndMessage(t, l) - 1)
  BY <1>2, <1>4, <1>5
<1>7. p = k * MessageFloats
  BY <1>1, <1>2, <1>5 DEF FirstPointer, ThreadStart
<1> QED  BY <1>6, <1>7, Zenon DEF Share

(* Up to thread_end_pointer, one thread or two post every float of a       *)
(* buffer in one message of one thread, and exactly the messages that      *)
(* outstanding_operations counts; with any number of threads no message    *)
(* that is counted is left out.  For every buffer that is not empty and    *)
(* every message size.                                                     *)
THEOREM PartitionCorrect ==
    \A l \in Nat \ {0} : PostsShares(l) /\ (Cores <= 2 => IsPartition(l))
<1> SUFFICES ASSUME NEW l \in Nat \ {0} PROVE PostsShares(l) /\ (Cores <= 2 => IsPartition(l))
  OBVIOUS
<1>0. PICK M : M = MessageFloats /\ M \in Nat \ {0}
  BY PartitionAssumption
<1>1. PICK T \in Nat, B \in Nat, A \in Nat :
           /\ T = TotalMessages(l) /\ B = Base(l) /\ A = Adjustment(l)
           /\ Cores \in Nat \ {0} /\ A < Cores /\ T = Cores * B + A
           /\ \A v \in ThreadIds :
                 /\ StartMessage(v, l) = v * B + (IF v <= A THEN v ELSE A)
                 /\ EndMessage(v, l) = v * B + B + (IF v + 1 <= A THEN v + 1 ELSE A)
                 /\ v \in Nat /\ v < Cores /\ v * B \in Nat
  BY Dealt, Zenon
<1>2. /\ T \in Nat /\ B \in Nat /\ A \in Nat
      /\ \A t \in ThreadIds :
            /\ StartMessage(t, l) = t * B + (IF t <= A THEN t ELSE A)
            /\ EndMessage(t, l) = t * B + B + (IF t + 1 <= A THEN t + 1 ELSE A)
            /\ t \in Nat /\ t * B \in Nat
  BY <1>1
<1>3. \A t \in ThreadIds : StartMessage(t, l) \in Nat /\ EndMessage(t, l) \in Nat
  BY <1>2
<1>4. ASSUME NEW x \in 0..(l - 1)
      PROVE  \E t \in ThreadIds : \E p \in Share(t, l) :
                 /\ Covers(p, x)
                 /\ \A u \in ThreadIds : \A r \in Share(u, l) : Covers(r, x) => u = t /\ r = p
  <2>0. x \in Nat /\ x < l /\ l > 0
    OBVIOUS
  <2>1. PICK m : m = x \div M
    OBVIOUS
  <2>2. m \in Nat /\ m * M <= x /\ x < (m + 1) * M
    BY <1>0, <1>1, <2>0, <2>1, Rounding, Zenon
  <2>3. m < T
    <3>1. m * M < l
      BY <1>0, <1>1, <2>0, <2>2
    <3> QED  BY <1>0, <1>1, <2>0, <2>2, <3>1, TotalCovers, Zenon
  <2>4. PICK t \in ThreadIds : StartMessage(t, l) <= m /\ m < EndMessage(t, l)
    BY <1>0, <1>1, <2>0, <2>2, <2>3, MessageHasThread, ZenonT(30)
  <2>5. m * M \in Share(t, l)
    <3>1. m \in StartMessage(t, l)..(EndMessage(t, l) - 1)
      BY <1>3, <2>2, <2>4
    <3> QED  BY <1>0, <1>1, <3>1 DEF Share
  <2>6. Covers(m * M, x)
    BY <1>0, <1>1, <2>2 DEF Covers
  <2>7. ASSUME NEW u \in ThreadIds, NEW r \in Share(u, l), Covers(r, x) PROVE u = t /\ r = m * M
    <3>1. PICK k \in StartMessage(u, l)..(EndMessage(u, l) - 1) : r = k * M
      BY <1>0, <1>1 DEF Share
    <3>2. k \in Nat /\ StartMessage(u, l) <= k /\ k < EndMessage(u, l)
      BY <1>3, <3>1
    <3>3. k * M <= x /\ x < k * M + M /\ k * M \in Nat
      BY <1>0, <1>1, <2>7, <3>1, <3>2 DEF Covers
    <3>4. (k + 1) * M = k * M + M /\ m * M \in Nat /\ (m + 1) * M \in Nat
      BY <1>0, <1>1, <2>2, <3>2
    <3>5. k * M < (m + 1) * M /\ m * M < (k + 1) * M
      <4>1. PICK y, z, v, w : y = k * M /\ z = m * M /\ v = (k + 1) * M /\ w = (m + 1) * M
        OBVIOUS
      <4>2. /\ y <= x /\ x < v /\ z <= x /\ x < w
            /\ y \in Nat /\ z \in Nat /\ w \in Nat /\ v \in Int
        <5>1. k * M + M \in Int
          BY <1>0, <1>1, <3>3
        <5> QED  BY <2>2, <3>3, <3>4, <4>1, <5>1, Zenon
      <4>3. y < w /\ z < v
        BY <2>0, <4>2
      <4> QED  BY <4>1, <4>3
    <3>6. k < m + 1 /\ m < k + 1
      BY <1>0, <1>1, <2>2, <3>2, <3>5, Multiples
    <3>7. k = m
      BY <2>2, <3>2, <3>6
    <3>8. ~ (t < u) /\ ~ (u < t)
      BY <1>3, <2>2, <2>4, <3>2, <3>7, SharesApart
    <3>9. t \in Nat /\ u \in Nat
      BY <1>2
    <3>10. u = t
      BY <3>8, <3>9
    <3> QED  BY <3>1, <3>7, <3>10
  <2> QED  BY <2>4, <2>5, <2>6, <2>7
<1>5. \A t \in ThreadIds : Share(t, l) \subseteq PostedBy(t, l)
  BY SharePosted, Zenon
<1>6. ASSUME Cores <= 2 PROVE \A t \in ThreadIds : PostedBy(t, l) = Share(t, l)
  BY <1>5, <1>6, PostedInShare, Zenon
<1>7. ASSUME Cores <= 2 PROVE IsPartition(l)
  <2>1. \A t \in ThreadIds : PostedBy(t, l) = Share(t, l)
    BY <1>6, <1>7
  <2>2. ASSUME NEW x \in 0..(l - 1)
        PROVE  \E t \in ThreadIds : \E p \in PostedBy(t, l) :
                   /\ Covers(p, x)
                   /\ \A u \in ThreadIds : \A r \in PostedBy(u, l) : Covers(r, x) => u = t /\ r = p
    <3>0. PICK t \in ThreadIds : \E p \in Share(t, l) :
             /\ Covers(p, x)
             /\ \A u \in ThreadIds : \A r \in Share(u, l) : Covers(r, x) => u = t /\ r = p
      BY <1>4, Zenon
    <3>1. PICK p \in Share(t, l) :
             /\ Covers(p, x)
             /\ \A u \in ThreadIds : \A r \in Share(u, l) : Covers(r, x) => u = t /\ r = p
      BY <3>0, Zenon
    <3>2. p \in PostedBy(t, l)
      BY <2>1, <3>1, Zenon
    <3>3. ASSUME NEW u \in ThreadIds, NEW r \in PostedBy(u, l), Covers(r, x) PROVE u = t /\ r = p
      <4>1. r \in Share(u, l)
        BY <2>1, Zenon
      <4> QED  BY <3>1, <3>3, <4>1, Zenon
    <3> QED  BY <3>1, <3>2, <3>3, Zenon
  <2> QED  BY <2>1, <2>2, Zenon DEF IsPartition
<1> QED  BY <1>5, <1>7, Zenon DEF PostsShares

----------------------------------------------------------------------------
(* Waiting messages are timed.                                             *)

(* Posting sets off the write that will set the timer. *)
LEMMA PostStep ==
    ASSUME ThreadInv, reduction > 0, NEW i \in Slots, PostNextSendWr(i)
    PROVE  /\ pointers' \in [Slots -> Int] /\ slot_bit' \in [Slots -> {0, 1}]
           /\ current' \in [Slots -> Messages] /\ timeouts' \in QueueType
           /\ writes' \in [Slots -> Nat] /\ up' \in [Slots -> Seq(Packets)]
           /\ TimersLinked(timeouts')
           /\ \A j \in Slots : current'[j][1] <= reduction
                               /\ (current'[j][1] = reduction => current'[j] \in posted')
           /\ \A j \in Slots : current'[j] \in posted' =>
                 \/ writes'[j] > 0
                 \/ /\ current'[j] = current[j] /\ current[j] \in posted
                    /\ writes'[j] = writes[j]
                    /\ timeouts.next[j] # Nil => timeouts'.next[j] # Nil
<1>0. TypeOK /\ TimersLinked(timeouts) /\ CurrentInv
  BY DEF ThreadInv
<1>1. CASE ~ Posts(i)
  <2>1. UNCHANGED <<pointers, slot_bit, current, timeouts, writes, up, posted>>
    BY <1>1 DEF PostNextSendWr, slots
  <2> QED  BY <1>0, <2>1 DEF TypeOK, CurrentInv
<1>2. CASE Posts(i)
  <2>1. PICK bit, message :
          /\ bit = 1 - slot_bit[i] /\ message = <<reduction, pointers[i]>>
          /\ slot_bit' = [slot_bit EXCEPT ![i] = bit]
          /\ current' = [current EXCEPT ![i] = message]
          /\ up' = [up EXCEPT ![i] = Append(@, [bit |-> bit, message |-> message])]
          /\ posted' = posted \cup {message}
    BY <1>2, Zenon DEF PostNextSendWr
  <2>2. /\ timeouts' = Remove(timeouts, i)
        /\ writes' = [writes EXCEPT ![i] = @ + 1]
        /\ pointers' = [pointers EXCEPT ![i] = @ + SlotsPerCore * MessageFloats]
    BY <1>2 DEF PostNextSendWr
  <2>3. bit \in {0, 1} /\ message \in Messages /\ [bit |-> bit, message |-> message] \in Packets
    <3>1. slot_bit[i] \in {0, 1} /\ reduction \in Nat /\ pointers[i] \in Int
      BY <1>0 DEF TypeOK
    <3>2. bit \in {0, 1} /\ message \in Messages
      BY <2>1, <3>1 DEF Messages
    <3> QED  BY <3>2 DEF Packets
  <2>4. SlotsPerCore * MessageFloats \in Int
    BY PartitionAssumption
  <2>5. pointers' \in [Slots -> Int] /\ slot_bit' \in [Slots -> {0, 1}]
        /\ current' \in [Slots -> Messages] /\ writes' \in [Slots -> Nat]
    BY <1>0, <2>1, <2>2, <2>3, <2>4 DEF TypeOK
  <2>6. up' \in [Slots -> Seq(Packets)]
    <3>1. up[i] \in Seq(Packets)
      BY <1>0 DEF TypeOK
    <3>2. Append(up[i], [bit |-> bit, message |-> message]) \in Seq(Packets)
      BY <2>3, <3>1, AppendProperties
    <3> QED  BY <1>0, <2>1, <3>2 DEF TypeOK
  <2>7. /\ timeouts' \in QueueType /\ TimersLinked(timeouts')
        /\ \A j \in Slots \ {i} : timeouts.next[j] # Nil => timeouts'.next[j] # Nil
    BY <1>0, <2>2, SlotTimerOff DEF TypeOK
  <2>8. current'[i] = message /\ writes'[i] > 0
        /\ \A j \in Slots \ {i} : current'[j] = current[j] /\ writes'[j] = writes[j]
    BY <1>0, <2>1, <2>2 DEF TypeOK
  <2>9. \A j \in Slots \ {i} : current[j] = message => current[j] \in posted
    <3>1. message[1] = reduction
      BY <2>1
    <3> QED  BY <1>0, <3>1 DEF CurrentInv
  <2>10. \A j \in Slots : current'[j][1] <= reduction
                          /\ (current'[j][1] = reduction => current'[j] \in posted')
    BY <1>0, <2>1, <2>8 DEF CurrentInv, TypeOK
  <2> QED  BY <2>1, <2>5, <2>6, <2>7, <2>8, <2>9, <2>10, ZenonT(30)
<1> QED  BY <1>1, <1>2

(* What the NIC adds to the completion queue arms no fewer timers. *)
LEMMA InboxGrows ==
    ASSUME TypeOK, NEW x \in Completions, UNCHANGED completions, cq' = Append(cq, x)
    PROVE  /\ cq' \in Seq(Completions) /\ Len(inbox) \in Nat /\ Len(inbox') = Len(inbox) + 1
           /\ \A k \in 1..Len(inbox) : inbox'[k] = inbox[k]
           /\ inbox'[Len(inbox) + 1] = x
BY QueueAppend DEF TypeOK, inbox

LEMMA InboxShrinks ==
    ASSUME TypeOK, completions # <<>>, completions' = Tail(completions), UNCHANGED cq
    PROVE  /\ completions' \in Seq(Completions) /\ Head(completions) \in Completions
           /\ Head(completions) = inbox[1] /\ Len(completions') = Len(completions) - 1
           /\ Len(inbox) \in Nat /\ Len(inbox) > 0 /\ Len(inbox') = Len(inbox) - 1
           /\ \A k \in 1..(Len(inbox) - 1) : inbox'[k] = inbox[k + 1]
BY QueueTail DEF TypeOK, inbox

LEMMA ThreadInit == Init => ThreadInv
<1> SUFFICES ASSUME Init PROVE ThreadInv
  OBVIOUS
<1>1. NewQueue \in QueueType /\ TimersLinked(NewQueue)
  BY SlotFacts DEF NewQueue, QueueType, TimersLinked
<1>2. TypeOK
  BY <1>1, EmptySeq DEF Init, TypeOK, NoMessage, Messages
<1>3. FlowInv
  BY DEF Init, FlowInv
<1>4. CurrentInv /\ \A i \in Waiting : Timed(i)
  BY DEF Init, CurrentInv, NoMessage, Waiting
<1> QED  BY <1>1, <1>2, <1>3, <1>4 DEF ThreadInv, Init

(* The main loop: what it does with the completions. *)
LEMMA HandleStep ==
    ASSUME ThreadInv, HandleRecv \/ HandleWrite
    PROVE  ThreadInv'
<1>0. TypeOK /\ FlowInv /\ TimersLinked(timeouts) /\ CurrentInv /\ \A i \in Waiting : Timed(i)
  BY DEF ThreadInv
<1>1. /\ pc = "handle" /\ completions' = Tail(completions) /\ UNCHANGED cq
      /\ pc' = (IF Len(completions) = 1 THEN "timeouts" ELSE "handle")
      /\ UNCHANGED <<thread_id, length, reduction, initial>>
  BY DEF HandleRecv, HandleWrite, Handled, buffer, progress
<1>2. completions # <<>> /\ reduction > 0
  BY <1>0, <1>1 DEF FlowInv, TypeOK
<1>3. /\ completions' \in Seq(Completions) /\ Head(completions) \in Completions
      /\ Head(completions) = inbox[1] /\ Len(completions') = Len(completions) - 1
      /\ Len(inbox) \in Nat /\ Len(inbox) > 0 /\ Len(inbox') = Len(inbox) - 1
      /\ \A k \in 1..(Len(inbox) - 1) : inbox'[k] = inbox[k + 1]
  BY <1>0, <1>1, <1>2, InboxShrinks
<1>4. FlowInv'
  <2>1. completions' = <<>> <=> Len(completions) = 1
    <3>1. completions' = <<>> <=> Len(completions') = 0
      BY <1>3, EmptySeq
    <3>2. Len(completions) \in Nat
      BY <1>0 DEF TypeOK
    <3> QED  BY <1>3, <3>1, <3>2
  <2> QED  BY <1>0, <1>1, <1>2, <2>1 DEF FlowInv, TypeOK
<1>5. PICK c : c = Head(completions) /\ c = inbox[1] /\ c.slot \in Slots
  BY <1>3 DEF Completions
<1>6. ASSUME NEW j \in Slots, NEW k \in 1..Len(inbox),
             inbox[k].kind = "write" /\ inbox[k].slot = j, c.kind # "write" \/ c.slot # j
      PROVE  \E m \in 1..Len(inbox') : inbox'[m].kind = "write" /\ inbox'[m].slot = j
  <2>1. k # 1
    BY <1>5, <1>6
  <2>2. k - 1 \in 1..(Len(inbox) - 1) /\ k - 1 + 1 = k
    BY <1>3, <2>1
  <2>3. inbox'[k - 1] = inbox[k]
    BY <1>3, <2>2
  <2> QED  BY <1>3, <1>6, <2>2, <2>3
<1>7. CASE HandleWrite
  <2>1. /\ timeouts' = Push(timeouts, c.slot, 0) /\ c.kind = "write"
        /\ UNCHANGED <<pointers, slot_bit, current, outstanding, writes, up, posted, accepted>>
    BY <1>5, <1>7 DEF HandleWrite, slots
  <2>2. /\ timeouts' \in QueueType /\ TimersLinked(timeouts') /\ timeouts'.next[c.slot] # Nil
        /\ \A k \in Slots : timeouts.next[k] # Nil => timeouts'.next[k] # Nil
    <3>1. timeouts \in QueueType /\ TimersLinked(timeouts) /\ c.slot \in Entries
      BY <1>0, <1>5, SlotFacts DEF TypeOK
    <3> QED  BY <2>1, <3>1, PushTimer, SlotFacts, Zenon
  <2>3. TypeOK'
    BY <1>0, <1>1, <1>3, <2>1, <2>2 DEF TypeOK
  <2>4. CurrentInv' /\ Waiting' = Waiting
    BY <1>0, <1>1, <2>1 DEF CurrentInv, Waiting
  <2>5. ASSUME NEW j \in Waiting PROVE Timed(j)'
    <3>1. Timed(j) /\ j \in Slots
      BY <1>0 DEF Waiting
    <3> QED  BY <1>6, <2>1, <2>2, <3>1 DEF Timed
  <2> QED  BY <1>4, <2>2, <2>3, <2>4, <2>5 DEF ThreadInv
<1>8. CASE HandleRecv /\ Expected(c)
  <2>1. /\ PostNextSendWr(c.slot) /\ c.kind = "recv"
        /\ outstanding' = outstanding - SendsPosted(c.slot) - 1
        /\ accepted' = accepted \cup {c.message}
    BY <1>5, <1>8, Zenon DEF HandleRecv
  <2>2. /\ pointers' \in [Slots -> Int] /\ slot_bit' \in [Slots -> {0, 1}]
        /\ current' \in [Slots -> Messages] /\ timeouts' \in QueueType
        /\ writes' \in [Slots -> Nat] /\ up' \in [Slots -> Seq(Packets)]
        /\ TimersLinked(timeouts')
        /\ \A j \in Slots : current'[j][1] <= reduction
                            /\ (current'[j][1] = reduction => current'[j] \in posted')
        /\ \A j \in Slots : current'[j] \in posted' =>
              \/ writes'[j] > 0
              \/ /\ current'[j] = current[j] /\ current[j] \in posted
                 /\ writes'[j] = writes[j]
                 /\ timeouts.next[j] # Nil => timeouts'.next[j] # Nil
    BY <1>2, <1>5, <2>1, PostStep
  <2>3. TypeOK'
    <3>1. outstanding' \in Int
      BY <1>0, <2>1 DEF TypeOK, SendsPosted
    <3> QED  BY <1>0, <1>1, <1>3, <2>2, <3>1 DEF TypeOK
  <2>4. CurrentInv'
    BY <1>1, <2>2 DEF CurrentInv
  <2>5. ASSUME NEW j \in Slots, current'[j] \in posted' \ accepted' PROVE Timed(j)'
    <3>1. CASE writes'[j] > 0
      BY <3>1 DEF Timed
    <3>2. CASE /\ current'[j] = current[j] /\ current[j] \in posted
               /\ writes'[j] = writes[j]
               /\ timeouts.next[j] # Nil => timeouts'.next[j] # Nil
      <4>1. j \in Waiting
        BY <2>1, <2>5, <3>2 DEF Waiting
      <4>2. Timed(j)
        BY <1>0, <4>1
      <4> QED  BY <1>6, <2>1, <3>2, <4>2 DEF Timed
    <3> QED  BY <2>2, <2>5, <3>1, <3>2
  <2> QED  BY <1>4, <2>2, <2>3, <2>4, <2>5 DEF ThreadInv, Waiting
<1>9. CASE HandleRecv /\ ~ Expected(c)
  <2>1. /\ c.kind = "recv"
        /\ UNCHANGED <<pointers, slot_bit, current, outstanding, timeouts, writes, up, posted,
                       accepted>>
    BY <1>5, <1>9 DEF HandleRecv, slots
  <2>2. TypeOK'
    BY <1>0, <1>1, <1>3, <2>1 DEF TypeOK
  <2>3. CurrentInv' /\ Waiting' = Waiting
    BY <1>0, <1>1, <2>1 DEF CurrentInv, Waiting
  <2>4. ASSUME NEW j \in Waiting PROVE Timed(j)'
    <3>1. Timed(j) /\ j \in Slots
      BY <1>0 DEF Waiting
    <3> QED  BY <1>6, <2>1, <3>1 DEF Timed
  <2> QED  BY <1>0, <1>4, <2>1, <2>2, <2>3, <2>4 DEF ThreadInv
<1> QED  BY <1>7, <1>8, <1>9

(* The main loop, without the handling of completions. *)
LEMMA LoopStep ==
    ASSUME ThreadInv, Leave \/ Poll \/ NoTimeout \/ TimedOut
    PROVE  ThreadInv'
<1>0. TypeOK /\ FlowInv /\ TimersLinked(timeouts) /\ CurrentInv /\ \A i \in Waiting : Timed(i)
  BY DEF ThreadInv
<1>1. /\ UNCHANGED <<thread_id, length, reduction, initial, pointers, slot_bit, current, posted,
                     accepted, outstanding>>
      /\ pc \in {"loop", "timeouts"} /\ completions = <<>>
  BY <1>0 DEF FlowInv, Leave, Poll, NoTimeout, TimedOut, buffer, progress, slots
<1>2. CurrentInv' /\ Waiting' = Waiting
  BY <1>0, <1>1, ZenonT(30) DEF CurrentInv, Waiting
<1>3. CASE Leave \/ NoTimeout
  <2>1. UNCHANGED <<timeouts, completions, cq, writes, up>> /\ pc' \in {"barrier", "loop"}
    BY <1>3 DEF Leave, NoTimeout
  <2>2. TypeOK'
    BY <1>0, <1>1, <2>1 DEF TypeOK
  <2>3. FlowInv'
    BY <1>0, <1>1, <2>1, <1>3 DEF FlowInv, Leave, NoTimeout
  <2>4. \A i \in Slots : Timed(i)' <=> Timed(i)
    BY <2>1 DEF Timed, inbox
  <2> QED  BY <1>0, <1>2, <2>1, <2>2, <2>3, <2>4 DEF ThreadInv, Waiting
<1>4. CASE Poll
  <2>1. PICK n : /\ n = Min({Len(cq), SlotsPerCore})
                 /\ completions' = SubSeq(cq, 1, n) /\ cq' = SubSeq(cq, n + 1, Len(cq))
    BY <1>4, Zenon DEF Poll
  <2>2. Len(cq) \in Nat /\ n \in Nat /\ n <= Len(cq) /\ (n = 0 => Len(cq) = 0)
    <3>1. Len(cq) \in Nat /\ SlotsPerCore \in Nat \ {0}
      BY <1>0, PartitionAssumption DEF TypeOK
    <3>2. n = IF Len(cq) <= SlotsPerCore THEN Len(cq) ELSE SlotsPerCore
      BY <2>1, <3>1, MinOfTwo
    <3> QED  BY <3>1, <3>2
  <2>3. /\ inbox' = inbox /\ completions' \in Seq(Completions) /\ cq' \in Seq(Completions)
        /\ Len(completions') = n
    BY <1>0, <1>1, <2>1, <2>2, PollKeeps, Zenon
  <2>4. UNCHANGED <<timeouts, writes, up>> /\ pc = "loop"
        /\ pc' = (IF cq = <<>> THEN "timeouts" ELSE "handle")
    BY <1>4 DEF Poll
  <2>5. TypeOK'
    BY <1>0, <1>1, <2>3, <2>4 DEF TypeOK
  <2>6. FlowInv'
    <3>1. cq = <<>> <=> completions' = <<>>
      BY <1>0, <2>2, <2>3 DEF TypeOK
    <3> QED  BY <1>0, <1>1, <2>4, <3>1 DEF FlowInv
  <2>7. \A i \in Slots : Timed(i)' <=> Timed(i)
    BY <2>3, <2>4 DEF Timed
  <2> QED  BY <1>0, <1>2, <2>4, <2>5, <2>6, <2>7 DEF ThreadInv, Waiting
<1>5. CASE TimedOut
  <2>1. PICK i : i = Bottom(timeouts) /\ i # Nil /\ Repost(i)
    BY <1>5 DEF TimedOut
  <2>2. UNCHANGED <<completions, cq>> /\ pc' = "loop" /\ pc = "timeouts"
    BY <1>5 DEF TimedOut
  <2>3. i \in Slots
    BY <1>0, <2>1, OldestTimer DEF TypeOK
  <2>4. /\ timeouts' = Remove(timeouts, i) /\ writes' = [writes EXCEPT ![i] = @ + 1]
        /\ up' = [up EXCEPT ![i] = Append(@, [bit |-> slot_bit[i], message |-> current[i]])]
    BY <2>1 DEF Repost
  <2>5. /\ timeouts' \in QueueType /\ TimersLinked(timeouts')
        /\ \A j \in Slots \ {i} : timeouts.next[j] # Nil => timeouts'.next[j] # Nil
    BY <1>0, <2>3, <2>4, SlotTimerOff DEF TypeOK
  <2>6. /\ writes' \in [Slots -> Nat] /\ writes'[i] > 0
        /\ \A j \in Slots \ {i} : writes'[j] = writes[j]
    BY <1>0, <2>3, <2>4 DEF TypeOK
  <2>7. up' \in [Slots -> Seq(Packets)]
    <3>1. [bit |-> slot_bit[i], message |-> current[i]] \in Packets /\ up[i] \in Seq(Packets)
      BY <1>0, <2>3, Zenon DEF TypeOK, Packets
    <3>2. Append(up[i], [bit |-> slot_bit[i], message |-> current[i]]) \in Seq(Packets)
      BY <3>1, AppendProperties
    <3> QED  BY <1>0, <2>3, <2>4, <3>2 DEF TypeOK
  <2>8. TypeOK'
    BY <1>0, <1>1, <2>2, <2>5, <2>6, <2>7 DEF TypeOK
  <2>9. FlowInv'
    BY <1>0, <1>1, <2>2 DEF FlowInv
  <2>10. \A j \in Slots : Timed(j) => Timed(j)'
    BY <2>2, <2>5, <2>6 DEF Timed, inbox
  <2> QED  BY <1>0, <1>2, <2>5, <2>8, <2>9, <2>10 DEF ThreadInv, Waiting
<1> QED  BY <1>3, <1>4, <1>5

(* Out of the barrier. *)
LEMMA StartStep ==
    ASSUME ThreadInv, StartReduction \/ PostInitialWrite
    PROVE  ThreadInv'
<1>0. TypeOK /\ FlowInv /\ TimersLinked(timeouts) /\ CurrentInv /\ \A i \in Waiting : Timed(i)
  BY DEF ThreadInv
<1>1. CASE StartReduction
  <2>1. /\ UNCHANGED <<thread_id, length, slot_bit, current, timeouts, completions, cq, writes, up>>
        /\ pc = "barrier" /\ pc' = "post" /\ initial' = 0 /\ reduction' = reduction + 1
        /\ posted' = {} /\ outstanding' = ExpectedOperations(thread_id, length)
        /\ pointers' = [i \in Slots |-> FirstPointer(thread_id, length, i)]
    BY <1>1 DEF StartReduction, buffer
  <2>2. length \in Nat
    BY <1>0, RunAssumption DEF TypeOK
  <2>3. /\ EndMessage(thread_id, length) \in Nat /\ StartMessage(thread_id, length) \in Nat
        /\ ExpectedOperations(thread_id, length)
              = 2 * (EndMessage(thread_id, length) - StartMessage(thread_id, length))
        /\ \A i \in Slots : FirstPointer(thread_id, length, i) \in Int
    BY <1>0, <2>2, PartitionTypes DEF TypeOK
  <2>4. TypeOK'
    BY <1>0, <2>1, <2>3 DEF TypeOK
  <2>5. FlowInv'
    BY <1>0, <2>1, SlotFacts DEF FlowInv, TypeOK
  <2>6. CurrentInv'
    <3>1. \A i \in Slots : current[i][1] \in Nat /\ current[i][1] <= reduction
      BY <1>0 DEF CurrentInv, TypeOK, Messages
    <3> QED  BY <1>0, <2>1, <3>1 DEF CurrentInv, TypeOK
  <2>7. Waiting' = {}
    BY <2>1 DEF Waiting
  <2> QED  BY <1>0, <2>1, <2>4, <2>5, <2>6, <2>7 DEF ThreadInv
<1>2. CASE PostInitialWrite
  <2>1. /\ pc = "post" /\ PostNextSendWr(initial) /\ initial' = initial + 1
        /\ outstanding' = outstanding - SendsPosted(initial)
        /\ pc' = (IF initial + 1 < SlotsPerCore THEN "post" ELSE "loop")
        /\ UNCHANGED <<thread_id, length, reduction, completions, cq, accepted>>
    BY <1>2 DEF PostInitialWrite, buffer
  <2>2. initial \in Slots /\ reduction > 0 /\ completions = <<>>
    BY <1>0, <2>1 DEF FlowInv, TypeOK
  <2>3. /\ pointers' \in [Slots -> Int] /\ slot_bit' \in [Slots -> {0, 1}]
        /\ current' \in [Slots -> Messages] /\ timeouts' \in QueueType
        /\ writes' \in [Slots -> Nat] /\ up' \in [Slots -> Seq(Packets)]
        /\ TimersLinked(timeouts')
        /\ \A j \in Slots : current'[j][1] <= reduction
                            /\ (current'[j][1] = reduction => current'[j] \in posted')
        /\ \A j \in Slots : current'[j] \in posted' =>
              \/ writes'[j] > 0
              \/ /\ current'[j] = current[j] /\ current[j] \in posted
                 /\ writes'[j] = writes[j]
                 /\ timeouts.next[j] # Nil => timeouts'.next[j] # Nil
    BY <2>1, <2>2, PostStep
  <2>4. TypeOK'
    <3>1. outstanding' \in Int /\ initial' \in Nat
      BY <1>0, <2>1 DEF TypeOK, SendsPosted
    <3> QED  BY <1>0, <2>1, <2>3, <3>1 DEF TypeOK
  <2>5. FlowInv'
    <3>1. initial + 1 < SlotsPerCore => initial' \in Slots
      BY <1>0, <2>1, SlotFacts DEF Slots, TypeOK
    <3> QED  BY <1>0, <2>1, <2>2, <3>1 DEF FlowInv
  <2>6. CurrentInv'
    BY <2>1, <2>3, ZenonT(30) DEF CurrentInv
  <2>7. ASSUME NEW j \in Slots, current'[j] \in posted' \ accepted' PROVE Timed(j)'
    <3>1. CASE writes'[j] > 0
      BY <3>1 DEF Timed
    <3>2. CASE /\ current'[j] = current[j] /\ current[j] \in posted
               /\ writes'[j] = writes[j]
               /\ timeouts.next[j] # Nil => timeouts'.next[j] # Nil
      <4>1. Timed(j)
        BY <1>0, <2>1, <2>7, <3>2 DEF Waiting
      <4> QED  BY <2>1, <3>2, <4>1 DEF Timed, inbox
    <3> QED  BY <2>3, <2>7, <3>1, <3>2
  <2> QED  BY <2>3, <2>4, <2>5, <2>6, <2>7 DEF ThreadInv, Waiting
<1> QED  BY <1>1, <1>2

(* A completion arrives: a timer that was to be set is still to be set. *)
LEMMA TimedStays ==
    ASSUME NEW j, Timed(j), UNCHANGED timeouts, writes'[j] = writes[j], Len(inbox) \in Nat,
           Len(inbox') = Len(inbox) + 1, \A k \in 1..Len(inbox) : inbox'[k] = inbox[k]
    PROVE  Timed(j)'
<1>1. 1..Len(inbox) \subseteq 1..Len(inbox')
  <2>1. PICK n : n = Len(inbox)
    OBVIOUS
  <2>2. 1..n \subseteq 1..(n + 1)
    BY <2>1
  <2> QED  BY <2>1, <2>2, Zenon
<1> QED  BY <1>1, Zenon DEF Timed

LEMMA TimedByWrite ==
    ASSUME NEW j, Len(inbox) \in Nat, Len(inbox') = Len(inbox) + 1,
           NEW x, inbox'[Len(inbox) + 1] = x, x.kind = "write", x.slot = j
    PROVE  Timed(j)'
<1>1. PICK n : n = Len(inbox) + 1
  OBVIOUS
<1>2. n \in 1..n
  BY <1>1
<1>3. n \in 1..Len(inbox') /\ inbox'[n] = x
  BY <1>1, <1>2, Zenon
<1> QED  BY <1>3, Zenon DEF Timed

(* The NIC and the network. *)
LEMMA NetworkStep ==
    ASSUME ThreadInv, NEW i \in Slots, WriteCompletes(i) \/ Answer(i) \/ Lose(i)
    PROVE  ThreadInv'
<1>0. TypeOK /\ FlowInv /\ TimersLinked(timeouts) /\ CurrentInv /\ \A j \in Waiting : Timed(j)
  BY DEF ThreadInv
<1>1. UNCHANGED <<thread_id, length, pc, reduction, initial, pointers, slot_bit, current,
                  outstanding, timeouts, completions, posted, accepted>>
  BY Zenon DEF WriteCompletes, Answer, Lose, buffer, progress, slots
<1>2. FlowInv' /\ CurrentInv' /\ Waiting' = Waiting
  BY <1>0, <1>1, Zenon DEF FlowInv, CurrentInv, Waiting
<1>3. CASE WriteCompletes(i)
  <2>1. PICK x : x = [kind |-> "write", slot |-> i] /\ cq' = Append(cq, x) /\ x \in Completions
    BY <1>3 DEF WriteCompletes, Completions
  <2>2. writes[i] > 0 /\ writes' = [writes EXCEPT ![i] = @ - 1] /\ UNCHANGED up
    BY <1>3 DEF WriteCompletes
  <2>3. /\ cq' \in Seq(Completions) /\ Len(inbox) \in Nat /\ Len(inbox') = Len(inbox) + 1
        /\ \A k \in 1..Len(inbox) : inbox'[k] = inbox[k]
        /\ inbox'[Len(inbox) + 1] = x
    BY <1>0, <1>1, <2>1, InboxGrows
  <2>4. writes' \in [Slots -> Nat] /\ \A j \in Slots \ {i} : writes'[j] = writes[j]
    BY <1>0, <2>2 DEF TypeOK
  <2>5. TypeOK'
    BY <1>0, <1>1, <2>2, <2>3, <2>4, Zenon DEF TypeOK
  <2>6. ASSUME NEW j \in Slots, Timed(j) PROVE Timed(j)'
    <3>1. CASE j = i
      <4>1. x.kind = "write" /\ x.slot = j
        BY <2>1, <3>1
      <4> QED  BY <2>3, <4>1, TimedByWrite
    <3>2. CASE j # i
      <4>1. writes'[j] = writes[j]
        BY <2>4, <3>2
      <4> QED  BY <1>1, <2>3, <2>6, <4>1, TimedStays
    <3> QED  BY <3>1, <3>2
  <2> QED  BY <1>0, <1>1, <1>2, <2>5, <2>6 DEF ThreadInv, Waiting
<1>4. CASE Answer(i) \/ Lose(i)
  <2>1. up[i] # <<>> /\ up' = [up EXCEPT ![i] = Tail(@)] /\ UNCHANGED writes
    BY <1>4 DEF Answer, Lose
  <2>2. up[i] \in Seq(Packets) /\ Tail(up[i]) \in Seq(Packets) /\ Head(up[i]) \in Packets
    BY <1>0, <2>1, HeadTailProperties DEF TypeOK
  <2>3. up' \in [Slots -> Seq(Packets)]
    BY <1>0, <2>1, <2>2 DEF TypeOK
  <2>4. CASE Answer(i)
    <3>1. PICK x : /\ x = [kind |-> "recv", slot |-> i, bit |-> Head(up[i]).bit,
                           message |-> Head(up[i]).message]
                   /\ cq' = Append(cq, x)
      BY <2>4 DEF Answer
    <3>2. x \in Completions
      BY <2>2, <3>1 DEF Packets, Completions
    <3>3. /\ cq' \in Seq(Completions) /\ Len(inbox) \in Nat /\ Len(inbox') = Len(inbox) + 1
          /\ \A k \in 1..Len(inbox) : inbox'[k] = inbox[k]
      BY <1>0, <1>1, <3>1, <3>2, InboxGrows
    <3>4. TypeOK'
      BY <1>0, <1>1, <2>1, <2>3, <3>3, ZenonT(30) DEF TypeOK
    <3>6. \A j \in Slots : Timed(j) => Timed(j)'
      BY <1>1, <2>1, <3>3, TimedStays
    <3> QED  BY <1>0, <1>1, <1>2, <3>4, <3>6 DEF ThreadInv, Waiting
  <2>5. CASE Lose(i)
    <3>1. UNCHANGED cq
      BY <2>5 DEF Lose
    <3>2. TypeOK'
      BY <1>0, <1>1, <2>1, <2>3, <3>1, Zenon DEF TypeOK
    <3>3. \A j \in Slots : Timed(j) => Timed(j)'
      BY <1>1, <2>1, <3>1 DEF Timed, inbox
    <3> QED  BY <1>0, <1>1, <1>2, <3>2, <3>3 DEF ThreadInv, Waiting
  <2> QED  BY <1>4, <2>4, <2>5
<1> QED  BY <1>3, <1>4

LEMMA ThreadNext == ThreadInv /\ [Next]_vars => ThreadInv'
<1> SUFFICES ASSUME ThreadInv, [Next]_vars PROVE ThreadInv'
  BY ZenonT(30)
<1>1. CASE UNCHANGED vars
  BY <1>1 DEF vars, ThreadInv, TypeOK, FlowInv, CurrentInv, Waiting, Timed, inbox
<1>2. CASE Next
  BY <1>2, HandleStep, LoopStep, StartStep, NetworkStep DEF Next, Run
<1> QED  BY <1>1, <1>2

(* The inductive invariant holds, for any number of slots. *)
THEOREM ThreadInvariant == Spec => []ThreadInv
BY ThreadInit, ThreadNext, PTL DEF Spec

(* WaitingIsTimed, for any number of slots: a message without an answer    *)
(* has its timer in the queue or a write under way that sets it, so        *)
(* check_for_timeouts will look at it whatever is lost.                    *)
THEOREM WaitingIsTimedCorrect == Spec => []WaitingIsTimed
<1>1. ThreadInv => WaitingIsTimed
  <2> SUFFICES ASSUME ThreadInv, NEW i \in Waiting,
                      NEW k \in 1..Len(inbox), inbox[k].kind = "write", inbox[k].slot = i
               PROVE  \E c \in Range(cq) \cup Range(completions) : c.kind = "write" /\ c.slot = i
    BY Zenon DEF ThreadInv, WaitingIsTimed, Timed
  <2>1. completions \in Seq(Completions) /\ cq \in Seq(Completions)
    BY DEF ThreadInv, TypeOK
  <2>2. inbox[k] = IF k <= Len(completions) THEN completions[k] ELSE cq[k - Len(completions)]
    BY <2>1, ConcatProperties DEF inbox
  <2>3. Len(inbox) = Len(completions) + Len(cq) /\ Len(completions) \in Nat /\ Len(cq) \in Nat
    BY <2>1, ConcatProperties DEF inbox
  <2>4. inbox[k] \in Range(cq) \cup Range(completions)
    <3>1. CASE k <= Len(completions)
      BY <2>1, <2>2, <2>3, <3>1 DEF Range
    <3>2. CASE ~ (k <= Len(completions))
      <4>1. k - Len(completions) \in 1..Len(cq)
        BY <2>3, <3>2
      <4> QED  BY <2>1, <2>2, <3>2, <4>1 DEF Range
    <3> QED  BY <3>1, <3>2
  <2> QED  BY <2>4
<1> QED  BY <1>1, ThreadInvariant, PTL
----------------------------------------------------------------------------
(* The order of answers.                                                   *)

(* A packet is added. *)
LEMMA AppendOf ==
    ASSUME NEW S, NEW out \in Seq(S), NEW x, NEW new, new = Append(out, x)
    PROVE  /\ Len(out) \in Nat /\ Len(new) = Len(out) + 1 /\ new[Len(out) + 1] = x
           /\ \A k \in 1..Len(out) : new[k] = out[k]
OBVIOUS

(* A new message has the other bit. *)
LEMMA OrderOfNew ==
    ASSUME NEW in \in Seq(Completions), NEW out \in Seq(Packets), NEW b \in {0, 1}, NEW m,
           AllOf(in, out, b),
           NEW new, new = Append(out, [bit |-> 1 - b, message |-> m])
    PROVE  Ordered(in, new, 1 - b, m)
<1>1. PICK x : x = [bit |-> 1 - b, message |-> m]
  OBVIOUS
<1>2. x.bit = 1 - b /\ x.message = m
  BY <1>1
<1>3. /\ Len(out) \in Nat /\ Len(new) = Len(out) + 1 /\ new[Len(out) + 1] = x
      /\ \A k \in 1..Len(out) : new[k] = out[k]
  <2>1. out \in Seq(Packets) /\ new = Append(out, x)
    BY <1>1
  <2> QED  BY <2>1, AppendOf
<1>4. \A k \in Answers(in) : in[k].bit # 1 - b
  BY DEF AllOf
<1>5. ASSUME NEW k \in 1..Len(new), new[k].bit = 1 - b PROVE k = Len(out) + 1
  <2>1. k \in 1..Len(out) => new[k].bit = b
    BY <1>3 DEF AllOf
  <2> QED  BY <1>3, <1>5, <2>1
<1>6. ASSUME NEW j \in 1..Len(new), NEW k \in 1..Len(new), j < k, new[j].bit = 1 - b PROVE FALSE
  BY <1>3, <1>5, <1>6
<1>7. ASSUME NEW k \in 1..Len(new), new[k].bit = 1 - b PROVE new[k].message = m
  BY <1>2, <1>3, <1>5, <1>7, ZenonT(30)
<1> QED  BY <1>4, <1>6, <1>7 DEF Ordered

(* The same message again. *)
LEMMA OrderOfRepost ==
    ASSUME NEW in \in Seq(Completions), NEW out \in Seq(Packets), NEW b, NEW m,
           Ordered(in, out, b, m), NEW new, new = Append(out, [bit |-> b, message |-> m])
    PROVE  Ordered(in, new, b, m) /\ (AllOf(in, out, b) => AllOf(in, new, b))
<1>1. PICK x : x = [bit |-> b, message |-> m]
  OBVIOUS
<1>2. x.bit = b /\ x.message = m
  BY <1>1
<1>3. /\ Len(out) \in Nat /\ Len(new) = Len(out) + 1 /\ new[Len(out) + 1] = x
      /\ \A k \in 1..Len(out) : new[k] = out[k]
  <2>1. out \in Seq(Packets) /\ new = Append(out, x)
    BY <1>1
  <2> QED  BY <2>1, AppendOf
<1>4. \A k \in 1..Len(new) : k \in 1..Len(out) \/ k = Len(out) + 1
  BY <1>3
<1>5. \A j, k \in 1..Len(new) : (j < k /\ new[j].bit = b) => new[k].bit = b
  <2> SUFFICES ASSUME NEW j \in 1..Len(new), NEW k \in 1..Len(new), j < k, new[j].bit = b
               PROVE  new[k].bit = b
    BY Zenon
  <2>1. CASE k = Len(out) + 1
    BY <1>2, <1>3, <2>1
  <2>2. CASE k \in 1..Len(out)
    <3>1. j \in 1..Len(out)
      BY <1>3, <2>2
    <3> QED  BY <1>3, <2>2, <3>1 DEF Ordered
  <2> QED  BY <1>4, <2>1, <2>2
<1>6. \A j \in Answers(in), k \in 1..Len(new) : in[j].bit = b => new[k].bit = b
  BY <1>2, <1>3, <1>4 DEF Ordered
<1>7. \A k \in 1..Len(new) : new[k].bit = b => new[k].message = m
  BY <1>2, <1>3, <1>4 DEF Ordered
<1>8. AllOf(in, out, b) => AllOf(in, new, b)
  BY <1>2, <1>3, <1>4 DEF AllOf
<1> QED  BY <1>5, <1>6, <1>7, <1>8 DEF Ordered

(* The oldest completion is handled. *)
LEMMA OrderOfRest ==
    ASSUME NEW in, Len(in) \in Nat, Len(in) > 0, NEW out, NEW b, NEW m,
           Ordered(in, out, b, m),
           NEW rest, Len(rest) = Len(in) - 1, \A k \in 1..(Len(in) - 1) : rest[k] = in[k + 1]
    PROVE  /\ Ordered(rest, out, b, m)
           /\ AllOf(in, out, b) => AllOf(rest, out, b)
           /\ (in[1].kind = "recv" /\ in[1].bit = b) =>
                 AllOf(rest, out, b) /\ in[1].message = m
<1>1. \A k \in Answers(rest) : k + 1 \in Answers(in) /\ rest[k] = in[k + 1] /\ 1 < k + 1 /\ k \in Int
  BY DEF Answers
<1>2. in[1].kind = "recv" => 1 \in Answers(in)
  BY DEF Answers
<1>3. ASSUME NEW j \in Answers(rest), NEW k \in Answers(rest), j < k, rest[j].bit = b
      PROVE  rest[k].bit = b
  <2>1. j + 1 < k + 1
    BY <1>1, <1>3
  <2> QED  BY <1>1, <1>3, <2>1 DEF Ordered
<1>4. Ordered(rest, out, b, m)
  BY <1>1, <1>3 DEF Ordered
<1>5. AllOf(in, out, b) => AllOf(rest, out, b)
  BY <1>1 DEF AllOf
<1>6. ASSUME in[1].kind = "recv", in[1].bit = b PROVE AllOf(rest, out, b) /\ in[1].message = m
  <2>1. \A k \in Answers(rest) : rest[k].bit = b
    BY <1>1, <1>2, <1>6 DEF Ordered
  <2>2. \A k \in 1..Len(out) : out[k].bit = b
    BY <1>2, <1>6 DEF Ordered
  <2>3. in[1].message = m
    BY <1>2, <1>6 DEF Ordered
  <2> QED  BY <2>1, <2>2, <2>3 DEF AllOf
<1> QED  BY <1>4, <1>5, <1>6

LEMMA TailOf ==
    ASSUME NEW S, NEW out \in Seq(S), out # <<>>, NEW rest, rest = Tail(out)
    PROVE  /\ Len(out) \in Nat /\ Len(out) > 0 /\ Len(rest) = Len(out) - 1 /\ Head(out) = out[1]
           /\ \A k \in 1..(Len(out) - 1) : rest[k] = out[k + 1]
OBVIOUS

(* A completion arrives: that of a write, or the answer to a packet. *)
LEMMA OrderOfArrival ==
    ASSUME NEW in, Len(in) \in Nat, NEW out \in Seq(Packets), NEW b, NEW m,
           Ordered(in, out, b, m),
           NEW more, Len(more) = Len(in) + 1, \A k \in 1..Len(in) : more[k] = in[k],
           NEW x, more[Len(in) + 1] = x
    PROVE  /\ x.kind # "recv" =>
                 Ordered(more, out, b, m) /\ (AllOf(in, out, b) => AllOf(more, out, b))
           /\ (out # <<>> /\ x.bit = Head(out).bit /\ x.message = Head(out).message) =>
                 /\ Ordered(more, Tail(out), b, m)
                 /\ AllOf(in, out, b) => AllOf(more, Tail(out), b)
<1>1. \A k \in Answers(more) :
        /\ k \in Answers(in) \/ (k = Len(in) + 1 /\ x.kind = "recv")
        /\ k \in Answers(in) => more[k] = in[k]
        /\ k \in Int /\ k <= Len(in) + 1
  BY DEF Answers
<1>2. ASSUME x.kind # "recv"
      PROVE  Ordered(more, out, b, m) /\ (AllOf(in, out, b) => AllOf(more, out, b))
  BY <1>1, <1>2 DEF Ordered, AllOf
<1>3. ASSUME out # <<>>, x.bit = Head(out).bit, x.message = Head(out).message
      PROVE  /\ Ordered(more, Tail(out), b, m)
             /\ AllOf(in, out, b) => AllOf(more, Tail(out), b)
  <2>1. PICK rest : rest = Tail(out)
    BY Zenon
  <2>2. /\ Len(out) \in Nat /\ Len(out) > 0 /\ Len(rest) = Len(out) - 1 /\ Head(out) = out[1]
        /\ \A k \in 1..(Len(out) - 1) : rest[k] = out[k + 1]
    BY <1>3, <2>1, TailOf
  <2>3. 1 \in 1..Len(out) /\ x.bit = out[1].bit /\ x.message = out[1].message
    BY <1>3, <2>2
  <2>4. \A k \in 1..Len(rest) : /\ k + 1 \in 1..Len(out) /\ rest[k] = out[k + 1]
                                 /\ 1 < k + 1 /\ k \in Int
    BY <2>2
  <2>5. \A j, k \in Answers(more) : (j < k /\ more[j].bit = b) => more[k].bit = b
    <3> SUFFICES ASSUME NEW j \in Answers(more), NEW k \in Answers(more), j < k, more[j].bit = b
                 PROVE  more[k].bit = b
      OBVIOUS
    <3>1. j \in Answers(in)
      BY <1>1
    <3>2. CASE k \in Answers(in)
      BY <1>1, <3>1, <3>2 DEF Ordered
    <3>3. CASE k = Len(in) + 1
      BY <1>1, <2>3, <3>1, <3>3 DEF Ordered
    <3> QED  BY <1>1, <3>2, <3>3
  <2>6. \A j \in Answers(more), k \in 1..Len(rest) : more[j].bit = b => rest[k].bit = b
    <3> SUFFICES ASSUME NEW j \in Answers(more), NEW k \in 1..Len(rest), more[j].bit = b
                 PROVE  rest[k].bit = b
      OBVIOUS
    <3>1. CASE j \in Answers(in)
      BY <1>1, <2>4, <3>1 DEF Ordered
    <3>2. CASE j = Len(in) + 1
      BY <2>3, <2>4, <3>2 DEF Ordered
    <3> QED  BY <1>1, <3>1, <3>2
  <2>7. \A j, k \in 1..Len(rest) : (j < k /\ rest[j].bit = b) => rest[k].bit = b
    <3> SUFFICES ASSUME NEW j \in 1..Len(rest), NEW k \in 1..Len(rest), j < k, rest[j].bit = b
                 PROVE  rest[k].bit = b
      OBVIOUS
    <3>1. j + 1 < k + 1
      BY <2>4
    <3> QED  BY <2>4, <3>1 DEF Ordered
  <2>8. \A k \in Answers(more) : more[k].bit = b => more[k].message = m
    BY <1>1, <2>3 DEF Ordered
  <2>9. \A k \in 1..Len(rest) : rest[k].bit = b => rest[k].message = m
    BY <2>4 DEF Ordered
  <2>10. AllOf(in, out, b) => AllOf(more, rest, b)
    BY <1>1, <2>3, <2>4 DEF AllOf
  <2>11. Ordered(more, rest, b, m)
    BY <2>5, <2>6, <2>7, <2>8, <2>9 DEF Ordered
  <2> QED  BY <2>1, <2>10, <2>11
<1> QED  BY <1>2, <1>3

(* The oldest packet is lost. *)
LEMMA OrderOfLoss ==
    ASSUME NEW in, NEW out \in Seq(Packets), out # <<>>, NEW b, NEW m, Ordered(in, out, b, m)
    PROVE  /\ Ordered(in, Tail(out), b, m)
           /\ AllOf(in, out, b) => AllOf(in, Tail(out), b)
<1>1. PICK rest : rest = Tail(out)
  BY Zenon
<1>2. /\ Len(out) \in Nat /\ Len(rest) = Len(out) - 1
      /\ \A k \in 1..(Len(out) - 1) : rest[k] = out[k + 1]
  BY <1>1
<1>3. \A k \in 1..Len(rest) : k + 1 \in 1..Len(out) /\ rest[k] = out[k + 1] /\ k \in Int
  BY <1>2
<1>4. \A j, k \in 1..Len(rest) : (j < k /\ rest[j].bit = b) => rest[k].bit = b
  <2> SUFFICES ASSUME NEW j \in 1..Len(rest), NEW k \in 1..Len(rest), j < k, rest[j].bit = b
               PROVE  rest[k].bit = b
    OBVIOUS
  <2>1. j + 1 < k + 1
    BY <1>3
  <2> QED  BY <1>3, <2>1 DEF Ordered
<1>5. Ordered(in, rest, b, m)
  BY <1>3, <1>4 DEF Ordered
<1>6. AllOf(in, out, b) => AllOf(in, rest, b)
  BY <1>3 DEF AllOf
<1> QED  BY <1>1, <1>5, <1>6
----------------------------------------------------------------------------
(* One slot.                                                               *)

LEMMA OneSlotTypes ==
    ASSUME OneSlot, TypeOK
    PROVE  /\ Slots = {0} /\ inbox \in Seq(Completions) /\ up[0] \in Seq(Packets)
           /\ slot_bit[0] \in {0, 1} /\ ShareSize \in Int /\ Len(completions) \in Nat
           /\ outstanding \in Int /\ pointers[0] \in Int /\ length \in Nat /\ thread_id \in ThreadIds
<1>1. Slots = {0}
  BY DEF OneSlot, Slots
<1>2. length \in Nat /\ thread_id \in ThreadIds
  BY RunAssumption DEF TypeOK
<1>3. ShareSize \in Int
  BY <1>2, PartitionTypes DEF ShareSize
<1>4. inbox \in Seq(Completions) /\ Len(completions) \in Nat
  BY ConcatProperties DEF inbox, TypeOK
<1> QED  BY <1>1, <1>2, <1>3, <1>4 DEF TypeOK

(* Steps that post nothing and accept nothing. *)
LEMMA SameCount ==
    ASSUME NEW n \in Nat, NEW a \in Nat, Counting(n, a), ShareSize \in Int,
           UNCHANGED <<thread_id, length, reduction, pointers, current, accepted, outstanding>>,
           \/ pc' = pc
           \/ /\ pc \in {"loop", "handle", "timeouts"} /\ pc' \in {"loop", "handle", "timeouts"}
              /\ pc' = "handle" => outstanding > 0
           \/ pc = "loop" /\ pc' = "barrier" /\ outstanding <= 0
    PROVE  Counting(n, a)'
<1>1. ShareSize' = ShareSize /\ \A k \in Int : Nth(k)' = Nth(k)
  BY Zenon DEF ShareSize, Nth
<1>2. /\ n <= ShareSize /\ a <= n /\ n <= a + 1
      /\ pointers[0] = ThreadStart(thread_id, length) + n * MessageFloats
      /\ accepted = {Nth(k) : k \in 0..(a - 1)}
      /\ n > 0 => current[0] = Nth(n - 1)
      /\ outstanding = 2 * ShareSize - n - a
  BY Zenon DEF Counting
<1>3. accepted' = {Nth(k)' : k \in 0..(a - 1)}
  <2>1. {Nth(k)' : k \in 0..(a - 1)} = {Nth(k) : k \in 0..(a - 1)}
    BY <1>1
  <2> QED  BY <1>2, <2>1, Zenon
<1>4. n > 0 => current'[0] = Nth(n - 1)'
  BY <1>1, <1>2
<1>5. /\ pc' = "post" => n = 0
      /\ pc' \in {"loop", "handle", "timeouts"} => n > a \/ a = ShareSize
      /\ pc' = "barrier" => a = ShareSize
      /\ pc' = "handle" => outstanding > 0
  BY <1>2 DEF Counting
<1> QED  BY <1>1, <1>2, <1>3, <1>4, <1>5 DEF Counting

(* post_next_send_wr posts exactly the messages of the share. *)
LEMMA PostCount ==
    ASSUME OneSlot, TypeOK, length > 0, NEW n \in Nat,
           pointers[0] = ThreadStart(thread_id, length) + n * MessageFloats,
           PostNextSendWr(0), NEW in \in Seq(Completions), AllOf(in, up[0], slot_bit[0])
    PROVE  /\ n < ShareSize =>
                 /\ pointers'[0] = ThreadStart(thread_id, length) + (n + 1) * MessageFloats
                 /\ current'[0] = Nth(n) /\ SendsPosted(0) = 1
                 /\ Ordered(in, up'[0], slot_bit'[0], current'[0])
           /\ ~ (n < ShareSize) =>
                 UNCHANGED <<pointers, slot_bit, current, up>> /\ SendsPosted(0) = 0
<1>1. /\ Slots = {0} /\ up[0] \in Seq(Packets) /\ slot_bit[0] \in {0, 1}
      /\ length \in Nat /\ thread_id \in ThreadIds
  BY OneSlotTypes
<1>2. Posts(0) <=> n < ShareSize
  <2>1. ThreadStart(thread_id, length) + n * MessageFloats < ThreadEnd(thread_id, length)
          <=> n < EndMessage(thread_id, length) - StartMessage(thread_id, length)
    BY <1>1, OwnShare DEF OneSlot
  <2> QED  BY <2>1 DEF Posts, ShareSize
<1>3. CASE Posts(0)
  <2>1. PICK b, m : b = 1 - slot_bit[0] /\ m = <<reduction, pointers[0]>>
    BY Zenon
  <2>2. /\ slot_bit' = [slot_bit EXCEPT ![0] = b] /\ current' = [current EXCEPT ![0] = m]
        /\ up' = [up EXCEPT ![0] = Append(@, [bit |-> b, message |-> m])]
        /\ pointers' = [pointers EXCEPT ![0] = @ + SlotsPerCore * MessageFloats]
    BY <1>3, <2>1 DEF PostNextSendWr
  <2>3. /\ slot_bit'[0] = b /\ current'[0] = m
        /\ up'[0] = Append(up[0], [bit |-> b, message |-> m])
        /\ pointers'[0] = pointers[0] + SlotsPerCore * MessageFloats
    BY <1>1, <2>2 DEF TypeOK
  <2>4. Ordered(in, up'[0], 1 - slot_bit[0], m)
    BY <1>1, <2>1, <2>3, OrderOfNew, Zenon
  <2>5. pointers'[0] = ThreadStart(thread_id, length) + (n + 1) * MessageFloats
    <3>1. /\ ThreadStart(thread_id, length) \in Nat /\ MessageFloats \in Nat
          /\ n * MessageFloats \in Nat /\ (n + 1) * MessageFloats = n * MessageFloats + MessageFloats
      BY <1>1, PartitionTypes, PartitionAssumption
    <3>2. SlotsPerCore * MessageFloats = MessageFloats
      BY <3>1 DEF OneSlot
    <3> QED  BY <2>3, <3>1, <3>2
  <2>6. m = Nth(n)
    BY <2>1 DEF Nth
  <2> QED  BY <1>2, <1>3, <2>1, <2>3, <2>4, <2>5, <2>6 DEF SendsPosted
<1>4. CASE ~ Posts(0)
  BY <1>2, <1>4 DEF PostNextSendWr, SendsPosted, slots
<1> QED  BY <1>3, <1>4

(* The thread starts a reduction. *)
LEMMA SingleStart ==
    ASSUME OneSlot, ThreadInv, SingleInv, length > 0, StartReduction \/ PostInitialWrite
    PROVE  SingleInv'
<1>0. TypeOK /\ FlowInv
  BY DEF ThreadInv
<1>1. /\ Slots = {0} /\ inbox \in Seq(Completions) /\ up[0] \in Seq(Packets)
      /\ slot_bit[0] \in {0, 1} /\ ShareSize \in Int /\ length \in Nat /\ thread_id \in ThreadIds
  BY <1>0, OneSlotTypes
<1>2. ShareSize \in Nat
  BY <1>1, OwnShare DEF OneSlot, ShareSize
<1>3. /\ UNCHANGED <<thread_id, length, completions, cq>> /\ inbox' = inbox
      /\ ShareSize' = ShareSize
  BY DEF StartReduction, PostInitialWrite, buffer, inbox, ShareSize
<1>4. CASE StartReduction
  <2>1. /\ pc = "barrier" /\ pc' = "post" /\ reduction' = reduction + 1
        /\ pointers' = [i \in Slots |-> FirstPointer(thread_id, length, i)]
        /\ outstanding' = ExpectedOperations(thread_id, length)
        /\ accepted' = {} /\ UNCHANGED <<slot_bit, current, up>>
    BY <1>4 DEF StartReduction
  <2>2. AllFresh
    <3>1. CASE reduction = 0
      BY <3>1 DEF SingleInv
    <3>2. CASE reduction # 0
      <4>1. PICK n \in Nat, a \in Nat : Counting(n, a) /\ (n = a => AllFresh)
        BY <3>2 DEF SingleInv
      <4>2. n = a
        BY <1>2, <2>1, <4>1 DEF Counting
      <4> QED  BY <4>1, <4>2
    <3> QED  BY <3>1, <3>2
  <2>3. OrderInv' /\ AllFresh'
    BY <1>3, <2>1, <2>2 DEF OrderInv, AllFresh, SingleInv
  <2>4. pointers'[0] = ThreadStart(thread_id, length) + 0 * MessageFloats
    BY <1>1, <2>1 DEF FirstPointer
  <2>5. outstanding' = 2 * ShareSize
    BY <2>1 DEF ExpectedOperations, ShareSize
  <2>6. accepted' = {Nth(k)' : k \in 0..(0 - 1)}
    BY <2>1
  <2>7. Counting(0, 0)'
    BY <1>2, <1>3, <2>1, <2>4, <2>5, <2>6 DEF Counting
  <2>8. reduction' # 0 /\ 0 \in Nat
    BY <1>0, <2>1 DEF TypeOK
  <2>9. Len(completions') <= 1
    BY <1>3 DEF SingleInv
  <2> QED  BY <2>3, <2>7, <2>8, <2>9 DEF SingleInv
<1>5. CASE PostInitialWrite
  <2>1. pc = "post" /\ reduction # 0 /\ initial = 0
    BY <1>0, <1>1, <1>5 DEF PostInitialWrite, FlowInv
  <2>2. /\ PostNextSendWr(0) /\ outstanding' = outstanding - SendsPosted(0)
        /\ UNCHANGED <<reduction, accepted>> /\ pc' = "loop"
    <3>1. ~ (0 + 1 < SlotsPerCore)
      BY DEF OneSlot
    <3> QED  BY <1>5, <2>1, <3>1 DEF PostInitialWrite
  <2>3. PICK n \in Nat, a \in Nat : Counting(n, a) /\ (n = a => AllFresh)
    BY <2>1 DEF SingleInv
  <2>4. n = 0 /\ a = 0
    BY <2>1, <2>3 DEF Counting
  <2>5. /\ AllOf(inbox, up[0], slot_bit[0]) /\ outstanding = 2 * ShareSize
        /\ pointers[0] = ThreadStart(thread_id, length) + 0 * MessageFloats
        /\ accepted = {Nth(k) : k \in 0..(0 - 1)}
    BY <1>2, <2>3, <2>4 DEF AllFresh, Counting
  <2>6. /\ 0 < ShareSize =>
              /\ pointers'[0] = ThreadStart(thread_id, length) + (0 + 1) * MessageFloats
              /\ current'[0] = Nth(0) /\ SendsPosted(0) = 1
              /\ Ordered(inbox, up'[0], slot_bit'[0], current'[0])
        /\ ~ (0 < ShareSize) =>
              UNCHANGED <<pointers, slot_bit, current, up>> /\ SendsPosted(0) = 0
    BY <1>0, <1>1, <2>2, <2>5, PostCount
  <2>7. Nth(0)' = Nth(0) /\ accepted' = {Nth(k)' : k \in 0..(0 - 1)}
    <3>1. 0..(0 - 1) = {}
      OBVIOUS
    <3> QED  BY <1>3, <2>2, <2>5, <3>1 DEF Nth
  <2>8. CASE 0 < ShareSize
    <3>1. Counting(1, 0)'
      BY <1>2, <1>3, <2>2, <2>5, <2>6, <2>7, <2>8 DEF Counting
    <3>2. OrderInv'
      BY <1>3, <2>6, <2>8 DEF OrderInv
    <3> QED  BY <1>3, <2>1, <2>2, <3>1, <3>2 DEF SingleInv
  <2>9. CASE ~ (0 < ShareSize)
    <3>1. Counting(0, 0)'
      BY <1>2, <1>3, <2>2, <2>5, <2>6, <2>7, <2>9 DEF Counting
    <3>2. OrderInv' /\ AllFresh'
      BY <1>3, <2>5, <2>6, <2>9 DEF OrderInv, AllFresh, SingleInv
    <3> QED  BY <1>3, <2>1, <2>2, <3>1, <3>2 DEF SingleInv
  <2> QED  BY <2>8, <2>9
<1> QED  BY <1>4, <1>5

(* The thread handles a completion. *)
LEMMA SingleHandle ==
    ASSUME OneSlot, ThreadInv, SingleInv, length > 0, HandleRecv \/ HandleWrite
    PROVE  SingleInv'
<1>0. TypeOK /\ FlowInv
  BY DEF ThreadInv
<1>1. /\ Slots = {0} /\ inbox \in Seq(Completions) /\ up[0] \in Seq(Packets)
      /\ slot_bit[0] \in {0, 1} /\ Len(completions) \in Nat /\ length \in Nat /\ thread_id \in ThreadIds
  BY <1>0, OneSlotTypes
<1>2. ShareSize \in Nat
  BY <1>1, OwnShare DEF OneSlot, ShareSize
<1>3. /\ pc = "handle" /\ completions' = Tail(completions)
      /\ pc' = (IF Len(completions) = 1 THEN "timeouts" ELSE "handle")
      /\ UNCHANGED <<thread_id, length, reduction, cq>>
  BY DEF HandleRecv, HandleWrite, Handled, buffer, progress
<1>4. completions # <<>> /\ reduction # 0
  BY <1>0, <1>3 DEF FlowInv
<1>5. /\ completions' \in Seq(Completions) /\ Head(completions) \in Completions
      /\ Head(completions) = inbox[1] /\ Len(completions') = Len(completions) - 1
      /\ Len(inbox) \in Nat /\ Len(inbox) > 0 /\ Len(inbox') = Len(inbox) - 1
      /\ \A k \in 1..(Len(inbox) - 1) : inbox'[k] = inbox[k + 1]
  BY <1>0, <1>3, <1>4, InboxShrinks
<1>6. Len(completions') = 0 /\ pc' = "timeouts"
  <2>1. Len(completions) # 0
    BY <1>0, <1>4, EmptySeq DEF TypeOK
  <2> QED  BY <1>1, <1>3, <1>5, <2>1 DEF SingleInv
<1>7. PICK n \in Nat, a \in Nat : Counting(n, a) /\ (n = a => AllFresh)
  BY <1>4 DEF SingleInv
<1>8. /\ outstanding > 0 /\ outstanding = 2 * ShareSize - n - a /\ n = a + 1 /\ n <= ShareSize
      /\ pointers[0] = ThreadStart(thread_id, length) + n * MessageFloats
      /\ accepted = {Nth(k) : k \in 0..(a - 1)} /\ current[0] = Nth(a)
  <2>1. /\ outstanding > 0 /\ outstanding = 2 * ShareSize - n - a /\ n = a + 1 /\ n <= ShareSize
        /\ n - 1 = a
    BY <1>2, <1>3, <1>7 DEF Counting
  <2> QED  BY <1>7, <2>1 DEF Counting
<1>9. Ordered(inbox, up[0], slot_bit[0], current[0])
  BY DEF SingleInv, OrderInv
<1>10. PICK rest : rest = inbox'
  OBVIOUS
<1>11. /\ Ordered(rest, up[0], slot_bit[0], current[0])
       /\ (inbox[1].kind = "recv" /\ inbox[1].bit = slot_bit[0]) =>
             AllOf(rest, up[0], slot_bit[0]) /\ inbox[1].message = current[0]
  <2>1. /\ Len(inbox) \in Nat /\ Len(inbox) > 0 /\ Len(rest) = Len(inbox) - 1
        /\ \A k \in 1..(Len(inbox) - 1) : rest[k] = inbox[k + 1]
    BY <1>5, <1>10
  <2>2. PICK in, out, b, m : in = inbox /\ out = up[0] /\ b = slot_bit[0] /\ m = current[0]
    OBVIOUS
  <2>3. /\ Len(in) \in Nat /\ Len(in) > 0 /\ Len(rest) = Len(in) - 1
        /\ \A k \in 1..(Len(in) - 1) : rest[k] = in[k + 1]
        /\ Ordered(in, out, b, m)
    BY <1>9, <2>1, <2>2
  <2>4. /\ Ordered(rest, out, b, m)
        /\ (in[1].kind = "recv" /\ in[1].bit = b) =>
             AllOf(rest, out, b) /\ in[1].message = m
    BY <2>3, OrderOfRest
  <2> QED  BY <2>2, <2>4
<1>12. CASE UNCHANGED <<pointers, slot_bit, current, outstanding, up, accepted>>
  <2>1. Counting(n, a)'
    BY <1>2, <1>3, <1>6, <1>7, <1>12, SameCount
  <2>2. OrderInv'
    BY <1>10, <1>11, <1>12 DEF OrderInv
  <2> QED  BY <1>3, <1>4, <1>6, <1>8, <2>1, <2>2 DEF SingleInv
<1>13. CASE HandleRecv /\ Expected(inbox[1])
  <2>1. /\ inbox[1].kind = "recv" /\ PostNextSendWr(inbox[1].slot)
        /\ outstanding' = outstanding - SendsPosted(inbox[1].slot) - 1
        /\ accepted' = accepted \cup {inbox[1].message}
    BY <1>5, <1>13 DEF HandleRecv
  <2>2. inbox[1].slot = 0 /\ inbox[1].bit = slot_bit[0]
    <3>1. inbox[1].slot \in Slots
      BY <1>5 DEF Completions
    <3> QED  BY <1>1, <1>13, <3>1 DEF Expected
  <2>3. AllOf(rest, up[0], slot_bit[0]) /\ inbox[1].message = Nth(a)
    BY <1>8, <1>11, <2>1, <2>2, Zenon
  <2>4. rest \in Seq(Completions)
    BY <1>0, <1>3, <1>5, <1>10, ConcatProperties, Zenon DEF inbox, TypeOK
  <2>5. /\ n < ShareSize =>
              /\ pointers'[0] = ThreadStart(thread_id, length) + (n + 1) * MessageFloats
              /\ current'[0] = Nth(n) /\ SendsPosted(0) = 1
              /\ Ordered(rest, up'[0], slot_bit'[0], current'[0])
        /\ ~ (n < ShareSize) =>
              UNCHANGED <<pointers, slot_bit, current, up>> /\ SendsPosted(0) = 0
    BY <1>0, <1>8, <2>1, <2>2, <2>3, <2>4, PostCount, ZenonT(30)
  <2>6. ShareSize' = ShareSize /\ \A k \in Int : Nth(k)' = Nth(k)
    BY <1>3 DEF ShareSize, Nth
  <2>7. accepted' = {Nth(k)' : k \in 0..(a + 1 - 1)}
    <3>1. 0..(a + 1 - 1) = 0..(a - 1) \cup {a}
      OBVIOUS
    <3>2. {Nth(k)' : k \in 0..(a + 1 - 1)} = {Nth(k) : k \in 0..(a + 1 - 1)}
      BY <2>6
    <3>3. {Nth(k) : k \in 0..(a + 1 - 1)} = {Nth(k) : k \in 0..(a - 1)} \cup {Nth(a)}
      BY <3>1
    <3> QED  BY <1>8, <2>1, <2>3, <3>2, <3>3
  <2>8. CASE n < ShareSize
    <3>1. outstanding' = 2 * ShareSize - (n + 1) - (a + 1)
      BY <1>2, <1>8, <2>1, <2>2, <2>5, <2>8
    <3>2. current'[0] = Nth(n + 1 - 1)' /\ n + 1 \in Nat /\ a + 1 \in Nat /\ n + 1 # a + 1
      BY <1>8, <2>5, <2>6, <2>8
    <3>3. ThreadStart(thread_id, length)' = ThreadStart(thread_id, length)
      BY <1>3
    <3>4. Counting(n + 1, a + 1)'
      BY <1>2, <1>6, <1>8, <2>5, <2>6, <2>7, <2>8, <3>1, <3>2, <3>3 DEF Counting
    <3>5. OrderInv'
      BY <1>10, <2>5, <2>8 DEF OrderInv
    <3> QED  BY <1>3, <1>4, <1>6, <3>2, <3>4, <3>5 DEF SingleInv
  <2>9. CASE ~ (n < ShareSize)
    <3>1. outstanding' = 2 * ShareSize - n - (a + 1)
      BY <1>2, <1>8, <2>1, <2>2, <2>5, <2>9
    <3>2. current'[0] = Nth(n - 1)' /\ a + 1 \in Nat /\ n = a + 1 /\ a + 1 = ShareSize
      <4>1. n - 1 = a /\ a \in Int
        BY <1>8
      <4> QED  BY <1>2, <1>8, <2>5, <2>6, <2>9, <4>1
    <3>3. pointers'[0] = ThreadStart(thread_id, length)' + n * MessageFloats
      BY <1>3, <1>8, <2>5, <2>9
    <3>4. Counting(n, a + 1)'
      BY <1>2, <1>6, <1>8, <2>6, <2>7, <3>1, <3>2, <3>3 DEF Counting
    <3>5. OrderInv' /\ AllFresh'
      BY <1>10, <1>11, <2>3, <2>5, <2>9, ZenonT(30) DEF OrderInv, AllFresh
    <3> QED  BY <1>3, <1>4, <1>6, <3>2, <3>4, <3>5 DEF SingleInv
  <2> QED  BY <2>8, <2>9
<1>14. HandleWrite => UNCHANGED <<pointers, slot_bit, current, outstanding, up, accepted>>
  BY DEF HandleWrite, slots
<1>15. HandleRecv /\ ~ Expected(inbox[1]) =>
         UNCHANGED <<pointers, slot_bit, current, outstanding, up, accepted>>
  BY <1>5 DEF HandleRecv, slots
<1> QED  BY <1>12, <1>13, <1>14, <1>15

(* The rest of the loop, the NIC and the network. *)
LEMMA SingleRest ==
    ASSUME OneSlot, ThreadInv, SingleInv, length > 0,
           \/ Leave \/ Poll \/ NoTimeout \/ TimedOut
           \/ WriteCompletes(0) \/ Answer(0) \/ Lose(0)
    PROVE  SingleInv'
<1>0. TypeOK /\ FlowInv /\ TimersLinked(timeouts)
  BY DEF ThreadInv
<1>1. /\ Slots = {0} /\ inbox \in Seq(Completions) /\ up[0] \in Seq(Packets)
      /\ slot_bit[0] \in {0, 1} /\ ShareSize \in Int /\ Len(completions) \in Nat
      /\ Len(inbox) \in Nat
  BY <1>0, OneSlotTypes
<1>2. UNCHANGED <<thread_id, length, reduction, pointers, slot_bit, current, accepted, outstanding>>
  BY DEF Leave, Poll, NoTimeout, TimedOut, WriteCompletes, Answer, Lose, buffer, progress, slots
<1>3. \/ pc' = pc
      \/ /\ pc \in {"loop", "handle", "timeouts"} /\ pc' \in {"loop", "handle", "timeouts"}
         /\ pc' = "handle" => outstanding > 0
      \/ pc = "loop" /\ pc' = "barrier" /\ outstanding <= 0
  BY DEF Leave, Poll, NoTimeout, TimedOut, WriteCompletes, Answer, Lose
<1>4. Ordered(inbox, up[0], slot_bit[0], current[0]) /\ Len(completions) <= 1
  BY DEF SingleInv, OrderInv
<1>5. SUFFICES Len(completions') <= 1 /\ OrderInv' /\ (AllFresh => AllFresh')
  <2> SUFFICES ASSUME Len(completions') <= 1, OrderInv', AllFresh => AllFresh'
               PROVE  SingleInv'
    OBVIOUS
  <2>1. CASE reduction = 0
    BY <1>2, <2>1 DEF SingleInv
  <2>2. CASE reduction # 0
    <3>1. PICK n \in Nat, a \in Nat : Counting(n, a) /\ (n = a => AllFresh)
      BY <2>2 DEF SingleInv
    <3>2. Counting(n, a)'
      BY <1>1, <1>2, <1>3, <3>1, SameCount
    <3> QED  BY <1>2, <2>2, <3>1, <3>2 DEF SingleInv
  <2> QED  BY <2>1, <2>2
<1>6. CASE Leave \/ NoTimeout
  <2>1. UNCHANGED <<completions, cq, up>>
    BY <1>6 DEF Leave, NoTimeout
  <2> QED  BY <1>2, <1>4, <2>1 DEF OrderInv, AllFresh, inbox
<1>7. CASE Poll
  <2>1. PICK n : /\ n = Min({Len(cq), SlotsPerCore})
                 /\ completions' = SubSeq(cq, 1, n) /\ cq' = SubSeq(cq, n + 1, Len(cq))
    BY <1>7, Zenon DEF Poll
  <2>2. n \in Nat /\ n <= Len(cq) /\ n <= 1
    <3>1. Len(cq) \in Nat /\ SlotsPerCore = 1
      BY <1>0 DEF TypeOK, OneSlot
    <3>2. n = IF Len(cq) <= SlotsPerCore THEN Len(cq) ELSE SlotsPerCore
      BY <2>1, <3>1, MinOfTwo
    <3> QED  BY <3>1, <3>2
  <2>3. completions = <<>> /\ UNCHANGED up
    BY <1>0, <1>7 DEF FlowInv, Poll
  <2>4. inbox' = inbox /\ Len(completions') = n
    BY <1>0, <2>1, <2>2, <2>3, PollKeeps, ZenonT(30)
  <2> QED  BY <1>2, <1>4, <2>2, <2>3, <2>4 DEF OrderInv, AllFresh
<1>8. CASE TimedOut
  <2>1. Bottom(timeouts) # Nil /\ Repost(Bottom(timeouts)) /\ UNCHANGED <<completions, cq>>
    BY <1>8 DEF TimedOut
  <2>2. Bottom(timeouts) = 0
    BY <1>0, <1>1, <2>1, OldestTimer DEF TypeOK
  <2>3. up' = [up EXCEPT ![0] = Append(@, [bit |-> slot_bit[0], message |-> current[0]])]
    BY <2>1, <2>2 DEF Repost
  <2>4. up'[0] = Append(up[0], [bit |-> slot_bit[0], message |-> current[0]])
    BY <1>0, <1>1, <2>3, Zenon DEF TypeOK
  <2>5. /\ Ordered(inbox, up'[0], slot_bit[0], current[0])
        /\ AllOf(inbox, up[0], slot_bit[0]) => AllOf(inbox, up'[0], slot_bit[0])
    BY <1>1, <1>4, <2>4, OrderOfRepost, ZenonT(30)
  <2> QED  BY <1>2, <1>4, <2>1, <2>5 DEF OrderInv, AllFresh, inbox
<1>9. CASE WriteCompletes(0)
  <2>1. PICK x : /\ x = [kind |-> "write", slot |-> 0] /\ cq' = Append(cq, x)
                 /\ UNCHANGED <<completions, up>>
    BY <1>9 DEF WriteCompletes
  <2>2. x \in Completions /\ x.kind # "recv"
    BY <1>1, <2>1 DEF Completions
  <2>3. PICK more : more = inbox'
    OBVIOUS
  <2>4. /\ Len(more) = Len(inbox) + 1 /\ more[Len(inbox) + 1] = x
        /\ \A k \in 1..Len(inbox) : more[k] = inbox[k]
    BY <1>0, <2>1, <2>2, <2>3, InboxGrows
  <2>5. /\ Ordered(more, up[0], slot_bit[0], current[0])
        /\ AllOf(inbox, up[0], slot_bit[0]) => AllOf(more, up[0], slot_bit[0])
    <3>1. PICK in, out, b, m : in = inbox /\ out = up[0] /\ b = slot_bit[0] /\ m = current[0]
      OBVIOUS
    <3>2. /\ Len(in) \in Nat /\ out \in Seq(Packets) /\ Ordered(in, out, b, m)
          /\ Len(more) = Len(in) + 1 /\ more[Len(in) + 1] = x
          /\ \A k \in 1..Len(in) : more[k] = in[k]
      BY <1>1, <1>4, <2>4, <3>1, Zenon
    <3>3. Ordered(more, out, b, m) /\ (AllOf(in, out, b) => AllOf(more, out, b))
      BY <2>2, <3>2, OrderOfArrival, ZenonT(30)
    <3> QED  BY <3>1, <3>3, Zenon
  <2> QED  BY <1>2, <1>4, <2>1, <2>3, <2>5 DEF OrderInv, AllFresh
<1>10. CASE Answer(0)
  <2>1. /\ up[0] # <<>> /\ up' = [up EXCEPT ![0] = Tail(@)] /\ UNCHANGED completions
        /\ cq' = Append(cq, [kind |-> "recv", slot |-> 0, bit |-> Head(up[0]).bit,
                             message |-> Head(up[0]).message])
    BY <1>10 DEF Answer
  <2>2. PICK x : /\ x = [kind |-> "recv", slot |-> 0, bit |-> Head(up[0]).bit,
                         message |-> Head(up[0]).message]
                 /\ cq' = Append(cq, x)
    BY <2>1
  <2>3. Head(up[0]) \in Packets /\ up'[0] = Tail(up[0])
    BY <1>0, <1>1, <2>1, HeadTailProperties DEF TypeOK
  <2>4. x \in Completions /\ x.bit = Head(up[0]).bit /\ x.message = Head(up[0]).message
    BY <1>1, <2>2, <2>3 DEF Packets, Completions
  <2>5. PICK more : more = inbox'
    OBVIOUS
  <2>6. /\ Len(more) = Len(inbox) + 1 /\ more[Len(inbox) + 1] = x
        /\ \A k \in 1..Len(inbox) : more[k] = inbox[k]
    BY <1>0, <2>1, <2>2, <2>4, <2>5, InboxGrows
  <2>7. /\ Ordered(more, Tail(up[0]), slot_bit[0], current[0])
        /\ AllOf(inbox, up[0], slot_bit[0]) => AllOf(more, Tail(up[0]), slot_bit[0])
    <3>1. PICK in, out, b, m : in = inbox /\ out = up[0] /\ b = slot_bit[0] /\ m = current[0]
      OBVIOUS
    <3>2. /\ Len(in) \in Nat /\ out \in Seq(Packets) /\ Ordered(in, out, b, m)
          /\ Len(more) = Len(in) + 1 /\ more[Len(in) + 1] = x
          /\ \A k \in 1..Len(in) : more[k] = in[k]
          /\ out # <<>> /\ x.bit = Head(out).bit /\ x.message = Head(out).message
      BY <1>1, <1>4, <2>1, <2>4, <2>6, <3>1, Zenon
    <3>3. /\ Ordered(more, Tail(out), b, m)
          /\ AllOf(in, out, b) => AllOf(more, Tail(out), b)
      BY <3>2, OrderOfArrival, ZenonT(30)
    <3> QED  BY <3>1, <3>3, Zenon
  <2> QED  BY <1>2, <1>4, <2>1, <2>3, <2>5, <2>7 DEF OrderInv, AllFresh
<1>11. CASE Lose(0)
  <2>1. /\ up[0] # <<>> /\ up' = [up EXCEPT ![0] = Tail(@)] /\ UNCHANGED <<completions, cq>>
    BY <1>11 DEF Lose
  <2>2. up'[0] = Tail(up[0])
    BY <1>0, <1>1, <2>1 DEF TypeOK
  <2>3. /\ Ordered(inbox, Tail(up[0]), slot_bit[0], current[0])
        /\ AllOf(inbox, up[0], slot_bit[0]) => AllOf(inbox, Tail(up[0]), slot_bit[0])
    BY <1>1, <1>4, <2>1, OrderOfLoss
  <2> QED  BY <1>2, <1>4, <2>1, <2>2, <2>3 DEF OrderInv, AllFresh, inbox
<1> QED  BY <1>6, <1>7, <1>8, <1>9, <1>10, <1>11

LEMMA ShareNotNegative == ASSUME TypeOK PROVE ShareSize \in Nat
<1>1. length \in Nat /\ thread_id \in ThreadIds
  BY RunAssumption DEF TypeOK
<1>2. StartMessage(thread_id, length) \in Nat /\ Base(length) \in Nat
  BY <1>1, PartitionTypes
<1> QED  BY <1>2 DEF ShareSize, EndMessage

(* A buffer of length 0: the queues stay empty. *)
LEMMA EmptyStep ==
    ASSUME OneSlot, ThreadInv, EmptyInv, length = 0, Next
    PROVE  EmptyInv'
<1>0. TypeOK /\ FlowInv
  BY DEF ThreadInv
<1>1. /\ Slots = {0} /\ outstanding \in Int /\ pointers[0] \in Int /\ thread_id \in ThreadIds
      /\ ShareSize \in Nat
  BY <1>0, OneSlotTypes, ShareNotNegative
<1>2. completions = <<>> /\ cq = <<>>
  <2>1. /\ completions \in Seq(Completions) /\ cq \in Seq(Completions)
        /\ Len(inbox) = Len(completions) + Len(cq) /\ Len(inbox) = 0
    BY <1>0, ConcatProperties DEF TypeOK, EmptyInv, inbox
  <2>2. Len(completions) = 0 /\ Len(cq) = 0
    <3>1. PICK x \in Nat, y \in Nat : x = Len(completions) /\ y = Len(cq)
      BY <2>1
    <3>2. x + y = 0
      BY <2>1, <3>1, Zenon
    <3> QED  BY <3>1, <3>2
  <2> QED  BY <2>1, <2>2, EmptySeq
<1>3. ~ Posts(0)
  <2>1. PICK e : e = ThreadStart(thread_id, 0) + EndMessage(thread_id, 0) * MessageFloats /\ e \in Nat
    <3>1. ThreadStart(thread_id, 0) \in Nat /\ EndMessage(thread_id, 0) \in Nat
      BY <1>1, PartitionTypes
    <3> QED  BY <3>1, PartitionAssumption
  <2>2. ThreadEnd(thread_id, 0) <= 0
    <3>1. ThreadEnd(thread_id, 0) = IF e <= 0 THEN e ELSE 0
      BY <2>1, MinOfTwo DEF ThreadEnd
    <3> QED  BY <2>1, <3>1
  <2>3. ThreadEnd(thread_id, 0) \in Int
    BY <1>1, PartitionTypes
  <2> QED  BY <1>1, <2>2, <2>3 DEF Posts, EmptyInv
<1>4. Bottom(timeouts) = Nil
  BY SlotFacts DEF EmptyInv, NewQueue, Bottom
<1>5. CASE StartReduction
  <2>1. /\ UNCHANGED <<thread_id, length, timeouts, completions, cq, writes, up>>
        /\ pc' = "post" /\ accepted' = {} /\ outstanding' = ExpectedOperations(thread_id, length)
        /\ pointers' = [i \in Slots |-> FirstPointer(thread_id, length, i)]
    BY <1>5 DEF StartReduction, buffer
  <2>2. pointers'[0] >= 0
    <3>1. ThreadStart(thread_id, length) \in Nat /\ MessageFloats \in Nat
      BY <1>1, PartitionTypes, PartitionAssumption
    <3> QED  BY <1>1, <2>1, <3>1 DEF FirstPointer
  <2>3. outstanding' = 2 * ShareSize'
    BY <2>1, ZenonT(30) DEF ExpectedOperations, ShareSize
  <2> QED  BY <2>1, <2>2, <2>3 DEF EmptyInv, inbox
<1>6. CASE PostInitialWrite
  <2>1. pc = "post" /\ initial = 0
    BY <1>0, <1>1, <1>6 DEF PostInitialWrite, FlowInv
  <2>2. PostNextSendWr(0) /\ outstanding' = outstanding - SendsPosted(0) /\ pc' # "barrier"
        /\ UNCHANGED <<thread_id, length, completions, cq, accepted>>
    BY <1>6, <2>1 DEF PostInitialWrite, buffer
  <2>3. UNCHANGED <<pointers, timeouts, writes, up>> /\ outstanding' = outstanding
    BY <1>1, <1>3, <2>2 DEF PostNextSendWr, SendsPosted, slots
  <2> QED  BY <2>1, <2>2, <2>3, Zenon DEF EmptyInv, inbox, ShareSize
<1>7. CASE Leave
  <2>1. /\ pc = "loop" /\ pc' = "barrier" /\ outstanding <= 0
        /\ UNCHANGED <<thread_id, length, pointers, timeouts, completions, cq, writes, up, accepted>>
    BY <1>7 DEF Leave, buffer, slots
  <2>2. ShareSize' = ShareSize /\ ShareSize = 0
    BY <1>1, <2>1 DEF EmptyInv, ShareSize
  <2> QED  BY <2>1, <2>2 DEF EmptyInv, inbox
<1>8. CASE Poll
  <2>1. /\ pc = "loop" /\ pc' # "barrier" /\ completions' = SubSeq(cq, 1, 0)
        /\ cq' = SubSeq(cq, 0 + 1, Len(cq))
        /\ UNCHANGED <<thread_id, length, pointers, timeouts, writes, up, accepted, outstanding>>
    <3>1. Len(cq) = 0 /\ Min({0, 1}) = 0
      BY <1>2, MinOfTwo
    <3> QED  BY <1>8, <3>1 DEF Poll, buffer, slots, OneSlot
  <2>2. 0 \in Nat /\ 0 <= Len(cq)
    BY <1>2
  <2>3. inbox' = inbox
    BY <1>0, <1>2, <2>1, <2>2, PollKeeps
  <2> QED  BY <2>1, <2>3 DEF EmptyInv, ShareSize
<1>9. CASE NoTimeout
  BY <1>9 DEF NoTimeout, EmptyInv, inbox, ShareSize, buffer, slots
<1>10. ~ HandleRecv /\ ~ HandleWrite /\ ~ TimedOut
  BY <1>0, <1>2, <1>4 DEF HandleRecv, HandleWrite, TimedOut, FlowInv
<1>11. ~ WriteCompletes(0) /\ ~ Answer(0) /\ ~ Lose(0)
  BY DEF EmptyInv, WriteCompletes, Answer, Lose
<1> QED  BY <1>1, <1>5, <1>6, <1>7, <1>8, <1>9, <1>10, <1>11 DEF Next, Run

LEMMA SlotInit == ASSUME OneSlot, Init PROVE SlotInv
<1>1. Slots = {0} /\ inbox = <<>> /\ Len(inbox) = 0 /\ up[0] = <<>>
  BY DEF OneSlot, Slots, Init, inbox
<1>2. EmptyInv
  BY <1>1 DEF EmptyInv, Init
<1>3. Ordered(inbox, up[0], slot_bit[0], current[0]) /\ AllOf(inbox, up[0], slot_bit[0])
  BY <1>1 DEF Ordered, AllOf, Answers
<1> QED  BY <1>2, <1>3 DEF SlotInv, SingleInv, OrderInv, AllFresh, Init

LEMMA SlotNext ==
    ASSUME OneSlot, ThreadInv, SlotInv, [Next]_vars
    PROVE  SlotInv'
<1>1. CASE UNCHANGED vars
  <2>1. UNCHANGED <<OrderInv, AllFresh, ShareSize, inbox>>
    BY <1>1, ZenonT(30) DEF vars, OrderInv, AllFresh, ShareSize, inbox
  <2>2. SingleInv => SingleInv'
    BY <1>1, <2>1 DEF vars, SingleInv, Counting, Nth
  <2>3. EmptyInv => EmptyInv'
    BY <1>1, <2>1 DEF vars, EmptyInv
  <2> QED  BY <1>1, <2>2, <2>3 DEF vars, SlotInv
<1>2. CASE Next
  <2>1. length' = length
    BY <1>2, Zenon DEF Next, Run, StartReduction, PostInitialWrite, Leave, Poll, HandleRecv, HandleWrite,
                Handled, NoTimeout, TimedOut, WriteCompletes, Answer, Lose, buffer
  <2>2. CASE length = 0
    BY <1>2, <2>1, <2>2, EmptyStep DEF SlotInv
  <2>3. CASE length # 0
    <3>1. SingleInv /\ length > 0 /\ Slots = {0}
      BY <2>3, RunAssumption, OneSlotTypes DEF SlotInv, ThreadInv, TypeOK
    <3>2. \/ StartReduction \/ PostInitialWrite \/ HandleRecv \/ HandleWrite
          \/ Leave \/ Poll \/ NoTimeout \/ TimedOut
          \/ WriteCompletes(0) \/ Answer(0) \/ Lose(0)
      BY <1>2, <3>1 DEF Next, Run
    <3> QED  BY <2>1, <2>3, <3>1, <3>2, SingleStart, SingleHandle, SingleRest DEF SlotInv
  <2> QED  BY <2>2, <2>3
<1> QED  BY <1>1, <1>2

(* The answers that a thread has at the barrier are those of its share. *)
LEMMA CompleteAtBarrier ==
    ASSUME OneSlot, ThreadInv, SlotInv
    PROVE  RunEndsComplete
<1> SUFFICES ASSUME pc = "barrier", reduction > 0 PROVE accepted = ShareMessages
  BY DEF RunEndsComplete
<1>0. TypeOK /\ reduction # 0
  BY DEF ThreadInv
<1>1. PICK s, e : s = StartMessage(thread_id, length) /\ e = EndMessage(thread_id, length)
  OBVIOUS
<1>2. s \in Nat /\ e \in Nat /\ ShareSize = e - s /\ ShareSize \in Nat /\ MessageFloats \in Nat
  BY <1>0, <1>1, RunAssumption, PartitionAssumption, PartitionTypes, ShareNotNegative, ZenonT(30)
     DEF TypeOK, ShareSize
<1>3. ShareMessages = {<<reduction, k * MessageFloats>> : k \in s..(e - 1)}
  BY <1>1 DEF ShareMessages, Share
<1>4. CASE length = 0
  BY <1>2, <1>3, <1>4 DEF SlotInv, EmptyInv
<1>5. CASE length # 0
  <2>1. PICK n \in Nat, a \in Nat : Counting(n, a)
    BY <1>0, <1>5 DEF SlotInv, SingleInv
  <2>2. accepted = {Nth(k) : k \in 0..(ShareSize - 1)}
    BY <2>1, Zenon DEF Counting
  <2>3. \A k \in Nat : Nth(k) = <<reduction, (s + k) * MessageFloats>>
    <3> SUFFICES ASSUME NEW k \in Nat PROVE Nth(k) = <<reduction, (s + k) * MessageFloats>>
      OBVIOUS
    <3>1. s * MessageFloats + k * MessageFloats = (s + k) * MessageFloats
      BY <1>2
    <3> QED  BY <1>1, <3>1 DEF Nth, ThreadStart
  <2>4. ASSUME NEW x \in accepted PROVE x \in ShareMessages
    <3>1. PICK k \in 0..(ShareSize - 1) : x = Nth(k)
      BY <2>2
    <3>2. k \in Nat /\ s + k \in s..(e - 1)
      BY <1>2, <3>1
    <3> QED  BY <1>3, <2>3, <3>1, <3>2
  <2>5. ASSUME NEW x \in ShareMessages PROVE x \in accepted
    <3>1. PICK k \in s..(e - 1) : x = <<reduction, k * MessageFloats>>
      BY <1>3
    <3>2. k - s \in 0..(ShareSize - 1) /\ k - s \in Nat /\ s + (k - s) = k
      BY <1>2, <3>1
    <3>3. x = Nth(k - s)
      BY <2>3, <3>1, <3>2
    <3> QED  BY <2>2, <3>2, <3>3
  <2> QED  BY <2>4, <2>5
<1> QED  BY <1>4, <1>5

(* RunEndsComplete for one or two threads with one slot each, for any      *)
(* buffer, any message size, any number of reductions, losses and reposts: *)
(* at the barrier every message of the share has been answered, and no     *)
(* stale answer was taken for one.                                         *)
THEOREM RunEndsCompleteCorrect == ASSUME OneSlot PROVE Spec => []RunEndsComplete
<1>1. Init => SlotInv
  BY SlotInit
<1>2. ThreadInv /\ SlotInv /\ [Next]_vars => SlotInv'
  BY SlotNext
<1>3. ThreadInv /\ SlotInv => RunEndsComplete
  BY CompleteAtBarrier
<1> QED  BY <1>1, <1>2, <1>3, ThreadInvariant, PTL DEF Spec
=============================================================================
