------------------------------ MODULE ComponentProofs ------------------------------
(***************************************************************************)
(* Proofs about three parts of the system that stand on their own: the     *)
(* threads of a Reducer meeting at their barrier (Reducer), for any finite *)
(* set of threads and any number of calls; the timeout queue of a thread   *)
(* (TimeoutQueue), for any number of entries and any sequence of calls;    *)
(* and the port and address commands of the controller (PortControl), for  *)
(* any ports, addresses, files and faults.                                 *)
(***************************************************************************)
EXTENDS Reducer, TimeoutQueue, PortControl, FiniteSetTheorems, TLAPS

USE SMTT(30), ZenonT(20)

----------------------------------------------------------------------------
(* The reducer.  A thread that the barrier has released may still sleep on *)
(* the condition variable, so pc alone says too little about how far the   *)
(* threads are.  The proof follows at: the pc of a thread, except that a   *)
(* released sleeper counts as being where it will go on.  Only arriving at *)
(* the barrier changes at; waking up, for a reason or for none, does not.  *)


Labels == {"idle", "length", "start", "starting", "finish", "finishing", "stop", "stopping",
           "join", "joined", "wait", "waiting", "check", "compute", "run", "end", "ending",
           "exited"}

(* The labels at which a thread sleeps in wait(), and where it goes on. *)
Asleep == {"starting", "finishing", "stopping", "waiting", "ending"}

Goal == [l \in Asleep |->
            IF l = "starting" THEN "finish" ELSE
            IF l = "finishing" THEN "idle" ELSE
            IF l = "stopping" THEN "join" ELSE
            IF l = "waiting" THEN "check" ELSE "wait"]

(* The calls of wait(): where, asleep, and after it. *)
Waits == {<<"start", "starting", "finish">>, <<"finish", "finishing", "idle">>,
          <<"stop", "stopping", "join">>, <<"wait", "waiting", "check">>,
          <<"end", "ending", "wait">>}

at == [p \in Participants |-> IF pc[p] \in Asleep /\ b.flag_copy[p] # b.flag
                              THEN Goal[pc[p]] ELSE pc[p]]

(* Who has arrived at the barrier and waits for the others. *)
Arrived == {p \in Participants : at[p] \in Asleep}

Barriers == [count : Int, flag : BOOLEAN, flag_copy : [Participants -> BOOLEAN],
             waiting : SUBSET Participants, woken : SUBSET Participants]

TypeOK ==
    /\ pc \in [Participants -> Labels]
    /\ b \in Barriers
    /\ src_buffer \in Int /\ length \in Int /\ reduction_id \in Int /\ shutdown \in BOOLEAN
    /\ seen \in [Threads -> Int \X Int] /\ done \in [Threads -> Int]

(* The barrier counts those who have yet to come, at least one; and who    *)
(* sleeps on the condition variable has not been released.                 *)
BarrierInv ==
    /\ b.count = NumParticipants - Cardinality(Arrived) /\ b.count > 0
    /\ b.waiting \subseteq Arrived
    /\ \A p \in Participants : pc[p] \in Asleep => p \in b.waiting \cup b.woken

(* Between two calls, up to the last arrival at the first barrier. *)
Between ==
    /\ at[Main] \in {"idle", "length", "start", "starting", "stop", "stopping"}
    /\ shutdown <=> at[Main] \in {"stop", "stopping"}
    /\ at[Main] = "length" => src_buffer = reduction_id + 1
    /\ at[Main] \in {"start", "starting"} => src_buffer = reduction_id /\ length = reduction_id
    /\ \A t \in Threads :
          /\ at[t] \in {"wait", "waiting"}
          /\ done[t] = IF at[Main] \in {"start", "starting"} THEN reduction_id - 1 ELSE reduction_id

(* During a reduction, up to the last arrival at the second barrier. *)
Reducing ==
    /\ at[Main] \in {"finish", "finishing"}
    /\ ~ shutdown /\ src_buffer = reduction_id /\ length = reduction_id
    /\ \A t \in Threads :
          /\ at[t] \in {"check", "compute", "run", "end", "ending"}
          /\ at[t] \in {"run", "end", "ending"} => seen[t] = <<reduction_id, reduction_id>>
          /\ done[t] = IF at[t] \in {"end", "ending"} THEN reduction_id ELSE reduction_id - 1

Stopped ==
    /\ at[Main] \in {"join", "joined"} /\ shutdown
    /\ \A t \in Threads : at[t] \in {"check", "exited"}

ReducerInv == TypeOK /\ BarrierInv /\ (Between \/ Reducing \/ Stopped)

----------------------------------------------------------------------------
(* The barrier.                                                            *)

(* A set of participants that leaves out p has fewer members than there    *)
(* are participants, and one fewer only when p alone is left out.          *)
LEMMA AllButOne ==
    ASSUME NEW A \in SUBSET Participants, NEW p \in Participants, p \notin A
    PROVE  /\ Cardinality(A) \in Nat /\ NumParticipants \in Nat
           /\ Cardinality(A \cup {p}) = Cardinality(A) + 1
           /\ Cardinality(A) = NumParticipants - 1 => A = Participants \ {p}
           /\ Cardinality(A) <= NumParticipants - 1
<1>1. IsFiniteSet(Participants) /\ IsFiniteSet(A) /\ IsFiniteSet(Participants \ {p})
  BY ParticipantsAssumption, FS_Subset
<1>2. Cardinality(A) \in Nat /\ Cardinality(Participants) \in Nat
  BY <1>1, FS_CardinalityType
<1>3. Cardinality(Participants \ {p}) = Cardinality(Participants) - 1
  BY <1>1, FS_RemoveElement
<1>4. Cardinality(A \cup {p}) = Cardinality(A) + 1
  BY <1>1, FS_AddElement
<1>5. A \subseteq Participants \ {p}
  OBVIOUS
<1>6. Cardinality(A) <= Cardinality(Participants \ {p})
      /\ (Cardinality(A) = Cardinality(Participants \ {p}) => A = Participants \ {p})
  BY <1>1, <1>5, FS_Subset
<1> QED  BY <1>2, <1>3, <1>4, <1>6 DEF NumParticipants

(* What going to sleep does to a barrier. *)
LEMMA SleepEffect ==
    ASSUME NEW c \in Barriers, NEW p \in Participants, NEW d, d = Sleep(c, p)
    PROVE  /\ d.count = c.count - 1 /\ d.flag = c.flag
           /\ d.flag_copy = [c.flag_copy EXCEPT ![p] = c.flag]
           /\ d.waiting = c.waiting \cup {p} /\ d.woken = c.woken /\ d \in Barriers
<1>1. PICK n \in Int, f \in BOOLEAN, g \in [Participants -> BOOLEAN],
           w \in SUBSET Participants, k \in SUBSET Participants :
        c = [count |-> n, flag |-> f, flag_copy |-> g, waiting |-> w, woken |-> k]
  BY DEF Barriers
<1>2. d = [count |-> n - 1, flag |-> f, flag_copy |-> [g EXCEPT ![p] = f],
           waiting |-> w \cup {p}, woken |-> k]
  BY <1>1, Zenon DEF Sleep
<1>3. [g EXCEPT ![p] = f] \in [Participants -> BOOLEAN] /\ n - 1 \in Int
  OBVIOUS
<1>4. d \in Barriers
  BY <1>2, <1>3 DEF Barriers
<1>5. c.count = n /\ c.flag = f /\ c.flag_copy = g /\ c.waiting = w /\ c.woken = k
  BY <1>1
<1>6. /\ d.count = n - 1 /\ d.flag = f /\ d.flag_copy = [g EXCEPT ![p] = f]
      /\ d.waiting = w \cup {p} /\ d.woken = k
  BY <1>2
<1> QED  BY <1>4, <1>5, <1>6

(* What waking up too early does, and sleeping again. *)
LEMMA WakeEffect ==
    ASSUME NEW c \in Barriers, NEW p \in Participants, NEW d,
           d = SleepsAgain(c, p) \/ d = WakesUp(c, p)
    PROVE  /\ d.count = c.count /\ d.flag = c.flag /\ d.flag_copy = c.flag_copy
           /\ d.waiting \cup d.woken = c.waiting \cup c.woken \cup {p}
           /\ d.waiting \subseteq c.waiting \cup {p} /\ d \in Barriers
<1>1. PICK n \in Int, f \in BOOLEAN, g \in [Participants -> BOOLEAN],
           w \in SUBSET Participants, k \in SUBSET Participants :
        c = [count |-> n, flag |-> f, flag_copy |-> g, waiting |-> w, woken |-> k]
  BY DEF Barriers
<1>2. \/ d = [count |-> n, flag |-> f, flag_copy |-> g,
              waiting |-> w \cup {p}, woken |-> k \ {p}]
      \/ d = [count |-> n, flag |-> f, flag_copy |-> g,
              waiting |-> w \ {p}, woken |-> k \cup {p}]
  BY <1>1, Zenon DEF SleepsAgain, WakesUp
<1>3. d \in Barriers
  BY <1>2 DEF Barriers
<1> QED  BY <1>1, <1>2, <1>3

(* The last participant to call wait(): all others sleep, and go on. *)
LEMMA LastArrives ==
    ASSUME TypeOK, BarrierInv, NEW w \in Waits, NEW p \in Participants,
           Arrive(p, w[1], w[2], w[3]), IsLast(b)
    PROVE  /\ TypeOK' /\ BarrierInv'
           /\ at[p] = w[1] /\ \A r \in Participants \ {p} : at[r] \in Asleep
           /\ at' = [r \in Participants |-> IF r = p THEN w[3] ELSE Goal[at[r]]]
<1>1. /\ b' = ReleaseAll(b) /\ pc' = [pc EXCEPT ![p] = w[3]] /\ pc[p] = w[1]
      /\ UNCHANGED <<src_buffer, length, shutdown, reduction_id, seen, done>>
  BY DEF Arrive, shared
<1>2. w[1] \notin Asleep /\ w[3] \notin Asleep /\ w[1] \in Labels /\ w[3] \in Labels
  BY DEF Waits, Asleep, Labels
<1>3. at[p] = w[1] /\ p \notin Arrived /\ Arrived \in SUBSET Participants
  BY <1>1, <1>2 DEF at, Arrived
<1>0. /\ Cardinality(Arrived) \in Nat /\ NumParticipants \in Nat
      /\ Cardinality(Arrived) = NumParticipants - 1 => Arrived = Participants \ {p}
      /\ Cardinality(Arrived) <= NumParticipants - 1
  BY <1>3, AllButOne, Zenon
<1>4. Arrived = Participants \ {p}
  <2>1. b.count \in Int /\ b.count <= 1
    BY DEF IsLast, TypeOK, Barriers
  <2>0. b.count = NumParticipants - Cardinality(Arrived) /\ b.count > 0
    BY DEF BarrierInv
  <2>2. Cardinality(Arrived) = NumParticipants - 1
    BY <2>0, <2>1, <1>0
  <2> QED  BY <2>2, <1>0
<1>5. \A r \in Participants \ {p} : at[r] \in Asleep
  BY <1>4 DEF Arrived
<1>6. \A l \in Asleep : Goal[l] \notin Asleep /\ Goal[l] \in Labels
  BY DEF Goal, Asleep, Labels
<1>7. \A r \in Participants \ {p} : pc[r] \in Asleep /\ at[r] = pc[r] /\ b.flag_copy[r] = b.flag
  BY <1>5, <1>6 DEF at
<1>8. /\ b'.count = NumParticipants /\ b'.flag = ~ b.flag /\ b'.flag_copy = b.flag_copy
      /\ b'.waiting = {} /\ b'.woken = b.woken \cup b.waiting /\ b' \in Barriers
  <2>1. NumParticipants \in Int
    BY <1>0
  <2> QED  BY <1>1, <2>1, Zenon DEF ReleaseAll, TypeOK, Barriers
<1>9. TypeOK'
  BY <1>1, <1>2, <1>8 DEF TypeOK
<1>10. at' = [r \in Participants |-> IF r = p THEN w[3] ELSE Goal[at[r]]]
  <2>1. \A r \in Participants \ {p} : b'.flag_copy[r] # b'.flag /\ pc'[r] = pc[r]
    BY <1>1, <1>7, <1>8 DEF TypeOK, Barriers
  <2>2. pc'[p] = w[3]
    BY <1>1 DEF TypeOK
  <2> QED  BY <1>2, <1>7, <2>1, <2>2 DEF at
<1>11. Arrived' = {}
  BY <1>2, <1>5, <1>6, <1>10 DEF Arrived
<1>12. BarrierInv'
  <2>1. Cardinality(Arrived') = 0 /\ NumParticipants \in Nat /\ NumParticipants > 0
    BY <1>0, <1>11, FS_EmptySet
  <2>2. \A r \in Participants : pc'[r] \in Asleep => r \in b'.waiting \cup b'.woken
    BY <1>1, <1>2, <1>8 DEF BarrierInv, TypeOK
  <2> QED  BY <1>8, <2>1, <2>2 DEF BarrierInv
<1> QED  BY <1>3, <1>5, <1>9, <1>10, <1>12

(* Any other one to call wait() sleeps. *)
LEMMA NotLastArrives ==
    ASSUME TypeOK, BarrierInv, NEW w \in Waits, NEW p \in Participants,
           Arrive(p, w[1], w[2], w[3]), ~ IsLast(b)
    PROVE  /\ TypeOK' /\ BarrierInv'
           /\ at[p] = w[1] /\ at' = [at EXCEPT ![p] = w[2]]
<1>1. /\ b' = Sleep(b, p) /\ pc' = [pc EXCEPT ![p] = w[2]] /\ pc[p] = w[1]
      /\ UNCHANGED <<src_buffer, length, shutdown, reduction_id, seen, done>>
  BY DEF Arrive, shared
<1>2. w[1] \notin Asleep /\ w[2] \in Asleep /\ w[2] \in Labels
  BY DEF Waits, Asleep, Labels
<1>3. at[p] = w[1] /\ p \notin Arrived /\ Arrived \in SUBSET Participants
  BY <1>1, <1>2 DEF at, Arrived
<1>4. /\ b'.count = b.count - 1 /\ b'.flag = b.flag
      /\ b'.flag_copy = [b.flag_copy EXCEPT ![p] = b.flag]
      /\ b'.waiting = b.waiting \cup {p} /\ b'.woken = b.woken /\ b' \in Barriers
  <2>1. PICK c, d : c = b /\ d = b' /\ c \in Barriers /\ d = Sleep(c, p)
    BY <1>1 DEF TypeOK
  <2>2. /\ d.count = c.count - 1 /\ d.flag = c.flag
        /\ d.flag_copy = [c.flag_copy EXCEPT ![p] = c.flag]
        /\ d.waiting = c.waiting \cup {p} /\ d.woken = c.woken /\ d \in Barriers
    BY <2>1, SleepEffect
  <2> QED  BY <2>1, <2>2
<1>5. TypeOK'
  BY <1>1, <1>2, <1>4 DEF TypeOK
<1>6. at' = [at EXCEPT ![p] = w[2]]
  <2>1. pc'[p] = w[2] /\ b'.flag_copy[p] = b'.flag
    BY <1>1, <1>4 DEF TypeOK, Barriers
  <2>2. \A r \in Participants \ {p} : pc'[r] = pc[r] /\ b'.flag_copy[r] = b.flag_copy[r]
    BY <1>1, <1>4 DEF TypeOK, Barriers
  <2>3. at'[p] = w[2]
    BY <2>1 DEF at
  <2>4. ASSUME NEW r \in Participants, r # p PROVE at'[r] = at[r]
    <3>1. pc'[r] = pc[r] /\ b'.flag_copy[r] = b.flag_copy[r] /\ b'.flag = b.flag
      BY <1>4, <2>2, <2>4
    <3> QED  BY <3>1 DEF at
  <2>5. at = [r \in Participants |-> at[r]] /\ at' = [r \in Participants |-> at'[r]]
    BY DEF at
  <2> QED  BY <2>3, <2>4, <2>5
<1>7. Arrived' = Arrived \cup {p}
  BY <1>2, <1>6 DEF Arrived, at
<1>8. BarrierInv'
  <2>1. b.count \in Int /\ b.count > 1
    BY DEF IsLast, TypeOK, Barriers
  <2>2. Cardinality(Arrived') = Cardinality(Arrived) + 1 /\ Cardinality(Arrived) \in Nat
        /\ NumParticipants \in Nat
    BY <1>3, <1>7, AllButOne
  <2>3. \A r \in Participants : pc'[r] \in Asleep => r \in b'.waiting \cup b'.woken
    BY <1>1, <1>4 DEF BarrierInv, TypeOK
  <2> QED  BY <1>4, <1>7, <2>1, <2>2, <2>3 DEF BarrierInv
<1> QED  BY <1>3, <1>5, <1>6, <1>8

(* Waking up moves nobody, as far as at goes. *)
LEMMA Wakes ==
    ASSUME TypeOK, BarrierInv, NEW w \in Waits, NEW p \in Participants,
           Awake(p, w[2], w[3]) \/ SpuriousWakeup(p)
    PROVE  TypeOK' /\ BarrierInv' /\ at' = at
<1>1. w[2] \in Asleep /\ w[3] \notin Asleep /\ w[3] = Goal[w[2]] /\ w[3] \in Labels
  BY DEF Waits, Asleep, Labels, Goal
<1>2. CASE Awake(p, w[2], w[3]) /\ MayLeave(b, p)
  <2>1. /\ b' = Leaves(b, p) /\ pc' = [pc EXCEPT ![p] = w[3]] /\ pc[p] = w[2]
        /\ UNCHANGED <<src_buffer, length, shutdown, reduction_id, seen, done>>
    BY <1>2 DEF Awake, shared
  <2>2. /\ b'.count = b.count /\ b'.flag = b.flag /\ b'.flag_copy = b.flag_copy
        /\ b'.waiting = b.waiting /\ b'.woken = b.woken \ {p} /\ b' \in Barriers
    BY <2>1 DEF Leaves, TypeOK, Barriers
  <2>3. TypeOK'
    BY <1>1, <2>1, <2>2 DEF TypeOK
  <2>4. at' = at
    <3>1. pc'[p] = w[3] /\ \A r \in Participants \ {p} : pc'[r] = pc[r]
      BY <2>1 DEF TypeOK
    <3>2. b.flag_copy[p] # b.flag
      BY <1>2 DEF MayLeave
    <3> QED  BY <1>1, <2>1, <2>2, <3>1, <3>2 DEF at
  <2>5. Arrived' = Arrived
    BY <2>4 DEF Arrived
  <2>6. \A r \in Participants : pc'[r] \in Asleep => r \in b'.waiting \cup b'.woken
    BY <1>1, <2>1, <2>2 DEF BarrierInv, TypeOK
  <2> QED  BY <2>2, <2>3, <2>4, <2>5, <2>6 DEF BarrierInv
<1>3. CASE (Awake(p, w[2], w[3]) /\ ~ MayLeave(b, p)) \/ SpuriousWakeup(p)
  <2>1. /\ b' = SleepsAgain(b, p) \/ b' = WakesUp(b, p)
        /\ UNCHANGED <<pc, src_buffer, length, shutdown, reduction_id, seen, done>>
    BY <1>3 DEF Awake, SpuriousWakeup, shared
  <2>2. /\ b'.count = b.count /\ b'.flag = b.flag /\ b'.flag_copy = b.flag_copy
        /\ b'.waiting \cup b'.woken = b.waiting \cup b.woken \cup {p}
        /\ b'.waiting \subseteq b.waiting \cup {p} /\ b' \in Barriers
    BY <2>1, WakeEffect DEF TypeOK
  <2>3. TypeOK'
    BY <2>1, <2>2 DEF TypeOK
  <2>4. at' = at
    BY <2>1, <2>2 DEF at
  <2>5. Arrived' = Arrived
    BY <2>4 DEF Arrived
  <2>6. b'.waiting \subseteq Arrived
    <3>1. CASE SpuriousWakeup(p)
      BY <3>1, <2>2 DEF SpuriousWakeup, BarrierInv
    <3>2. CASE Awake(p, w[2], w[3]) /\ ~ MayLeave(b, p)
      <4>1. pc[p] = w[2] /\ b.flag_copy[p] = b.flag
        BY <3>2 DEF Awake, MayLeave
      <4>2. p \in Arrived
        BY <4>1, <1>1 DEF Arrived, at
      <4> QED  BY <4>2, <2>2 DEF BarrierInv
    <3> QED  BY <3>1, <3>2, <1>3
  <2>7. \A r \in Participants : pc'[r] \in Asleep => r \in b'.waiting \cup b'.woken
    BY <2>1, <2>2 DEF BarrierInv
  <2> QED  BY <2>2, <2>3, <2>4, <2>5, <2>6, <2>7 DEF BarrierInv
<1> QED  BY <1>2, <1>3

(* A step outside the barrier. *)
LEMMA Moves ==
    ASSUME TypeOK, BarrierInv, NEW p \in Participants, NEW l \in Labels \ Asleep,
           pc[p] \notin Asleep, pc' = [pc EXCEPT ![p] = l], b' = b
    PROVE  BarrierInv' /\ at[p] = pc[p] /\ at' = [at EXCEPT ![p] = l]
           /\ pc' \in [Participants -> Labels]
<1>1. at[p] = pc[p]
  BY DEF at
<1>2. pc'[p] = l /\ \A r \in Participants \ {p} : pc'[r] = pc[r]
  BY DEF TypeOK
<1>3. at' = [at EXCEPT ![p] = l]
  <2>1. at'[p] = l /\ \A r \in Participants \ {p} : at'[r] = at[r]
    BY <1>2 DEF at
  <2> QED  BY <2>1, Zenon DEF at
<1>4. Arrived' = Arrived
  BY <1>1, <1>3 DEF Arrived, at
<1>5. \A r \in Participants : pc'[r] \in Asleep => r \in b'.waiting \cup b'.woken
  BY <1>2 DEF BarrierInv
<1>6. pc' \in [Participants -> Labels]
  BY DEF TypeOK
<1> QED  BY <1>1, <1>3, <1>4, <1>5, <1>6 DEF BarrierInv

----------------------------------------------------------------------------
(* The phases of a call.                                                   *)

Phase == Between \/ Reducing \/ Stopped

LEMMA InPhase ==
    ASSUME TypeOK
    PROVE  /\ Main \in Participants /\ Main \notin Threads
           /\ Participants = Threads \cup {Main}
           /\ at = [p \in Participants |-> at[p]]
BY ReducerAssumption DEF at

(* Arriving at the barrier keeps the phase, or opens the next one. *)
LEMMA ArrivePhase ==
    ASSUME ReducerInv, NEW w \in Waits, NEW p \in Participants, Arrive(p, w[1], w[2], w[3])
    PROVE  ReducerInv'
<1>1. TypeOK /\ BarrierInv /\ Phase
  BY DEF ReducerInv, Phase
<1>2. UNCHANGED <<src_buffer, length, shutdown, reduction_id, seen, done>>
  BY DEF Arrive, shared
<1>3. CASE IsLast(b)
  <2>1. /\ TypeOK' /\ BarrierInv'
        /\ at[p] = w[1] /\ \A r \in Participants \ {p} : at[r] \in Asleep
        /\ at' = [r \in Participants |-> IF r = p THEN w[3] ELSE Goal[at[r]]]
    BY <1>1, <1>3, LastArrives
  <2>2. CASE Between
    <3>1. CASE p = Main
      <4>1. \A t \in Threads : at[t] = "waiting"
        BY <2>1, <2>2, <3>1, InPhase, <1>1 DEF Between, Asleep
      <4>2. \A t \in Threads : at'[t] = "check"
        BY <2>1, <4>1, <3>1, InPhase, <1>1 DEF Goal, Asleep
      <4>3. \/ at[Main] = "start" /\ at'[Main] = "finish"
            \/ at[Main] = "stop" /\ at'[Main] = "join"
        BY <2>1, <2>2, <3>1 DEF Between, Waits
      <4> QED  BY <1>2, <2>1, <2>2, <4>2, <4>3 DEF Between, Reducing, Stopped, ReducerInv
    <3>2. CASE p \in Threads
      <4>1. at[p] = "wait" /\ w[3] = "check"
        BY <2>1, <2>2, <3>2 DEF Between, Waits
      <4>2. \A t \in Threads : at'[t] = "check"
        BY <2>1, <2>2, <4>1, InPhase, <1>1 DEF Between, Goal, Asleep
      <4>3. \/ at[Main] = "starting" /\ at'[Main] = "finish"
            \/ at[Main] = "stopping" /\ at'[Main] = "join"
        BY <2>1, <2>2, <3>2, InPhase, <1>1 DEF Between, Asleep, Goal
      <4> QED  BY <1>2, <2>1, <2>2, <4>2, <4>3 DEF Between, Reducing, Stopped, ReducerInv
    <3> QED  BY <3>1, <3>2, InPhase, <1>1
  <2>3. CASE Reducing
    <3>1. at'[Main] = "idle" /\ \A t \in Threads : at[t] \in {"end", "ending"} /\ at'[t] = "wait"
      <4>1. CASE p = Main
        BY <2>1, <2>3, <4>1, InPhase, <1>1 DEF Reducing, Waits, Asleep, Goal
      <4>2. CASE p \in Threads
        BY <2>1, <2>3, <4>2, InPhase, <1>1 DEF Reducing, Waits, Asleep, Goal
      <4> QED  BY <4>1, <4>2, InPhase, <1>1
    <3> QED  BY <1>2, <2>1, <2>3, <3>1 DEF Between, Reducing, ReducerInv
  <2>4. CASE Stopped
    BY <2>1, <2>4, InPhase, <1>1 DEF Stopped, Waits
  <2> QED  BY <1>1, <2>1, <2>2, <2>3, <2>4 DEF Phase, ReducerInv
<1>4. CASE ~ IsLast(b)
  <2>1. TypeOK' /\ BarrierInv' /\ at[p] = w[1] /\ at' = [at EXCEPT ![p] = w[2]]
    BY <1>1, <1>4, NotLastArrives
  <2>2. at'[p] = w[2] /\ \A r \in Participants \ {p} : at'[r] = at[r]
    BY <2>1, InPhase, <1>1
  <2>3. CASE p = Main
    <3>1. \A t \in Threads : at'[t] = at[t]
      BY <2>2, <2>3, InPhase, <1>1
    <3>2. \/ Between /\ at[Main] = "start" /\ at'[Main] = "starting"
          \/ Between /\ at[Main] = "stop" /\ at'[Main] = "stopping"
          \/ Reducing /\ at[Main] = "finish" /\ at'[Main] = "finishing"
      BY <1>1, <2>1, <2>2, <2>3 DEF Phase, Between, Reducing, Stopped, Waits
    <3> QED  BY <1>2, <2>1, <3>1, <3>2 DEF Between, Reducing, ReducerInv
  <2>4. CASE p \in Threads
    <3>1. at'[Main] = at[Main] /\ \A t \in Threads : t # p => at'[t] = at[t]
      BY <2>2, <2>4, InPhase, <1>1
    <3>2. \/ Between /\ at[p] = "wait" /\ at'[p] = "waiting"
          \/ Reducing /\ at[p] = "end" /\ at'[p] = "ending"
      BY <1>1, <2>1, <2>2, <2>4 DEF Phase, Between, Reducing, Stopped, Waits
    <3> QED  BY <1>2, <2>1, <3>1, <3>2 DEF Between, Reducing, ReducerInv
  <2> QED  BY <2>3, <2>4, InPhase, <1>1
<1> QED  BY <1>3, <1>4

(* Waking up keeps the phase. *)
LEMMA AwakePhase ==
    ASSUME ReducerInv, NEW w \in Waits, NEW p \in Participants,
           Awake(p, w[2], w[3]) \/ SpuriousWakeup(p)
    PROVE  ReducerInv'
<1>1. TypeOK' /\ BarrierInv' /\ at' = at
  BY Wakes DEF ReducerInv
<1>2. UNCHANGED <<src_buffer, length, shutdown, reduction_id, seen, done>>
  BY DEF Awake, SpuriousWakeup, shared
<1> QED  BY <1>1, <1>2 DEF ReducerInv, Between, Reducing, Stopped

(* What the main thread does outside the barrier. *)
LEMMA MainPhase ==
    ASSUME ReducerInv, SetBuffer \/ SetLength \/ Shutdown \/ Join
    PROVE  ReducerInv'
<1>1. TypeOK /\ BarrierInv /\ Phase /\ Main \in Participants
  BY InPhase DEF ReducerInv, Phase
<1>2. PICK l \in {"length", "start", "stop", "joined"} : pc' = [pc EXCEPT ![Main] = l]
  BY DEF SetBuffer, SetLength, Shutdown, Join
<1>3. /\ l \in Labels \ Asleep /\ b' = b /\ UNCHANGED <<seen, done>>
      /\ pc[Main] \in {"idle", "length", "join"} /\ pc[Main] \notin Asleep
  BY DEF SetBuffer, SetLength, Shutdown, Join, Labels, Asleep, shared
<1>4. BarrierInv' /\ at[Main] = pc[Main] /\ at' = [at EXCEPT ![Main] = l]
      /\ pc' \in [Participants -> Labels]
  BY <1>1, <1>2, <1>3, Moves, Zenon
<1>5. at'[Main] = l /\ \A t \in Threads : at'[t] = at[t]
  BY <1>1, <1>4, InPhase
<1>6. pc'[Main] = l
  BY <1>1, <1>2 DEF TypeOK
<1>7. TypeOK'
  <2>1. /\ src_buffer' \in {src_buffer, reduction_id + 1} /\ length' \in {length, reduction_id + 1}
        /\ reduction_id' \in {reduction_id, reduction_id + 1}
    BY DEF SetBuffer, SetLength, Shutdown, Join, shared
  <2>2. shutdown' = shutdown \/ shutdown' = TRUE
    BY DEF SetBuffer, SetLength, Shutdown, Join, shared
  <2>3. shutdown' \in BOOLEAN
    BY <1>1, <2>2, Zenon DEF TypeOK
  <2>4. src_buffer' \in Int /\ length' \in Int /\ reduction_id' \in Int
    BY <1>1, <2>1 DEF TypeOK
  <2> QED  BY <1>1, <1>3, <1>4, <2>3, <2>4 DEF TypeOK
<1>8. CASE SetBuffer
  <2>1. l = "length" /\ at[Main] = "idle"
    BY <1>1, <1>2, <1>4, <1>6, <1>8 DEF SetBuffer, TypeOK
  <2> QED  BY <1>1, <1>3, <1>4, <1>5, <1>7, <1>8, <2>1
           DEF SetBuffer, ReducerInv, Phase, Between, Reducing, Stopped, TypeOK
<1>9. CASE SetLength
  <2>1. l = "start" /\ at[Main] = "length"
    BY <1>1, <1>2, <1>4, <1>6, <1>9 DEF SetLength, TypeOK
  <2> QED  BY <1>1, <1>3, <1>4, <1>5, <1>7, <1>9, <2>1
           DEF SetLength, ReducerInv, Phase, Between, Reducing, Stopped, TypeOK
<1>10. CASE Shutdown
  <2>1. l = "stop" /\ at[Main] = "idle"
    BY <1>1, <1>2, <1>4, <1>6, <1>10 DEF Shutdown, TypeOK
  <2> QED  BY <1>1, <1>3, <1>4, <1>5, <1>7, <1>10, <2>1
           DEF Shutdown, ReducerInv, Phase, Between, Reducing, Stopped, TypeOK
<1>11. CASE Join
  <2>1. l = "joined" /\ at[Main] = "join"
    BY <1>1, <1>2, <1>4, <1>6, <1>11 DEF Join, TypeOK
  <2> QED  BY <1>1, <1>3, <1>4, <1>5, <1>7, <1>11, <2>1
           DEF Join, shared, ReducerInv, Phase, Between, Reducing, Stopped, TypeOK
<1> QED  BY <1>8, <1>9, <1>10, <1>11

(* What a worker thread does outside the barrier. *)
LEMMA ThreadPhase ==
    ASSUME ReducerInv, NEW t \in Threads, CheckShutdown(t) \/ Compute(t) \/ RunThread(t)
    PROVE  ReducerInv'
<1>1. TypeOK /\ BarrierInv /\ Phase /\ t \in Participants
  BY InPhase DEF ReducerInv, Phase
<1>2. PICK l \in {"exited", "compute", "run", "end"} : pc' = [pc EXCEPT ![t] = l]
  BY DEF CheckShutdown, Compute, RunThread
<1>3. /\ l \in Labels \ Asleep /\ b' = b
      /\ UNCHANGED <<src_buffer, length, shutdown, reduction_id>>
      /\ pc[t] \in {"check", "compute", "run"} /\ pc[t] \notin Asleep
  BY DEF CheckShutdown, Compute, RunThread, Labels, Asleep, shared
<1>4. BarrierInv' /\ at[t] = pc[t] /\ at' = [at EXCEPT ![t] = l]
      /\ pc' \in [Participants -> Labels]
  BY <1>1, <1>2, <1>3, Moves, Zenon
<1>5. at'[t] = l /\ at'[Main] = at[Main] /\ \A u \in Threads : u # t => at'[u] = at[u]
  BY <1>1, <1>4, InPhase
<1>6. pc'[t] = l
  BY <1>1, <1>2 DEF TypeOK
<1>7. TypeOK'
  BY <1>1, <1>3, <1>4 DEF TypeOK, CheckShutdown, Compute, RunThread
<1>8. Reducing \/ Stopped
  BY <1>1, <1>3, <1>4 DEF Phase, Between
<1>9. CASE CheckShutdown(t)
  <2>1. l = (IF shutdown THEN "exited" ELSE "compute") /\ at[t] = "check"
        /\ UNCHANGED <<seen, done>>
    BY <1>1, <1>2, <1>4, <1>6, <1>9 DEF CheckShutdown, TypeOK
  <2> QED  BY <1>3, <1>4, <1>5, <1>7, <1>8, <2>1, ZenonT(30)
           DEF ReducerInv, Reducing, Stopped
<1>10. CASE Compute(t)
  <2>1. l = "run" /\ at[t] = "compute" /\ done' = done
        /\ seen'[t] = <<src_buffer, length>> /\ \A u \in Threads : u # t => seen'[u] = seen[u]
    BY <1>1, <1>2, <1>4, <1>6, <1>10 DEF Compute, TypeOK
  <2> QED  BY <1>3, <1>4, <1>5, <1>7, <1>8, <2>1, ZenonT(30)
           DEF ReducerInv, Reducing, Stopped
<1>11. CASE RunThread(t)
  <2>1. l = "end" /\ at[t] = "run" /\ seen' = seen
        /\ done'[t] = reduction_id /\ \A u \in Threads : u # t => done'[u] = done[u]
    BY <1>1, <1>2, <1>4, <1>6, <1>11 DEF RunThread, TypeOK
  <2> QED  BY <1>3, <1>4, <1>5, <1>7, <1>8, <2>1
           DEF ReducerInv, Reducing, Stopped
<1> QED  BY <1>9, <1>10, <1>11

----------------------------------------------------------------------------
LEMMA ReducerInit == Init => ReducerInv
<1> SUFFICES ASSUME Init PROVE ReducerInv
  OBVIOUS
<1>1. NumParticipants \in Nat /\ NumParticipants > 0
  <2>1. IsFiniteSet(Participants) /\ Participants # {}
    BY ParticipantsAssumption
  <2> QED  BY <2>1, FS_CardinalityType, FS_EmptySet DEF NumParticipants
<1>2. TypeOK
  <2>1. b \in Barriers
    BY <1>1 DEF Init, NewBarrier, Barriers
  <2>2. pc \in [Participants -> Labels]
    BY DEF Init, Labels
  <2>3. shutdown \in BOOLEAN
    BY Zenon DEF Init
  <2>4. src_buffer \in Int /\ length \in Int /\ reduction_id \in Int
    BY DEF Init
  <2>5. seen \in [Threads -> Int \X Int] /\ done \in [Threads -> Int]
    BY DEF Init
  <2> QED  BY <2>1, <2>2, <2>3, <2>4, <2>5 DEF TypeOK
<1>3. \A p \in Participants : pc[p] \notin Asleep /\ at[p] = pc[p]
  BY DEF Init, Asleep, at
<1>4. BarrierInv
  <2>1. Arrived = {}
    BY <1>3 DEF Arrived
  <2>2. Cardinality(Arrived) = 0
    BY <2>1, FS_EmptySet
  <2>3. b.count = NumParticipants /\ b.waiting = {}
    BY DEF Init, NewBarrier
  <2> QED  BY <1>1, <1>3, <2>2, <2>3 DEF BarrierInv
<1>5. Between
  BY <1>3, ReducerAssumption DEF Init, Between
<1> QED  BY <1>2, <1>4, <1>5 DEF ReducerInv

LEMMA ReducerNext == ReducerInv /\ [Next]_vars => ReducerInv'
<1> SUFFICES ASSUME ReducerInv, [Next]_vars PROVE ReducerInv'
  OBVIOUS
<1>1. Main \in Participants /\ Threads \subseteq Participants
  BY ReducerAssumption
<1>2. CASE MainStart
  BY <1>1, <1>2, ArrivePhase, AwakePhase DEF MainStart, Waits
<1>3. CASE MainFinish
  BY <1>1, <1>3, ArrivePhase, AwakePhase DEF MainFinish, Waits
<1>4. CASE MainStop
  BY <1>1, <1>4, ArrivePhase, AwakePhase DEF MainStop, Waits
<1>5. CASE SetBuffer \/ SetLength \/ Shutdown \/ Join
  BY <1>5, MainPhase
<1>6. ASSUME NEW t \in Threads, ThreadStart(t) PROVE ReducerInv'
  BY <1>1, <1>6, ArrivePhase, AwakePhase DEF ThreadStart, Waits
<1>7. ASSUME NEW t \in Threads, ThreadEnd(t) PROVE ReducerInv'
  BY <1>1, <1>7, ArrivePhase, AwakePhase DEF ThreadEnd, Waits
<1>8. ASSUME NEW t \in Threads, CheckShutdown(t) \/ Compute(t) \/ RunThread(t) PROVE ReducerInv'
  BY <1>8, ThreadPhase
<1>9. ASSUME NEW p \in Participants, SpuriousWakeup(p) PROVE ReducerInv'
  <2>1. PICK w : w \in Waits
    BY Zenon DEF Waits
  <2> QED  BY <1>9, <2>1, AwakePhase
<1>10. CASE UNCHANGED vars
  BY <1>10, Zenon DEF vars, ReducerInv, TypeOK, BarrierInv, Between, Reducing, Stopped, Arrived, at
<1> QED
  BY <1>2, <1>3, <1>4, <1>5, <1>6, <1>7, <1>8, <1>9, <1>10
  DEF Next, MainStep, ThreadStep, Finished

(* The inductive invariant holds in every state. *)
THEOREM ReducerInvariant == Spec => []ReducerInv
BY ReducerInit, ReducerNext, PTL DEF Spec

(* HandedOver, for any number of threads and calls: a thread computes on   *)
(* the buffer and the length of one call, the one the main thread is in.   *)
THEOREM HandedOverCorrect == Spec => []HandedOver
<1>1. ReducerInv => HandedOver
  <2> SUFFICES ASSUME ReducerInv, NEW t \in Threads, pc[t] \in {"run", "end"}
               PROVE  seen[t] = <<reduction_id, reduction_id>>
    BY DEF HandedOver
  <2>1. at[t] = pc[t]
    BY ReducerAssumption DEF at, Asleep
  <2> QED  BY <2>1 DEF ReducerInv, Between, Reducing, Stopped
<1> QED  BY <1>1, ReducerInvariant, PTL

(* ReturnsComplete, for any number of threads and calls: when              *)
(* allreduce_inplace returns, every thread has finished the reduction and  *)
(* none has begun another.                                                 *)
THEOREM ReturnsCompleteCorrect == Spec => []ReturnsComplete
<1>1. ReducerInv => ReturnsComplete
  <2> SUFFICES ASSUME ReducerInv, pc[Main] \in {"idle", "length", "start", "stop"},
                      NEW t \in Threads
               PROVE  done[t] = IF pc[Main] = "start" THEN reduction_id - 1 ELSE reduction_id
    BY DEF ReturnsComplete
  <2>1. at[Main] = pc[Main]
    BY ReducerAssumption DEF at, Asleep
  <2> QED  BY <2>1 DEF ReducerInv, Between, Reducing, Stopped
<1> QED  BY <1>1, ReducerInvariant, PTL

(* No wakeup is lost: a participant that the barrier has released but that *)
(* has not left wait() has been woken, and goes on as soon as it gets the  *)
(* mutex; it does not depend on a spurious wakeup.                         *)
ReleasedIsWoken ==
    \A p \in Participants :
        (pc[p] \in Asleep /\ MayLeave(b, p)) => p \in b.woken

(* The notification of Barrier::wait reaches everyone it releases. *)
THEOREM NoLostWakeup == Spec => []ReleasedIsWoken
<1>1. ReducerInv => ReleasedIsWoken
  <2> SUFFICES ASSUME ReducerInv, NEW p \in Participants, pc[p] \in Asleep, MayLeave(b, p)
               PROVE  p \in b.woken
    BY DEF ReleasedIsWoken
  <2>1. at[p] = Goal[pc[p]]
    BY DEF at, MayLeave
  <2>2. at[p] \notin Asleep
    BY <2>1 DEF Goal, Asleep
  <2> QED  BY <2>2 DEF ReducerInv, BarrierInv, Arrived
<1> QED  BY <1>1, ReducerInvariant, PTL

----------------------------------------------------------------------------
(* The timeout queue.                                                      *)


(* What follows names an update of the ages by an operator of its own. *)
Aged(a, i, n) == [a EXCEPT ![i] = n]

LEMMA ElementFacts ==
    /\ Entries \subseteq Elements /\ Elements \subseteq Nat
    /\ Sentinel \in Elements /\ Sentinel \notin Entries
    /\ \A e \in Elements : e # Sentinel => e \in Entries
    /\ Nil \notin Elements
BY NumEntriesAssumption DEF Entries, Elements, Sentinel, Nil

(* remove takes an entry out of the list and leaves the others in order.   *)
LEMMA RemoveLinks ==
    ASSUME NEW l \in QueueType, NEW a \in [Entries -> Nat], Distinct(a), Links(l, a),
           NEW i \in Entries, NEW r, r = Remove(l, i), NEW d, d = Aged(a, i, 0)
    PROVE  /\ r \in QueueType
           /\ d \in [Entries -> Nat] /\ QueuedIn(d) = QueuedIn(a) \ {i}
           /\ \A k \in Entries \ {i} : d[k] = a[k] /\ r.timestamp[k] = l.timestamp[k]
           /\ Links(r, d)
<1> USE ElementFacts
<1>0. l.head \in QueuedIn(a) \cup {Sentinel}
    BY DEF Links, NewestIs
<1>1. d \in [Entries -> Nat] /\ QueuedIn(d) = QueuedIn(a) \ {i}
    BY DEF QueuedIn, Aged
<1>2. \A k \in Entries \ {i} : d[k] = a[k]
    BY DEF Aged
<1>3. CASE i \notin QueuedIn(a)
    <2>1. l.next[i] = Nil /\ l.previous[i] = Nil /\ l.head # i
        BY <1>0, <1>3 DEF Links
    <2>2. /\ r.next = l.next /\ r.previous = l.previous /\ r.head = l.head
          /\ r.timestamp = [l.timestamp EXCEPT ![i] = 0]
        BY <2>1 DEF Remove, QueueType
    <2>3. r \in QueueType
        BY <2>1 DEF Remove, QueueType
    <2>4. d = a
        BY <1>3 DEF QueuedIn, Aged
    <2>5. Links(r, d)
        <3>1. Links(l, d)
            BY <2>4
        <3> HIDE ElementFacts
        <3> QED
            BY <2>2, <3>1, ZenonT(30) DEF Links
    <2>6. \A k \in Entries \ {i} : r.timestamp[k] = l.timestamp[k]
        BY <2>2 DEF QueueType
    <2> QED
        BY <1>1, <1>2, <2>3, <2>5, <2>6
<1>4. CASE i \in QueuedIn(a)
    <2>1. PICK p, n : p = l.previous[i] /\ n = l.next[i]
        OBVIOUS
    <2>2. n \in Elements /\ n # i /\ p # i /\ p \in Elements \cup {Nil}
        BY <1>4, <2>1 DEF Links, NextIs, QueueType, QueuedIn
    <2>3. /\ \A e \in Elements : r.next[e] = IF e = i THEN Nil ELSE IF e = p THEN n ELSE l.next[e]
          /\ \A e \in Elements : r.previous[e] = IF e = i THEN Nil ELSE IF e = n THEN p
                                                 ELSE l.previous[e]
          /\ r.head = IF l.head = i THEN n ELSE l.head
          /\ r.timestamp = [l.timestamp EXCEPT ![i] = 0]
        BY <2>1 DEF Remove
    <2>4. r \in QueueType
        BY <2>1, <2>2 DEF Remove, QueueType
    <2>5. p # Nil => p \in QueuedIn(a) /\ l.next[p] = i
        BY <2>1 DEF Links
    <2>6. NextIs(a, i, n) /\ l.previous[n] = i
        BY <1>4, <2>1 DEF Links
    <2>7. ASSUME NEW k \in QueuedIn(d)
          PROVE  NextIs(d, k, r.next[k]) /\ r.previous[r.next[k]] = k
        <3>1. k \in QueuedIn(a) /\ k # i /\ k \in Elements
            BY <1>1 DEF QueuedIn
        <3>2. NextIs(a, k, l.next[k]) /\ l.previous[l.next[k]] = k
            BY <3>1 DEF Links
        <3>3. CASE k = p
            <4>1. r.next[k] = n /\ r.previous[n] = p
                BY <2>2, <2>3, <3>1, <3>3, Zenon
            <4>2. NextIs(a, p, i)
                BY <2>5, <3>1, <3>2, <3>3
            <4>3. NextIs(d, p, n)
                <5>1. \A e \in QueuedIn(d) : e \in QueuedIn(a) /\ e # i /\ d[e] = a[e] /\ a[e] \in Nat
                    BY <1>1, <1>2 DEF QueuedIn
                <5>2. i # Sentinel /\ a[i] \in Nat /\ p \in QueuedIn(d)
                    BY <1>4, <3>3
                <5>3. /\ a[i] < a[p]
                      /\ \A e \in QueuedIn(a) : ~ (a[i] < a[e] /\ a[e] < a[p])
                    BY <4>2, <5>2 DEF NextIs
                <5>4. \A e \in QueuedIn(d) : a[e] # a[i]
                    BY <1>4, <5>1 DEF Distinct
                <5>5. CASE /\ n \in QueuedIn(a) /\ a[n] < a[i]
                           /\ \A e \in QueuedIn(a) : ~ (a[n] < a[e] /\ a[e] < a[i])
                    <6>1. n \in QueuedIn(d) /\ d[n] = a[n]
                        BY <1>1, <2>2, <5>1, <5>5
                    <6> QED
                        BY <5>1, <5>2, <5>3, <5>4, <5>5, <6>1 DEF NextIs
                <5>6. CASE n = Sentinel /\ \A e \in QueuedIn(a) : ~ (a[e] < a[i])
                    BY <5>1, <5>2, <5>3, <5>4, <5>6 DEF NextIs
                <5> QED
                    BY <2>6, <5>5, <5>6 DEF NextIs
            <4> QED
                BY <3>3, <4>1, <4>3
        <3>4. CASE k # p
            <4>1. r.next[k] = l.next[k] /\ l.next[k] # i
                BY <2>1, <2>3, <3>1, <3>2, <3>4, Zenon
            <4>2. l.next[k] # n
                BY <2>6, <3>1, <3>2
            <4>3. l.next[k] \in Elements
                BY <3>2, Zenon DEF NextIs, QueuedIn
            <4>4. r.previous[l.next[k]] = k
                BY <2>3, <3>2, <4>1, <4>2, <4>3, ZenonT(30)
            <4>5. NextIs(d, k, l.next[k])
                <5>1. d[k] = a[k] /\ (l.next[k] \in Entries => d[l.next[k]] = a[l.next[k]])
                    BY <1>2, <3>1, <4>1, Zenon DEF QueuedIn
                <5>2. \A m \in QueuedIn(d) : m \in QueuedIn(a) /\ d[m] = a[m]
                    BY <1>1, <1>2 DEF QueuedIn
                <5>3. CASE l.next[k] = Sentinel /\ \A m \in QueuedIn(a) : ~ (a[m] < a[k])
                    BY <5>1, <5>2, <5>3 DEF NextIs
                <5>4. CASE /\ l.next[k] \in QueuedIn(a) /\ a[l.next[k]] < a[k]
                           /\ \A m \in QueuedIn(a) : ~ (a[l.next[k]] < a[m] /\ a[m] < a[k])
                    <6>1. l.next[k] \in QueuedIn(d) /\ l.next[k] \in Entries
                        BY <1>1, <4>1, <5>4 DEF QueuedIn
                    <6> QED
                        BY <5>1, <5>2, <5>4, <6>1 DEF NextIs
                <5> QED
                    BY <3>2, <5>3, <5>4 DEF NextIs
            <4> QED
                BY <4>1, <4>4, <4>5
        <3> QED
            BY <3>3, <3>4
    <2>8. ASSUME NEW k \in Entries \ QueuedIn(d)
          PROVE  r.next[k] = Nil /\ r.previous[k] = Nil
        <3>1. k = i \/ k \in Entries \ QueuedIn(a)
            BY <1>1
        <3>2. k # i => k # p /\ k # n
            BY <2>5, <2>6, <3>1 DEF NextIs
        <3> QED
            BY <2>3, <3>1, <3>2, Zenon DEF Links
    <2>9. r.next[Sentinel] = Nil
        BY <2>3, <2>5 DEF Links, QueuedIn
    <2>10. ASSUME NEW e \in Elements, r.previous[e] # Nil
           PROVE  r.previous[e] \in QueuedIn(d) /\ r.next[r.previous[e]] = e
        <3>1. e # i
            BY <2>3, <2>10
        <3>2. CASE e = n
            <4>1. r.previous[e] = p
                BY <2>3, <3>1, <3>2
            <4> QED
                BY <1>1, <2>2, <2>3, <2>5, <2>10, <3>2, <4>1
        <3>3. CASE e # n
            <4>1. r.previous[e] = l.previous[e]
                BY <2>3, <3>1, <3>3
            <4>2. l.previous[e] \in QueuedIn(a) /\ l.next[l.previous[e]] = e
                BY <2>10, <4>1 DEF Links
            <4>3. l.previous[e] # i /\ l.previous[e] # p /\ l.previous[e] \in Elements
                BY <2>1, <2>5, <3>1, <3>3, <4>2 DEF QueuedIn
            <4> QED
                BY <1>1, <2>3, <4>1, <4>2, <4>3, ZenonT(30)
        <3> QED
            BY <3>2, <3>3
    <2>11. NewestIs(d, r.head)
        <3>1. CASE l.head # i
            <4>1. r.head = l.head /\ NewestIs(a, l.head)
                BY <2>3, <3>1 DEF Links
            <4>2. l.head \in QueuedIn(d) /\ \A k \in QueuedIn(a) : a[k] <= a[l.head]
                BY <1>1, <1>4, <3>1, <4>1 DEF NewestIs
            <4> QED
                BY <1>1, <1>2, <4>1, <4>2, ZenonT(30) DEF NewestIs, QueuedIn
        <3>2. CASE l.head = i
            <4>1. r.head = n /\ \A k \in QueuedIn(a) : a[k] <= a[i]
                BY <1>4, <2>3, <3>2 DEF Links, NewestIs
            <4>2. \A k \in QueuedIn(d) : k \in QueuedIn(a) /\ k \in Entries /\ d[k] = a[k] /\ a[k] < a[i]
                BY <1>1, <1>2, <1>4, <4>1 DEF QueuedIn, Distinct
            <4>3. CASE n = Sentinel
                <5>1. \A k \in QueuedIn(a) : ~ (a[k] < a[i])
                    BY <2>6, <4>3 DEF NextIs, QueuedIn
                <5> QED
                    BY <4>1, <4>2, <4>3, <5>1 DEF NewestIs
            <4>4. CASE n # Sentinel
                <5>1. /\ n \in QueuedIn(d) /\ n \in Entries /\ d[n] = a[n]
                      /\ \A k \in QueuedIn(a) : ~ (a[n] < a[k] /\ a[k] < a[i])
                    BY <1>1, <1>2, <2>2, <2>6, <4>4 DEF NextIs, QueuedIn
                <5>2. ASSUME NEW k \in QueuedIn(d) PROVE d[k] <= d[n]
                    <6>1. ~ (a[n] < a[k] /\ a[k] < a[i]) /\ a[k] < a[i] /\ d[k] = a[k]
                        BY <4>2, <5>1
                    <6>2. a[n] \in Nat /\ a[k] \in Nat
                        BY <4>2, <5>1
                    <6> QED
                        BY <5>1, <6>1, <6>2
                <5> QED
                    BY <4>1, <5>1, <5>2 DEF NewestIs
            <4> QED
                BY <4>3, <4>4
        <3> QED
            BY <3>1, <3>2
    <2>12. ASSUME NEW e \in QueuedIn(d) \cup {Sentinel}
           PROVE  r.previous[e] = Nil <=> r.head = e
        <3>1. e \in QueuedIn(a) \cup {Sentinel} /\ e # i /\ e \in Elements
            BY <1>1 DEF QueuedIn
        <3>2. l.previous[e] = Nil <=> l.head = e
            BY <3>1 DEF Links
        <3>3. p = Nil <=> l.head = i
            BY <1>4, <2>1 DEF Links
        <3>4. CASE e = n
            BY <2>3, <2>6, <3>1, <3>2, <3>3, <3>4
        <3>5. CASE e # n
            BY <2>3, <3>1, <3>2, <3>5, Zenon
        <3> QED
            BY <3>4, <3>5
    <2>13. Links(r, d)
        BY <2>7, <2>8, <2>9, <2>10, <2>11, <2>12, ZenonT(30) DEF Links
    <2> QED
        BY <1>1, <1>2, <2>3, <2>4, <2>13 DEF QueueType
<1> QED
    BY <1>3, <1>4

(* What push does to a list without the entry. *)
LEMMA PrependLinks ==
    ASSUME NEW l \in QueueType, NEW a \in [Entries -> Nat], Links(l, a), Distinct(a),
           NEW i \in Entries, a[i] = 0, NEW t \in Nat,
           NEW n \in Nat, \A k \in Entries : a[k] < n,
           NEW r, r = Prepend(l, i, t), NEW d, d = Aged(a, i, n)
    PROVE  /\ r \in QueueType
           /\ d \in [Entries -> Nat] /\ QueuedIn(d) = QueuedIn(a) \cup {i} /\ d[i] = n
           /\ r.timestamp[i] = t
           /\ \A k \in Entries \ {i} : d[k] = a[k] /\ r.timestamp[k] = l.timestamp[k]
           /\ Links(r, d)
<1> USE ElementFacts
<1>1. d \in [Entries -> Nat] /\ QueuedIn(d) = QueuedIn(a) \cup {i} /\ d[i] = n /\ i \notin QueuedIn(a)
    BY DEF QueuedIn, Aged
<1>2. \A k \in Entries \ {i} : d[k] = a[k]
    BY DEF Aged
<1>3. PICK h : h = l.head
    OBVIOUS
<1>4. h \in QueuedIn(a) \cup {Sentinel} /\ h \in Elements /\ h # i /\ l.previous[h] = Nil
    <2>1. h \in QueuedIn(a) \cup {Sentinel}
        BY <1>3 DEF Links, NewestIs
    <2>2. l.previous[h] = Nil
        BY <1>3, <2>1 DEF Links
    <2>3. h \in Elements /\ h # i
        BY <1>1, <2>1 DEF QueuedIn
    <2> QED
        BY <2>1, <2>2, <2>3
<1>5. /\ \A e \in Elements : r.next[e] = IF e = i THEN h ELSE l.next[e]
      /\ \A e \in Elements : r.previous[e] = IF e = h THEN i ELSE IF e = i THEN Nil ELSE l.previous[e]
      /\ r.head = i
      /\ r.timestamp = [l.timestamp EXCEPT ![i] = t]
    BY <1>3, <1>4 DEF Prepend, QueueType
<1>6. r \in QueueType
    BY <1>3, <1>4, ZenonT(30) DEF Prepend, QueueType
<1>7. \A e \in QueuedIn(a) \cup {Sentinel} : l.previous[e] = Nil <=> e = h
    BY <1>3 DEF Links
<1>8. NewestIs(a, h)
    BY <1>3 DEF Links
<1>9. \A k \in QueuedIn(a) : /\ k \in Entries \ {i} /\ k \in QueuedIn(d)
                               /\ d[k] = a[k] /\ a[k] < n /\ a[k] \in Nat
    BY <1>1, <1>2 DEF QueuedIn
<1>10. NextIs(d, i, h)
    <2>1. CASE h = Sentinel
        <3>1. QueuedIn(d) = {i}
            BY <1>1, <1>8, <2>1 DEF NewestIs, QueuedIn
        <3>2. ASSUME NEW k \in QueuedIn(d) PROVE ~ (d[k] < d[i])
            <4>1. d[k] = n /\ d[i] = n
                BY <1>1, <3>1
            <4> QED
                BY <4>1
        <3> QED
            BY <2>1, <3>2 DEF NextIs
    <2>2. CASE h # Sentinel
        <3>1. h \in QueuedIn(a) /\ \A k \in QueuedIn(a) : a[k] <= a[h]
            BY <1>8, <2>2 DEF NewestIs
        <3>2. h \in QueuedIn(d) /\ d[h] < d[i]
            BY <1>1, <1>9, <3>1
        <3>3. ASSUME NEW k \in QueuedIn(d) PROVE ~ (d[h] < d[k] /\ d[k] < d[i])
            <4>1. CASE k = i
                BY <1>1, <4>1
            <4>2. CASE k \in QueuedIn(a)
                <5>1. d[k] = a[k] /\ d[h] = a[h] /\ a[k] <= a[h] /\ a[k] \in Nat /\ a[h] \in Nat
                    BY <1>9, <3>1, <4>2, Zenon
                <5> QED
                    BY <5>1
            <4> QED
                BY <1>1, <4>1, <4>2
        <3> QED
            BY <3>2, <3>3 DEF NextIs
    <2> QED
        BY <2>1, <2>2
<1>11. ASSUME NEW k \in QueuedIn(d)
       PROVE  NextIs(d, k, r.next[k]) /\ r.previous[r.next[k]] = k
    <2>1. CASE k = i
        BY <1>4, <1>5, <1>10, <2>1
    <2>2. CASE k # i
        <3>1. k \in QueuedIn(a) /\ r.next[k] = l.next[k]
            BY <1>1, <1>5, <2>2 DEF QueuedIn
        <3>2. NextIs(a, k, l.next[k]) /\ l.previous[l.next[k]] = k
            BY <3>1 DEF Links
        <3>3. l.next[k] \in Elements /\ l.next[k] # h /\ l.next[k] # i
            BY <1>1, <1>4, <3>1, <3>2, ZenonT(30) DEF NextIs, QueuedIn
        <3>4. NextIs(d, k, l.next[k])
            <4>0. d[k] = a[k] /\ a[k] \in Nat /\ a[k] < n /\ ~ (d[i] < d[k])
                BY <1>1, <1>9, <3>1
            <4>1. CASE l.next[k] = Sentinel /\ \A m \in QueuedIn(a) : ~ (a[m] < a[k])
                <5>1. ASSUME NEW m \in QueuedIn(d) PROVE ~ (d[m] < d[k])
                    <6>1. CASE m = i
                        BY <4>0, <6>1
                    <6>2. CASE m \in QueuedIn(a)
                        BY <1>9, <4>0, <4>1, <6>2, ZenonT(30)
                    <6> QED
                        BY <1>1, <6>1, <6>2
                <5> QED
                    BY <4>1, <5>1 DEF NextIs
            <4>2. CASE /\ l.next[k] \in QueuedIn(a) /\ a[l.next[k]] < a[k]
                       /\ \A m \in QueuedIn(a) : ~ (a[l.next[k]] < a[m] /\ a[m] < a[k])
                <5>1. l.next[k] \in QueuedIn(d) /\ d[l.next[k]] = a[l.next[k]]
                    BY <1>9, <4>2
                <5>2. ASSUME NEW m \in QueuedIn(d) PROVE ~ (d[l.next[k]] < d[m] /\ d[m] < d[k])
                    <6>1. CASE m = i
                        BY <4>0, <6>1
                    <6>2. CASE m \in QueuedIn(a)
                        BY <1>9, <4>0, <4>2, <5>1, <6>2, ZenonT(30)
                    <6> QED
                        BY <1>1, <6>1, <6>2
                <5> QED
                    BY <4>0, <4>2, <5>1, <5>2 DEF NextIs
            <4> QED
                BY <3>2, <4>1, <4>2 DEF NextIs
        <3> QED
            BY <1>5, <3>1, <3>2, <3>3, <3>4, ZenonT(30)
    <2> QED
        BY <2>1, <2>2, ZenonT(30)
<1>12. ASSUME NEW k \in Entries \ QueuedIn(d)
       PROVE  r.next[k] = Nil /\ r.previous[k] = Nil
    <2>1. k \in Entries \ QueuedIn(a) /\ k # i /\ k # h
        BY <1>1, <1>4
    <2> QED
        BY <1>5, <2>1 DEF Links
<1>13. r.next[Sentinel] = Nil
    BY <1>5, ZenonT(30) DEF Links
<1>14. ASSUME NEW e \in Elements, r.previous[e] # Nil
       PROVE  r.previous[e] \in QueuedIn(d) /\ r.next[r.previous[e]] = e
    <2>1. CASE e = h
        BY <1>1, <1>5, <2>1
    <2>2. CASE e # h
        <3>1. r.previous[e] = l.previous[e] /\ l.previous[e] # Nil
            BY <1>5, <1>14, <2>2, Zenon
        <3>2. l.previous[e] \in QueuedIn(a) /\ l.next[l.previous[e]] = e
            BY <3>1, Zenon DEF Links
        <3> QED
            BY <1>1, <1>5, <1>9, <3>1, <3>2, ZenonT(30)
    <2> QED
        BY <2>1, <2>2
<1>15. NewestIs(d, i)
    <2>1. ASSUME NEW k \in QueuedIn(d) PROVE d[k] <= d[i]
        <3>1. CASE k = i
            BY <1>1, <3>1
        <3>2. CASE k \in QueuedIn(a)
            BY <1>1, <1>9, <3>2
        <3> QED
            BY <1>1, <3>1, <3>2
    <2> QED
        BY <1>1, <2>1 DEF NewestIs
<1>16. ASSUME NEW e \in QueuedIn(d) \cup {Sentinel}
       PROVE  r.previous[e] = Nil <=> i = e
    <2>1. CASE e = i
        BY <1>4, <1>5, <2>1
    <2>2. CASE e # i
        <3>1. e \in QueuedIn(a) \cup {Sentinel} /\ e \in Elements
            BY <1>1, <2>2, ZenonT(30) DEF QueuedIn
        <3> QED
            BY <1>5, <1>7, <2>2, <3>1
    <2> QED
        BY <2>1, <2>2
<1>17. Links(r, d)
    BY <1>5, <1>11, <1>12, <1>13, <1>14, <1>15, <1>16 DEF Links
<1>18. r.timestamp[i] = t /\ \A k \in Entries \ {i} : r.timestamp[k] = l.timestamp[k]
    BY <1>5, Zenon DEF QueueType
<1> QED
    BY <1>1, <1>2, <1>6, <1>17, <1>18

----------------------------------------------------------------------------
(* The steps.                                                              *)

(* An entry is taken out: by remove, by pop, and at the start of push. *)
LEMMA RemoveStep ==
    ASSUME QueueInv, NEW i \in Entries, NEW r, r = Remove(q, i), NEW d, d = Aged(age, i, 0)
    PROVE  /\ r \in QueueType /\ d \in [Entries -> 0..MaxPushes] /\ d[i] = 0
           /\ Distinct(d) /\ Links(r, d) /\ Times(r, d)
           /\ \A k \in QueuedIn(d) : d[k] <= pushes /\ r.timestamp[k] <= now
<1>0. age \in [Entries -> 0..MaxPushes] /\ age \in [Entries -> Nat]
    BY BoundsAssumption DEF QueueInv, QueueTypeOK
<1>1. /\ q \in QueueType /\ Distinct(age) /\ Links(q, age) /\ Times(q, age)
      /\ \A k \in QueuedIn(age) : age[k] <= pushes /\ q.timestamp[k] <= now
    BY Zenon DEF QueueInv, QueueTypeOK, Queued
<1>2. /\ r \in QueueType /\ QueuedIn(d) = QueuedIn(age) \ {i} /\ Links(r, d)
      /\ \A k \in Entries \ {i} : d[k] = age[k] /\ r.timestamp[k] = q.timestamp[k]
    <2>1. /\ age \in [Entries -> Nat] /\ q \in QueueType
          /\ Distinct(age) /\ Links(q, age)
        BY <1>0, <1>1, Zenon
    <2> QED
        BY <2>1, RemoveLinks
<1>3. d \in [Entries -> 0..MaxPushes] /\ d[i] = 0
    BY <1>0, BoundsAssumption DEF Aged
<1>4. \A k \in QueuedIn(d) : /\ k \in QueuedIn(age)
                             /\ d[k] = age[k] /\ r.timestamp[k] = q.timestamp[k]
    BY <1>2, ZenonT(30) DEF QueuedIn
<1>5. Distinct(d)
    BY <1>1, <1>4, Zenon DEF Distinct
<1>6. Times(r, d)
    BY <1>1, <1>4, ZenonT(30) DEF Times
<1> QED
    BY <1>1, <1>2, <1>3, <1>4, <1>5, <1>6, ZenonT(30)

LEMMA PushStep ==
    ASSUME QueueInv, NEW i \in Entries, PushEntry(i)
    PROVE  QueueInv'
<1>1. PICK r, d : r = Remove(q, i) /\ d = Aged(age, i, 0)
    BY ZenonT(30)
<1>2. /\ r \in QueueType /\ d \in [Entries -> 0..MaxPushes] /\ d[i] = 0
      /\ Distinct(d) /\ Links(r, d) /\ Times(r, d)
      /\ \A k \in QueuedIn(d) : d[k] <= pushes /\ r.timestamp[k] <= now
    BY <1>1, RemoveStep, Zenon
<1>3. /\ now \in 0..MaxTime /\ now \in Nat /\ pushes \in Nat /\ pushes + 1 \in 0..MaxPushes
      /\ d \in [Entries -> Nat]
    <2>1. now \in 0..MaxTime /\ pushes \in 0..MaxPushes /\ pushes < MaxPushes
        BY DEF QueueInv, QueueTypeOK, PushEntry
    <2>2. d \in [Entries -> Nat]
        BY <1>2, BoundsAssumption
    <2> QED
        BY <2>1, <2>2, BoundsAssumption
<1>4. q' = Prepend(r, i, now) /\ now' = now /\ pushes' = pushes + 1
    BY <1>1 DEF PushEntry, Push
<1>5. age' = Aged(d, i, pushes + 1)
    BY <1>1 DEF PushEntry, QueueInv, QueueTypeOK, Aged
<1>6. \A k \in Entries : d[k] < pushes + 1
    BY <1>2, <1>3 DEF QueuedIn
<1>7. /\ q' \in QueueType /\ QueuedIn(age') = QueuedIn(d) \cup {i} /\ age'[i] = pushes + 1
      /\ q'.timestamp[i] = now /\ Links(q', age')
      /\ \A k \in Entries \ {i} : age'[k] = d[k] /\ q'.timestamp[k] = r.timestamp[k]
    <2>1. PICK n \in Nat : n = pushes + 1
        BY <1>3
    <2>2. PICK z, c : z = q' /\ c = age'
        OBVIOUS
    <2>3. z = Prepend(r, i, now) /\ c = Aged(d, i, n) /\ \A k \in Entries : d[k] < n
        BY <1>4, <1>5, <1>6, <2>1, <2>2, ZenonT(30)
    <2>4. /\ z \in QueueType /\ QueuedIn(c) = QueuedIn(d) \cup {i} /\ c[i] = n
          /\ z.timestamp[i] = now /\ Links(z, c)
          /\ \A k \in Entries \ {i} : c[k] = d[k] /\ z.timestamp[k] = r.timestamp[k]
        BY <1>2, <1>3, <2>3, PrependLinks
    <2> QED
        BY <2>1, <2>2, <2>4
<1>8. QueueTypeOK'
    BY <1>2, <1>3, <1>4, <1>5, <1>7 DEF QueueTypeOK, Aged
<1>9. \A k \in QueuedIn(d) : /\ k \in Entries \ {i} /\ d[k] \in Nat /\ r.timestamp[k] \in Nat
                             /\ age'[k] = d[k] /\ q'.timestamp[k] = r.timestamp[k]
    BY <1>2, <1>3, <1>7, ElementFacts, ZenonT(30) DEF QueuedIn, QueueType
<1>10. Distinct(age')
    <2> SUFFICES ASSUME NEW j \in QueuedIn(age'), NEW k \in QueuedIn(age'), age'[j] = age'[k]
                 PROVE  j = k
        BY ZenonT(30) DEF Distinct
    <2>1. CASE j = i /\ k \in QueuedIn(d)
        BY <1>2, <1>3, <1>7, <1>9, <2>1
    <2>2. CASE k = i /\ j \in QueuedIn(d)
        BY <1>2, <1>3, <1>7, <1>9, <2>2
    <2>3. CASE j \in QueuedIn(d) /\ k \in QueuedIn(d)
        BY <1>2, <1>9, <2>3, ZenonT(30) DEF Distinct
    <2> QED
        BY <1>7, <2>1, <2>2, <2>3
<1>11. Times(q', age')
    <2> SUFFICES ASSUME NEW j \in QueuedIn(age'), NEW k \in QueuedIn(age'), age'[j] < age'[k]
                 PROVE  q'.timestamp[j] <= q'.timestamp[k]
        BY ZenonT(30) DEF Times
    <2>1. CASE j = i
        BY <1>2, <1>3, <1>7, <1>9, <2>1
    <2>2. CASE j \in QueuedIn(d) /\ k = i
        BY <1>2, <1>7, <1>9, <2>2, Zenon
    <2>3. CASE j \in QueuedIn(d) /\ k \in QueuedIn(d)
        BY <1>2, <1>9, <2>3, ZenonT(30) DEF Times
    <2> QED
        BY <1>7, <2>1, <2>2, <2>3
<1>12. ASSUME NEW k \in QueuedIn(age') PROVE age'[k] <= pushes' /\ q'.timestamp[k] <= now'
    <2>1. CASE k = i
        BY <1>3, <1>4, <1>7, <2>1
    <2>2. CASE k \in QueuedIn(d)
        BY <1>2, <1>3, <1>4, <1>9, <2>2
    <2> QED
        BY <1>7, <2>1, <2>2
<1> QED
    BY <1>7, <1>8, <1>10, <1>11, <1>12, Zenon DEF QueueInv, Queued

LEMMA OutStep ==
    ASSUME QueueInv, NEW i \in Entries, q' = Remove(q, i), age' = Aged(age, i, 0),
           UNCHANGED <<now, pushes>>
    PROVE  QueueInv'
<1>1. /\ q' \in QueueType /\ age' \in [Entries -> 0..MaxPushes]
      /\ Distinct(age') /\ Links(q', age') /\ Times(q', age')
      /\ \A k \in QueuedIn(age') : age'[k] <= pushes /\ q'.timestamp[k] <= now
    BY RemoveStep
<1>2. QueueTypeOK'
    BY <1>1 DEF QueueInv, QueueTypeOK
<1> QED
    BY <1>1, <1>2, ZenonT(30) DEF QueueInv, Queued

(* The array of the timeout queue is always the list of the queued entries *)
(* in the order of their pushes and of their time stamps.                  *)
THEOREM QueueInvariant == QueueSpec => []QueueInv
<1>1. QueueInit => QueueInv
    <2> SUFFICES ASSUME QueueInit PROVE QueueInv
        OBVIOUS
    <2>1. QueuedIn(age) = {} /\ QueueTypeOK
        BY ElementFacts, BoundsAssumption DEF QueueInit, QueuedIn, QueueTypeOK, NewQueue, QueueType
    <2>2. Links(q, age)
        BY <2>1, ElementFacts, Zenon DEF QueueInit, NewQueue, Links, NewestIs
    <2> QED
        BY <2>1, <2>2 DEF QueueInv, Distinct, Times, Queued
<1>2. QueueInv /\ [QueueNext]_queueVars => QueueInv'
    <2> SUFFICES ASSUME QueueInv, [QueueNext]_queueVars PROVE QueueInv'
        OBVIOUS
    <2>1. ASSUME NEW i \in Entries, PushEntry(i) PROVE QueueInv'
        BY <2>1, PushStep
    <2>2. ASSUME NEW i \in Entries, RemoveEntry(i) PROVE QueueInv'
        BY <2>2, OutStep, Zenon DEF RemoveEntry, Aged
    <2>3. CASE PopEntry
        <3>1. CASE q.head \in Entries
            BY <2>3, <3>1, OutStep, ZenonT(30) DEF PopEntry, Pop, Top, Aged
        <3>2. CASE q.head \notin Entries
            <4>1. q' = q /\ age' = age /\ now' = now /\ pushes' = pushes
                BY <2>3, <3>2, Zenon DEF PopEntry, Pop, Top, Remove
            <4> QED
                BY <4>1 DEF QueueInv, QueueTypeOK, Queued
        <3> QED
            BY <3>1, <3>2
    <2>4. CASE Tick
        <3>1. /\ q' = q /\ age' = age /\ pushes' = pushes /\ now' = now + 1
              /\ now \in Nat /\ now' \in 0..MaxTime
            BY <2>4, BoundsAssumption DEF Tick, QueueInv, QueueTypeOK
        <3>2. \A i \in Queued : q.timestamp[i] \in Nat
            BY ElementFacts, ZenonT(30) DEF QueueInv, QueueTypeOK, QueueType, Queued, QueuedIn
        <3>3. \A i \in Queued : age[i] <= pushes /\ q.timestamp[i] <= now + 1
            BY <3>1, <3>2 DEF QueueInv
        <3>4. QueueTypeOK'
            BY <3>1 DEF QueueInv, QueueTypeOK
        <3> QED
            BY <3>1, <3>3, <3>4 DEF QueueInv, Queued
    <2>5. CASE UNCHANGED queueVars
        BY <2>5 DEF queueVars, QueueInv, QueueTypeOK, Queued
    <2> QED
        BY <2>1, <2>2, <2>3, <2>4, <2>5 DEF QueueNext
<1> QED
    BY <1>1, <1>2, PTL DEF QueueSpec

(* TimeoutQueue::bottom is the timer that was set first, with the oldest   *)
(* time stamp.                                                             *)
THEOREM OldestAtBottom == QueueSpec => []BottomIsOldest
<1>1. QueueInv => BottomIsOldest
    <2> SUFFICES ASSUME QueueInv PROVE BottomIsOldest
        OBVIOUS
    <2>1. PICK d : d = Bottom(q)
        OBVIOUS
    <2>2. /\ q \in QueueType /\ age \in [Entries -> Nat] /\ Times(q, age) /\ Distinct(age)
          /\ Links(q, age)
        BY BoundsAssumption DEF QueueInv, QueueTypeOK
    <2>3. CASE d = Nil
        <3>1. q.head = Sentinel
            BY <2>1, <2>2, <2>3, ZenonT(30) DEF Links, Bottom
        <3>2. Queued = {}
            BY <2>2, <3>1, ElementFacts DEF Links, NewestIs, Queued, QueuedIn
        <3> QED
            BY <2>1, <2>3, <3>2 DEF BottomIsOldest
    <2>4. CASE d # Nil
        <3>1. d \in Queued /\ q.next[d] = Sentinel
            BY <2>1, <2>2, <2>4, ElementFacts, ZenonT(30) DEF Links, Bottom, Queued
        <3>2. \A k \in Queued : ~ (age[k] < age[d])
            BY <2>2, <3>1, ElementFacts DEF Links, NextIs, Queued, QueuedIn
        <3>3. ASSUME NEW k \in Queued
              PROVE  age[d] <= age[k] /\ q.timestamp[d] <= q.timestamp[k]
            <4>1. /\ age[d] \in Nat /\ age[k] \in Nat
                  /\ q.timestamp[d] \in Nat /\ q.timestamp[k] \in Nat
                BY <2>2, <3>1, ElementFacts DEF Queued, QueuedIn, QueueType
            <4>2. age[d] <= age[k]
                BY <3>2, <4>1
            <4>3. CASE age[d] < age[k]
                BY <2>2, <3>1, <4>2, <4>3 DEF Times, Queued
            <4>4. CASE age[d] = age[k]
                BY <2>2, <3>1, <4>1, <4>2, <4>4 DEF Distinct, Queued
            <4> QED
                BY <4>1, <4>2, <4>3, <4>4
        <3> QED
            BY <2>1, <2>4, <3>1, <3>3, Zenon DEF BottomIsOldest, BottomTime
    <2> QED
        BY <2>3, <2>4
<1> QED
    BY <1>1, QueueInvariant, PTL

(* TimeoutQueue::top is the timer that was set last. *)
THEOREM NewestAtTop == QueueSpec => []TopIsNewest
<1>1. QueueInv => TopIsNewest
    BY ElementFacts, Zenon DEF QueueInv, Links, NewestIs, TopIsNewest, Queued, QueuedIn, Top
<1> QED
    BY <1>1, QueueInvariant, PTL

----------------------------------------------------------------------------
(* The port commands.  Good(t) is the inductive invariant of a state t.    *)
(* Each lemma takes one method of the code: whatever outcome it has from a *)
(* good state is a good state, so that it does not matter at which call a  *)
(* command ended.                                                          *)

Good(t) ==
    /\ t \in StateType
    /\ FloodTracked(t.pre, t.stray)
    /\ \A dp \in t.active_ports : t.port_table[dp] = "up"

GoodPre(p, stray) == p \in PreType /\ FloodTracked(p, stray)

(* The parts of an outcome. *)
LEMMA PairParts ==
    ASSUME NEW r, NEW x, NEW y, r = <<x, y>>
    PROVE  r[1] = x /\ r[2] = y
OBVIOUS

(* The node that the flood group has for a port is a node number and no    *)
(* port number, so worker_add never takes it for a port it has added.      *)
LEMMA FloodRidFacts ==
    ASSUME NEW dp \in DevPorts
    PROVE  /\ FloodRid(dp) \in Rids
           /\ FloodRid(dp) \notin DevPorts
           /\ dp \in Nat /\ dp # NoPort
           /\ AllPorts \in Mgids
<1>1. dp \in 0..511
    BY PortAssumption
<1>2. 32768 + dp \in {32768 + d : d \in DevPorts}
    OBVIOUS
<1> QED
    BY <1>1, <1>2, PortAssumption DEF FloodRid, NoPort

(* Deleting a node on the switch, with either reaction of the driver,      *)
(* leaves the dictionary alone and adds no member to a group.              *)
LEMMA ErasuresGood ==
    ASSUME NEW p, NEW x, GoodPre(p, x), NEW rid \in Rids, NEW z \in Erasures(p, rid)
    PROVE  GoodPre(z, x) /\ z.rids = p.rids
<1>1. p \in PreType /\ AllPorts \in Mgids
    BY PortAssumption DEF GoodPre
<1>2. CASE z = p
    BY <1>2
<1>3. CASE z = NodeGone(p, rid)
    <2>1. z \in PreType /\ z.rids = p.rids /\ z.mgid = [g \in Mgids |-> p.mgid[g] \ {rid}]
        BY <1>1, <1>3, ZenonT(30) DEF PreType, NodeGone, NoPort
    <2>2. z.mgid[AllPorts] \subseteq p.mgid[AllPorts]
        BY <1>1, <2>1
    <2> QED
        BY <2>1, <2>2, Zenon DEF GoodPre, FloodTracked
<1> QED
    BY <1>2, <1>3 DEF Erasures

(* PRE.worker_add: rids is written before the group, so the member is      *)
(* known from the moment it is one, and known again if it was forgotten.   *)
LEMMA TrackRidGood ==
    ASSUME NEW p, NEW x, GoodPre(p, x), NEW dp \in DevPorts
    PROVE  LET z == TrackRid(p, AllPorts, FloodRid(dp), dp)
           IN  GoodPre(z, x \ {FloodRid(dp)}) /\ z.rids[AllPorts][dp] = FloodRid(dp)
<1> DEFINE z == TrackRid(p, AllPorts, FloodRid(dp), dp)
<1>1. p \in PreType /\ AllPorts \in Mgids /\ FloodRid(dp) \in Rids
    BY FloodRidFacts DEF GoodPre
<1>2. /\ z \in PreType /\ z.mgid = p.mgid
      /\ \A d \in DevPorts : z.rids[AllPorts][d] =
             IF d = dp THEN FloodRid(dp) ELSE p.rids[AllPorts][d]
    BY <1>1, ZenonT(30) DEF PreType, TrackRid
<1> QED
    BY <1>2 DEF GoodPre, FloodTracked

LEMMA AddNodeGood ==
    ASSUME NEW p, NEW x, GoodPre(p, x), NEW dp \in DevPorts
    PROVE  LET z == AddNode(p, FloodRid(dp), dp)
           IN  GoodPre(z, x) /\ z.rids = p.rids /\ z.node[FloodRid(dp)] = dp
<1> DEFINE z == AddNode(p, FloodRid(dp), dp)
<1>1. p \in PreType /\ FloodRid(dp) \in Rids
    BY FloodRidFacts DEF GoodPre
<1>2. /\ z \in PreType /\ z.mgid = p.mgid /\ z.rids = p.rids
      /\ z.node[FloodRid(dp)] = dp
    BY <1>1 DEF PreType, AddNode
<1> QED
    BY <1>2 DEF GoodPre, FloodTracked

LEMMA ExtendGroupGood ==
    ASSUME NEW p, NEW x, GoodPre(p, x), NEW dp \in DevPorts,
           p.rids[AllPorts][dp] = FloodRid(dp)
    PROVE  LET z == ExtendGroup(p, AllPorts, FloodRid(dp))
           IN  GoodPre(z, x) /\ z.node = p.node /\ FloodRid(dp) \in z.mgid[AllPorts]
<1> DEFINE z == ExtendGroup(p, AllPorts, FloodRid(dp))
<1>1. p \in PreType /\ AllPorts \in Mgids /\ FloodRid(dp) \in Rids
    BY FloodRidFacts DEF GoodPre
<1>2. /\ z \in PreType /\ z.node = p.node /\ z.rids = p.rids
      /\ z.mgid[AllPorts] = p.mgid[AllPorts] \cup {FloodRid(dp)}
    BY <1>1, ZenonT(30) DEF PreType, ExtendGroup
<1> QED
    BY <1>2 DEF GoodPre, FloodTracked

(* PRE.worker_add for the flood group, with or without a fault. *)
LEMMA WorkerAddGood ==
    ASSUME NEW p, NEW x, GoodPre(p, x), NEW dp \in DevPorts,
           NEW r \in WorkerAdd(p, AllPorts, FloodRid(dp), dp) \cup FloodAddFaults(p, dp)
    PROVE  /\ GoodPre(r[1], x \ {FloodRid(dp)})
           /\ r[2] => /\ FloodRid(dp) \in r[1].mgid[AllPorts]
                      /\ r[1].node[FloodRid(dp)] = dp
<1> PICK y : y = x \ {FloodRid(dp)}
    BY Zenon
<1> PICK tracked : tracked = TrackRid(p, AllPorts, FloodRid(dp), dp)
    BY Zenon
<1>1. GoodPre(tracked, y) /\ tracked.rids[AllPorts][dp] = FloodRid(dp) /\ FloodRid(dp) \in Rids
    BY TrackRidGood, FloodRidFacts, ZenonT(30)
<1>2. ASSUME NEW e \in EraseNode(tracked, FloodRid(dp)) \cup {tracked}
      PROVE  /\ GoodPre(e, y)
             /\ GoodPre(AddNode(e, FloodRid(dp), dp), y)
             /\ LET e1 == ExtendGroup(AddNode(e, FloodRid(dp), dp), AllPorts, FloodRid(dp))
                IN  GoodPre(e1, y) /\ FloodRid(dp) \in e1.mgid[AllPorts] /\ e1.node[FloodRid(dp)] = dp
    <2>1. GoodPre(e, y) /\ e.rids = tracked.rids
        <3>1. CASE e \in EraseNode(tracked, FloodRid(dp))
            BY <1>1, <3>1, ErasuresGood DEF EraseNode
        <3>2. CASE e = tracked
            BY <1>1, <3>2
        <3> QED
            BY <3>1, <3>2
    <2>2. PICK a : a = AddNode(e, FloodRid(dp), dp)
        BY Zenon
    <2>3. GoodPre(a, y) /\ a.rids = e.rids /\ a.node[FloodRid(dp)] = dp
        BY <2>1, <2>2, AddNodeGood, ZenonT(30)
    <2>4. a.rids[AllPorts][dp] = FloodRid(dp)
        BY <1>1, <2>1, <2>3
    <2> QED
        BY <2>1, <2>2, <2>3, <2>4, ExtendGroupGood
<1>3. ~ AlreadyAdded(p, AllPorts, FloodRid(dp))
    BY FloodRidFacts DEF AlreadyAdded
<1>4. CASE r \in WorkerAdd(p, AllPorts, FloodRid(dp), dp)
    <2>1. PICK e \in EraseNode(tracked, FloodRid(dp)) :
              r = IF CanAddNode(e, FloodRid(dp))
                  THEN <<ExtendGroup(AddNode(e, FloodRid(dp), dp), AllPorts, FloodRid(dp)), TRUE>>
                  ELSE <<e, FALSE>>
        BY <1>3, <1>4, Zenon DEF WorkerAdd
    <2>2. PICK e1 : e1 = ExtendGroup(AddNode(e, FloodRid(dp), dp), AllPorts, FloodRid(dp))
        BY Zenon
    <2>3. GoodPre(e1, y) /\ FloodRid(dp) \in e1.mgid[AllPorts] /\ e1.node[FloodRid(dp)] = dp
        BY <1>2, <2>2, ZenonT(30)
    <2>4. GoodPre(e, y)
        BY <1>2
    <2>5. CASE r = <<e1, TRUE>>
        <3>1. r[1] = e1
            BY <2>5
        <3> QED
            BY <2>3, <3>1
    <2>6. CASE r = <<e, FALSE>>
        <3>1. r[1] = e /\ ~ r[2]
            BY <2>6
        <3> QED
            BY <2>4, <3>1
    <2> QED
        BY <2>1, <2>2, <2>5, <2>6, Zenon
<1>5. CASE r \in FloodAddFaults(p, dp)
    <2>1. PICK e \in EraseNode(tracked, FloodRid(dp)) \cup {tracked} :
              r = <<e, FALSE>> \/ r = <<AddNode(e, FloodRid(dp), dp), FALSE>>
        BY <1>5, ZenonT(30) DEF FloodAddFaults
    <2>2. GoodPre(e, y) /\ GoodPre(AddNode(e, FloodRid(dp), dp), y)
        BY <1>2
    <2>3. r[2] = FALSE /\ (r[1] = e \/ r[1] = AddNode(e, FloodRid(dp), dp))
        BY <2>1, PairParts, Zenon
    <2> QED
        BY <2>2, <2>3
<1> QED
    BY <1>4, <1>5

LEMMA LeaveGroupGood ==
    ASSUME NEW p, NEW x, GoodPre(p, x), NEW rid \in Rids
    PROVE  GoodPre(LeaveGroup(p, AllPorts, rid), x)
<1>1. AllPorts \in Mgids /\ p \in PreType
    BY PortAssumption DEF GoodPre
<1>2. PICK l : l = LeaveGroup(p, AllPorts, rid)
    OBVIOUS
<1>3. l \in PreType /\ l.rids = p.rids /\ l.mgid[AllPorts] \subseteq p.mgid[AllPorts]
    BY <1>1, <1>2, Zenon DEF PreType, LeaveGroup
<1> QED
    BY <1>2, <1>3 DEF GoodPre, FloodTracked

(* PRE.worker_del never adds a member and never touches rids. *)
LEMMA WorkerDelGood ==
    ASSUME NEW p, NEW x, GoodPre(p, x), NEW dp \in DevPorts,
           NEW r \in WorkerDel(p, AllPorts, FloodRid(dp))
    PROVE  GoodPre(r[1], x) /\ ~ r[2]
<1>1. FloodRid(dp) \in Rids
    BY FloodRidFacts
<1>2. PICK l : l = LeaveGroup(p, AllPorts, FloodRid(dp))
    OBVIOUS
<1>3. GoodPre(l, x)
    BY <1>1, <1>2, LeaveGroupGood, Zenon
<1>4. CASE r = <<p, FALSE>>
    BY <1>4
<1>5. ASSUME NEW z \in DeleteNode(l, FloodRid(dp)), r = <<z, FALSE>>
      PROVE  GoodPre(r[1], x) /\ ~ r[2]
    BY <1>1, <1>3, <1>5, ErasuresGood DEF DeleteNode
<1> QED
    BY <1>2, <1>4, <1>5, Zenon DEF WorkerDel

(* PRE.worker_clear_all takes out the members that rids knows, except     *)
(* those that the driver refuses to take out.                              *)
LEMMA WorkerClearAllGood ==
    ASSUME NEW p, NEW x, GoodPre(p, x), NEW stuck, NEW kept
    PROVE  LET z == WorkerClearAll(p, AllPorts, stuck, kept)
           IN  GoodPre(z, x \cup stuck) /\ z.mgid[AllPorts] \subseteq x \cup stuck
<1>1. p \in PreType /\ AllPorts \in Mgids
    BY PortAssumption DEF GoodPre
<1>2. PICK cleared : cleared = {p.rids[AllPorts][dp] : dp \in Tracked(p, AllPorts)}
    BY Zenon
<1>3. PICK left : left = [p EXCEPT !.mgid[AllPorts] = @ \ (cleared \ stuck),
                                   !.rids[AllPorts] = [dp \in DevPorts |-> NoRid]]
    OBVIOUS
<1>4. p.mgid[AllPorts] \ x \subseteq cleared
    <2> SUFFICES ASSUME NEW r \in p.mgid[AllPorts] \ x PROVE r \in cleared
        OBVIOUS
    <2>1. PICK dp \in DevPorts : r = FloodRid(dp) /\ p.rids[AllPorts][dp] = r
        BY DEF GoodPre, FloodTracked
    <2>2. dp \in Tracked(p, AllPorts)
        BY <2>1, FloodRidFacts DEF Tracked, NoRid, FloodRid
    <2> QED
        BY <1>2, <2>1, <2>2
<1>5. left \in PreType /\ left.mgid[AllPorts] = p.mgid[AllPorts] \ (cleared \ stuck)
    BY <1>1, <1>3, Zenon DEF PreType, NoRid
<1>6. left.mgid[AllPorts] \subseteq x \cup stuck
    BY <1>4, <1>5
<1>7. PICK z : z = [left EXCEPT !.node = [r \in Rids |->
                       IF r \in cleared \ kept /\ ~ InUse(left, r) THEN NoPort ELSE @[r]]]
    BY Zenon
<1>8. z = WorkerClearAll(p, AllPorts, stuck, kept)
    BY <1>2, <1>3, <1>7 DEF WorkerClearAll
<1>9. z \in PreType /\ z.mgid = left.mgid
    BY <1>5, <1>7 DEF PreType, NoPort
<1> QED
    BY <1>6, <1>8, <1>9 DEF GoodPre, FloodTracked

----------------------------------------------------------------------------
(* The methods of Job and of the other objects.                            *)

LEMMA GoodHasGoodPre ==
    ASSUME NEW t, Good(t)
    PROVE  GoodPre(t.pre, t.stray) /\ t.stray \in SUBSET Rids
BY ZenonT(30) DEF Good, GoodPre, StateType

(* A state that differs in the multicast tables only. *)
LEMMA OnPreGood ==
    ASSUME NEW t, Good(t), NEW p, GoodPre(p, t.stray), NEW u, u = [t EXCEPT !.pre = p]
    PROVE  Good(u) /\ u.pre = p /\ u.active_ports = t.active_ports
BY DEF Good, GoodPre, StateType

LEMMA FloodAddGood ==
    ASSUME NEW t, Good(t), NEW dp \in DevPorts, NEW o \in FloodAdd(t, dp)
    PROVE  /\ Good(o[1]) /\ o[1].active_ports = t.active_ports
           /\ o[2] => /\ FloodRid(dp) \in o[1].pre.mgid[AllPorts]
                      /\ o[1].pre.node[FloodRid(dp)] = dp
<1>1. PICK v : v = [t EXCEPT !.stray = @ \ {FloodRid(dp)}]
    BY Zenon
<1>2. CASE o = <<t, FALSE>>
    <2>1. o[1] = t /\ ~ o[2]
        BY <1>2
    <2> QED
        BY <2>1
<1>3. ASSUME NEW r \in WorkerAdd(t.pre, AllPorts, FloodRid(dp), dp) \cup FloodAddFaults(t.pre, dp),
             o = <<[v EXCEPT !.pre = r[1]], r[2]>>
      PROVE  /\ Good(o[1]) /\ o[1].active_ports = t.active_ports
             /\ o[2] => /\ FloodRid(dp) \in o[1].pre.mgid[AllPorts]
                        /\ o[1].pre.node[FloodRid(dp)] = dp
    <2>1. PICK x : x = t.stray \ {FloodRid(dp)}
        BY Zenon
    <2>2. /\ GoodPre(r[1], x)
          /\ r[2] => FloodRid(dp) \in r[1].mgid[AllPorts] /\ r[1].node[FloodRid(dp)] = dp
        BY <2>1, GoodHasGoodPre, WorkerAddGood
    <2>3. PICK u : u = [v EXCEPT !.pre = r[1]]
        BY Zenon
    <2>4. x \in SUBSET Rids
        BY <2>1, GoodHasGoodPre, Zenon
    <2>5. u = [t EXCEPT !.stray = x, !.pre = r[1]]
        BY <1>1, <2>1, <2>3 DEF Good, StateType
    <2>6. Good(u) /\ u.pre = r[1] /\ u.active_ports = t.active_ports
        BY <2>2, <2>4, <2>5, Zenon DEF Good, GoodPre, StateType
    <2>7. o[1] = u /\ o[2] = r[2]
        BY <1>3, <2>3
    <2> QED
        BY <2>2, <2>6, <2>7
<1> QED
    BY <1>1, <1>2, <1>3, ZenonT(30) DEF FloodAdd, OnPre, Fault, Raises

(* Ports.port_add. *)
LEMMA PortsPortAddGood ==
    ASSUME NEW t, Good(t), NEW dp \in DevPorts, NEW valid, NEW o \in PortsPortAdd(t, dp, valid)
    PROVE  Good(o[1]) /\ (o[2] => dp \in o[1].active_ports)
<1>1. PICK v : v = [t EXCEPT !.port_table[dp] = "up"]
    BY Zenon
<1>2. PICK u : u = [v EXCEPT !.active_ports = @ \cup {dp}]
    BY Zenon
<1>3. /\ v \in StateType /\ v.pre = t.pre /\ v.stray = t.stray
      /\ v.active_ports = t.active_ports
    BY <1>1, Zenon DEF Good, StateType
<1>4. /\ u \in StateType /\ u.pre = t.pre /\ u.stray = t.stray
      /\ u.active_ports = t.active_ports \cup {dp} /\ u.port_table = v.port_table
    BY <1>2, <1>3, Zenon DEF StateType
<1>5. \A d \in DevPorts : v.port_table[d] = IF d = dp THEN "up" ELSE t.port_table[d]
    BY <1>1 DEF Good, StateType
<1>6. Good(v) /\ Good(u)
    BY <1>3, <1>4, <1>5 DEF Good, StateType
<1>7. \/ o = <<t, FALSE>> \/ o = <<v, FALSE>> \/ o = <<u, TRUE>>
      \/ o = <<t, TRUE>> /\ dp \in t.active_ports
    BY <1>1, <1>2, ZenonT(30) DEF PortsPortAdd, AddPorts, Returns, Raises, Fault
<1>8. CASE o = <<t, FALSE>>
    <2>1. o[1] = t /\ ~ o[2]
        BY <1>8
    <2> QED
        BY <2>1
<1>9. CASE o = <<v, FALSE>>
    <2>1. o[1] = v /\ ~ o[2]
        BY <1>9
    <2> QED
        BY <1>6, <2>1
<1>10. CASE o = <<u, TRUE>>
    <2>1. o[1] = u
        BY <1>10
    <2> QED
        BY <1>4, <1>6, <2>1
<1>11. CASE o = <<t, TRUE>> /\ dp \in t.active_ports
    <2>1. o[1] = t
        BY <1>11, ZenonT(30)
    <2> QED
        BY <1>11, <2>1
<1> QED
    BY <1>7, <1>8, <1>9, <1>10, <1>11, Zenon

(* Job.port_add, which is also called for the items of a file. *)
LEMMA JobPortAddGood ==
    ASSUME NEW t, Good(t), NEW dp \in DevPorts, NEW valid, NEW o \in JobPortAdd(t, dp, valid)
    PROVE  /\ Good(o[1])
           /\ o[2] => /\ dp \in o[1].active_ports
                      /\ FloodRid(dp) \in o[1].pre.mgid[AllPorts]
                      /\ o[1].pre.node[FloodRid(dp)] = dp
<1>1. PICK a \in PortsPortAdd(t, dp, valid) : o \in IF a[2] THEN FloodAdd(a[1], dp) ELSE {a}
    BY Zenon DEF JobPortAdd, Then
<1>2. Good(a[1]) /\ (a[2] => dp \in a[1].active_ports)
    BY PortsPortAddGood, ZenonT(30)
<1>3. CASE a[2]
    BY <1>1, <1>2, <1>3, FloodAddGood
<1>4. CASE ~ a[2]
    BY <1>1, <1>2, <1>4, Zenon
<1> QED
    BY <1>3, <1>4

(* A change of the other tables. *)
LEMMA OthersGood ==
    ASSUME NEW t, Good(t), NEW u \in StateType, u.pre = t.pre, u.stray = t.stray,
           u.active_ports = t.active_ports, u.port_table = t.port_table
    PROVE  Good(u)
BY DEF Good

LEMMA FloodDelGood ==
    ASSUME NEW t, Good(t), NEW dp \in DevPorts, NEW o \in FloodDel(t, dp)
    PROVE  Good(o[1])
<1>1. CASE o = <<t, FALSE>>
    BY <1>1, PairParts
<1>2. PICK v : v = [t EXCEPT !.pre = LeaveGroup(@, AllPorts, FloodRid(dp))]
    BY Zenon
<1>3. CASE o = <<v, FALSE>>
    <2>1. PICK p : p = LeaveGroup(t.pre, AllPorts, FloodRid(dp))
        BY Zenon
    <2>2. GoodPre(p, t.stray)
        BY <2>1, GoodHasGoodPre, LeaveGroupGood, FloodRidFacts
    <2>3. v = [t EXCEPT !.pre = p]
        BY <1>2, <2>1, Zenon
    <2>4. Good(v)
        BY <2>2, <2>3, OnPreGood, Zenon
    <2> QED
        BY <1>3, <2>4, PairParts
<1>4. ASSUME NEW r \in WorkerDel(t.pre, AllPorts, FloodRid(dp)),
             o = <<[t EXCEPT !.pre = r[1]], r[2]>>
      PROVE  Good(o[1])
    <2>1. GoodPre(r[1], t.stray)
        BY GoodHasGoodPre, WorkerDelGood
    <2>2. PICK u : u = [t EXCEPT !.pre = r[1]]
        BY Zenon
    <2>3. Good(u)
        BY <2>1, <2>2, OnPreGood
    <2>4. o[1] = u
        BY <1>4, <2>2
    <2> QED
        BY <2>3, <2>4, ZenonT(30)
<1> QED
    BY <1>1, <1>2, <1>3, <1>4, Zenon DEF FloodDel, Fault, Raises, OnPre

LEMMA FloodClearGood ==
    ASSUME NEW t, Good(t), NEW o \in FloodClear(t)
    PROVE  Good(o[1]) /\ o[1].pre.mgid[AllPorts] \subseteq o[1].stray
<1>1. PICK stuck \in Refusals(t.pre), kept \in Refusals(t.pre) :
          o = <<[t EXCEPT !.pre = WorkerClearAll(@, AllPorts, stuck, kept),
                          !.stray = @ \cup stuck], TRUE>>
    BY Zenon DEF FloodClear
<1>2. stuck \in SUBSET Rids
    <2>1. t.pre.rids[AllPorts] \in [DevPorts -> Rids \cup {NoRid}]
        BY GoodHasGoodPre, PortAssumption DEF GoodPre, PreType
    <2>2. {t.pre.rids[AllPorts][dp] : dp \in Tracked(t.pre, AllPorts)} \subseteq Rids
        BY <2>1, Zenon DEF Tracked
    <2> QED
        BY <1>1, <2>2, Zenon DEF Refusals
<1>3. PICK p : p = WorkerClearAll(t.pre, AllPorts, stuck, kept)
    BY Zenon
<1>4. PICK x : x = t.stray \cup stuck
    BY Zenon
<1>5. GoodPre(p, x) /\ p.mgid[AllPorts] \subseteq x
    BY <1>3, <1>4, GoodHasGoodPre, WorkerClearAllGood, Zenon
<1>6. PICK u : u = [t EXCEPT !.pre = WorkerClearAll(@, AllPorts, stuck, kept),
                             !.stray = @ \cup stuck]
    BY Zenon
<1>7. u = [t EXCEPT !.stray = x, !.pre = p]
    BY <1>3, <1>4, <1>6, Zenon DEF Good, StateType
<1>8. x \in SUBSET Rids
    BY <1>2, <1>4, GoodHasGoodPre, Zenon
<1>9. Good(u) /\ u.pre = p /\ u.stray = x
    BY <1>5, <1>7, <1>8, Zenon DEF Good, GoodPre, StateType
<1>10. o = <<u, TRUE>>
    BY <1>1, <1>6, Zenon
<1> QED
    BY <1>5, <1>9, <1>10, PairParts

(* Ports.port_delete takes the port off active_ports before it can fail. *)
LEMMA PortDeleteGood ==
    ASSUME NEW t, Good(t), NEW dp \in DevPorts, NEW o \in PortDelete(t, dp)
    PROVE  Good(o[1])
<1>1. PICK u : u = [t EXCEPT !.active_ports = @ \ {dp}]
    BY Zenon
<1>2. Good(u) /\ u.active_ports = t.active_ports \ {dp}
    BY <1>1 DEF Good, StateType
<1>3. PICK v : v = [u EXCEPT !.port_table[dp] = "absent"]
    BY Zenon
<1>4. /\ v \in StateType /\ v.pre = u.pre /\ v.stray = u.stray /\ v.active_ports = u.active_ports
      /\ \A d \in DevPorts : d # dp => v.port_table[d] = u.port_table[d]
    BY <1>2, <1>3 DEF Good, StateType
<1>5. Good(v)
    BY <1>2, <1>4 DEF Good, StateType
<1>6. o = <<t, FALSE>> \/ o = <<u, FALSE>> \/ o = <<v, TRUE>>
    BY <1>1, <1>3, ZenonT(40) DEF PortDelete, Fault, Returns, Raises
<1> QED
    BY <1>2, <1>5, <1>6, PairParts, ZenonT(30)

LEMMA DeleteAllPortsGood ==
    ASSUME NEW t, Good(t), NEW o \in DeleteAllPorts(t)
    PROVE  Good(o[1])
<1>1. PICK u : u = [t EXCEPT !.port_table = [dp \in DevPorts |->
                                 IF dp \in ExternalPorts THEN "absent" ELSE @[dp]],
                             !.active_ports = {}]
    BY Zenon
<1>2. u \in StateType /\ u.pre = t.pre /\ u.stray = t.stray /\ u.active_ports = {}
    BY <1>1, ZenonT(30) DEF Good, StateType
<1>3. Good(u)
    BY <1>2 DEF Good
<1>4. o = <<t, FALSE>> \/ o = <<u, TRUE>>
    BY <1>1, Zenon DEF DeleteAllPorts, Fault, Returns, Raises
<1> QED
    BY <1>3, <1>4, PairParts, Zenon

LEMMA JobPortDelGood ==
    ASSUME NEW t, Good(t), NEW dp \in DevPorts, NEW o \in JobPortDel(t, dp)
    PROVE  Good(o[1])
<1>1. PICK a \in PortDelete(t, dp) : o \in IF a[2] THEN FloodDel(a[1], dp) ELSE {a}
    BY DEF JobPortDel, Then
<1>2. Good(a[1])
    BY PortDeleteGood
<1> QED
    BY <1>1, <1>2, FloodDelGood

LEMMA PortClearAllGood ==
    ASSUME NEW t, Good(t), NEW o \in Then(DeleteAllPorts(t), FloodClear)
    PROVE  Good(o[1]) /\ (o[2] => o[1].pre.mgid[AllPorts] \subseteq o[1].stray)
<1>1. PICK a \in DeleteAllPorts(t) : o \in IF a[2] THEN FloodClear(a[1]) ELSE {a}
    BY DEF Then
<1>2. Good(a[1])
    BY DeleteAllPortsGood
<1> QED
    BY <1>1, <1>2, FloodClearGood

LEMMA MacAddressAddGood ==
    ASSUME NEW t, Good(t), NEW m, NEW f \in FpPorts, NEW o \in MacAddressAdd(t, m, f)
    PROVE  Good(o[1])
<1>1. PICK u : u = [t EXCEPT !.forward[m.address] = DevPortOf[f], !.mac_addresses[m] = f]
    OBVIOUS
<1>2. DevPortOf[f] \in DevPorts
    BY PortAssumption
<1>3. /\ u \in StateType /\ u.pre = t.pre /\ u.stray = t.stray
      /\ u.active_ports = t.active_ports /\ u.port_table = t.port_table
    BY <1>1, <1>2, Zenon DEF Good, StateType
<1>4. Good(u)
    BY <1>3, OthersGood
<1>5. o = <<t, FALSE>> \/ o = <<t, TRUE>> \/ o = <<u, TRUE>>
    BY <1>1, Zenon DEF MacAddressAdd, Returns, Raises, Fault
<1> QED
    BY <1>4, <1>5, PairParts, Zenon

LEMMA MacAddressDelGood ==
    ASSUME NEW t, Good(t), NEW m, NEW o \in MacAddressDel(t, m)
    PROVE  Good(o[1])
<1>1. PICK u : u = [t EXCEPT !.forward[m.address] = NoEntry]
    BY Zenon
<1>2. /\ u \in StateType /\ u.pre = t.pre /\ u.stray = t.stray
      /\ u.active_ports = t.active_ports /\ u.port_table = t.port_table
    BY <1>1 DEF Good, StateType
<1>3. PICK v : v = [u EXCEPT !.mac_addresses[m] = NoFp]
    BY Zenon
<1>4. /\ v \in StateType /\ v.pre = u.pre /\ v.stray = u.stray
      /\ v.active_ports = u.active_ports /\ v.port_table = u.port_table
    BY <1>2, <1>3 DEF StateType
<1>5. Good(u)
    BY <1>2, OthersGood
<1>6. Good(v)
    BY <1>4, <1>5, OthersGood
<1>7. o = <<t, FALSE>> \/ o = <<u, FALSE>> \/ o = <<v, TRUE>>
    BY <1>1, <1>3, Zenon DEF MacAddressDel, Fault, Returns, Raises
<1>8. o[1] = t \/ o[1] = u \/ o[1] = v
    BY <1>7, PairParts, Zenon
<1> QED
    BY <1>5, <1>6, <1>8

LEMMA LoadItemGood ==
    ASSUME NEW t, Good(t), NEW item, NEW o \in LoadItem(t, item)
    PROVE  Good(o[1])
<1>1. CASE \A f \in FpPorts : DevPortOf[f] # item.dev_port
    <2>1. o = <<t, FALSE>>
        BY <1>1, Zenon DEF LoadItem, Raises
    <2> QED
        BY <2>1, PairParts
<1>2. CASE \E f \in FpPorts : DevPortOf[f] = item.dev_port
    <2>1. PICK f : f = CHOOSE g \in FpPorts : DevPortOf[g] = item.dev_port
        BY Zenon
    <2>2. f \in FpPorts /\ item.dev_port \in DevPorts
        BY <1>2, <2>1, PortAssumption
    <2>3. PICK a \in JobPortAdd(t, item.dev_port, ValidSpeed(item)) :
              o \in IF a[2] THEN MacAddressAdd(a[1], item.mac, f) ELSE {a}
        BY <1>2, <2>1, ZenonT(30) DEF LoadItem, Then
    <2>4. Good(a[1])
        BY <2>2, JobPortAddGood
    <2> QED
        BY <2>2, <2>3, <2>4, MacAddressAddGood
<1> QED
    BY <1>1, <1>2

LEMMA SetRecircPortGood ==
    ASSUME NEW t, Good(t), NEW port \in RecircArgs \cup {Alternate, DefaultRecirc},
           NEW o \in SetRecircPort(t, port)
    PROVE  Good(o[1])
<1>1. PICK u : u = [t EXCEPT !.recirc_port = port]
    BY Zenon
<1>2. /\ u \in StateType /\ u.pre = t.pre /\ u.stray = t.stray
      /\ u.active_ports = t.active_ports /\ u.port_table = t.port_table
    BY <1>1 DEF Good, StateType
<1>3. Good(u)
    BY <1>2, OthersGood
<1>4. o = <<t, FALSE>> \/ o = <<u, TRUE>>
    BY <1>1, Zenon DEF SetRecircPort, Returns, Raises, Fault
<1> QED
    BY <1>3, <1>4, PairParts, Zenon

LEMMA RecircEnableGood ==
    ASSUME NEW t, Good(t), NEW port \in RecircArgs \cup {Alternate, DefaultRecirc},
           NEW o \in RecircEnable(t, port)
    PROVE  Good(o[1])
<1>1. PICK a \in EnableRecirc(t) : o \in IF a[2] THEN SetRecircPort(a[1], port) ELSE {a}
    BY DEF RecircEnable, Then
<1>2. PICK u : u = [t EXCEPT !.recirculating = {Alternate}]
    BY Zenon
<1>3. /\ u \in StateType /\ u.pre = t.pre /\ u.stray = t.stray
      /\ u.active_ports = t.active_ports /\ u.port_table = t.port_table
    BY <1>2 DEF Good, StateType
<1>4. Good(u)
    BY <1>3, OthersGood
<1>5. a = <<t, FALSE>> \/ a = <<u, TRUE>>
    BY <1>2, Zenon DEF EnableRecirc, Returns, Raises, Fault
<1>6. Good(a[1])
    BY <1>4, <1>5, PairParts, ZenonT(30)
<1> QED
    BY <1>1, <1>6, SetRecircPortGood

----------------------------------------------------------------------------
(* The commands: what a step leaves behind, and what it reports.           *)

Report ==
    /\ PortAddComplete
    /\ ClearAllEmpties

(* A command that is neither port_add nor port_clear_all promises nothing. *)
LEMMA OtherCommand ==
    ASSUME NEW name, name # "port_add", name # "port_clear_all", NEW dp, NEW outcomes,
           \A o \in outcomes : Good(o[1]), Did(name, dp, outcomes)
    PROVE  Good(s)' /\ Report'
<1>1. PICK o \in outcomes : s' = o[1] /\ last' = [name |-> name, port |-> dp, ok |-> o[2]]
    BY DEF Did
<1>2. last'.name = name
    BY <1>1
<1> QED
    BY <1>1, <1>2 DEF Good, Report, PortAddComplete, ClearAllEmpties
LEMMA CommandGood ==
    ASSUME Good(s), Command
    PROVE  Good(s)' /\ (Report => Report')
<1>1. ASSUME NEW arg \in PortArgs, PortAdd(arg)
      PROVE  Good(s)' /\ Report'
    <2>1. PICK dp : dp = DevPortOf[FpPort(arg)]
        OBVIOUS
    <2>2. dp \in DevPorts /\ Did("port_add", dp, JobPortAdd(s, dp, TRUE))
        <3>1. FpPort(arg) \in FpPorts
            BY <1>1 DEF PortAdd
        <3>2. Did("port_add", dp, JobPortAdd(s, dp, TRUE))
            BY <1>1, <2>1, Zenon DEF PortAdd
        <3>3. dp \in DevPorts
            BY <2>1, <3>1, PortAssumption
        <3> QED
            BY <3>2, <3>3, Zenon
    <2>3. PICK o \in JobPortAdd(s, dp, TRUE) :
              s' = o[1] /\ last' = [name |-> "port_add", port |-> dp, ok |-> o[2]]
        BY <2>2, Zenon DEF Did
    <2>4. /\ Good(o[1])
          /\ o[2] => /\ dp \in o[1].active_ports
                     /\ FloodRid(dp) \in o[1].pre.mgid[AllPorts]
                     /\ o[1].pre.node[FloodRid(dp)] = dp
        <3>1. PICK t : t = s
            OBVIOUS
        <3>2. Good(t) /\ dp \in DevPorts /\ o \in JobPortAdd(t, dp, TRUE)
            BY <2>2, <2>3, <3>1, Zenon
        <3> QED
            BY <3>2, JobPortAddGood, ZenonT(60)
    <2>5. last'.name = "port_add" /\ last'.port = dp /\ last'.ok = o[2]
        BY <2>3
    <2>6. Good(s)'
        BY <2>3, <2>4 DEF Good
    <2>7. PortAddComplete'
        BY <2>3, <2>4, <2>5 DEF PortAddComplete
    <2> QED
        BY <2>5, <2>6, <2>7 DEF Report, ClearAllEmpties
<1>2. ASSUME NEW arg \in PortArgs, PortDel(arg)
      PROVE  Good(s)' /\ Report'
    <2>1. PICK dp : dp = DevPortOf[FpPort(arg)]
        OBVIOUS
    <2>2. dp \in DevPorts /\ Did("port_del", dp, JobPortDel(s, dp))
        BY <1>2, <2>1, PortAssumption DEF PortDel
    <2>3. \A o \in JobPortDel(s, dp) : Good(o[1])
        BY <2>2, JobPortDelGood
    <2> QED
        BY <2>2, <2>3, OtherCommand, ZenonT(30)
<1>3. ASSUME NEW arg \in PortArgs, NEW m \in MacArgs, MacAdd(m, arg)
      PROVE  Good(s)' /\ Report'
    <2>1. \A o \in MacAddressAdd(s, m, FpPort(arg)) : Good(o[1])
        BY <1>3, MacAddressAddGood, ZenonT(30) DEF MacAdd
    <2> QED
        BY <1>3, <2>1, OtherCommand DEF MacAdd
<1>4. CASE PortClearAll
    <2>1. PICK o \in Then(DeleteAllPorts(s), FloodClear) :
              s' = o[1] /\ last' = [name |-> "port_clear_all", port |-> NoPort, ok |-> o[2]]
        BY <1>4 DEF PortClearAll, Did
    <2>2. Good(o[1]) /\ (o[2] => o[1].pre.mgid[AllPorts] \subseteq o[1].stray)
        BY PortClearAllGood
    <2>3. last'.name = "port_clear_all" /\ last'.ok = o[2]
        BY <2>1, Zenon
    <2>4. Good(s)'
        BY <2>1, <2>2, ZenonT(30) DEF Good
    <2>5. ClearAllEmpties'
        BY <2>1, <2>2, <2>3 DEF ClearAllEmpties
    <2> QED
        BY <2>3, <2>4, <2>5 DEF Report, PortAddComplete
<1>5. CASE TimingLoop
    <2>1. PICK u : u = [s EXCEPT !.forward[TimingAddress] = 0]
        BY Zenon
    <2>2. /\ u \in StateType /\ u.pre = s.pre /\ u.stray = s.stray
          /\ u.active_ports = s.active_ports /\ u.port_table = s.port_table
        BY <2>1 DEF Good, StateType
    <2>3. Good(u)
        BY <2>2, OthersGood
    <2>4. PICK outcomes : outcomes = IF s.forward[TimingAddress] # NoEntry THEN Raises(s)
                                     ELSE Fault(s) \cup Fault(u) \cup Returns(u)
        BY Zenon
    <2>5. \A o \in outcomes : o = <<s, FALSE>> \/ o = <<u, FALSE>> \/ o = <<u, TRUE>>
        BY <2>4, Zenon DEF Returns, Raises, Fault
    <2>6. \A o \in outcomes : Good(o[1])
        BY <2>3, <2>5, PairParts, Zenon
    <2>7. Did("timing_loop", NoPort, outcomes)
        BY <1>5, <2>1, <2>4 DEF TimingLoop
    <2> QED
        BY <2>6, <2>7, OtherCommand
<1>6. CASE AlternateRecircPortDisable
    <2>1. \A o \in SetRecircPort(s, DefaultRecirc) : Good(o[1])
        BY SetRecircPortGood
    <2> QED
        BY <1>6, <2>1, OtherCommand DEF AlternateRecircPortDisable
<1>7. ASSUME NEW m \in MacArgs, MacDel(m)
      PROVE  Good(s)' /\ Report'
    <2>1. \A o \in MacAddressDel(s, m) : Good(o[1])
        BY MacAddressDelGood
    <2> QED
        BY <1>7, <2>1, OtherCommand DEF MacDel
<1>8. ASSUME NEW arg \in RecircArgs, AlternateRecircPortEnable(arg)
      PROVE  Good(s)' /\ Report'
    <2>1. PICK port : port = IF arg = NoArg THEN Alternate ELSE arg
        OBVIOUS
    <2>2. \A o \in RecircEnable(s, port) : Good(o[1])
        BY <2>1, RecircEnableGood
    <2>3. Did("alternate_recirc_port_enable", NoPort, RecircEnable(s, port))
        BY <1>8, <2>1 DEF AlternateRecircPortEnable
    <2> QED
        BY <2>2, <2>3, OtherCommand
<1>9. ASSUME NEW file \in Files, PortFile(file)
      PROVE  Good(s)' /\ Report'
    <2>1. s' = s /\ last'.name = "port_file"
        BY <1>9 DEF PortFile
    <2> QED
        BY <2>1 DEF Good, Report, PortAddComplete, ClearAllEmpties
<1>10. CASE BfPortRmv
    <2>1. s' = [s EXCEPT !.removed = TRUE] /\ last' = last
        BY <1>10 DEF BfPortRmv
    <2>2. /\ s' \in StateType /\ s'.pre = s.pre /\ s'.stray = s.stray
          /\ s'.active_ports = s.active_ports /\ s'.port_table = s.port_table
        BY <2>1, ZenonT(30) DEF Good, StateType
    <2> QED
        BY <2>1, <2>2 DEF Good, Report, PortAddComplete, ClearAllEmpties
<1> QED
    BY <1>1, <1>2, <1>3, <1>4, <1>5, <1>6, <1>7, <1>8, <1>9, <1>10, ZenonT(30) DEF Command

LEMMA LoadNextGood ==
    ASSUME Good(s), LoadNext
    PROVE  Good(s)' /\ Report'
<1>1. PICK o \in LoadItem(s, Head(loading)) :
          s' = o[1] /\ last' = [name |-> "port_file", port |-> NoPort, ok |-> o[2]]
    BY DEF LoadNext
<1>2. Good(o[1]) /\ last'.name = "port_file"
    BY <1>1, LoadItemGood
<1> QED
    BY <1>1, <1>2 DEF Good, Report, PortAddComplete, ClearAllEmpties

LEMMA InitGood ==
    ASSUME PortInit
    PROVE  Good(s) /\ Report
<1>1. s.pre = EmptyPre /\ s.active_ports = {}
    BY Zenon DEF PortInit
<1>2. EmptyPre \in PreType
    BY ZenonT(30) DEF EmptyPre, PreType, NoPort, NoRid
<1>3. EmptyPre.mgid[AllPorts] = {}
    BY PortAssumption DEF EmptyPre
<1>4. s \in StateType
    BY <1>2 DEF PortInit, StateType
<1>5. last.name = "none"
    BY DEF PortInit
<1> QED
    BY <1>1, <1>3, <1>4, <1>5, Zenon DEF Good, FloodTracked, Report, PortAddComplete, ClearAllEmpties

LEMMA GoodAlways == PortSpec => [](Good(s) /\ Report)
<1>1. PortInit => Good(s) /\ Report
    BY InitGood
<1>2. Good(s) /\ Report /\ [PortNext]_portVars => (Good(s) /\ Report)'
    <2> SUFFICES ASSUME Good(s), Report, [PortNext]_portVars PROVE Good(s)' /\ Report'
        OBVIOUS
    <2>1. CASE Command
        BY <2>1, CommandGood
    <2>2. CASE LoadNext
        BY <2>2, LoadNextGood, ZenonT(30)
    <2>3. CASE UNCHANGED portVars
        BY <2>3 DEF portVars, Good, Report, PortAddComplete, ClearAllEmpties
    <2> QED
        BY <2>1, <2>2, <2>3 DEF PortNext
<1> QED
    BY <1>1, <1>2, PTL DEF PortSpec

(* Whatever call of whatever command the driver refuses, the tables keep   *)
(* their types, an active port is up, and the dictionary PRE.rids knows    *)
(* every member of the flood group but those whose removal by              *)
(* port_clear_all was refused and whose port was not added since.          *)
THEOREM PortInvariant == PortSpec => []PortInv
<1>1. Good(s) => PortInv
    BY DEF Good, PortInv, PortTypeOK, ActiveUp
<1> QED
    BY <1>1, GoodAlways, PTL

(* Ports.active_ports lists ports that are up, whatever call failed.       *)
THEOREM ActivePortsUp == PortSpec => []ActiveUp
<1>1. PortInv => ActiveUp
    BY DEF PortInv
<1> QED
    BY <1>1, PortInvariant, PTL

(* A port_add that returned left its port active and in the flood group,   *)
(* whatever had failed before.                                             *)
THEOREM PortAddRepairs == PortSpec => []PortAddComplete
<1>1. Report => PortAddComplete
    BY DEF Report
<1> QED
    BY <1>1, GoodAlways, PTL

(* A port_clear_all that returned left nothing in the flood group but      *)
(* nodes whose removal the driver refused and whose port was not added     *)
(* since, whatever had been refused before.                                *)
THEOREM PortClearAllClears == PortSpec => []ClearAllEmpties
<1>1. Report => ClearAllEmpties
    BY DEF Report
<1> QED
    BY <1>1, GoodAlways, PTL
=============================================================================
