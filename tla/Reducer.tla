---------------------------------- MODULE Reducer ----------------------------------
(***************************************************************************)
(* The main thread of the client in Reducer.cpp and the threads it starts  *)
(* (ClientThread::operator()), which meet at one Barrier twice in every    *)
(* reduction.  The buffer and its length are plain members of the Reducer: *)
(* nothing but the barrier keeps a thread from reading them half written.  *)
(*                                                                         *)
(* A buffer and a length are named by the number of their call.  Reducing  *)
(* is one step (run); the module ClientThread has its detail.              *)
(***************************************************************************)
EXTENDS Barrier

CONSTANTS Threads, Main,   \* worker threads and the main thread
          Calls            \* calls of allreduce_inplace before the end

ASSUME ReducerAssumption == Participants = Threads \cup {Main} /\ Main \notin Threads /\ Calls \in Nat

VARIABLES pc,                                      \* of every thread
          b,                                       \* the barrier
          src_buffer, length, shutdown,            \* members of the Reducer
          reduction_id,
          seen,                                    \* buffer and length a thread works on
          done                                     \* history: last reduction a thread finished

vars == <<pc, b, src_buffer, length, shutdown, reduction_id, seen, done>>
shared == <<src_buffer, length, shutdown, reduction_id>>

(* barrier.wait() of p, called at pc = from, goes on at to. *)
Arrive(p, from, sleeping, to) ==
    /\ pc[p] = from
    /\ IF IsLast(b) THEN b' = ReleaseAll(b) /\ pc' = [pc EXCEPT ![p] = to]
                    ELSE b' = Sleep(b, p) /\ pc' = [pc EXCEPT ![p] = sleeping]
    /\ UNCHANGED <<shared, seen, done>>

Awake(p, sleeping, to) ==
    /\ pc[p] = sleeping /\ p \in b.woken
    /\ IF MayLeave(b, p) THEN b' = Leaves(b, p) /\ pc' = [pc EXCEPT ![p] = to]
                         ELSE b' = SleepsAgain(b, p) /\ UNCHANGED pc
    /\ UNCHANGED <<shared, seen, done>>

SpuriousWakeup(p) ==
    /\ p \in b.waiting
    /\ b' = WakesUp(b, p)
    /\ UNCHANGED <<pc, shared, seen, done>>

----------------------------------------------------------------------------
(* allreduce_inplace: the members one after the other, then the barrier    *)
(* to start the threads and the barrier to wait for them.                  *)

SetBuffer ==
    /\ pc[Main] = "idle" /\ reduction_id + 1 < Calls
    /\ src_buffer' = reduction_id + 1
    /\ pc' = [pc EXCEPT ![Main] = "length"]
    /\ UNCHANGED <<b, length, shutdown, reduction_id, seen, done>>

SetLength ==
    /\ pc[Main] = "length"
    /\ length' = reduction_id + 1 /\ reduction_id' = reduction_id + 1
    /\ pc' = [pc EXCEPT ![Main] = "start"]
    /\ UNCHANGED <<b, src_buffer, shutdown, seen, done>>

MainStart == Arrive(Main, "start", "starting", "finish") \/ Awake(Main, "starting", "finish")

(* Mutant: allreduce_inplace returns when the threads have started. *)
MainFinishAtOnce ==
    /\ pc[Main] = "finish" /\ pc' = [pc EXCEPT ![Main] = "idle"]
    /\ UNCHANGED <<b, shared, seen, done>>

MainFinish == Arrive(Main, "finish", "finishing", "idle") \/ Awake(Main, "finishing", "idle")

(* ~Reducer: the flag, the barrier, and join. *)
Shutdown ==
    /\ pc[Main] = "idle" /\ reduction_id + 1 = Calls
    /\ shutdown' = TRUE
    /\ pc' = [pc EXCEPT ![Main] = "stop"]
    /\ UNCHANGED <<b, src_buffer, length, reduction_id, seen, done>>

MainStop == Arrive(Main, "stop", "stopping", "join") \/ Awake(Main, "stopping", "join")

Join ==
    /\ pc[Main] = "join" /\ \A t \in Threads : pc[t] = "exited"
    /\ pc' = [pc EXCEPT ![Main] = "joined"]
    /\ UNCHANGED <<b, shared, seen, done>>

----------------------------------------------------------------------------
(* operator(): barrier, shutdown or a reduction, barrier.                  *)

ThreadStart(t) == Arrive(t, "wait", "waiting", "check") \/ Awake(t, "waiting", "check")

CheckShutdown(t) ==
    /\ pc[t] = "check"
    /\ pc' = [pc EXCEPT ![t] = IF shutdown THEN "exited" ELSE "compute"]
    /\ UNCHANGED <<b, shared, seen, done>>

(* compute_thread_pointers reads the members. *)
Compute(t) ==
    /\ pc[t] = "compute"
    /\ seen' = [seen EXCEPT ![t] = <<src_buffer, length>>]
    /\ pc' = [pc EXCEPT ![t] = "run"]
    /\ UNCHANGED <<b, shared, done>>

RunThread(t) ==
    /\ pc[t] = "run"
    /\ done' = [done EXCEPT ![t] = reduction_id]
    /\ pc' = [pc EXCEPT ![t] = "end"]
    /\ UNCHANGED <<b, shared, seen>>

ThreadEnd(t) == Arrive(t, "end", "ending", "wait") \/ Awake(t, "ending", "wait")

Init ==
    /\ pc = [p \in Participants |-> IF p = Main THEN "idle" ELSE "wait"]
    /\ b = NewBarrier
    /\ src_buffer = 0 /\ length = 0 /\ shutdown = FALSE /\ reduction_id = -1
    /\ seen = [t \in Threads |-> <<0, 0>>] /\ done = [t \in Threads |-> -1]

MainStep == SetBuffer \/ SetLength \/ MainStart \/ MainFinish \/ Shutdown \/ MainStop \/ Join
ThreadStep(t) == ThreadStart(t) \/ CheckShutdown(t) \/ Compute(t) \/ RunThread(t) \/ ThreadEnd(t)

Finished == pc[Main] = "joined" /\ UNCHANGED vars

Next ==
    \/ MainStep \/ Finished
    \/ \E t \in Threads : ThreadStep(t)
    \/ \E p \in Participants : SpuriousWakeup(p)

Spec == Init /\ [][Next]_vars

(* The operating system runs every thread that can run; nothing wakes a    *)
(* sleeping one but a notification.                                        *)
FairSpec == Spec /\ WF_vars(MainStep) /\ \A t \in Threads : WF_vars(ThreadStep(t))

----------------------------------------------------------------------------
(* A thread works on the buffer and the length of the call that the main   *)
(* thread is in, never on a mixture of two calls.                          *)
HandedOver ==
    \A t \in Threads : pc[t] \in {"run", "end"} => seen[t] = <<reduction_id, reduction_id>>

(* allreduce_inplace returns when every thread has finished this reduction *)
(* and none has begun the next: "enter barrier to wait for worker threads  *)
(* to complete, and we're done".                                           *)
ReturnsComplete ==
    pc[Main] \in {"idle", "length", "start", "stop"} =>
        \A t \in Threads : done[t] = IF pc[Main] = "start" THEN reduction_id - 1 ELSE reduction_id

(* All calls return and the destructor ends. *)
Ends == <>(pc[Main] = "joined" /\ \A t \in Threads : done[t] = Calls - 1)
=============================================================================
