------------------------------ MODULE ThreadPartition ------------------------------
(***************************************************************************)
(* ClientThread::compute_thread_pointers: which part of a buffer a thread  *)
(* reduces.  The buffer starts at 0; lengths and addresses count floats,   *)
(* as the arithmetic of float pointers does.                               *)
(***************************************************************************)
EXTENDS Integers, FiniteSetsExt

CONSTANTS Cores,          \* FLAGS_cores
          SlotsPerCore,   \* FLAGS_slots_per_core
          MessageFloats   \* FLAGS_message_size, in floats

ASSUME PartitionAssumption ==
    Cores \in Nat \ {0} /\ SlotsPerCore \in Nat \ {0} /\ MessageFloats \in Nat \ {0}

ThreadIds == 0..(Cores - 1)
Slots == 0..(SlotsPerCore - 1)
SizeofFloat == 4

(* Division of C++ rounds towards 0. *)
Quotient(a, b) == IF a >= 0 THEN a \div b ELSE - ((- a) \div b)

TotalMessages(length) ==
    Quotient(length * SizeofFloat - 1, MessageFloats * SizeofFloat) + 1

Base(length) == TotalMessages(length) \div Cores
Adjustment(length) == TotalMessages(length) % Cores

(* Mutant: the adjustments of the previous threads are forgotten. *)
StartMessageUnadjusted(t, length) == t * Base(length)

StartMessage(t, length) == t * Base(length) + Min({t, Adjustment(length)})

EndMessage(t, length) ==
    StartMessage(t, length) + Base(length) + (IF t < Adjustment(length) THEN 1 ELSE 0)

ThreadStart(t, length) == StartMessage(t, length) * MessageFloats
ThreadEnd(t, length) == Min({ThreadStart(t, length) + EndMessage(t, length) * MessageFloats, length})

(* pointers[i] when a reduction starts. *)
FirstPointer(t, length, i) == ThreadStart(t, length) + i * MessageFloats

(* Mutant: only the receives are counted. *)
ExpectedOperationsHalf(t, length) == EndMessage(t, length) - StartMessage(t, length)

(* outstanding_operations when it starts: sends and receives. *)
ExpectedOperations(t, length) == 2 * (EndMessage(t, length) - StartMessage(t, length))

----------------------------------------------------------------------------
(* The pointers of the messages that the thread counts on, and of those    *)
(* that it posts: post_next_send_wr stops at thread_end_pointer.           *)
Share(t, length) ==
    {k * MessageFloats : k \in StartMessage(t, length)..(EndMessage(t, length) - 1)}

PostedBy(t, length) ==
    {p \in {FirstPointer(t, length, k) : k \in 0..TotalMessages(length)} :
        p < ThreadEnd(t, length)}

Covers(p, x) == p <= x /\ x < p + MessageFloats

(* No message that a thread counts on is left out. *)
PostsShares(length) == \A t \in ThreadIds : Share(t, length) \subseteq PostedBy(t, length)

(* The buffer is divided among the threads: each posts the messages that   *)
(* it counts on and no other, and every float is in one of them.           *)
IsPartition(length) ==
    /\ \A t \in ThreadIds : PostedBy(t, length) = Share(t, length)
    /\ \A x \in 0..(length - 1) :
           \E t \in ThreadIds : \E p \in PostedBy(t, length) :
               /\ Covers(p, x)
               /\ \A u \in ThreadIds : \A r \in PostedBy(u, length) :
                      Covers(r, x) => u = t /\ r = p
=============================================================================
