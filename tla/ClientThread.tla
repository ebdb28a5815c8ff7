------------------------------- MODULE ClientThread -------------------------------
(***************************************************************************)
(* One thread of the client (ClientThread.cpp) with several slots, through *)
(* a number of reductions of the same buffer, as client.cpp calls them.    *)
(*                                                                         *)
(* The NIC and the switch are external.  A posted packet waits in up; the  *)
(* switch answers it, or it is lost, or its answer is.  Answers of a slot  *)
(* keep the order of its packets.  The write completion of a packet may    *)
(* reach the completion queue before or after the answer.  A message is    *)
(* the number of the reduction and the address of its data; the client     *)
(* itself sees only the slot bit of an answer (pool index).                *)
(*                                                                         *)
(* Time is abstract: a timer may be found to have run out whenever it is   *)
(* looked at, so every time stamp is 0.                                    *)
(***************************************************************************)
EXTENDS ThreadPartition, TimeoutList, Sequences, Functions

CONSTANTS Lengths,         \* lengths of the buffer
          MaxReductions,   \* reductions of a run
          MaxInFlight,     \* bounds reposts: packets of a slot and completions under way
          Timeouts,        \* FLAGS_timeout is not 0
          Losses           \* the network may lose packets

ASSUME SlotsHaveTimers == NumEntries = SlotsPerCore
ASSUME RunAssumption == Lengths \subseteq Nat /\ MaxReductions \in Nat

VARIABLES thread_id, length,   \* which thread, and of which buffer
          pc,                  \* barrier, post, progress, handle, timeouts
          initial,             \* next slot of post_initial_writes
          reduction,           \* reductions started
          pointers, slot_bit,  \* per slot: next message, low bit of the rkey
          current,             \* per slot: message of send_wrs[i]
          outstanding,         \* outstanding_operations
          timeouts,            \* the timeout queue
          completions,         \* polled and not handled yet
          cq, writes, up,      \* completion queue; writes not completed; packets
          posted, accepted     \* history: messages of this reduction

vars == <<thread_id, length, pc, initial, reduction, pointers, slot_bit, current, outstanding,
          timeouts, completions, cq, writes, up, posted, accepted>>
buffer == <<thread_id, length>>
progress == <<reduction, initial>>
slots == <<pointers, slot_bit, current>>

NoMessage == <<0, 0>>

(* post_next_send_wr(i) in the current reduction: nothing when the slot is *)
(* through.  SendsPosted is what it takes off outstanding_operations.      *)
Posts(i) == pointers[i] < ThreadEnd(thread_id, length)
SendsPosted(i) == IF Posts(i) THEN 1 ELSE 0

PostNextSendWr(i) ==
    \/ /\ ~ Posts(i)
       /\ UNCHANGED <<slots, timeouts, writes, up, posted>>
    \/ /\ Posts(i)
       /\ LET bit == 1 - slot_bit[i]
              message == <<reduction, pointers[i]>>
          IN  /\ slot_bit' = [slot_bit EXCEPT ![i] = bit]
              /\ current' = [current EXCEPT ![i] = message]
              /\ up' = [up EXCEPT ![i] = Append(@, [bit |-> bit, message |-> message])]
              /\ posted' = posted \cup {message}
       /\ timeouts' = Remove(timeouts, i)
       /\ writes' = [writes EXCEPT ![i] = @ + 1]
       /\ pointers' = [pointers EXCEPT ![i] = @ + SlotsPerCore * MessageFloats]

(* Out of the barrier: compute_thread_pointers. *)
StartReduction ==
    /\ pc = "barrier" /\ reduction < MaxReductions
    /\ reduction' = reduction + 1
    /\ pointers' = [i \in Slots |-> FirstPointer(thread_id, length, i)]
    /\ outstanding' = ExpectedOperations(thread_id, length)
    /\ posted' = {} /\ accepted' = {}
    /\ initial' = 0 /\ pc' = "post"
    /\ UNCHANGED <<buffer, slot_bit, current, timeouts, completions, cq, writes, up>>

(* post_initial_writes, one slot after the other. *)
PostInitialWrite ==
    /\ pc = "post"
    /\ PostNextSendWr(initial)
    /\ outstanding' = outstanding - SendsPosted(initial)
    /\ initial' = initial + 1
    /\ pc' = IF initial + 1 < SlotsPerCore THEN "post" ELSE "loop"
    /\ UNCHANGED <<buffer, reduction, completions, cq, accepted>>

(* run: the loop ends, or polls up to max_entries completions. *)
Leave ==
    /\ pc = "loop" /\ outstanding <= 0
    /\ pc' = "barrier"
    /\ UNCHANGED <<buffer, progress, slots, outstanding, timeouts, completions, cq, writes, up,
                   posted, accepted>>

Poll ==
    /\ pc = "loop" /\ outstanding > 0
    /\ LET n == Min({Len(cq), SlotsPerCore})
       IN  /\ completions' = SubSeq(cq, 1, n)
           /\ cq' = SubSeq(cq, n + 1, Len(cq))
    /\ pc' = IF cq = <<>> THEN "timeouts" ELSE "handle"
    /\ UNCHANGED <<buffer, progress, slots, outstanding, timeouts, writes, up, posted, accepted>>

Handled ==
    /\ completions' = Tail(completions)
    /\ pc' = IF Len(completions) = 1 THEN "timeouts" ELSE "handle"
    /\ UNCHANGED <<buffer, progress, cq>>

(* Mutant: the answer is not compared with the slot's pool index. *)
ExpectedAny(c) == TRUE

Expected(c) == c.bit = slot_bit[c.slot]

(* handle_recv_completion. *)
HandleRecv ==
    /\ pc = "handle" /\ Head(completions).kind = "recv"
    /\ LET c == Head(completions)
       IN  \/ /\ Expected(c)
              /\ PostNextSendWr(c.slot)
              /\ outstanding' = outstanding - SendsPosted(c.slot) - 1
              /\ accepted' = accepted \cup {c.message}
           \/ /\ ~ Expected(c)
              /\ UNCHANGED <<slots, outstanding, timeouts, writes, up, posted, accepted>>
    /\ Handled

(* Mutant: only the first timer is set, for the oldest message. *)
HandleWriteFirst ==
    /\ pc = "handle" /\ Head(completions).kind = "write"
    /\ timeouts' = IF Bottom(timeouts) # Nil THEN timeouts
                   ELSE Push(timeouts, Head(completions).slot, 0)
    /\ Handled
    /\ UNCHANGED <<slots, outstanding, writes, up, posted, accepted>>

(* Mutant: no timer is set while an answer waits in the completion queue. *)
HandleWriteNotReady ==
    /\ pc = "handle" /\ Head(completions).kind = "write"
    /\ timeouts' = IF cq # <<>> THEN timeouts ELSE Push(timeouts, Head(completions).slot, 0)
    /\ Handled
    /\ UNCHANGED <<slots, outstanding, writes, up, posted, accepted>>

(* handle_write_completion arms the slot's timer. *)
HandleWrite ==
    /\ pc = "handle" /\ Head(completions).kind = "write"
    /\ timeouts' = Push(timeouts, Head(completions).slot, 0)
    /\ Handled
    /\ UNCHANGED <<slots, outstanding, writes, up, posted, accepted>>

(* repost_send_wr takes the timer off the queue; the write completion of   *)
(* the new packet puts it back.                                            *)
Repost(i) ==
    /\ timeouts' = Remove(timeouts, i)
    /\ writes' = [writes EXCEPT ![i] = @ + 1]
    /\ up' = [up EXCEPT ![i] = Append(@, [bit |-> slot_bit[i], message |-> current[i]])]

(* check_for_timeouts: the oldest timer has run out. *)
TimedOut ==
    /\ pc = "timeouts" /\ Timeouts
    /\ LET i == Bottom(timeouts)
       IN  /\ i # Nil
           /\ Len(cq) + Len(up[i]) + writes[i] < MaxInFlight
           /\ Repost(i)
    /\ pc' = "loop"
    /\ UNCHANGED <<buffer, progress, slots, outstanding, completions, cq, posted, accepted>>

NoTimeout ==
    /\ pc = "timeouts" /\ pc' = "loop"
    /\ UNCHANGED <<buffer, progress, slots, outstanding, timeouts, completions, cq, writes, up,
                   posted, accepted>>

Run == PostInitialWrite \/ Leave \/ Poll \/ HandleRecv \/ HandleWrite \/ NoTimeout

----------------------------------------------------------------------------
(* The NIC, the network and the switch.                                    *)

WriteCompletes(i) ==
    /\ writes[i] > 0
    /\ writes' = [writes EXCEPT ![i] = @ - 1]
    /\ cq' = Append(cq, [kind |-> "write", slot |-> i])
    /\ UNCHANGED <<buffer, pc, progress, slots, outstanding, timeouts, completions, up,
                   posted, accepted>>

Answer(i) ==
    /\ up[i] # <<>>
    /\ up' = [up EXCEPT ![i] = Tail(@)]
    /\ cq' = Append(cq, [kind |-> "recv", slot |-> i, bit |-> Head(up[i]).bit,
                         message |-> Head(up[i]).message])
    /\ UNCHANGED <<buffer, pc, progress, slots, outstanding, timeouts, completions, writes,
                   posted, accepted>>

Lose(i) ==
    /\ Losses /\ up[i] # <<>>
    /\ up' = [up EXCEPT ![i] = Tail(@)]
    /\ UNCHANGED <<buffer, pc, progress, slots, outstanding, timeouts, completions, cq, writes,
                   posted, accepted>>

(* The slot bit starts at 1 and is flipped before the first message. *)
Init ==
    /\ thread_id \in ThreadIds /\ length \in Lengths
    /\ pc = "barrier" /\ reduction = 0 /\ initial = 0
    /\ pointers = [i \in Slots |-> 0] /\ slot_bit = [i \in Slots |-> 1]
    /\ current = [i \in Slots |-> NoMessage]
    /\ outstanding = 0 /\ timeouts = NewQueue
    /\ completions = <<>> /\ cq = <<>>
    /\ writes = [i \in Slots |-> 0] /\ up = [i \in Slots |-> <<>>]
    /\ posted = {} /\ accepted = {}

Next ==
    \/ StartReduction \/ Run \/ TimedOut
    \/ \E i \in Slots : WriteCompletes(i) \/ Answer(i) \/ Lose(i)

Spec == Init /\ [][Next]_vars

(* The main thread lets the threads start, the loop goes round, an armed   *)
(* timer runs out some day, the NIC completes its writes and the network   *)
(* does not lose every packet of a slot.                                   *)
Fairness ==
    /\ WF_vars(StartReduction) /\ WF_vars(Run) /\ SF_vars(TimedOut)
    /\ \A i \in Slots : WF_vars(WriteCompletes(i)) /\ SF_vars(Answer(i))

FairSpec == Spec /\ Fairness

----------------------------------------------------------------------------
ShareMessages == {<<reduction, p>> : p \in Share(thread_id, length)}

(* Slots whose message has not been answered. *)
Waiting == {i \in Slots : current[i] \in posted \ accepted}

(* A thread that is back at the barrier has had an answer to every message *)
(* of its share: "wait at barrier again to indicate reduction is           *)
(* complete".                                                              *)
RunEndsComplete ==
    (pc = "barrier" /\ reduction > 0) => accepted = ShareMessages

(* A message that waits for its answer has its timer in the queue, or will *)
(* have: a write completion that is still to come arms it.  So a lost      *)
(* packet is never forgotten.                                              *)
WaitingIsTimed ==
    \A i \in Waiting :
        \/ timeouts.next[i] # Nil
        \/ writes[i] > 0
        \/ \E c \in Range(cq) \cup Range(completions) : c.kind = "write" /\ c.slot = i

(* A thread posts the messages of its own share: "this is 1+ the last      *)
(* message index we will reduce".                                          *)
PostsOwnShare == posted \subseteq ShareMessages

(* Every reduction ends, whatever is lost on the way. *)
EveryReductionEnds == \A r \in 1..MaxReductions : <>(reduction = r /\ pc = "barrier")

(* Every reduction of a buffer that is not empty ends, whatever is lost on *)
(* the way: lost packets are found and sent again.                         *)
ReductionEnds == length > 0 => EveryReductionEnds

(* So does the reduction of an empty one: "send 1 message even if length   *)
(* is 0 for barrier".                                                      *)
EmptyReductionEnds == length = 0 => EveryReductionEnds
=============================================================================
