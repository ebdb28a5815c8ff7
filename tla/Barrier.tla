---------------------------------- MODULE Barrier ----------------------------------
(***************************************************************************)
(* The class Barrier of the client (Barrier.hpp) as operators on a record: *)
(*                                                                         *)
(*   b.count, b.flag       the members                                     *)
(*   b.flag_copy[p]        the local variable of participant p in wait     *)
(*   b.waiting, b.woken    who sleeps on the condition variable, and who   *)
(*                         has been woken and wants the mutex again        *)
(*                                                                         *)
(* What a thread does while it holds the mutex is one step.                *)
(***************************************************************************)
EXTENDS Integers, FiniteSets

CONSTANT Participants

ASSUME ParticipantsAssumption == IsFiniteSet(Participants) /\ Participants # {}

NumParticipants == Cardinality(Participants)

NewBarrier == [count |-> NumParticipants, flag |-> FALSE,
               flag_copy |-> [p \in Participants |-> FALSE],
               waiting |-> {}, woken |-> {}]

(* The last one to arrive. *)
IsLast(b) == b.count - 1 <= 0

(* wait, up to the condition variable: this thread has arrived. *)
Sleep(b, p) == [b EXCEPT !.count = @ - 1, !.flag_copy[p] = b.flag, !.waiting = @ \cup {p}]

(* Mutant: the count is not reset for the next use. *)
ReleaseNoReset(b) ==
    [b EXCEPT !.count = @ - 1, !.flag = ~ @, !.woken = @ \cup b.waiting, !.waiting = {}]

(* Mutant: notify_one. *)
ReleaseOne(b) ==
    [b EXCEPT !.count = NumParticipants, !.flag = ~ @,
              !.woken = IF b.waiting = {} THEN @ ELSE @ \cup {CHOOSE p \in b.waiting : TRUE},
              !.waiting = IF b.waiting = {} THEN @ ELSE @ \ {CHOOSE p \in b.waiting : TRUE}]

(* wait of the last one: flip the flag, reset the count, notify_all. *)
ReleaseAll(b) ==
    [b EXCEPT !.count = NumParticipants, !.flag = ~ @,
              !.woken = @ \cup b.waiting, !.waiting = {}]

(* The loop around the condition variable, with the mutex again.           *)
MayLeave(b, p) == b.flag_copy[p] # b.flag

Leaves(b, p) == [b EXCEPT !.woken = @ \ {p}]
SleepsAgain(b, p) == [b EXCEPT !.woken = @ \ {p}, !.waiting = @ \cup {p}]

(* A condition variable may wake a thread for no reason. *)
WakesUp(b, p) == [b EXCEPT !.waiting = @ \ {p}, !.woken = @ \cup {p}]
=============================================================================
