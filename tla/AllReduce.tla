------------------------------- MODULE AllReduce -------------------------------
(***************************************************************************)
(* What a slot promises to the workers that share it.  Each worker takes   *)
(* part in message after message; it leaves a message only when every      *)
(* worker has entered it, and it leaves with the sum over all workers.     *)
(* No network, no retransmission and no switch is visible here.            *)
(***************************************************************************)
EXTENDS Integers

CONSTANTS Workers,      \* the workers of the job
          MaxMessage,   \* messages that a worker sends through the slot
          Sum           \* Sum[m]: the reduction of message m

VARIABLES round,    \* round[w]: the message w takes part in; 0 before the
                    \*   first, MaxMessage + 1 after the last
          result    \* result[w][m]: what w got for message m < round[w]

avars == <<round, result>>

AInit == /\ round = [w \in Workers |-> 0]
         /\ result = [w \in Workers |-> [m \in 1 .. 0 |-> Sum[m]]]

\* Worker w enters its first message.
Enter(w) == /\ round[w] = 0
            /\ round' = [round EXCEPT ![w] = 1]
            /\ UNCHANGED result

\* Worker w leaves its message with the sum, and enters the next one.
Leave(w) == /\ round[w] \in 1 .. MaxMessage
            /\ \A v \in Workers : round[v] >= round[w]
            /\ round' = [round EXCEPT ![w] = @ + 1]
            /\ result' = [result EXCEPT ![w] = [m \in 1 .. round[w] |-> Sum[m]]]

ANext == \E w \in Workers : Enter(w) \/ Leave(w)

ASpec == AInit /\ [][ANext]_avars

===============================================================================
