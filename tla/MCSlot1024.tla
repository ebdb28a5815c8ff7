------------------------------ MODULE MCSlot1024 ------------------------------
(***************************************************************************)
(* Slot1024 for TLC, up to the first time that partial sums, in answer to  *)
(* a retransmission, reach a worker's buffer: such a worker may move on    *)
(* before the others have been heard, and nothing is promised after it.    *)
(***************************************************************************)
EXTENDS Slot1024

\* The reduction of message m, up to the last slice.
Reduced(data, m) == \A i \in 1 .. Slices - 1 : data[i] = Times(i, Total(m))

\* A wrong retransmission is written to the buffer of worker w.
Misleads == \E w \in Workers :
                /\ Len(cq'[w]) > Len(cq[w])
                /\ LET q == Head(down[w])
                   IN  q.type = "RETRANSMIT" /\ ~ Reduced(q.data, q.msg)

NotMisled == Init /\ [][Next /\ ~ Misleads]_vars
===============================================================================
