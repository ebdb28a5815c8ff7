------------------------------ MODULE MCClientThread ------------------------------
(* The client thread for TLC, with the history of whether it ever reposted. *)
EXTENDS ClientThread

VARIABLE reposted

MCInit == Init /\ reposted = FALSE
MCNext == Next /\ reposted' = (reposted \/ (pc = "timeouts" /\ timeouts' # timeouts))
MCSpec == MCInit /\ [][MCNext]_<<vars, reposted>>
MCFairSpec == MCSpec /\ Fairness

(* With several slots, too, run() returns with every message of the share  *)
(* answered, as long as no timer of the thread ran out: what a second copy *)
(* of a message does to outstanding_operations is then out of the way.     *)
EndsCompleteUnlessReposted == ~ reposted => RunEndsComplete

OfCores(c) == INSTANCE ThreadPartition WITH Cores <- c

(* Up to thread_end_pointer, one thread or two post every float of a       *)
(* buffer in one message of one thread, and as many messages as they       *)
(* expect completions for; more threads leave no message out either.       *)
(* Buffers have up to 40 floats.  This depends on no variable: it is       *)
(* looked at before the first reduction.                                   *)
SharesPartition ==
    reduction = 0 =>
        \A n \in 1..40 : /\ \A c \in 1..2 : OfCores(c)!IsPartition(n)
                         /\ \A c \in 1..4 : OfCores(c)!PostsShares(n)
=============================================================================
