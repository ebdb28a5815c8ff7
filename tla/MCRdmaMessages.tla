----------------------------- MODULE MCRdmaMessages -----------------------------
(* Set-ups of RdmaMessages for TLC. *)
EXTENDS RdmaMessages

NoArguments == [start |-> 0, count |-> 8]   \* as do_queue_pair_counters has them

(* One queue pair: messages of one, two and four packets, lost, overtaken  *)
(* and sent again.  The sequence numbers come round to those the queue     *)
(* pair began with.                                                        *)
Lossy == [ranks |-> {3}, queues |-> 1, packets |-> 4, lengths |-> {1, 2, 4},
          psns |-> 10, initial |-> {5}, arguments |-> {NoArguments},
          span |-> 5, max_packets |-> 13, max_lost |-> 1, max_jobs |-> 1]

(* Two ranks with two queue pairs each. *)
FourQueues == [ranks |-> {0, 3}, queues |-> 2, packets |-> 2, lengths |-> {2},
               psns |-> 16, initial |-> {5}, arguments |-> {[start |-> 1, count |-> 2]},
               span |-> 3, max_packets |-> 4, max_lost |-> 0, max_jobs |-> 1]

(* One queue pair and a second job, which goes on with the numbers where   *)
(* the first one stopped or begins elsewhere.                              *)
TwoJobs == [Lossy EXCEPT !.lengths = {3}, !.initial = {2, 4}, !.max_packets = 6, !.max_jobs = 2]

MCConfigs == {Lossy, FourQueues, TwoJobs}
=============================================================================
