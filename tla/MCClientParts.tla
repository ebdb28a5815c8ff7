------------------------------- MODULE MCClientParts -------------------------------
(***************************************************************************)
(* Three parts below and around the threads of a client for TLC, in one    *)
(* state space: the reducer with three threads, the timeout queue of a     *)
(* thread, and the messages of its queue pairs.  They share no state: each *)
(* is explored with the others as they were at the start, and nothing is   *)
(* lost by it.                                                             *)
(***************************************************************************)
EXTENDS Reducer, TimeoutQueue, MCRdmaMessages

ThreadSet == {"t1", "t2", "t3"}
ParticipantSet == ThreadSet \cup {"main"}

PartsInit == Init /\ QueueInit /\ RdmaInit

(* Clients need not send; at a bound of the set-up they no longer can. *)
MessagesRest == ~ RdmaInit /\ UNCHANGED <<vars, queueVars, rdmaVars>>

PartsNext ==
    \/ Next /\ QueueInit /\ RdmaInit /\ UNCHANGED <<queueVars, rdmaVars>>
    \/ QueueNext /\ Init /\ RdmaInit /\ UNCHANGED <<vars, rdmaVars>>
    \/ RdmaNext /\ Init /\ QueueInit /\ UNCHANGED <<vars, queueVars>>
    \/ MessagesRest

PartsSpec ==
    /\ PartsInit /\ [][PartsNext]_<<vars, queueVars, rdmaVars>>
    /\ WF_vars(MainStep) /\ \A t \in Threads : WF_vars(ThreadStep(t))
=============================================================================
