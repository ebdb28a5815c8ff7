------------------------------ MODULE MCController ------------------------------
(***************************************************************************)
(* PortControl, Counters, DropSimulator and DebugLog for TLC, in one state *)
(* space.  The four share no state, so nothing that one of them does       *)
(* depends on the others: a behaviour is of one of them, with the others   *)
(* as they were at the start.                                              *)
(***************************************************************************)
EXTENDS MCPortControl

VARIABLES part,   \* the one that takes the steps
          calls, read, entries, direct, queue, pool, job, phase, clears, quiet,
          todo, arg, value, self, table, asked, typed,
          log, next, packet_id, log_todo, since, logged, log_clears

count_vars == <<calls, read, entries, direct, queue, pool, job, phase, clears, quiet>>
drop_vars == <<todo, arg, value, self, table, asked, typed>>
log_vars == <<log, next, packet_id, log_todo, since, logged, log_clears>>

(* Two jobs with two workers and one worker, on different hosts. *)
Count == INSTANCE Counters WITH Jobs <- 2, WorkersOf <- <<<<"a", "b">>, <<"c">>>>, MaxClears <- 2

(* Probabilities 0, half of what the table can hold, and 1; commands and   *)
(* job starts do not overlap.                                              *)
Drop == INSTANCE DropSimulator WITH Probabilities <- {0, 1, 131070}, MaxCommands <- 3,
                                    Overlap <- FALSE

(* Packets with values at the ends of their fields. *)
P(type, addr, pipe, worker, opens, ends, flags, index) ==
    [packet_type |-> type, address_bits |-> addr, ingress_pipe |-> pipe, worker_id |-> worker,
     first_packet |-> opens, last_packet |-> ends, flags |-> flags, pool_index |-> index]

Log == INSTANCE DebugLog WITH
    LogSize <- 3, PacketIdBits <- 11, MaxLogged <- 5, MaxClears <- 1,
    Packets <- {P(4, 0, 0, 0, 0, 0, 0, 0), P(4, 255, 2, 31, 0, 1, 9, 32767),
                P(15, 1, 1, 1, 1, 0, 6, 1), P(1, 128, 3, 16, 1, 1, 15, 16384),
                P(3, 7, 0, 2, 0, 0, 12, 2)},
    counter <- packet_id, todo <- log_todo, clears <- log_clears

Init ==
    /\ part \in {"ports", "counters", "drop", "log"}
    /\ MCInit /\ Count!Init /\ Drop!Init /\ Log!Init

Next ==
    /\ UNCHANGED part
    /\ \/ part = "ports" /\ MCNext /\ UNCHANGED <<count_vars, drop_vars, log_vars>>
       \/ part = "counters" /\ Count!Next /\ UNCHANGED <<portVars, faulty, drop_vars, log_vars>>
       \/ part = "drop" /\ Drop!Next /\ UNCHANGED <<portVars, faulty, count_vars, log_vars>>
       \/ part = "log" /\ Log!Next /\ UNCHANGED <<portVars, faulty, count_vars, drop_vars>>

Spec == Init /\ [][Next]_<<part, portVars, faulty, count_vars, drop_vars, log_vars>>

----------------------------------------------------------------------------
(* The counters of a running job hold only its own packets, although late  *)
(* packets of the job before may arrive while they are cleared.            *)
FreshCounters == part = "counters" => Count!FreshCounters

(* After clear_counters the counters of entries and pool indexes are zero, *)
(* even if the other thread replaced the entries meanwhile.                *)
Cleared == part = "counters" => Count!Cleared

(* A drop probability lasts through the jobs that are started after it.    *)
SettingKept == part = "drop" => Drop!SettingKept

(* The sheet of convert_log.py shows the packets of a log that is not full *)
(* completely, in order and with their fields, wherever the ring began;    *)
(* of a log that has wrapped it shows the most recent packets.             *)
SheetFaithful == part = "log" => Log!SheetFaithful /\ Log!RecentKept
=============================================================================
