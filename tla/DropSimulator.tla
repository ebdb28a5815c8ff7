----------------------------- MODULE DropSimulator -----------------------------
(***************************************************************************)
(* src/py/DropSimulator.py.  The command drop_probability sets the two     *)
(* probabilities, and worker_clear_all calls clear, which sets them to     *)
(* what they are.  Both are the same sequence of reads and writes of the   *)
(* object's attributes around one call to the switch, executed by the      *)
(* command line and by the RPC thread, here one statement at a time.       *)
(*                                                                         *)
(* A probability is a multiple of 1/(2 * 0xffff), so that some of them     *)
(* differ only by less than the table can hold.                            *)
(***************************************************************************)
EXTENDS Integers, Sequences

CONSTANTS Probabilities,   \* arguments of drop_probability
          MaxCommands,     \* commands typed
          Overlap          \* whether the two threads may run at the same time

Threads == {"cli", "rpc"}
Zero == [ingress |-> 0, egress |-> 0]
Pairs == [ingress : Probabilities, egress : Probabilities]

VARIABLES
    todo,     \* todo[t]: the statements thread t still has to execute
    arg,      \* arg[t]: the arguments of set_drop_probabilities
    value,    \* value[t]: the values it computed
    self,     \* the attributes of the object
    table,    \* the entries of all ports: the values, or Zero without entries
    asked,    \* the arguments of the last command
    typed     \* commands typed so far

vars == <<todo, arg, value, self, table, asked, typed>>

(* int(0xffff * probability), for the probability p / (2 * 0xffff). *)
DropValue(p) == p \div 2

Values(p) == [ingress |-> DropValue(p.ingress), egress |-> DropValue(p.egress)]

(* The entries are deleted if both values are zero. *)
Written(v) == IF v.ingress = 0 /\ v.egress = 0 THEN Zero ELSE v

SetSteps == <<"set_ingress", "set_egress", "value_ingress", "value_egress", "write">>

(* Mutant: clear takes the egress probability of its previous call. *)
ClearStepsStale == <<"read_ingress">> \o SetSteps

ClearSteps == <<"read_ingress", "read_egress">> \o SetSteps

At(t, step) == todo[t] # <<>> /\ Head(todo[t]) = step
Done(t) == todo' = [todo EXCEPT ![t] = Tail(@)]

(* do_drop_probability. *)
DropProbability(p) ==
    /\ todo["cli"] = <<>> /\ typed < MaxCommands
    /\ Overlap \/ todo["rpc"] = <<>>
    /\ todo' = [todo EXCEPT !["cli"] = SetSteps]
    /\ arg' = [arg EXCEPT !["cli"] = p]
    /\ asked' = p /\ typed' = typed + 1
    /\ UNCHANGED <<value, self, table>>

(* drop_simulator.clear in worker_clear_all, at the start of a job. *)
Clear ==
    /\ todo["rpc"] = <<>>
    /\ Overlap \/ todo["cli"] = <<>>
    /\ todo' = [todo EXCEPT !["rpc"] = ClearSteps]
    /\ UNCHANGED <<arg, value, self, table, asked, typed>>

ReadAttribute(t, f) ==
    /\ At(t, "read_" \o f) /\ Done(t)
    /\ arg' = [arg EXCEPT ![t][f] = self[f]]
    /\ UNCHANGED <<value, self, table, asked, typed>>

SetAttribute(t, f) ==
    /\ At(t, "set_" \o f) /\ Done(t)
    /\ self' = [self EXCEPT ![f] = arg[t][f]]
    /\ UNCHANGED <<arg, value, table, asked, typed>>

ComputeValue(t, f) ==
    /\ At(t, "value_" \o f) /\ Done(t)
    /\ value' = [value EXCEPT ![t][f] = DropValue(self[f])]
    /\ UNCHANGED <<arg, self, table, asked, typed>>

(* $PORT_METADATA has a record for every port, so adding an entry replaces *)
(* the one before, and deleting all entries makes them zero.               *)
WriteTable(t) ==
    /\ At(t, "write") /\ Done(t)
    /\ table' = Written(value[t])
    /\ UNCHANGED <<arg, value, self, asked, typed>>

Init ==
    /\ todo = [t \in Threads |-> <<>>]
    /\ arg = [t \in Threads |-> Zero] /\ value = [t \in Threads |-> Zero]
    /\ self = Zero /\ table = Zero /\ asked = Zero /\ typed = 0

Next ==
    \/ Clear \/ \E p \in Pairs : DropProbability(p)
    \/ \E t \in Threads :
        \/ WriteTable(t)
        \/ \E f \in {"ingress", "egress"} :
               ReadAttribute(t, f) \/ SetAttribute(t, f) \/ ComputeValue(t, f)

Spec == Init /\ [][Next]_vars

----------------------------------------------------------------------------
Idle == todo = [t \in Threads |-> <<>>]

(* "Get drop probability currently set in drop simulator.": what           *)
(* print_drop_probabilities computes from the attributes is what the       *)
(* switch does, when neither thread is changing it.                        *)
GetTruthful == Idle => table = Values(self)

(* A setting of the operator lasts through the jobs that follow: starting  *)
(* a job clears the simulator, and must leave it as it was set.            *)
SettingKept == Idle => table = Values(asked)
=============================================================================
