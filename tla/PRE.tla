---------------------------------- MODULE PRE ----------------------------------
(***************************************************************************)
(* The multicast tables of the switch as the class PRE of src/py/PRE.py    *)
(* keeps them.  A state of the component is a record p:                    *)
(*                                                                         *)
(*   p.mgid[g]      the nodes of multicast group g (table $pre.mgid)       *)
(*   p.node[rid]    the port of node rid, or NoPort (table $pre.node)      *)
(*   p.rids[g][dp]  the dictionary self.rids of the Python object: which   *)
(*                  node was added for dev port dp, or NoRid               *)
(*                                                                         *)
(* mgid and node live on the switch, rids in the controller's memory.      *)
(* Every operator below is one call or one assignment of the code, so a    *)
(* caller's method is a sequence of them and can be cut between any two.   *)
(* A node number and a port number are both plain integers, as in the      *)
(* code, so that one can be mistaken for the other.                        *)
(***************************************************************************)
EXTENDS Integers

CONSTANTS Mgids,     \* the two multicast groups
          Rids,      \* node numbers: worker ranks, and 0x8000 + port
          DevPorts   \* dev ports of the switch

ASSUME PREAssumption == Rids \subseteq Nat /\ DevPorts \subseteq Nat

NoPort == -1
NoRid == -1

PreType == [mgid : [Mgids -> SUBSET Rids],
            node : [Rids -> DevPorts \cup {NoPort}],
            rids : [Mgids -> [DevPorts -> Rids \cup {NoRid}]]]

(* The tables of a switch that has just been started. *)
EmptyPre == [mgid |-> [g \in Mgids |-> {}],
             node |-> [r \in Rids |-> NoPort],
             rids |-> [g \in Mgids |-> [dp \in DevPorts |-> NoRid]]]

(* __init__: the groups are deleted and created empty, the dictionary is   *)
(* new, and the nodes of an earlier controller are left in place.          *)
Setup(p) == [EmptyPre EXCEPT !.node = p.node]

InUse(p, rid) == \E g \in Mgids : rid \in p.mgid[g]

(* The driver's answer to deleting a node: an unknown node is an error.    *)
(* The code does not show whether a node that is still in a group is       *)
(* refused or leaves its groups, so both may happen.                       *)
NodeGone(p, rid) == [p EXCEPT !.node[rid] = NoPort,
                              !.mgid = [g \in Mgids |-> @[g] \ {rid}]]
Erasures(p, rid) == IF InUse(p, rid) THEN {p, NodeGone(p, rid)} ELSE {NodeGone(p, rid)}

----------------------------------------------------------------------------
(* worker_add.                                                             *)

(* The test for a port that was added before: "if rid in self.rids[mgid]". *)
AlreadyAdded(p, g, rid) == rid \in DevPorts /\ p.rids[g][rid] # NoRid

TrackRid(p, g, rid, dp) == [p EXCEPT !.rids[g][dp] = rid]

(* "erase any existing entry"; an error is expected and ignored. *)
EraseNode(p, rid) == Erasures(p, rid)

CanAddNode(p, rid) == p.node[rid] = NoPort
AddNode(p, rid, dp) == [p EXCEPT !.node[rid] = dp]

CanExtendGroup(p, rid) == p.node[rid] # NoPort
ExtendGroup(p, g, rid) == [p EXCEPT !.mgid[g] = @ \cup {rid}]

----------------------------------------------------------------------------
(* worker_clear_all, for each item (dp, rid) of the dictionary; an error   *)
(* of the two switch calls is ignored.                                     *)

Tracked(p, g) == {dp \in DevPorts : p.rids[g][dp] # NoRid}

LeaveGroup(p, g, rid) == [p EXCEPT !.mgid[g] = @ \ {rid}]

DeleteNode(p, rid) == Erasures(p, rid)

(* del self.rids[mgid][dev_port] raises KeyError when it is gone. *)
CanForget(p, g, dp) == p.rids[g][dp] # NoRid
Forget(p, g, dp) == [p EXCEPT !.rids[g][dp] = NoRid]

----------------------------------------------------------------------------
(* The two methods without interruption: the set of pairs of the tables    *)
(* they can leave behind and whether they returned without an exception.   *)

WorkerAdd(p, g, rid, dp) ==
    IF AlreadyAdded(p, g, rid)
    THEN {<<p, TRUE>>}
    ELSE {IF CanAddNode(q, rid) THEN <<ExtendGroup(AddNode(q, rid, dp), g, rid), TRUE>>
                                ELSE <<q, FALSE>>
          : q \in EraseNode(TrackRid(p, g, rid, dp), rid)}

(* worker_del never gets to its last statement: port and lane are not      *)
(* defined there, so it ends with an exception and rids keeps its entry.   *)
WorkerDel(p, g, rid) ==
    IF rid \notin p.mgid[g]
    THEN {<<p, FALSE>>}
    ELSE {<<q, FALSE>> : q \in DeleteNode(LeaveGroup(p, g, rid), rid)}

(* stuck and kept are the nodes that the driver refuses to take out of the *)
(* group and to delete: these errors are logged, and the dictionary        *)
(* forgets the nodes all the same.                                         *)
WorkerClearAll(p, g, stuck, kept) ==
    LET cleared == {p.rids[g][dp] : dp \in Tracked(p, g)}
        left == [p EXCEPT !.mgid[g] = @ \ (cleared \ stuck),
                          !.rids[g] = [dp \in DevPorts |-> NoRid]]
    IN  [left EXCEPT !.node = [r \in Rids |->
            IF r \in cleared \ kept /\ ~ InUse(left, r) THEN NoPort ELSE @[r]]]
=============================================================================
