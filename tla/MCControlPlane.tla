---------------------------- MODULE MCControlPlane ----------------------------
(* Instances of ControlPlane: hosts, their ports, jobs and command lines.  *)
EXTENDS ControlPlane, TLC

CONSTANTS h1, h2, h3, h4, h5, stranger

MCMgids == {SwitchML}
MCRids == 0..2
MCPorts == {1, 4, 8, 12}
TwoOpcodes == <<"first", "only">>

(* Two hosts on a port, and a port whose number is also a rank. *)
FivePorts == h1 :> 4 @@ h2 :> 8 @@ h3 :> 12 @@ h4 :> 1 @@ h5 :> 8

(* A rank that is taken for a port, and another on a host that is not      *)
(* configured; two ranks as they should be; two ranks on one port, one of  *)
(* them at the host it had in the first job.                               *)
Sizes == <<3, 2, 2>>
Hosts == <<(0 :> h4 @@ 1 :> h2 @@ 2 :> stranger), (0 :> h1 @@ 1 :> h3), (0 :> h5 @@ 1 :> h2)>>

(* What an operator may type, before, while and after the jobs connect and *)
(* run.  The longest command comes with the last job only.                 *)
SomeCommands ==
    {[name |-> "worker_clear_all", from |-> 0], [name |-> "clear", from |-> 0],
     [name |-> "clear_all", from |-> 0], [name |-> "worker_del", from |-> 0],
     [name |-> "set_switch_address", addr |-> "second", from |-> 0],
     [name |-> "worker_file", ports |-> <<8>>, from |-> 3],
     [name |-> "worker_add_udp", rank |-> 2, count |-> 3, host |-> h5, from |-> 0],
     [name |-> "worker_add_udp", rank |-> 2, count |-> 4, host |-> h5, from |-> 0],
     [name |-> "worker_add_roce", rank |-> 2, count |-> 3, host |-> h5, bad |-> FALSE, from |-> 0],
     [name |-> "worker_add_roce", rank |-> 2, count |-> 3, host |-> h1, bad |-> TRUE, from |-> 2]}
=============================================================================
