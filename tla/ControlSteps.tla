----------------------------- MODULE ControlSteps ------------------------------
(***************************************************************************)
(* Lemmas about the calls of handlers, and the proof that every step of    *)
(* ControlPlane but those of a handler preserves the invariant.            *)
(***************************************************************************)
EXTENDS ControlInvariant, TLAPS

USE SMTT(30), ZenonT(20)

----------------------------------------------------------------------------
(* Lists of calls.                                                         *)

(* A sequence is one over the set of its elements. *)
LEMMA OwnElements ==
    ASSUME NEW S, NEW s \in Seq(S) PROVE IsList(s)
<1>1. Len(s) \in Nat /\ s \in [1..Len(s) -> S]
  OBVIOUS
<1>2. \A i \in 1..Len(s) : s[i] \in Todo(s)
  BY DEF Todo
<1>3. s \in [1..Len(s) -> Todo(s)]
  BY <1>1, <1>2
<1>4. s \in Seq(Todo(s))
  BY <1>1, <1>3
<1> QED
  BY <1>4 DEF IsList

(* The empty list, and lists without elements. *)
LEMMA NoCalls ==
    /\ Listed(<<>>) /\ Todo(<<>>) = {}
    /\ \A s : IsList(s) /\ Todo(s) = {} => s = <<>>
<1>1. Todo(<<>>) = {}
  BY DEF Todo
<1>2. Listed(<<>>)
  BY <1>1 DEF Listed, IsList, Ordered
<1>3. ASSUME NEW s, IsList(s), Todo(s) = {} PROVE s = <<>>
  <2>1. s \in Seq({})
    BY <1>3 DEF IsList
  <2> QED
    BY <2>1
<1> QED
  BY <1>1, <1>2, <1>3

(* The first call of a list and the rest. *)
LEMMA FirstAndRest ==
    ASSUME NEW s, Listed(s), s # <<>>
    PROVE  /\ Listed(Tail(s)) /\ Todo(s) = {Head(s)} \cup Todo(Tail(s))
           /\ \A c \in Todo(Tail(s)) : Before(Head(s), c)
<1>1. PICK S : s \in Seq(S) /\ S = Todo(s)
  BY DEF Listed, IsList
<1>2. /\ Len(s) \in Nat \ {0} /\ Tail(s) \in Seq(S) /\ Len(Tail(s)) = Len(s) - 1
      /\ Head(s) = s[1] /\ \A i \in 1..(Len(s) - 1) : Tail(s)[i] = s[i + 1]
  BY <1>1
<1>3. Todo(s) = {Head(s)} \cup Todo(Tail(s))
  <2>1. \A i \in 1..Len(s) : i = 1 \/ (i - 1 \in 1..Len(Tail(s)) /\ s[i] = Tail(s)[i - 1])
    BY <1>2
  <2>2. \A i \in 1..Len(Tail(s)) : i + 1 \in 1..Len(s) /\ Tail(s)[i] = s[i + 1]
    BY <1>2
  <2>3. 1 \in 1..Len(s)
    BY <1>2
  <2> QED
    BY <1>2, <2>1, <2>2, <2>3 DEF Todo
<1>4. IsList(Tail(s))
  BY <1>2, OwnElements, Zenon
<1>5. \A i, j \in 1..Len(s) : i < j => Before(s[i], s[j])
  BY DEF Listed, Ordered
<1>6. Ordered(Tail(s))
  <2>1. ASSUME NEW i \in 1..Len(Tail(s)), NEW j \in 1..Len(Tail(s)), i < j
        PROVE  Before(Tail(s)[i], Tail(s)[j])
    <3>1. i + 1 \in 1..Len(s) /\ j + 1 \in 1..Len(s) /\ i + 1 < j + 1
      BY <1>2, <2>1
    <3>2. Before(s[i + 1], s[j + 1])
      BY <3>1, <1>5
    <3> QED
      BY <3>2, <1>2
  <2> QED
    BY <2>1 DEF Ordered
<1>7. ASSUME NEW c \in Todo(Tail(s)) PROVE Before(Head(s), c)
  <2>1. PICK i \in 1..Len(Tail(s)) : c = Tail(s)[i]
    BY DEF Todo
  <2>2. 1 \in 1..Len(s) /\ i + 1 \in 1..Len(s) /\ 1 < i + 1 /\ c = s[i + 1]
    BY <1>2, <2>1
  <2> QED
    BY <2>2, <1>5, <1>2
<1> QED
  BY <1>3, <1>4, <1>6, <1>7 DEF Listed

(* Two lists, one after the other. *)
LEMMA Joined ==
    ASSUME NEW s, NEW u, Listed(s), Listed(u),
           \A c \in Todo(s), d \in Todo(u) : Before(c, d)
    PROVE  Listed(s \o u) /\ Todo(s \o u) = Todo(s) \cup Todo(u)
<1>1. PICK S : s \in Seq(S) /\ u \in Seq(S)
  <2>1. s \in Seq(Todo(s) \cup Todo(u))
    BY DEF Listed, IsList
  <2>2. u \in Seq(Todo(s) \cup Todo(u))
    BY DEF Listed, IsList
  <2> QED
    BY <2>1, <2>2
<1>2. /\ Len(s) \in Nat /\ Len(u) \in Nat /\ s \o u \in Seq(S)
      /\ Len(s \o u) = Len(s) + Len(u)
      /\ \A i \in 1..(Len(s) + Len(u)) :
            (s \o u)[i] = IF i <= Len(s) THEN s[i] ELSE u[i - Len(s)]
  BY <1>1
<1>3. Todo(s \o u) = Todo(s) \cup Todo(u)
  <2>1. \A i \in 1..Len(s \o u) :
           \/ i \in 1..Len(s) /\ (s \o u)[i] = s[i]
           \/ i - Len(s) \in 1..Len(u) /\ (s \o u)[i] = u[i - Len(s)]
    BY <1>2
  <2>2. \A i \in 1..Len(s) : i \in 1..Len(s \o u) /\ (s \o u)[i] = s[i]
    BY <1>2
  <2>3. \A i \in 1..Len(u) : i + Len(s) \in 1..Len(s \o u) /\ (s \o u)[i + Len(s)] = u[i]
    BY <1>2
  <2>4. Todo(s \o u) \subseteq Todo(s) \cup Todo(u)
    BY <2>1 DEF Todo
  <2>5. Todo(s) \subseteq Todo(s \o u)
    BY <2>2 DEF Todo
  <2>6. Todo(u) \subseteq Todo(s \o u)
    BY <2>3 DEF Todo
  <2> QED
    BY <2>4, <2>5, <2>6
<1>4. IsList(s \o u)
  BY <1>2, OwnElements, Zenon
<1>5. ASSUME NEW i \in 1..Len(s \o u), NEW j \in 1..Len(s \o u), i < j
      PROVE  Before((s \o u)[i], (s \o u)[j])
  <2>1. CASE j <= Len(s)
    <3>1. i \in 1..Len(s) /\ j \in 1..Len(s) /\ (s \o u)[i] = s[i] /\ (s \o u)[j] = s[j]
      BY <1>2, <2>1, <1>5
    <3> QED
      BY <3>1, <1>5 DEF Listed, Ordered
  <2>2. CASE i <= Len(s) /\ ~ (j <= Len(s))
    <3>1. /\ i \in 1..Len(s) /\ j - Len(s) \in 1..Len(u)
          /\ (s \o u)[i] = s[i] /\ (s \o u)[j] = u[j - Len(s)]
      BY <1>2, <2>2
    <3>2. s[i] \in Todo(s) /\ u[j - Len(s)] \in Todo(u)
      BY <3>1 DEF Todo
    <3> QED
      BY <3>1, <3>2
  <2>3. CASE ~ (i <= Len(s)) /\ ~ (j <= Len(s))
    <3>1. /\ i - Len(s) \in 1..Len(u) /\ j - Len(s) \in 1..Len(u) /\ i - Len(s) < j - Len(s)
          /\ (s \o u)[i] = u[i - Len(s)] /\ (s \o u)[j] = u[j - Len(s)]
      BY <1>2, <2>3, <1>5
    <3> QED
      BY <3>1 DEF Listed, Ordered
  <2>4. (i <= Len(s) \/ ~ (i <= Len(s))) /\ (j <= Len(s) => i <= Len(s))
    BY <1>2, <1>5
  <2> QED
    BY <2>1, <2>2, <2>3, <2>4
<1> QED
  BY <1>3, <1>4, <1>5 DEF Listed, Ordered

(* A list of one call, or of two in order. *)
LEMMA Single ==
    ASSUME NEW c PROVE Listed(<<c>>) /\ Todo(<<c>>) = {c}
<1>1. Len(<<c>>) = 1 /\ <<c>>[1] = c
  OBVIOUS
<1>2. Todo(<<c>>) = {c}
  <2>1. \A i \in 1..Len(<<c>>) : i = 1
    BY <1>1
  <2>2. 1 \in 1..Len(<<c>>)
    BY <1>1
  <2> QED
    BY <1>1, <2>1, <2>2 DEF Todo
<1>3. IsList(<<c>>)
  BY <1>2 DEF IsList
<1>4. \A i, j \in 1..Len(<<c>>) : ~ (i < j)
  BY <1>1
<1> QED
  BY <1>2, <1>3, <1>4 DEF Listed, Ordered

(* The list [i \in 1..n |-> f[i]] of calls that may come in any order. *)
LEMMA Tabled ==
    ASSUME NEW n \in Nat, NEW s, s = [i \in 1..n |-> s[i]],
           \A i, j \in 1..n : i < j => Before(s[i], s[j])
    PROVE  Listed(s) /\ Todo(s) = {s[i] : i \in 1..n}
<1>1. s \in [1..n -> {s[i] : i \in 1..n}]
  OBVIOUS
<1>2. s \in Seq({s[i] : i \in 1..n}) /\ Len(s) = n
  BY <1>1
<1> QED
  BY <1>2 DEF Listed, IsList, Ordered, Todo

(* A list of two calls. *)
LEMMA Pair ==
    ASSUME NEW a, NEW b, Before(a, b)
    PROVE  Listed(<<a, b>>) /\ Todo(<<a, b>>) = {a, b}
<1>1. PICK s : s = <<a, b>>
  BY Zenon
<1>2. s = [i \in 1..2 |-> s[i]] /\ s[1] = a /\ s[2] = b
  BY <1>1
<1>3. ASSUME NEW i \in 1..2, NEW j \in 1..2, i < j PROVE Before(s[i], s[j])
  <2>1. i = 1 /\ j = 2
    BY <1>3
  <2> QED
    BY <2>1, <1>2
<1>4. Listed(s) /\ Todo(s) = {s[i] : i \in 1..2}
  BY <1>2, <1>3, Tabled, Zenon
<1>5. \A i \in 1..2 : i = 1 \/ i = 2
  OBVIOUS
<1>6. {s[i] : i \in 1..2} = {a, b}
  BY <1>2, <1>5
<1> QED
  BY <1>1, <1>4, <1>6

(* A list of three calls. *)
LEMMA Triple ==
    ASSUME NEW a, NEW b, NEW c, Before(a, b), Before(a, c), Before(b, c)
    PROVE  Listed(<<a, b, c>>) /\ Todo(<<a, b, c>>) = {a, b, c}
<1>1. PICK s : s = <<a, b, c>>
  BY Zenon
<1>2. s = [i \in 1..3 |-> s[i]] /\ s[1] = a /\ s[2] = b /\ s[3] = c
  BY <1>1
<1>3. ASSUME NEW i \in 1..3, NEW j \in 1..3, i < j PROVE Before(s[i], s[j])
  <2>1. (i = 1 /\ j = 2) \/ (i = 1 /\ j = 3) \/ (i = 2 /\ j = 3)
    BY <1>3
  <2> QED
    BY <2>1, <1>2
<1>4. Listed(s) /\ Todo(s) = {s[i] : i \in 1..3}
  BY <1>2, <1>3, Tabled, Zenon
<1>5. \A i \in 1..3 : i = 1 \/ i = 2 \/ i = 3
  OBVIOUS
<1>6. {s[i] : i \in 1..3} = {a, b, c}
  BY <1>2, <1>5
<1> QED
  BY <1>1, <1>4, <1>6

(* A list of four calls. *)
LEMMA Quad ==
    ASSUME NEW a, NEW b, NEW c, NEW d, Before(a, b), Before(a, c), Before(a, d),
           Before(b, c), Before(b, d), Before(c, d)
    PROVE  Listed(<<a, b, c, d>>) /\ Todo(<<a, b, c, d>>) = {a, b, c, d}
<1>1. PICK s : s = <<a, b, c, d>>
  BY Zenon
<1>2. s = [i \in 1..4 |-> s[i]] /\ s[1] = a /\ s[2] = b /\ s[3] = c /\ s[4] = d
  BY <1>1
<1>3. \A i \in 1..4 : i = 1 \/ i = 2 \/ i = 3 \/ i = 4
  OBVIOUS
<1>4. \A i, j \in 1..4 : i < j => Before(s[i], s[j])
  BY <1>2, <1>3
<1>5. Listed(s) /\ Todo(s) = {s[i] : i \in 1..4}
  BY <1>2, <1>4, Tabled, Zenon
<1>6. {s[i] : i \in 1..4} = {a, b, c, d}
  BY <1>2, <1>3
<1> QED
  BY <1>1, <1>5, <1>6

NewCalls(t, T) == /\ CallsShape' /\ Todo(calls'[t]) = T
                  /\ \A o \in Threads \ {t} : calls'[o] = calls[o]

(* Replacing the list of a thread. *)
LEMMA NewList ==
    ASSUME CallsShape, NEW t \in Threads, NEW s, Listed(s), calls' = [calls EXCEPT ![t] = s]
    PROVE  NewCalls(t, Todo(s))
<1>1. calls' = [x \in Threads |-> IF x = t THEN s ELSE calls[x]]
  BY DEF CallsShape, IsFunction
<1>2. calls'[t] = s /\ \A o \in Threads \ {t} : calls'[o] = calls[o]
  BY <1>1
<1>3. IsFunction(calls, Threads)'
  BY <1>1, Zenon DEF IsFunction
<1>4. (\A x \in Threads : Listed(calls[x]))'
  BY <1>2 DEF CallsShape
<1> QED
  BY <1>2, <1>3, <1>4 DEF NewCalls, CallsShape

----------------------------------------------------------------------------
(* The lists of calls that handlers begin with.                            *)

LEMMA CallFields ==
    \A f, e : /\ AddCall(f, e).op = "add" /\ AddCall(f, e).table = f /\ AddCall(f, e).entry = e
              /\ ClearCall(f).op = "clear" /\ ClearCall(f).table = f
              /\ RegisterCall(f).op = "clear_register" /\ RegisterCall(f).register = f
  BY DEF AddCall, ClearCall, RegisterCall

ClearSet == {ClearCall(f) : f \in Tables} \cup {RegisterCall(x) : x \in Registers}
            \cup {Call("pre.worker_clear_all")}
AddSet(r, h, bad) ==
    {[op |-> "rdma_receiver.add_entry", rid |-> r, host |-> h],
     [op |-> "worker_port_get", rid |-> r, host |-> h],
     AddCall("create_roce_packet", [rid |-> r, host |-> h]),
     [op |-> "log2_packets_per_message", bad |-> bad]}
    \cup {AddCall("fill_in_qpn_and_psn", [rid |-> r, queue |-> q - 1]) : q \in 1..Queues}

LEMMA RegisterCallsList ==
    Listed(RegisterCalls) /\ Todo(RegisterCalls) = {RegisterCall(x) : x \in Registers}
<1>1. \A x : RegisterCall(x).op = "clear_register"
  BY DEF RegisterCall
<1>2. \A x, y : Before(RegisterCall(x), RegisterCall(y))
  BY <1>1 DEF Before, Stage, IsAdd, Begun, AddOps, ClearOps
<1>3. PICK a, b, c, d :
          /\ a = RegisterCall("worker_bitmap") /\ b = RegisterCall("worker_count")
          /\ c = RegisterCall("exponents") /\ d = RegisterCall("significands")
  BY Zenon
<1>4. RegisterCalls = <<a, b, c, d>>
  BY <1>3 DEF RegisterCalls, RegisterCall
<1>5. {RegisterCall(x) : x \in Registers} = {a, b, c, d}
  BY <1>3 DEF Registers
<1> QED
  BY <1>2, <1>3, <1>4, <1>5, Quad

LEMMA ClearSenderList ==
    /\ Listed(ClearSender)
    /\ Todo(ClearSender) = {ClearCall("create_roce_packet"), ClearCall("fill_in_qpn_and_psn")}
<1>1. Before(ClearCall("create_roce_packet"), ClearCall("fill_in_qpn_and_psn"))
  BY CallFields DEF Before, Stage, IsAdd, Begun, AddOps, ClearOps
<1> QED
  BY <1>1, Pair DEF ClearSender

LEMMA ClearWorkersList ==
    Listed(ClearWorkers) /\ Todo(ClearWorkers) = ClearSet
<1>1. PICK a, b, c, d :
          /\ a = ClearCall("get_worker_bitmap") /\ b = ClearCall("receive_roce")
          /\ c = Call("pre.worker_clear_all") /\ d = ClearCall("set_dst_addr")
  BY Zenon
<1>2. PICK s1, s2, s3, s4 : s1 = <<a, b>> /\ s2 = RegisterCalls /\ s3 = <<c, d>> /\ s4 = ClearSender
  BY Zenon
<1>3. /\ a.op = "clear" /\ a.table = "get_worker_bitmap" /\ b.op = "clear" /\ b.table = "receive_roce"
      /\ c.op = "pre.worker_clear_all" /\ d.op = "clear" /\ d.table = "set_dst_addr"
  BY <1>1, CallFields DEF Call
<1>4. Before(a, b) /\ Before(c, d)
  BY <1>3 DEF Before, Stage, IsAdd, Begun, AddOps, ClearOps
<1>5. Listed(s1) /\ Todo(s1) = {a, b} /\ Listed(s3) /\ Todo(s3) = {c, d}
  BY <1>2, <1>4, Pair
<1>6. Listed(s2) /\ Todo(s2) = {RegisterCall(x) : x \in Registers}
  BY <1>2, RegisterCallsList
<1>7. /\ Listed(s4)
      /\ Todo(s4) = {ClearCall("create_roce_packet"), ClearCall("fill_in_qpn_and_psn")}
  BY <1>2, ClearSenderList
<1>8. \A x \in Todo(s1) : Stage(x) = 1 /\ ~ IsAdd(x) /\ x.op # "load_worker"
  BY <1>3, <1>5 DEF Stage, IsAdd, AddOps
<1>9. \A x \in Todo(s2) : Stage(x) = 2 /\ ~ IsAdd(x) /\ x.op = "clear_register"
  <2>1. \A x : RegisterCall(x).op = "clear_register"
    BY DEF RegisterCall
  <2>2. \A x \in Todo(s2) : x.op = "clear_register"
    BY <1>6, <2>1
  <2> QED
    BY <2>2 DEF Stage, IsAdd, AddOps
<1>10. \A x \in Todo(s3) : Stage(x) = 3 /\ ~ IsAdd(x) /\ x.op \in {"clear", "pre.worker_clear_all"}
  BY <1>3, <1>5 DEF Stage, IsAdd, AddOps, ClearOps
<1>11. \A x \in Todo(s4) : Stage(x) = 3 /\ x.op = "clear"
  BY <1>7, CallFields DEF Stage, ClearOps
<1>12. \A x, y : (/\ Stage(x) \in 1..3 /\ Stage(y) \in 1..3 /\ Stage(x) <= Stage(y)
                  /\ ~ IsAdd(x) /\ x.op # "load_worker"
                  /\ y.op \in {"clear_register", "clear", "pre.worker_clear_all"}) => Before(x, y)
  BY DEF Before, Begun, AddOps, ClearOps
<1>13. Listed(s1 \o s2) /\ Todo(s1 \o s2) = Todo(s1) \cup Todo(s2)
  <2>1. \A x \in Todo(s1), y \in Todo(s2) : Before(x, y)
    BY <1>8, <1>9, <1>12
  <2> QED
    BY <1>5, <1>6, <2>1, Joined
<1>14. PICK s12 : s12 = s1 \o s2
  BY Zenon
<1>15. Listed(s12 \o s3) /\ Todo(s12 \o s3) = Todo(s12) \cup Todo(s3)
  <2>1. \A x \in Todo(s12), y \in Todo(s3) : Before(x, y)
    BY <1>8, <1>9, <1>10, <1>12, <1>13, <1>14
  <2> QED
    BY <1>5, <1>13, <1>14, <2>1, Joined
<1>16. PICK s123 : s123 = s12 \o s3
  BY Zenon
<1>17. Listed(s123 \o s4) /\ Todo(s123 \o s4) = Todo(s123) \cup Todo(s4)
  <2>1. \A x \in Todo(s123) : x \in Todo(s1) \/ x \in Todo(s2) \/ x \in Todo(s3)
    BY <1>13, <1>14, <1>15, <1>16
  <2>2. \A x \in Todo(s123), y \in Todo(s4) : Before(x, y)
    BY <1>8, <1>9, <1>10, <1>11, <1>12, <2>1
  <2> QED
    BY <1>7, <1>15, <1>16, <2>2, Joined
<1>18. ClearWorkers = s123 \o s4
  BY <1>1, <1>2, <1>14, <1>16 DEF ClearWorkers
<1>19. Todo(ClearWorkers) = ClearSet
  <2>1. {ClearCall(f) : f \in Tables} =
            {a, b, d, ClearCall("create_roce_packet"), ClearCall("fill_in_qpn_and_psn")}
    BY <1>1 DEF Tables
  <2>2. Todo(ClearWorkers) = {a, b} \cup {RegisterCall(x) : x \in Registers} \cup {c, d}
           \cup {ClearCall("create_roce_packet"), ClearCall("fill_in_qpn_and_psn")}
    BY <1>5, <1>6, <1>7, <1>13, <1>14, <1>15, <1>16, <1>17, <1>18
  <2> QED
    BY <1>1, <2>1, <2>2 DEF ClearSet
<1> QED
  BY <1>17, <1>18, <1>19

LEMMA ClearTablesList ==
    /\ Listed(ClearTables)
    /\ \A c \in Todo(ClearTables) :
          (c.op = "clear" /\ c.table \in Tables) \/ c.op = "reset_switch_mac_and_ip"
<1>1. PICK a, b, c, d :
          /\ a = ClearCall("get_worker_bitmap") /\ b = ClearCall("receive_roce")
          /\ c = ClearCall("set_dst_addr") /\ d = Call("reset_switch_mac_and_ip")
  BY Zenon
<1>2. PICK s1, s2 : s1 = <<a, b, c, d>> /\ s2 = ClearSender
  BY Zenon
<1>3. /\ a.op = "clear" /\ a.table = "get_worker_bitmap" /\ b.op = "clear" /\ b.table = "receive_roce"
      /\ c.op = "clear" /\ c.table = "set_dst_addr" /\ d.op = "reset_switch_mac_and_ip"
  BY <1>1, CallFields DEF Call
<1>4. Stage(a) = 1 /\ Stage(b) = 1 /\ Stage(c) = 3 /\ Stage(d) = 3
  BY <1>3 DEF Stage, ClearOps
<1>5. \A x, y : (/\ Stage(x) \in 1..3 /\ Stage(y) \in 1..3 /\ Stage(x) <= Stage(y)
                 /\ x.op \in {"clear", "reset_switch_mac_and_ip"}
                 /\ y.op \in {"clear", "reset_switch_mac_and_ip"}) => Before(x, y)
  BY DEF Before, Begun, AddOps, ClearOps, IsAdd
<1>6. Listed(s1) /\ Todo(s1) = {a, b, c, d}
  BY <1>2, <1>3, <1>4, <1>5, Quad
<1>7. /\ Listed(s2)
      /\ Todo(s2) = {ClearCall("create_roce_packet"), ClearCall("fill_in_qpn_and_psn")}
  BY <1>2, ClearSenderList
<1>8. \A x \in Todo(s2) : Stage(x) = 3 /\ x.op = "clear" /\ x.table \in Tables
  BY <1>7, CallFields DEF Stage, ClearOps, Tables
<1>9. \A x \in Todo(s1), y \in Todo(s2) : Before(x, y)
  BY <1>3, <1>4, <1>5, <1>6, <1>8
<1>10. Listed(s1 \o s2) /\ Todo(s1 \o s2) = Todo(s1) \cup Todo(s2)
  BY <1>6, <1>7, <1>9, Joined
<1>11. ClearTables = s1 \o s2
  BY <1>1, <1>2 DEF ClearTables
<1> QED
  BY <1>3, <1>6, <1>8, <1>10, <1>11 DEF Tables

LEMMA AddRoceList ==
    ASSUME NEW r, NEW count, NEW h, NEW bad
    PROVE  /\ Listed(AddRoce(r, count, h, bad))
           /\ Todo(AddRoce(r, count, h, bad)) \subseteq AddSet(r, h, bad)
           /\ ~ (count > MaxWorkers) => Todo(AddRoce(r, count, h, bad)) = AddSet(r, h, bad)
<1>1. PICK a, b, c, d :
          /\ a = [op |-> "rdma_receiver.add_entry", rid |-> r, host |-> h]
          /\ b = [op |-> "worker_port_get", rid |-> r, host |-> h]
          /\ c = AddCall("create_roce_packet", [rid |-> r, host |-> h])
          /\ d = [op |-> "log2_packets_per_message", bad |-> bad]
  BY Zenon
<1>2. PICK s1, s2, s3 :
          /\ s1 = <<a, b>> /\ s2 = <<c, d>>
          /\ s3 = [q \in 1..Queues |-> AddCall("fill_in_qpn_and_psn", [rid |-> r, queue |-> q - 1])]
  BY Zenon
<1>3. /\ a.op = "rdma_receiver.add_entry" /\ b.op = "worker_port_get" /\ c.op = "add"
      /\ d.op = "log2_packets_per_message"
  BY <1>1, CallFields
<1>4. Before(a, b) /\ Before(c, d)
  BY <1>3 DEF Before, Stage, IsAdd, Begun, AddOps, ClearOps
<1>5. Listed(s1) /\ Todo(s1) = {a, b} /\ Listed(s2) /\ Todo(s2) = {c, d}
  BY <1>2, <1>4, Pair
<1>6. Queues \in Nat
  BY ControlAssumption
<1>7. \A x, y : (/\ x.op \in {"add", "worker_port_get", "rdma_receiver.add_entry", "log2_packets_per_message"}
                 /\ y.op \in {"add", "log2_packets_per_message"}) => Before(x, y)
  BY DEF Before, Stage, IsAdd, Begun, AddOps, ClearOps
<1>8. \A q \in 1..Queues : s3[q].op = "add"
  <2>1. ASSUME NEW q \in 1..Queues PROVE s3[q].op = "add"
    <3>1. PICK e : s3[q] = AddCall("fill_in_qpn_and_psn", e)
      BY <1>2
    <3> QED
      BY <3>1, CallFields
  <2> QED
    BY <2>1
<1>9. Listed(s3) /\ Todo(s3) = {s3[q] : q \in 1..Queues}
  <2>1. s3 = [q \in 1..Queues |-> s3[q]]
    BY <1>2
  <2>2. \A i, j \in 1..Queues : i < j => Before(s3[i], s3[j])
    BY <1>7, <1>8
  <2> QED
    BY <1>6, <2>1, <2>2, Tabled
<1>10. Listed(s2 \o s3) /\ Todo(s2 \o s3) = Todo(s2) \cup Todo(s3)
  <2>1. \A x \in Todo(s2), y \in Todo(s3) : Before(x, y)
    BY <1>3, <1>5, <1>7, <1>8, <1>9
  <2> QED
    BY <1>5, <1>9, <2>1, Joined
<1>11. PICK s23 : s23 = s2 \o s3
  BY Zenon
<1>12. Listed(s1 \o s23) /\ Todo(s1 \o s23) = Todo(s1) \cup Todo(s23)
  <2>1. \A x \in Todo(s1), y \in Todo(s23) : Before(x, y)
    BY <1>3, <1>5, <1>7, <1>8, <1>9, <1>10, <1>11
  <2> QED
    BY <1>5, <1>10, <1>11, <2>1, Joined
<1>13. Todo(s1 \o s23) = AddSet(r, h, bad)
  <2>1. Todo(s3) = {AddCall("fill_in_qpn_and_psn", [rid |-> r, queue |-> q - 1]) : q \in 1..Queues}
    BY <1>2, <1>9, Zenon
  <2>2. Todo(s1 \o s23) = {a, b, c, d} \cup Todo(s3)
    BY <1>5, <1>10, <1>11, <1>12
  <2> QED
    BY <1>1, <2>1, <2>2 DEF AddSet
<1>14. AddRoce(r, count, h, bad) = IF count > MaxWorkers THEN <<>> ELSE s1 \o s23
  BY <1>1, <1>2, <1>11 DEF AddRoce, SenderCalls
<1> QED
  BY <1>12, <1>13, <1>14, NoCalls

(* The calls that add a UDP worker, as a list. *)
LEMMA AddUdpList ==
    ASSUME NEW r, NEW count, NEW h, NEW ip
    PROVE  LET s == AddUdp(r, count, h, ip) IN
           /\ Listed(s)
           /\ \A c \in Todo(s) :
                 \/ c.op = "add" /\ c.table \in {"get_worker_bitmap", "set_dst_addr"}
                 \/ c = [op |-> "worker_port_get", rid |-> r, host |-> h]
<1>1. PICK a : a = AddCall("get_worker_bitmap", [rid |-> r, host |-> h, ip |-> ip])
  BY Zenon
<1>2. PICK b : b = [op |-> "worker_port_get", rid |-> r, host |-> h]
  BY Zenon
<1>3. PICK c : c = AddCall("set_dst_addr", [rid |-> r, host |-> h])
  BY Zenon
<1>4. a.op = "add" /\ a.table = "get_worker_bitmap" /\ c.op = "add" /\ c.table = "set_dst_addr"
  BY <1>1, <1>3, CallFields
<1>5. b.op = "worker_port_get"
  BY <1>2
<1>6. Before(a, b) /\ Before(a, c) /\ Before(b, c)
  BY <1>4, <1>5 DEF Before, Stage, IsAdd, Begun, AddOps, ClearOps
<1>7. Listed(<<a, b, c>>) /\ Todo(<<a, b, c>>) = {a, b, c}
  BY <1>6, Triple
<1>8. AddUdp(r, count, h, ip) = <<>> \/ AddUdp(r, count, h, ip) = <<a, b, c>>
  BY <1>1, <1>2, <1>3 DEF AddUdp
<1> QED
  BY <1>2, <1>4, <1>7, <1>8, NoCalls

LEMMA ClearSetOps ==
    \A c \in ClearSet :
        \/ c.op = "clear" /\ c.table \in Tables
        \/ c.op = "clear_register" /\ c.register \in Registers
        \/ c.op = "pre.worker_clear_all"
<1>1. \A x : RegisterCall(x).op = "clear_register" /\ RegisterCall(x).register = x
  BY DEF RegisterCall
<1>2. Call("pre.worker_clear_all").op = "pre.worker_clear_all"
  BY DEF Call
<1> QED
  BY <1>1, <1>2, CallFields DEF ClearSet

LEMMA AddSetOps ==
    ASSUME NEW r, NEW h, NEW bad
    PROVE  \A c \in AddSet(r, h, bad) :
               /\ Stage(c) = 4
               /\ \/ c.op = "rdma_receiver.add_entry" /\ c.rid = r /\ c.host = h
                  \/ c.op = "worker_port_get" /\ c.rid = r /\ c.host = h
                  \/ c.op = "add" /\ c.table \in {"create_roce_packet", "fill_in_qpn_and_psn"}
                  \/ c.op = "log2_packets_per_message" /\ c.bad = bad
<1> SUFFICES ASSUME NEW c \in AddSet(r, h, bad)
             PROVE  /\ Stage(c) = 4
                    /\ \/ c.op = "rdma_receiver.add_entry" /\ c.rid = r /\ c.host = h
                       \/ c.op = "worker_port_get" /\ c.rid = r /\ c.host = h
                       \/ c.op = "add" /\ c.table \in {"create_roce_packet", "fill_in_qpn_and_psn"}
                       \/ c.op = "log2_packets_per_message" /\ c.bad = bad
  OBVIOUS
<1>1. \/ c = [op |-> "rdma_receiver.add_entry", rid |-> r, host |-> h]
      \/ c = [op |-> "worker_port_get", rid |-> r, host |-> h]
      \/ \E e : c = AddCall("create_roce_packet", e) \/ c = AddCall("fill_in_qpn_and_psn", e)
      \/ c = [op |-> "log2_packets_per_message", bad |-> bad]
  BY Zenon DEF AddSet
<1>2. (\E e : c = AddCall("create_roce_packet", e) \/ c = AddCall("fill_in_qpn_and_psn", e)) =>
          c.op = "add" /\ c.table \in {"create_roce_packet", "fill_in_qpn_and_psn"}
  BY CallFields
<1>3. \/ c.op = "rdma_receiver.add_entry" /\ c.rid = r /\ c.host = h
      \/ c.op = "worker_port_get" /\ c.rid = r /\ c.host = h
      \/ c.op = "add" /\ c.table \in {"create_roce_packet", "fill_in_qpn_and_psn"}
      \/ c.op = "log2_packets_per_message" /\ c.bad = bad
  BY <1>1, <1>2
<1> QED
  BY <1>3 DEF Stage, ClearOps

(* A method that has not begun has no place in the dictionary yet. *)
LEMMA FreshPlaces ==
    ASSUME NEW T, \A c \in T : c.op \notin Begun, NEW items, NEW group
    PROVE  PlacesOK(T, items, group)
<1>1. ASSUME NEW c \in T PROVE PlaceOK(c, items, group)
  BY DEF PlaceOK, Begun, AddOps, ClearOps
<1> QED
  BY <1>1 DEF PlacesOK

LEMMA ClearSetOK ==
    \A c \in ClearSet : CallOK(c) /\ c.op \notin Begun
  BY ClearSetOps DEF CallOK, AddOps, Begun, ClearOps

LEMMA AddSetOK ==
    ASSUME NEW r \in Nat, NEW h, NEW bad
    PROVE  \A c \in AddSet(r, h, bad) : CallOK(c) /\ c.op \notin Begun
<1> SUFFICES ASSUME NEW c \in AddSet(r, h, bad) PROVE CallOK(c) /\ c.op \notin Begun
  OBVIOUS
<1>1. CASE c.op = "worker_port_get" /\ c.rid = r /\ c.host = h
  BY <1>1 DEF CallOK, AddOps, Begun, ClearOps
<1>2. CASE \/ c.op \in {"rdma_receiver.add_entry", "log2_packets_per_message"}
           \/ c.op = "add" /\ c.table \in {"create_roce_packet", "fill_in_qpn_and_psn"}
  BY <1>2 DEF CallOK, AddOps, Tables, Begun, ClearOps
<1> QED
  BY <1>1, <1>2, AddSetOps

(* Clearing, and then adding. *)
LEMMA ClearedThenAdded ==
    ASSUME NEW s, Listed(s), \A d \in Todo(s) : Stage(d) = 4 /\ d.op \notin Begun
    PROVE  /\ Listed(ClearWorkers \o s) /\ Todo(ClearWorkers \o s) = ClearSet \cup Todo(s)
           /\ Clearing(ClearSet \cup Todo(s))
<1>1. ASSUME NEW c \in ClearSet, NEW d, Stage(d) = 4, d.op \notin Begun PROVE Before(c, d)
  <2>1. Stage(c) \in 1..3 /\ ~ IsAdd(c) /\ c.op # "load_worker"
    BY ClearSetOps DEF Stage, IsAdd, AddOps, ClearOps
  <2> QED
    BY <1>1, <2>1 DEF Before
<1>2. Call("pre.worker_clear_all") \in ClearSet /\ Call("pre.worker_clear_all").op \in ClearOps
  BY DEF ClearSet, Call, ClearOps
<1>3. \A c \in Todo(ClearWorkers), d \in Todo(s) : Before(c, d)
  BY <1>1, ClearWorkersList
<1> QED
  BY <1>2, <1>3, Joined, ClearWorkersList DEF Clearing

(* The handler of a command. *)
LEMMA CommandHandler ==
    ASSUME NEW c \in Commands
    PROVE  Listed(Handler(c)) /\ \A d \in Todo(Handler(c)) : CallOK(d) /\ d.op \notin Begun
<1>1. c.name \in CommandNames
  BY ControlAssumption
<1>2. CASE c.name = "worker_clear_all"
  <2>1. Handler(c) = ClearWorkers
    BY <1>2 DEF Handler
  <2> QED
    BY <2>1, ClearWorkersList, ClearSetOK
<1>3. CASE c.name = "clear"
  <2>1. Handler(c) = RegisterCalls
    BY <1>3 DEF Handler
  <2>2. \A d \in Todo(RegisterCalls) : d \in ClearSet
    BY RegisterCallsList DEF ClearSet
  <2> QED
    BY <2>1, <2>2, RegisterCallsList, ClearSetOK
<1>4. CASE c.name = "clear_all"
  <2>1. Handler(c) = ClearTables
    BY <1>4 DEF Handler
  <2>2. ASSUME NEW d, (d.op = "clear" /\ d.table \in Tables) \/ d.op = "reset_switch_mac_and_ip"
        PROVE  CallOK(d) /\ d.op \notin Begun
    BY <2>2 DEF CallOK, AddOps, Begun, ClearOps
  <2> QED
    BY <2>1, <2>2, ClearTablesList
<1>5. ASSUME c.name \in {"worker_add_roce", "worker_add_udp"} PROVE c.rank \in Nat
  BY <1>5, ControlAssumption, PREAssumption, Zenon
<1>6. CASE c.name = "worker_add_roce"
  <2>1. Handler(c) = AddRoce(c.rank, c.count, c.host, c.bad)
    BY <1>6 DEF Handler
  <2>2. PICK T : T = Todo(Handler(c))
    BY Zenon
  <2>3. Listed(Handler(c)) /\ T \subseteq AddSet(c.rank, c.host, c.bad)
    BY <2>1, <2>2, AddRoceList
  <2>4. \A d \in AddSet(c.rank, c.host, c.bad) : CallOK(d) /\ d.op \notin Begun
    BY <1>5, <1>6, AddSetOK
  <2> QED
    BY <2>2, <2>3, <2>4
<1>7. CASE c.name = "worker_add_udp"
  <2>1. Handler(c) = AddUdp(c.rank, c.count, c.host, TRUE)
    BY <1>7 DEF Handler
  <2>2. PICK T : T = Todo(Handler(c))
    BY Zenon
  <2>3. /\ Listed(Handler(c))
        /\ \A d \in T : \/ d.op = "add" /\ d.table \in {"get_worker_bitmap", "set_dst_addr"}
                        \/ d = [op |-> "worker_port_get", rid |-> c.rank, host |-> c.host]
    BY <2>1, <2>2, AddUdpList, Zenon
  <2>4. ASSUME NEW d, d.op = "add", d.table \in {"get_worker_bitmap", "set_dst_addr"}
        PROVE  CallOK(d) /\ d.op \notin Begun
    BY <2>4 DEF CallOK, AddOps, Tables, Begun, ClearOps
  <2>5. ASSUME NEW d, d.op = "worker_port_get", d.rid = c.rank
        PROVE  CallOK(d) /\ d.op \notin Begun
    BY <1>5, <1>7, <2>5 DEF CallOK, AddOps, Begun, ClearOps
  <2> QED
    BY <2>2, <2>3, <2>4, <2>5
<1>8. CASE c.name = "worker_file"
  <2>1. PICK g : g = LoadFrom(c.ports, 1)
    BY Zenon
  <2>2. Handler(c) = ClearWorkers \o <<g>>
    BY <1>8, <2>1 DEF Handler
  <2>3. g.op = "load_worker" /\ g.next = 1
    BY <2>1 DEF LoadFrom
  <2>4. Listed(<<g>>) /\ Todo(<<g>>) = {g} /\ Stage(g) = 4 /\ g.op \notin Begun
    BY <2>3, Single DEF Stage, Begun, AddOps, ClearOps
  <2>5. Listed(Handler(c)) /\ Todo(Handler(c)) = ClearSet \cup {g}
    BY <2>2, <2>4, ClearedThenAdded, Zenon
  <2>6. CallOK(g)
    BY <2>3 DEF CallOK, AddOps
  <2> QED
    BY <2>4, <2>5, <2>6, ClearSetOK
<1>9. CASE c.name = "set_switch_address"
  <2>1. PICK g : g = [op |-> "set_address", addr |-> c.addr]
    BY Zenon
  <2>2. Handler(c) = <<g>> /\ g.op = "set_address"
    BY <1>9, <2>1 DEF Handler
  <2>3. CallOK(g) /\ g.op \notin Begun
    BY <2>2 DEF CallOK, AddOps, Begun, ClearOps
  <2> QED
    BY <2>2, <2>3, Single
<1>10. CASE c.name = "worker_del"
  <2>1. PICK g : g = Call("worker_del")
    BY Zenon
  <2>2. Handler(c) = <<g>> /\ g.op = "worker_del"
    BY <1>10, <2>1, Zenon DEF Handler, Call
  <2>3. CallOK(g) /\ g.op \notin Begun
    BY <2>2 DEF CallOK, AddOps, Begun, ClearOps
  <2> QED
    BY <2>2, <2>3, Single
<1> QED
  BY <1>1, <1>2, <1>3, <1>4, <1>6, <1>7, <1>8, <1>9, <1>10 DEF CommandNames

----------------------------------------------------------------------------
(* The steps other than those of the handlers, and the start.              *)

SetField(x, f, v) == [x EXCEPT ![f] = v]

(* An update of one field of the switch. *)
LEMMA FieldEffect ==
    ASSUME NEW x, SwitchShape(x), NEW f \in Fields, NEW v
    PROVE  /\ IsFunction(SetField(x, f, v), Fields) /\ SetField(x, f, v)[f] = v
           /\ \A g \in Fields \ {f} : SetField(x, f, v)[g] = x[g]
<1>1. SetField(x, f, v) = [g \in Fields |-> IF g = f THEN v ELSE x[g]]
  BY DEF SwitchShape, IsFunction, SetField
<1> QED
  BY <1>1 DEF IsFunction

LEMMA DirtyEffect ==
    ASSUME NEW x, SwitchShape(x), NEW v, IsFunction(v, Registers)
    PROVE  LET y == SetField(x, "dirty", v) IN
           /\ SwitchShape(y) /\ y.dirty = v /\ y.pre = x.pre
           /\ \A g \in Fields \ {"dirty"} : y[g] = x[g]
<1>1. PICK z : z = SetField(x, "dirty", v)
  BY Zenon
<1>2. "dirty" \in Fields /\ "pre" \in Fields \ {"dirty"}
  BY DEF Fields
<1>3. IsFunction(z, Fields) /\ z.dirty = v /\ \A g \in Fields \ {"dirty"} : z[g] = x[g]
  BY <1>1, <1>2, FieldEffect
<1>4. z.pre = x.pre
  BY <1>2, <1>3
<1>5. SwitchShape(z)
  BY <1>3, <1>4 DEF SwitchShape
<1> QED
  BY <1>1, <1>3, <1>4, <1>5

(* Between two steps of a job, rank 0 comes first. *)
LEMMA RankZero ==
    ASSUME IInv, phase # "over"
    PROVE  /\ job \in 1..Jobs /\ 0 \in Ranks(job)
           /\ \A r \in Ranks(job) : client[r] = "connected" => client[0] = "connected"
<1>1. job \in 1..Jobs
  BY DEF IInv, Shape
<1>2. 0 \in Ranks(job)
  <2>1. JobSize[job] \in Nat \ {0}
    BY <1>1, ControlAssumption
  <2> QED
    BY <2>1 DEF Ranks
<1> QED
  BY <1>1, <1>2 DEF IInv, QueueOK

(* The calls of a thread. *)
LEMMA HandlersOK ==
    ASSUME IInv, NEW t \in Threads
    PROVE  /\ HandlerOK(Todo(calls[t]))
           /\ orderly \/ alone => PlacesOK(Todo(calls[t]), Items, Group)
<1>1. ThreadsOK
  BY DEF IInv
<1>2. HandlerOK(Todo(calls[t]))
  BY <1>1 DEF ThreadsOK
<1>3. ASSUME orderly \/ alone PROVE PlacesOK(Todo(calls[t]), Items, Group)
  BY <1>1, <1>3 DEF ThreadsOK, Watched
<1> QED
  BY <1>2, <1>3, Zenon

(* What neither the switch nor the calls matter to. *)
LEMMA QueueKept ==
    ASSUME QueueOK, UNCHANGED <<serving, clients>> PROVE QueueOK'
  BY DEF QueueOK, clients, Ranks

LEMMA ShapeKept ==
    ASSUME Shape, UNCHANGED <<server, serving, clients>>, CallsShape', SwitchShape(sw'),
           failed' \in [Threads -> BOOLEAN], alone' \in BOOLEAN, orderly' \in BOOLEAN
    PROVE  Shape'
  BY DEF Shape, clients, IsRequest, Requests, Ranks

(* Until a job is left alone with the controller nothing is said of it. *)
LEMMA NotAlone ==
    ASSUME alone' = FALSE PROVE CurrentOK' /\ FirstOK' /\ ServedOK' /\ ConnectedOK'
  BY Zenon DEF CurrentOK, Current, FirstOK, ServedOK, ConnectedOK

LEMMA StopStep ==
    ASSUME IInv, Stop PROVE IInv'
<1>1. /\ calls' = [t \in Threads |-> <<>>] /\ failed' = [t \in Threads |-> FALSE]
      /\ server' = "down" /\ serving' = NoRequest /\ requests' = <<>> /\ phase' \in {phase, "over"}
      /\ job' = job /\ client' = client /\ sw' = sw /\ alone' = FALSE /\ orderly' = orderly
  BY DEF Stop
<1>2. calls'["cli"] = <<>> /\ calls'["rpc"] = <<>> /\ Todo(<<>>) = {} /\ Listed(<<>>)
  BY <1>1, NoCalls DEF Threads
<1>3. Shape'
  <2>1. CallsShape'
    BY <1>1, <1>2 DEF CallsShape, IsFunction, Threads
  <2>2. requests' \in Seq(Requests)
    BY <1>1
  <2>3. failed' \in [Threads -> BOOLEAN] /\ Len(requests') = 0
    BY <1>1
  <2>4. alone' \in BOOLEAN /\ orderly' \in BOOLEAN
    BY <1>1, Zenon DEF Shape, IInv
  <2> QED
    BY <1>1, <2>1, <2>2, <2>3, <2>4 DEF Shape, IInv, Ranks
<1>4. TurnsOK'
  BY <1>1, <1>2 DEF TurnsOK
<1>5. QueueOK'
  <2>1. phase' = "over" \/ phase' = phase
    BY <1>1
  <2>2. phase # "over" => \A r \in Ranks(job) :
          /\ (r # 0 /\ client[r] # "start") => client[0] = "connected"
          /\ phase = "running" => client[r] = "connected"
    BY Zenon DEF IInv, QueueOK
  <2>3. \A i \in 1..Len(requests') : FALSE
    BY <1>1
  <2> QED
    BY <1>1, <2>1, <2>2, <2>3, Zenon DEF QueueOK, Ranks
<1>6. GroupOK' /\ ThreadsOK' /\ RpcOK'
  BY <1>1, <1>2 DEF GroupOK, ThreadsOK, RpcOK, HandlerOK, PlacesOK, Threads
<1> QED
  BY <1>1, <1>3, <1>4, <1>5, <1>6, NotAlone, Zenon DEF IInv

(* A controller that starts finds no request and no worker. *)
LEMMA BootStep ==
    ASSUME IInv, Boot PROVE IInv'
<1>1. /\ server = "down" /\ server' = "started" /\ UNCHANGED <<calls, failed, serving, clients>>
      /\ sw' = [NoWorkers EXCEPT !.pre = Setup(sw.pre)] /\ alone' = alone /\ orderly' = TRUE
  BY DEF Boot
<1>2. /\ requests = <<>> /\ serving = NoRequest /\ calls["cli"] = <<>> /\ calls["rpc"] = <<>>
      /\ ~ alone
  BY <1>1 DEF IInv, TurnsOK
<1>3. /\ requests' = <<>> /\ serving' = NoRequest /\ calls'["cli"] = <<>> /\ calls'["rpc"] = <<>>
      /\ alone' = FALSE
  BY <1>1, <1>2, Zenon DEF clients, IInv, Shape
<1>5. Items' = {} /\ Group' = {} /\ SwitchShape(sw')
  <2>1. PICK p : p = Setup(sw.pre)
    BY Zenon
  <2>2. PreShape(sw.pre) /\ SwitchML \in Mgids
    BY ControlAssumption DEF IInv, Shape, SwitchShape
  <2>3. /\ p = [EmptyPre EXCEPT !.node = sw.pre.node]
        /\ IsFunction(sw.pre.node, Rids)
    BY <2>1, <2>2 DEF Setup, PreShape
  <2>4. /\ p.mgid = [g \in Mgids |-> {}] /\ p.node = sw.pre.node
        /\ p.rids = [g \in Mgids |-> [dp \in DevPorts |-> NoRid]]
        /\ p = [x \in {"mgid", "node", "rids"} |-> p[x]]
    BY <2>3, Zenon DEF EmptyPre
  <2>5. PreShape(p) /\ p.mgid[SwitchML] = {} /\ ItemsOf(p.rids[SwitchML]) = {}
    <3>1. PICK d : d = p.rids[SwitchML]
      BY Zenon
    <3>2. d = [dp \in DevPorts |-> NoRid] /\ p.mgid[SwitchML] = {}
      BY <2>2, <2>4, <3>1
    <3>3. ItemsOf(d) = {} /\ IsFunction(d, DevPorts)
      BY <3>2 DEF ItemsOf, IsFunction
    <3>4. IsFunction(p.mgid, Mgids) /\ IsFunction(p.rids, Mgids)
      BY <2>4 DEF IsFunction
    <3>5. IsFunction(p, {"mgid", "node", "rids"})
      BY <2>4 DEF IsFunction
    <3> QED
      BY <2>3, <2>4, <3>1, <3>2, <3>3, <3>4, <3>5, Zenon DEF PreShape
  <2>6. sw'.pre = p /\ sw'.dirty = [x \in Registers |-> {}] /\ sw' = [x \in Fields |-> sw'[x]]
    BY <1>1, <2>1, ZenonT(30) DEF NoWorkers, Fields, Tables
  <2> QED
    BY <2>5, <2>6 DEF Items, Group, SwitchShape, IsFunction
<1>6. Shape' /\ QueueOK'
  <2>1. CallsShape'
    BY <1>1 DEF IInv, Shape, CallsShape
  <2>2. server' \in {"down", "started", "serving"}
    BY <1>1
  <2>3. Shape'
    BY <1>1, <1>5, <2>1, <2>2 DEF IInv, Shape, clients, IsRequest, Requests, Ranks
  <2> QED
    BY <1>1, <2>3, QueueKept DEF IInv
<1>7. TurnsOK'
  BY <1>1, <1>2, <1>3 DEF TurnsOK
<1>8. GroupOK'
  BY <1>5 DEF GroupOK, Grouped
<1>9. ThreadsOK' /\ RpcOK'
  BY <1>3, NoCalls DEF ThreadsOK, RpcOK, HandlerOK, PlacesOK, Threads
<1> QED
  BY <1>3, <1>6, <1>7, <1>8, <1>9, NotAlone, Zenon DEF IInv

(* Steps that change neither the switch nor the calls. *)
LEMMA SwitchKept ==
    ASSUME UNCHANGED sw
    PROVE  /\ Items' = Items /\ Group' = Group
           /\ job' = job => /\ (Fits' <=> Fits) /\ Accepted' = Accepted
                            /\ \A T : CleanOK(T)' <=> CleanOK(T)
                            /\ \A r, T : ProgressOK(r, T)' <=> ProgressOK(r, T)
                            /\ \A r : Installed(r)' <=> Installed(r)
           /\ \A T : EmptyOK(T)' <=> EmptyOK(T)
<1>1. Items' = Items /\ Group' = Group
  BY Zenon DEF Items, Group
<1>2. ASSUME job' = job, NEW T PROVE CleanOK(T)' <=> CleanOK(T)
  BY <1>1, <1>2, ZenonT(30) DEF CleanOK, Accepted, Alike, Ranks, JobItems
<1>3. ASSUME job' = job, NEW r, NEW T PROVE ProgressOK(r, T)' <=> ProgressOK(r, T)
  BY <1>1, <1>3, Zenon DEF ProgressOK, Received, SendEntry, QueueEntry, Mistaken, Ranks
<1>4. ASSUME job' = job, NEW r PROVE Installed(r)' <=> Installed(r)
  BY <1>1, <1>4, ZenonT(30) DEF Installed, Mistaken, Ranks
<1>5. ASSUME NEW T PROVE EmptyOK(T)' <=> EmptyOK(T)
  BY <1>1 DEF EmptyOK
<1>6. ASSUME job' = job PROVE (Fits' <=> Fits) /\ Accepted' = Accepted
  BY <1>6, Zenon DEF Fits, Accepted, Alike, Ranks
<1> QED
  BY <1>1, <1>2, <1>3, <1>4, <1>5, <1>6

(* The parts of the invariant when the switch, the calls and the current   *)
(* job stay and only requests and clients change.                          *)
LEMMA PlainParts ==
    ASSUME IInv, UNCHANGED <<calls, sw>>, Watched' => Watched
    PROVE  /\ CallsShape' /\ SwitchShape(sw') /\ ThreadsOK' /\ Items' = Items /\ Group' = Group
           /\ Todo(calls'["rpc"]) = Todo(calls["rpc"])
<1>1. Items' = Items /\ Group' = Group
  BY DEF Items, Group
<1>2. CallsShape' /\ SwitchShape(sw')
  BY DEF IInv, Shape, CallsShape
<1>3. ThreadsOK'
  BY <1>1 DEF IInv, ThreadsOK
<1> QED
  BY <1>1, <1>2, <1>3

(* The same when no client gets connected. *)
LEMMA KeptParts ==
    ASSUME IInv, UNCHANGED <<calls, failed, sw, serving, job>>, alone' <=> alone,
           phase' # "over" => phase # "over",
           phase # "over" =>
               \A r \in Ranks(job) : client'[r] = "connected" => client[r] = "connected"
    PROVE  CurrentOK' /\ FirstOK' /\ ServedOK' /\ ConnectedOK'
<1>1. PICK T : T = Todo(calls["rpc"]) /\ T = Todo(calls'["rpc"])
  BY Zenon
<1>2. phase' # "over" => (client'[0] = "connected" => client[0] = "connected")
  BY RankZero
<1>3. Current' => Current
  BY <1>2, Zenon DEF Current, First
<1>4. CurrentOK'
  BY <1>1, <1>3, SwitchKept, Zenon DEF IInv, CurrentOK
<1>5. FirstOK' /\ ServedOK'
  BY <1>1, SwitchKept, Zenon DEF IInv, FirstOK, ServedOK
<1>6. ConnectedOK'
  BY <1>1, <1>2, SwitchKept, Zenon DEF IInv, ConnectedOK, Ranks
<1> QED
  BY <1>4, <1>5, <1>6

LEMMA PublishStep ==
    ASSUME IInv, Publish PROVE IInv'
<1>1. /\ server = "started" /\ server' = "serving" /\ UNCHANGED <<calls, failed, serving, sw, clients>>
      /\ alone' = alone /\ orderly' = orderly
  BY DEF Publish
<1>2. /\ requests' = requests /\ job' = job /\ phase' = phase /\ client' = client
  BY <1>1 DEF clients
<1>3. CallsShape' /\ SwitchShape(sw') /\ ThreadsOK' /\ Items' = Items /\ Group' = Group
  BY <1>1, PlainParts, Zenon DEF Watched
<1>4. Shape'
  BY <1>1, <1>2, <1>3, Zenon DEF IInv, Shape, IsRequest, Requests, Ranks
<1>5. QueueOK' /\ TurnsOK'
  BY <1>1, <1>2, QueueKept, Zenon DEF IInv, TurnsOK
<1>6. GroupOK' /\ RpcOK'
  BY <1>1, <1>2, <1>3 DEF IInv, GroupOK, RpcOK
<1>7. CurrentOK' /\ FirstOK' /\ ServedOK' /\ ConnectedOK'
  BY <1>1, <1>2, KeptParts, Zenon
<1> QED
  BY <1>3, <1>4, <1>5, <1>6, <1>7 DEF IInv

LEMMA TypeStep ==
    ASSUME IInv, NEW c \in Commands, Type(c) PROVE IInv'
<1>1. /\ server = "serving" /\ UNCHANGED <<server, serving, sw, clients>>
      /\ calls' = [calls EXCEPT !["cli"] = Handler(c)]
      /\ failed' = [failed EXCEPT !["cli"] = FALSE]
      /\ alone' = FALSE /\ orderly' = (orderly /\ serving = NoRequest)
  BY DEF Type
<1>2. Listed(Handler(c)) /\ \A d \in Todo(Handler(c)) : CallOK(d) /\ d.op \notin Begun
  BY CommandHandler
<1>3. CallsShape /\ "cli" \in Threads /\ failed \in [Threads -> BOOLEAN] /\ SwitchShape(sw)
  BY DEF IInv, Shape, Threads
<1>4. NewCalls("cli", Todo(Handler(c)))
  BY <1>1, <1>2, <1>3, NewList, Zenon
<1>5. /\ CallsShape' /\ Todo(calls'["cli"]) = Todo(Handler(c)) /\ calls'["rpc"] = calls["rpc"]
      /\ failed' \in [Threads -> BOOLEAN]
  BY <1>1, <1>3, <1>4 DEF NewCalls, Threads
<1>6. alone' \in BOOLEAN /\ orderly' \in BOOLEAN /\ (orderly' => orderly /\ serving = NoRequest)
  BY <1>1, Zenon
<1>7. Shape' /\ QueueOK'
  BY <1>1, <1>3, <1>5, <1>6, QueueKept, ShapeKept DEF IInv
<1>8. serving = NoRequest => calls["rpc"] = <<>>
  BY DEF IInv, TurnsOK
<1>9. TurnsOK'
  BY <1>1, <1>5, <1>6, <1>8 DEF TurnsOK
<1>10. Items' = Items /\ Group' = Group
  BY <1>1, Zenon DEF Items, Group
<1>11. GroupOK'
  BY <1>1, <1>6, <1>10, Zenon DEF IInv, GroupOK
<1>12. RpcOK'
  BY <1>1, <1>5, Zenon DEF IInv, RpcOK
<1>13. ThreadsOK'
  <2>1. HandlerOK(Todo(calls'["cli"])) /\ PlacesOK(Todo(calls'["cli"]), Items', Group')
    BY <1>2, <1>5, FreshPlaces DEF HandlerOK
  <2>2. HandlerOK(Todo(calls'["rpc"]))
    BY <1>5, HandlersOK DEF Threads
  <2>3. Watched' => Todo(calls'["rpc"]) = {}
    BY <1>1, <1>5, <1>6, <1>8, NoCalls, Zenon DEF Watched
  <2> QED
    BY <2>1, <2>2, <2>3 DEF ThreadsOK, PlacesOK, Threads
<1> QED
  BY <1>1, <1>7, <1>9, <1>11, <1>12, <1>13, NotAlone, Zenon DEF IInv

(* When a job starts, what is left of the one before has no first rank. *)
LEMMA StartJobStep ==
    ASSUME IInv, StartJob PROVE IInv'
<1>1. /\ phase = "over" /\ job < Jobs /\ job' = job + 1
      /\ phase' = "connecting" /\ client' = [r \in Ranks(job + 1) |-> "start"]
      /\ UNCHANGED <<calls, failed, server, serving, sw, requests, orderly>> /\ alone' = FALSE
  BY DEF StartJob
<1>2. CallsShape' /\ SwitchShape(sw') /\ ThreadsOK' /\ Items' = Items /\ Group' = Group
  BY <1>1, PlainParts, Zenon DEF Watched
<1>3. job' \in 1..Jobs /\ job \in Nat /\ Jobs \in Nat
  BY <1>1, ControlAssumption DEF IInv, Shape
<1>4. 0 \in Ranks(job')
  <2>1. JobSize[job'] \in Nat \ {0}
    BY <1>3, ControlAssumption
  <2> QED
    BY <2>1 DEF Ranks
<1>5. /\ client' \in [Ranks(job') -> {"start", "sent", "connected"}]
      /\ \A r \in Ranks(job') : client'[r] = "start"
  BY <1>1, Zenon
<1>6. Shape'
  <2>1. phase' # "over" => job' \in 1..Jobs /\ client' \in [Ranks(job') -> {"start", "sent", "connected"}]
    BY <1>3, <1>5
  <2>2. job' \in 0..Jobs /\ phase' \in {"connecting", "running", "over"}
    BY <1>1, <1>3
  <2>3. /\ failed' \in [Threads -> BOOLEAN] /\ server' \in {"down", "started", "serving"}
        /\ requests' \in Seq(Requests) /\ \A i \in 1..Len(requests') : IsRequest(requests'[i])
        /\ serving' = NoRequest \/ IsRequest(serving')
        /\ alone' \in BOOLEAN /\ orderly' \in BOOLEAN
    BY <1>1, Zenon DEF IInv, Shape
  <2> QED
    BY <1>2, <2>1, <2>2, <2>3 DEF Shape, Ranks, IsRequest
<1>7. TurnsOK'
  BY <1>1, Zenon DEF IInv, TurnsOK
<1>8. \A i \in 1..Len(requests) : /\ requests[i].job \in Int /\ requests[i].job <= job
                                  /\ requests[i].rank # 0
  BY <1>1 DEF IInv, Shape, QueueOK, IsRequest, Requests
<1>9. serving # NoRequest => serving.job \in Int /\ serving.job <= job /\ serving.rank # 0
  BY <1>1 DEF IInv, Shape, QueueOK, IsRequest, Requests
<1>10. QueueOK'
  <2>1. \A i \in 1..Len(requests') :
          /\ requests'[i].job <= job'
          /\ serving' # NoRequest =>
                /\ serving'.job <= requests'[i].job /\ serving' # requests'[i]
                /\ requests'[i].rank # 0 => serving'.job = requests'[i].job
          /\ requests'[i].rank = 0 => requests'[i].job = job' /\ phase' = "connecting"
          /\ (phase' # "over" /\ requests'[i].job = job') => client'[requests'[i].rank] = "sent"
    BY <1>1, <1>3, <1>8 DEF IInv, QueueOK
  <2>2. \A i, k \in 1..Len(requests') :
          i < k => /\ requests'[i].job <= requests'[k].job /\ requests'[i] # requests'[k]
                   /\ requests'[k].rank # 0 => requests'[i].job = requests'[k].job
    BY <1>1 DEF IInv, QueueOK
  <2>3. serving' # NoRequest =>
          /\ serving'.job <= job'
          /\ serving'.rank = 0 => serving'.job = job' /\ phase' = "connecting"
          /\ (phase' # "over" /\ serving'.job = job') => client'[serving'.rank] = "sent"
    BY <1>1, <1>3, <1>9
  <2> QED
    BY <1>1, <1>4, <1>5, <2>1, <2>2, <2>3, Zenon DEF QueueOK
<1>11. GroupOK' /\ RpcOK'
  BY <1>1, <1>2 DEF IInv, GroupOK, RpcOK
<1> QED
  BY <1>1, <1>2, <1>6, <1>7, <1>10, <1>11, NotAlone, Zenon DEF IInv

LEMMA BeginStep ==
    ASSUME IInv, Begin PROVE IInv'
<1>1. /\ phase = "connecting" /\ (\A r \in Ranks(job) : client[r] = "connected") /\ phase' = "running"
      /\ UNCHANGED <<calls, failed, server, serving, sw, requests, job, client, alone, orderly>>
  BY DEF Begin
<1>2. 0 \in Ranks(job) /\ client[0] = "connected"
  BY <1>1, RankZero
<1>3. CallsShape' /\ SwitchShape(sw') /\ ThreadsOK' /\ Items' = Items /\ Group' = Group
  BY <1>1, PlainParts, Zenon DEF Watched
<1>4. Shape'
  BY <1>1, <1>3, Zenon DEF IInv, Shape, IsRequest, Requests, Ranks
<1>5. TurnsOK'
  BY <1>1, <1>2, Zenon DEF IInv, TurnsOK
<1>6. \A i \in 1..Len(requests) : requests[i].rank # 0
  BY <1>1, <1>2, Zenon DEF IInv, QueueOK
<1>7. serving # NoRequest => serving.rank # 0
  BY <1>1, <1>2, Zenon DEF IInv, QueueOK
<1>8. QueueOK'
  BY <1>1, <1>6, <1>7 DEF IInv, QueueOK, Ranks
<1>9. GroupOK' /\ RpcOK'
  BY <1>1, <1>3, Zenon DEF IInv, GroupOK, RpcOK
<1>10. CurrentOK' /\ FirstOK' /\ ServedOK' /\ ConnectedOK'
  BY <1>1, KeptParts, Zenon
<1> QED
  BY <1>3, <1>4, <1>5, <1>8, <1>9, <1>10 DEF IInv

(* A job that ends leaves no request of its first rank behind. *)
LEMMA JobOver ==
    ASSUME IInv, phase' = "over", UNCHANGED <<calls, failed, server, sw, requests, job, alone, orderly>>,
           serving' \in {serving, NoRequest}, serving' = NoRequest => calls["rpc"] = <<>>,
           \A i \in 1..Len(requests) : requests[i].rank # 0,
           serving' # NoRequest => serving'.rank # 0
    PROVE  IInv'
<1>1. CallsShape' /\ SwitchShape(sw') /\ ThreadsOK' /\ Items' = Items /\ Group' = Group
  BY PlainParts, Zenon DEF Watched
<1>2. Shape'
  BY <1>1, Zenon DEF IInv, Shape, IsRequest, Requests, Ranks
<1>3. TurnsOK'
  BY Zenon DEF IInv, TurnsOK
<1>4. QueueOK'
  BY DEF IInv, QueueOK
<1>5. GroupOK'
  BY <1>1, Zenon DEF IInv, GroupOK
<1>6. RpcOK'
  BY NoCalls, Zenon DEF IInv, RpcOK
<1>7. CurrentOK' /\ FirstOK' /\ ServedOK' /\ ConnectedOK'
  BY Zenon DEF CurrentOK, Current, FirstOK, ServedOK, ConnectedOK
<1> QED
  BY <1>1, <1>2, <1>3, <1>4, <1>5, <1>6, <1>7, Zenon DEF IInv

LEMMA FinishStep ==
    ASSUME IInv, Finish PROVE IInv'
<1>1. /\ phase = "running" /\ phase' = "over"
      /\ UNCHANGED <<calls, failed, server, serving, sw, requests, job, client, alone, orderly>>
  BY Zenon DEF Finish
<1>2. \A i \in 1..Len(requests) : requests[i].rank # 0
  BY <1>1, ZenonT(30) DEF IInv, QueueOK
<1>3. serving # NoRequest => serving.rank # 0
  BY <1>1 DEF IInv, QueueOK
<1>4. serving = NoRequest => calls["rpc"] = <<>>
  BY DEF IInv, TurnsOK
<1> QED
  BY <1>1, <1>2, <1>3, <1>4, JobOver

LEMMA ConnectStep ==
    ASSUME IInv, NEW r \in Ranks(job), Connect(r) PROVE IInv'
<1>1. /\ phase = "connecting" /\ client[r] = "start" /\ (r = 0 \/ client[0] = "connected")
      /\ UNCHANGED <<calls, failed, server, serving, sw, job, alone, orderly>>
  BY DEF Connect, MayConnect
<1>2. CASE server = "down"
  <2>1. phase' = "over" /\ requests' = requests
    BY <1>2 DEF Connect
  <2>2. requests = <<>> /\ serving = NoRequest /\ calls["rpc"] = <<>>
    BY <1>2 DEF IInv, TurnsOK
  <2> QED
    BY <1>1, <2>1, <2>2, JobOver
<1>3. CASE server # "down"
  <2>1. PICK q : q = [job |-> job, rank |-> r]
    BY Zenon
  <2>2. /\ client' = [client EXCEPT ![r] = "sent"] /\ requests' = Append(requests, q) /\ phase' = phase
    BY <1>3, <2>1 DEF Connect
  <2>3. q.job = job /\ q.rank = r
    BY <2>1
  <2>4. /\ job \in 1..Jobs /\ 0 \in Ranks(job) /\ client \in [Ranks(job) -> {"start", "sent", "connected"}]
        /\ requests \in Seq(Requests) /\ \A i \in 1..Len(requests) : IsRequest(requests[i])
    BY <1>1, RankZero, Zenon DEF IInv, Shape
  <2>5. Ranks(job) \subseteq Nat /\ IsRequest(q)
    <3>1. Ranks(job) \subseteq Nat
      BY <2>4, ControlAssumption DEF Ranks
    <3> QED
      BY <2>1, <2>4, <3>1 DEF IsRequest, Requests
  <2>6. /\ client' \in [Ranks(job) -> {"start", "sent", "connected"}] /\ client'[r] = "sent"
        /\ \A x \in Ranks(job) \ {r} : client'[x] = client[x]
    BY <2>2, <2>4
  <2>7. PICK n \in Nat : n = Len(requests)
    BY <2>4
  <2>8. /\ requests' \in Seq(Requests) /\ Len(requests') = n + 1 /\ requests'[n + 1] = q
        /\ \A i \in 1..n : requests'[i] = requests[i]
    BY <2>2, <2>4, <2>5, <2>7 DEF IsRequest
  <2>9. \A i \in 1..(n + 1) : i \in 1..n \/ i = n + 1
    OBVIOUS
  <2>10. CallsShape' /\ SwitchShape(sw') /\ ThreadsOK' /\ Items' = Items /\ Group' = Group
    BY <1>1, PlainParts, Zenon DEF Watched
  <2>11. Shape'
    <3>1. \A i \in 1..Len(requests') : IsRequest(requests'[i])
      BY <2>4, <2>5, <2>7, <2>8, <2>9, Zenon
    <3> QED
      BY <1>1, <2>2, <2>4, <2>6, <2>8, <2>10, <3>1, Zenon DEF IInv, Shape, IsRequest, Requests, Ranks
  <2>12. TurnsOK'
    BY <1>1, <1>3, <2>2 DEF IInv, TurnsOK
  <2>13. /\ \A x \in Ranks(job) : client'[x] = "connected" <=> client[x] = "connected"
         /\ \A x \in Ranks(job) : client[x] = "sent" => client'[x] = "sent"
    BY <1>1, <2>6, Zenon
  <2>14. \A i \in 1..n : /\ IsRequest(requests[i]) /\ requests[i].job \in Int /\ requests[i].job <= job
                         /\ requests[i].job = job => /\ requests[i].rank \in Ranks(job)
                                                     /\ client[requests[i].rank] = "sent"
    BY <1>1, <2>4, <2>7 DEF IInv, QueueOK, IsRequest, Requests
  <2>15. serving # NoRequest => /\ serving.job \in Int /\ serving.job <= job
                                /\ serving.job = job => /\ serving.rank \in Ranks(job)
                                                        /\ client[serving.rank] = "sent"
    BY <1>1 DEF IInv, QueueOK, Shape, IsRequest, Requests
  <2>16. r # 0 => /\ serving # NoRequest => serving.job = job
                  /\ \A i \in 1..n : requests[i].job = job
    BY <1>1, <2>7, ZenonT(30) DEF IInv, QueueOK
  <2>17. QueueOK'
    <3>1. ASSUME NEW i \in 1..(n + 1)
          PROVE  /\ requests'[i].job <= job
                 /\ serving # NoRequest =>
                       /\ serving.job <= requests'[i].job /\ serving # requests'[i]
                       /\ requests'[i].rank # 0 => serving.job = requests'[i].job
                 /\ requests'[i].rank = 0 => requests'[i].job = job
                 /\ requests'[i].job = job => client'[requests'[i].rank] = "sent"
      <4>1. CASE i \in 1..n
        BY <1>1, <2>7, <2>8, <2>13, <2>14, <4>1 DEF IInv, QueueOK
      <4>2. CASE i = n + 1
        <5>1. serving # NoRequest => serving # q
          BY <1>1, <2>3, <2>15, Zenon
        <5> QED
          BY <2>3, <2>4, <2>6, <2>8, <2>15, <2>16, <4>2, <5>1
      <4> QED
        BY <2>9, <4>1, <4>2, Zenon
    <3>2. ASSUME NEW i \in 1..(n + 1), NEW k \in 1..(n + 1), i < k
          PROVE  /\ requests'[i].job <= requests'[k].job /\ requests'[i] # requests'[k]
                 /\ requests'[k].rank # 0 => requests'[i].job = requests'[k].job
      <4>1. CASE k \in 1..n
        <5>1. i \in 1..n /\ requests'[i] = requests[i] /\ requests'[k] = requests[k]
          BY <2>8, <3>2, <4>1
        <5> QED
          BY <2>7, <3>2, <4>1, <5>1 DEF IInv, QueueOK
      <4>2. CASE k = n + 1
        <5>1. i \in 1..n /\ requests'[i] = requests[i] /\ requests'[k] = q
          BY <2>8, <3>2, <4>2
        <5>2. requests[i] # q
          BY <1>1, <2>3, <2>14, <5>1, Zenon
        <5> QED
          BY <2>3, <2>14, <2>16, <5>1, <5>2
      <4> QED
        BY <2>9, <4>1, <4>2, ZenonT(30)
    <3>3. serving # NoRequest =>
             /\ serving.job <= job
             /\ serving.rank = 0 => serving.job = job
             /\ serving.job = job => client'[serving.rank] = "sent"
      BY <2>13, <2>15, Zenon DEF IInv, QueueOK
    <3>4. \A x \in Ranks(job) : (x # 0 /\ client'[x] # "start") => client'[0] = "connected"
      BY <1>1, <2>4, <2>6, <2>13 DEF IInv, QueueOK
    <3>5. client'[0] = "connected" => /\ serving # NoRequest => serving.job = job
                                      /\ \A i \in 1..(n + 1) : requests'[i].job = job
      BY <1>1, <2>3, <2>4, <2>7, <2>8, <2>9, <2>13 DEF IInv, QueueOK
    <3>6. serving' = serving /\ job' = job /\ phase' = "connecting" /\ Ranks(job') = Ranks(job)
      BY <1>1, <2>2
    <3>7. PICK N : N = 1..(n + 1) /\ 1..Len(requests') = N
      BY <2>8, Zenon
    <3>8. \A i \in N :
            /\ requests'[i].job <= job
            /\ serving # NoRequest =>
                  /\ serving.job <= requests'[i].job /\ serving # requests'[i]
                  /\ requests'[i].rank # 0 => serving.job = requests'[i].job
            /\ requests'[i].rank = 0 => requests'[i].job = job
            /\ requests'[i].job = job => client'[requests'[i].rank] = "sent"
      BY <3>1, <3>7, Zenon
    <3>9. \A i, k \in N :
            i < k => /\ requests'[i].job <= requests'[k].job /\ requests'[i] # requests'[k]
                     /\ requests'[k].rank # 0 => requests'[i].job = requests'[k].job
      BY <3>2, <3>7, Zenon
    <3>10. client'[0] = "connected" => /\ serving # NoRequest => serving.job = job
                                       /\ \A i \in N : requests'[i].job = job
      BY <3>5, <3>7, Zenon
    <3> QED
      BY <3>3, <3>4, <3>6, <3>7, <3>8, <3>9, <3>10, ZenonT(30) DEF QueueOK
  <2>18. GroupOK' /\ RpcOK'
    BY <1>1, <2>10, Zenon DEF IInv, GroupOK, RpcOK
  <2>19. CurrentOK' /\ FirstOK' /\ ServedOK' /\ ConnectedOK'
    BY <1>1, <2>2, <2>13, KeptParts, Zenon
  <2> QED
    BY <2>10, <2>11, <2>12, <2>17, <2>18, <2>19 DEF IInv
<1> QED
  BY <1>2, <1>3

(* Traffic: only the registers change, and those that a job has cleared    *)
(* stay as they were.                                                      *)
Traffic(j) == sw' = [sw EXCEPT !.dirty = [x \in Registers |-> @[x] \cup {j}]]
LEMMA TrafficStep ==
    ASSUME IInv, UNCHANGED <<calls, failed, server, serving, clients, alone, orderly>>,
           NEW j, Traffic(j),
           (Current /\ j \notin Accepted) =>
               \A x \in Registers : RegisterCall(x) \in Todo(calls["rpc"])
    PROVE  IInv'
<1>1. PICK v : v = [x \in Registers |-> sw.dirty[x] \cup {j}]
  BY Zenon
<1>2. SwitchShape(sw)
  BY DEF IInv, Shape
<1>3. sw' = SetField(sw, "dirty", v) /\ IsFunction(v, Registers)
  <2>1. sw' = [sw EXCEPT !.dirty = v]
    BY <1>1 DEF Traffic
  <2>2. IsFunction(v, Registers)
    BY <1>1, Zenon DEF IsFunction
  <2> QED
    BY <2>1, <2>2 DEF SetField
<1>4. SwitchShape(sw') /\ sw'.dirty = v /\ sw'.pre = sw.pre /\ \A g \in Fields \ {"dirty"} : sw'[g] = sw[g]
  BY <1>2, <1>3, DirtyEffect
<1>5. /\ \A f \in Tables : sw'[f] = sw[f]
      /\ Items' = Items /\ Group' = Group
  BY <1>4, Zenon DEF Fields, Tables, Items, Group
<1>6. \A x \in Registers : sw'.dirty[x] = sw.dirty[x] \cup {j}
  BY <1>1, <1>4
<1>7. /\ requests' = requests /\ job' = job /\ phase' = phase /\ client' = client
      /\ serving' = serving /\ failed' = failed /\ calls' = calls /\ server' = server
  BY DEF clients
<1>a. (alone' <=> alone) /\ (orderly' <=> orderly) /\ alone' \in BOOLEAN /\ orderly' \in BOOLEAN
  BY DEF IInv, Shape
<1>8. PICK T : T = Todo(calls["rpc"]) /\ T = Todo(calls'["rpc"])
  BY <1>7, Zenon
<1>9. CallsShape' /\ ThreadsOK'
  BY <1>5, <1>7, <1>a, Zenon DEF IInv, Shape, CallsShape, ThreadsOK, Watched
<1>10. Shape' /\ QueueOK'
  BY <1>4, <1>7, <1>a, <1>9, QueueKept, ShapeKept DEF IInv, Shape, clients
<1>11. TurnsOK' /\ GroupOK' /\ RpcOK'
  BY <1>5, <1>7, <1>a, ZenonT(30) DEF IInv, TurnsOK, GroupOK, RpcOK
<1>12. /\ sw'.get_worker_bitmap = sw.get_worker_bitmap /\ sw'.receive_roce = sw.receive_roce
       /\ sw'.create_roce_packet = sw.create_roce_packet
       /\ sw'.fill_in_qpn_and_psn = sw.fill_in_qpn_and_psn
  BY <1>5 DEF Tables
<1>13. CurrentOK'
  <2> SUFFICES ASSUME Current' PROVE CleanOK(T)'
    BY <1>8 DEF CurrentOK
  <2>1. Current
    BY <1>7, <1>a DEF Current, First
  <2>2. CleanOK(T)
    BY <1>8, <2>1 DEF IInv, CurrentOK
  <2>3. ASSUME NEW x \in Registers
        PROVE  sw'.dirty[x] \subseteq Accepted \/ RegisterCall(x) \in T
    <3>1. CASE j \in Accepted
      BY <1>6, <2>2, <2>3, <3>1 DEF CleanOK
    <3>2. CASE j \notin Accepted
      BY <1>8, <2>1, <2>3, <3>2, ZenonT(30)
    <3> QED
      BY <3>1, <3>2, Zenon
  <2>4. Accepted' = Accepted /\ JobItems(job)' = JobItems(job) /\ Ranks(job)' = Ranks(job)
    BY <1>7, Zenon DEF Accepted, Alike, JobItems, Ranks
  <2> QED
    BY <1>5, <1>7, <1>12, <2>2, <2>3, <2>4, Zenon DEF CleanOK
<1>14. FirstOK'
  BY <1>5, <1>7, <1>a, <1>8, ZenonT(30) DEF IInv, FirstOK, EmptyOK
<1>15. ServedOK'
  <2>1. ASSUME NEW r, ProgressOK(r, T) PROVE ProgressOK(r, T)'
    BY <1>4, <1>5, <1>7, <1>12, <2>1, ZenonT(30)
       DEF ProgressOK, Received, SendEntry, QueueEntry, Mistaken, Ranks
  <2> QED
    BY <1>7, <1>a, <1>8, <2>1, Zenon DEF IInv, ServedOK, Fits
<1>16. ConnectedOK'
  <2>1. ASSUME NEW r, Installed(r) PROVE Installed(r)'
    BY <1>4, <1>7, <1>12, <2>1, Zenon DEF Installed, Mistaken, Ranks
  <2> QED
    BY <1>7, <1>a, <1>8, <2>1, Zenon DEF IInv, ConnectedOK, Fits, Ranks
<1> QED
  BY <1>9, <1>10, <1>11, <1>13, <1>14, <1>15, <1>16 DEF IInv

(* A late packet is let in by an entry of the current job, which then has  *)
(* the same host at that rank, or by one that is about to be removed.      *)
LEMMA PacketStep ==
    ASSUME IInv, NEW j \in 1..job, NEW r \in Ranks(j), Packet(j, r) PROVE IInv'
<1>1. PICK e \in sw.receive_roce : e.host = HostOf[j][r] /\ e.rid = r
  BY DEF Packet
<1>2. job \in Nat
  BY DEF IInv, Shape
<1>3. PICK T : T = Todo(calls["rpc"])
  BY Zenon
<1>4. ASSUME Current, j \notin Accepted
      PROVE  \A x \in Registers : RegisterCall(x) \in T
  <2>1. CleanOK(T)
    BY <1>3, <1>4 DEF IInv, CurrentOK
  <2>2. ~ (e.rid \in Ranks(job) /\ e.host = HostOf[job][e.rid])
    BY <1>1, <1>4, Zenon DEF Accepted, Alike
  <2> QED
    BY <1>1, <2>1, <2>2 DEF CleanOK
<1> QED
  BY <1>3, <1>4, TrafficStep, Zenon DEF Packet, Traffic

LEMMA UdpPacketStep ==
    ASSUME IInv, UdpPacket PROVE IInv'
<1>1. sw.get_worker_bitmap # {}
  BY DEF UdpPacket
<1>2. PICK T : T = Todo(calls["rpc"])
  BY Zenon
<1>3. Current => \A x \in Registers : RegisterCall(x) \in T
  BY <1>1, <1>2 DEF IInv, CurrentOK, CleanOK
<1> QED
  BY <1>2, <1>3, TrafficStep DEF UdpPacket, Traffic

(* An answer that comes too late, a failure, or the connection. *)
LEMMA RespondStep ==
    ASSUME IInv, Respond PROVE IInv'
<1>1. /\ serving # NoRequest /\ calls["rpc"] = <<>> /\ serving' = NoRequest
      /\ UNCHANGED <<calls, failed, server, sw, requests, job, alone, orderly>>
  BY DEF Respond
<1>2. CallsShape' /\ SwitchShape(sw') /\ ThreadsOK' /\ Items' = Items /\ Group' = Group
  BY <1>1, PlainParts, Zenon DEF Watched
<1>3. GroupOK'
  BY <1>1, <1>2 DEF IInv, GroupOK
<1>4. Todo(calls["rpc"]) = {} /\ Todo(calls'["rpc"]) = {}
  BY <1>1, NoCalls, Zenon
<1>5. RpcOK' /\ FirstOK' /\ ServedOK'
  BY <1>1, <1>4 DEF RpcOK, FirstOK, ServedOK
<1>6. ~ First'
  BY <1>1 DEF First, NoRequest
<1>7. CASE phase' = phase /\ client' = client
  <2>1. Shape'
    BY <1>1, <1>2, <1>7, Zenon DEF IInv, Shape, IsRequest, Requests, Ranks
  <2>2. TurnsOK'
    BY <1>1, <1>7, Zenon DEF IInv, TurnsOK
  <2>3. QueueOK'
    BY <1>1, <1>7 DEF IInv, QueueOK
  <2>4. CurrentOK' /\ ConnectedOK'
    <3>1. Current' => Current
      BY <1>1, <1>6, <1>7, Zenon DEF Current
    <3> QED
      <4>1. alone' <=> alone
        BY <1>1
      <4>2. CurrentOK'
        BY <1>1, <1>4, <3>1, SwitchKept, Zenon DEF IInv, CurrentOK
      <4>3. ConnectedOK'
        BY <1>1, <1>4, <1>7, <4>1, SwitchKept, Zenon DEF IInv, ConnectedOK, Ranks
      <4> QED
        BY <4>2, <4>3
  <2> QED
    BY <1>2, <1>3, <1>5, <2>1, <2>2, <2>3, <2>4, Zenon DEF IInv
<1>8. ASSUME ~ (phase' = phase /\ client' = client) PROVE serving.job = job /\ phase = "connecting"
  BY <1>8 DEF Respond
<1>9. ASSUME serving.job = job, phase = "connecting"
      PROVE  /\ IsRequest(serving) /\ serving.rank \in Ranks(job) /\ client[serving.rank] = "sent"
             /\ \A i \in 1..Len(requests) :
                   /\ requests[i].job = job
                   /\ requests[i].rank # 0 /\ requests[i].rank # serving.rank
  <2>1. IsRequest(serving) /\ serving.rank \in Ranks(job) /\ client[serving.rank] = "sent"
    BY <1>1, <1>9, Zenon DEF IInv, Shape, QueueOK, IsRequest
  <2>2. ASSUME NEW i \in 1..Len(requests)
        PROVE  /\ requests[i].job = job
               /\ requests[i].rank # 0 /\ requests[i].rank # serving.rank
    <3>1. /\ IsRequest(requests[i]) /\ requests[i].job \in Int
          /\ requests[i] # serving /\ requests[i].job <= job
          /\ serving.job <= requests[i].job /\ job \in Int
      BY <1>1 DEF IInv, Shape, QueueOK, IsRequest, Requests
    <3>2. requests[i].job = job
      BY <1>9, <3>1
    <3>3. requests[i].rank # serving.rank
      BY <1>9, <2>1, <3>1, <3>2 DEF IsRequest, Requests
    <3>4. requests[i].rank # 0
      <4> SUFFICES ASSUME requests[i].rank = 0 PROVE FALSE
        BY Zenon
      <4>1. client[0] = "sent"
        BY <1>9, <3>2 DEF IInv, QueueOK
      <4>2. serving.rank # 0
        BY <3>3, Zenon
      <4>3. client[0] = "connected"
        BY <1>9, <2>1, <4>2, Zenon DEF IInv, QueueOK
      <4> QED
        BY <4>1, <4>3
    <3> QED
      BY <3>2, <3>3, <3>4, Zenon
  <2> QED
    BY <2>1, <2>2, Zenon
<1>10. CASE serving.job = job /\ phase = "connecting" /\ failed["rpc"]
  <2>1. phase' = "over"
    BY <1>10 DEF Respond
  <2> QED
    BY <1>1, <1>9, <1>10, <2>1, JobOver, Zenon
<1>11. CASE serving.job = job /\ phase = "connecting" /\ ~ failed["rpc"]
  <2>1. PICK r : r = serving.rank
    BY Zenon
  <2>2. client' = [client EXCEPT ![r] = "connected"] /\ phase' = phase
    BY <1>11, <2>1, Zenon DEF Respond
  <2>3. /\ client \in [Ranks(job) -> {"start", "sent", "connected"}] /\ job \in 1..Jobs
        /\ 0 \in Ranks(job) /\ r \in Ranks(job) /\ client[r] = "sent"
    BY <1>9, <1>11, <2>1, RankZero DEF IInv, Shape
  <2>4. /\ client' \in [Ranks(job) -> {"start", "sent", "connected"}] /\ client'[r] = "connected"
        /\ \A x \in Ranks(job) \ {r} : client'[x] = client[x]
    BY <2>2, <2>3, Zenon
  <2>5. Shape'
    BY <1>1, <1>2, <2>2, <2>4, Zenon DEF IInv, Shape, IsRequest, Requests, Ranks
  <2>6. TurnsOK'
    BY <1>1, <2>2, Zenon DEF IInv, TurnsOK
  <2>7. \A x \in Ranks(job) : (x # 0 /\ client'[x] # "start") => client'[0] = "connected"
    BY <1>11, <2>3, <2>4, Zenon DEF IInv, QueueOK
  <2>8. QueueOK'
    <3>1. \A i \in 1..Len(requests) :
             /\ requests[i].job = job /\ requests[i].rank # 0 /\ requests[i].rank # r
             /\ client'[requests[i].rank] = "sent"
      <4>1. ASSUME NEW i \in 1..Len(requests)
            PROVE  /\ requests[i].job = job /\ requests[i].rank # 0 /\ requests[i].rank # r
                   /\ requests[i].rank \in Ranks(job) /\ client[requests[i].rank] = "sent"
        BY <1>9, <1>11, <2>1 DEF IInv, Shape, QueueOK, IsRequest
      <4> QED
        BY <2>4, <4>1, Zenon
    <3>2. job \in Int /\ job <= job
      BY <2>3
    <3>3. \A i, k \in 1..Len(requests) :
             i < k => /\ requests[i].job <= requests[k].job /\ requests[i] # requests[k]
                      /\ requests[k].rank # 0 => requests[i].job = requests[k].job
      BY Zenon DEF IInv, QueueOK
    <3> QED
      BY <1>1, <1>11, <2>2, <2>7, <3>1, <3>2, <3>3 DEF QueueOK, Ranks
  <2>9. CurrentOK'
    <3>1. Current' => Current
      <4>1. client'[0] = "connected" => client[0] = "connected" \/ r = 0
        BY <2>3, <2>4
      <4>2. r = 0 => serving = [job |-> job, rank |-> 0]
        BY <1>9, <1>11, <2>1, ZenonT(30) DEF IsRequest, Requests
      <4> QED
        BY <1>1, <1>6, <1>11, <2>2, <4>1, <4>2 DEF Current, First
    <3> QED
      BY <1>1, <1>4, <3>1, SwitchKept, Zenon DEF IInv, CurrentOK
  <2>10. ASSUME alone, Fits PROVE Installed(r) /\ job \notin BadMessage
    <3>1. ProgressOK(r, {})
      BY <1>1, <1>4, <1>11, <2>1, <2>10, ZenonT(30) DEF IInv, ServedOK
    <3>2. /\ \A i \in 1..Len(Opcodes) : Received(r, i)
          /\ Mistaken(r) \/ (r \in Group /\ sw.pre.node[r] = PortOf[HostOf[job][r]])
          /\ SendEntry(r) \in sw.create_roce_packet
          /\ \A q \in 1..Queues : QueueEntry(r, q) \in sw.fill_in_qpn_and_psn
          /\ job \notin BadMessage
      BY <3>1, Zenon DEF ProgressOK
    <3> QED
      BY <3>2, Zenon DEF Installed, Received, Group, SendEntry, QueueEntry
  <2>11. ConnectedOK'
    <3>1. Adding({})
      BY DEF Adding
    <3>2. ASSUME alone, Fits, NEW x \in Ranks(job), client'[x] = "connected"
          PROVE  Installed(x) /\ job \notin BadMessage
      <4>1. CASE x = r
        BY <2>10, <3>2, <4>1
      <4>2. CASE x # r
        BY <1>11, <2>4, <3>2, <4>2 DEF IInv, ConnectedOK
      <4> QED
        BY <4>1, <4>2
    <3> QED
      BY <1>1, <1>4, <3>1, <3>2, SwitchKept, Zenon DEF ConnectedOK, Ranks
  <2> QED
    BY <1>2, <1>3, <1>5, <2>5, <2>6, <2>8, <2>9, <2>11 DEF IInv
<1> QED
  BY <1>7, <1>8, <1>10, <1>11

LEMMA TailFacts ==
    ASSUME NEW S, NEW w \in Seq(S), w # <<>>
    PROVE  /\ Len(w) \in Nat \ {0} /\ Tail(w) \in Seq(S) /\ Len(Tail(w)) = Len(w) - 1
           /\ Head(w) = w[1] /\ \A i \in 1..(Len(w) - 1) : Tail(w)[i] = w[i + 1]
  OBVIOUS

(* What a handler of RDMAConnect starts with. *)
LEMMA ConnectCalls ==
    ASSUME NEW q, IsRequest(q),
           NEW add, add = AddRoce(q.rank, JobSize[q.job], HostOf[q.job][q.rank], q.job \in BadMessage),
           NEW s, s = (IF q.rank = 0 THEN ClearWorkers \o add ELSE add)
    PROVE  LET A == AddSet(q.rank, HostOf[q.job][q.rank], q.job \in BadMessage) IN
           /\ Listed(s) /\ \A c \in Todo(s) : RpcCall(q, c) /\ CallOK(c) /\ c.op \notin Begun
           /\ JobSize[q.job] <= MaxWorkers => A \subseteq Todo(s)
           /\ q.rank = 0 => ClearSet \subseteq Todo(s) /\ Clearing(Todo(s))
           /\ q.rank # 0 => Todo(s) \subseteq A
<1>1. PICK h, A, j, r : /\ h = HostOf[q.job][q.rank] /\ A = AddSet(r, h, j \in BadMessage)
                        /\ j = q.job /\ r = q.rank
  BY Zenon
<1>2. j \in 1..Jobs /\ r \in Nat
  BY <1>1, ZenonT(30) DEF IsRequest, Requests
<1>3. JobSize[j] <= MaxWorkers => ~ (JobSize[j] > MaxWorkers)
  <2>1. JobSize[j] \in Nat /\ MaxWorkers \in Nat
    BY <1>2, ControlAssumption
  <2> QED
    BY <2>1
<1>4. /\ Listed(add) /\ Todo(add) \subseteq A
      /\ JobSize[j] <= MaxWorkers => Todo(add) = A
  BY <1>1, <1>3, AddRoceList, Zenon
<1>5. \A c \in A : /\ Stage(c) = 4
                   /\ \/ c.op = "rdma_receiver.add_entry" /\ c.rid = r /\ c.host = h
                      \/ c.op = "worker_port_get" /\ c.rid = r /\ c.host = h
                      \/ c.op = "add" /\ c.table \in {"create_roce_packet", "fill_in_qpn_and_psn"}
                      \/ c.op = "log2_packets_per_message" /\ c.bad = (j \in BadMessage)
  <2>1. PICK bad : bad = (j \in BadMessage)
    BY ZenonT(30)
  <2>2. \A c \in AddSet(r, h, bad) :
            /\ Stage(c) = 4
            /\ \/ c.op = "rdma_receiver.add_entry" /\ c.rid = r /\ c.host = h
               \/ c.op = "worker_port_get" /\ c.rid = r /\ c.host = h
               \/ c.op = "add" /\ c.table \in {"create_roce_packet", "fill_in_qpn_and_psn"}
               \/ c.op = "log2_packets_per_message" /\ c.bad = bad
    BY AddSetOps
  <2>3. A = AddSet(r, h, bad)
    BY <1>1, <2>1, Zenon
  <2> QED
    BY <2>1, <2>2, <2>3, Zenon
<1>6. \A c \in A : RpcCall(q, c) /\ c.op \notin Begun
  <2> SUFFICES ASSUME NEW c \in A PROVE RpcCall(q, c) /\ c.op \notin Begun
    BY Zenon
  <2>1. h = HostOf[q.job][q.rank] /\ r = q.rank /\ j = q.job
    BY <1>1, Zenon
  <2>2. \/ c.op = "rdma_receiver.add_entry" /\ c.rid = r /\ c.host = h
        \/ c.op = "worker_port_get" /\ c.rid = r /\ c.host = h
        \/ c.op = "add" /\ c.table \in {"create_roce_packet", "fill_in_qpn_and_psn"}
        \/ c.op = "log2_packets_per_message" /\ c.bad = (j \in BadMessage)
    BY <1>5, Zenon
  <2> QED
    BY <2>1, <2>2, Zenon DEF RpcCall, Begun, AddOps, ClearOps
<1>7. \A c \in ClearSet : RpcCall(q, c)
  BY ClearSetOps, Zenon DEF RpcCall, AddOps, ClearOps, Tables
<1>8. /\ \A c \in A : CallOK(c) /\ c.op \notin Begun
      /\ \A c \in ClearSet : CallOK(c) /\ c.op \notin Begun
  BY <1>1, <1>2, AddSetOK, ClearSetOK, Zenon
<1>9. CASE q.rank = 0
  <2>1. Listed(s) /\ Todo(s) = ClearSet \cup Todo(add) /\ Clearing(Todo(s))
    BY <1>4, <1>5, <1>6, <1>9, ClearedThenAdded, Zenon
  <2> QED
    BY <1>1, <1>4, <1>6, <1>7, <1>8, <1>9, <2>1
<1>10. CASE q.rank # 0
  BY <1>1, <1>4, <1>6, <1>8, <1>10
<1> QED
  BY <1>9, <1>10, Zenon

LEMMA AcceptStep ==
    ASSUME IInv, Accept PROVE IInv'
<1>1. PICK q, add, s, n :
          /\ q = Head(requests)
          /\ add = AddRoce(q.rank, JobSize[q.job], HostOf[q.job][q.rank], q.job \in BadMessage)
          /\ s = (IF q.rank = 0 THEN ClearWorkers \o add ELSE add)
          /\ n = Len(requests)
  BY Zenon
<1>2. /\ server # "down" /\ serving = NoRequest /\ requests # <<>>
      /\ serving' = q /\ requests' = Tail(requests)
      /\ calls' = [calls EXCEPT !["rpc"] = IF server = "started" THEN <<>> ELSE s]
      /\ failed' = [failed EXCEPT !["rpc"] = (server = "started")]
      /\ alone' = (IF q.rank = 0 THEN calls["cli"] = <<>> ELSE alone)
      /\ orderly' = (orderly /\ calls["cli"] = <<>>)
      /\ UNCHANGED <<server, sw, job, phase, client>>
  BY <1>1, Zenon DEF Accept
<1>3. /\ requests \in Seq(Requests) /\ (\A i \in 1..Len(requests) : IsRequest(requests[i]))
      /\ CallsShape /\ failed \in [Threads -> BOOLEAN] /\ SwitchShape(sw) /\ "rpc" \in Threads
  BY DEF IInv, Shape, Threads
<1>4. /\ n \in Nat \ {0} /\ requests' \in Seq(Requests) /\ Len(requests') = n - 1 /\ q = requests[1]
      /\ \A i \in 1..(n - 1) : requests'[i] = requests[i + 1] /\ i + 1 \in 1..n /\ 1 < i + 1
  <2>0. requests # <<>>
    BY <1>2, Zenon
  <2>1. PICK w : w \in Seq(Requests) /\ w = requests /\ w # <<>>
    BY <1>3, <2>0, Zenon
  <2>2. /\ Len(w) \in Nat \ {0} /\ Tail(w) \in Seq(Requests) /\ Len(Tail(w)) = Len(w) - 1
        /\ Head(w) = w[1] /\ \A i \in 1..(Len(w) - 1) : Tail(w)[i] = w[i + 1]
    BY <2>1, TailFacts, ZenonT(30)
  <2>3. \A i \in 1..(n - 1) : i + 1 \in 1..n /\ 1 < i + 1
    BY <1>1, <2>1, <2>2
  <2> QED
    BY <1>1, <1>2, <2>1, <2>2, <2>3, Zenon
<1>5. /\ IsRequest(q) /\ q # NoRequest /\ q \in Requests
  <2>1. IsRequest(q)
    <3>1. 1 \in 1..n
      BY <1>4
    <3> QED
      BY <1>1, <1>3, <1>4, <3>1, Zenon
  <2> QED
    BY <2>1 DEF IsRequest, Requests, NoRequest
<1>6. calls["rpc"] = <<>> /\ Todo(calls["rpc"]) = {}
  BY <1>2, NoCalls, Zenon DEF IInv, TurnsOK
<1>7. Items' = Items /\ Group' = Group
  BY <1>2 DEF Items, Group
<1>8. /\ alone' \in BOOLEAN /\ orderly' \in BOOLEAN /\ (orderly' => orderly)
      /\ alone' \/ orderly' => calls["cli"] = <<>>
      /\ q.rank # 0 => alone' = alone
  <2>1. alone \in BOOLEAN /\ orderly \in BOOLEAN /\ (alone => calls["cli"] = <<>>)
    BY DEF IInv, Shape, TurnsOK
  <2> QED
    BY <1>2, <2>1, Zenon
<1>9. PICK A : A = AddSet(q.rank, HostOf[q.job][q.rank], q.job \in BadMessage)
  BY Zenon
<1>10. /\ Listed(s) /\ \A c \in Todo(s) : RpcCall(q, c) /\ CallOK(c) /\ c.op \notin Begun
       /\ JobSize[q.job] <= MaxWorkers => A \subseteq Todo(s)
       /\ q.rank = 0 => ClearSet \subseteq Todo(s) /\ Clearing(Todo(s))
       /\ q.rank # 0 => Todo(s) \subseteq A
  BY <1>1, <1>5, <1>9, ConnectCalls, Zenon
<1>11. PICK T : T = Todo(calls'["rpc"])
  BY Zenon
<1>12. /\ CallsShape' /\ calls'["cli"] = calls["cli"]
       /\ server = "started" => T = {} /\ calls'["rpc"] = <<>> /\ failed'["rpc"]
       /\ server # "started" => T = Todo(s) /\ ~ failed'["rpc"]
       /\ failed' \in [Threads -> BOOLEAN]
  <2>1. PICK z : z = IF server = "started" THEN <<>> ELSE s
    BY Zenon
  <2>2. Listed(z) /\ calls' = [calls EXCEPT !["rpc"] = z] /\ Todo(<<>>) = {}
    BY <1>2, <1>10, <2>1, NoCalls
  <2>3. NewCalls("rpc", Todo(z)) /\ calls'["rpc"] = z
    <3>1. NewCalls("rpc", Todo(z))
      BY <1>3, <2>2, NewList, Zenon
    <3> QED
      BY <1>3, <2>2, <3>1 DEF CallsShape, IsFunction
  <2>4. CallsShape' /\ calls'["cli"] = calls["cli"] /\ T = Todo(z)
    BY <1>11, <2>3 DEF NewCalls, Threads
  <2>5. failed' \in [Threads -> BOOLEAN] /\ failed'["rpc"] = (server = "started")
    BY <1>2, <1>3, Zenon
  <2> QED
    BY <2>1, <2>2, <2>3, <2>4, <2>5, Zenon
<1>13. /\ T \in {{}, Todo(s)}
       /\ \A c \in T : RpcCall(q, c) /\ CallOK(c) /\ c.op \notin Begun
  BY <1>10, <1>12, Zenon
<1>14. \A c \in A : Stage(c) = 4
  BY <1>9, AddSetOps
<1>15. Shape'
  <2>1. \A i \in 1..Len(requests') : IsRequest(requests'[i])
    BY <1>1, <1>3, <1>4, Zenon
  <2>2. IsRequest(serving')
    BY <1>2, <1>5
  <2> QED
    BY <1>2, <1>4, <1>8, <1>12, <2>1, <2>2 DEF IInv, Shape, IsRequest, Requests, Ranks
<1>16. TurnsOK'
  BY <1>2, <1>5, <1>8, <1>12 DEF TurnsOK
<1>17. QueueOK'
  <2>a. \A k \in 1..n :
          /\ requests[k].job <= job
          /\ requests[k].rank = 0 => requests[k].job = job /\ phase = "connecting"
          /\ (phase # "over" /\ requests[k].job = job) => client[requests[k].rank] = "sent"
          /\ (phase # "over" /\ client[0] = "connected") => requests[k].job = job
    BY <1>1, Zenon DEF IInv, QueueOK
  <2>b. \A a, b \in 1..n :
          a < b => /\ requests[a].job <= requests[b].job /\ requests[a] # requests[b]
                   /\ requests[b].rank # 0 => requests[a].job = requests[b].job
    BY <1>1, Zenon DEF IInv, QueueOK
  <2>c. 1 \in 1..n /\ q = requests[1]
    BY <1>4
  <2>1. ASSUME NEW i \in 1..(n - 1)
        PROVE  /\ requests'[i].job <= job
               /\ q.job <= requests'[i].job /\ q # requests'[i]
               /\ requests'[i].rank # 0 => q.job = requests'[i].job
               /\ requests'[i].rank = 0 => requests'[i].job = job /\ phase = "connecting"
               /\ (phase # "over" /\ requests'[i].job = job) => client[requests'[i].rank] = "sent"
    <3>1. PICK k \in 1..n : k = i + 1 /\ 1 < k /\ 1 \in 1..n /\ requests'[i] = requests[k]
      BY <1>4
    <3> QED
      BY <2>a, <2>b, <2>c, <3>1
  <2>2. ASSUME NEW i \in 1..(n - 1), NEW k \in 1..(n - 1), i < k
        PROVE  /\ requests'[i].job <= requests'[k].job /\ requests'[i] # requests'[k]
               /\ requests'[k].rank # 0 => requests'[i].job = requests'[k].job
    <3>1. PICK a, b \in 1..n : a < b /\ requests'[i] = requests[a] /\ requests'[k] = requests[b]
      <4>1. i + 1 \in 1..n /\ k + 1 \in 1..n /\ i + 1 < k + 1
        BY <1>4, <2>2
      <4>2. requests'[i] = requests[i + 1] /\ requests'[k] = requests[k + 1]
        BY <1>4, Zenon
      <4> QED
        BY <4>1, <4>2, Zenon
    <3> QED
      BY <2>b, <3>1
  <2>3. /\ q.job <= job
        /\ q.rank = 0 => q.job = job /\ phase = "connecting"
        /\ (phase # "over" /\ q.job = job) => client[q.rank] = "sent"
    BY <1>4, <2>a, <2>c, Zenon
  <2>4. phase # "over" => \A r \in Ranks(job) :
          /\ (r # 0 /\ client[r] # "start") => client[0] = "connected"
          /\ phase = "running" => client[r] = "connected"
    BY Zenon DEF IInv, QueueOK
  <2>5. (phase # "over" /\ client[0] = "connected") =>
          /\ q.job = job /\ \A i \in 1..(n - 1) : requests'[i].job = job
    BY <1>4, <2>a, <2>c, Zenon
  <2>6. /\ serving' = q /\ job' = job /\ phase' = phase /\ client' = client
        /\ Ranks(job') = Ranks(job) /\ 1..Len(requests') = 1..(n - 1)
    BY <1>2, <1>4
  <2>7. PICK N : N = 1..(n - 1)
    BY Zenon
  <2>8. \A i, k \in N :
          i < k => /\ requests'[i].job <= requests'[k].job /\ requests'[i] # requests'[k]
                   /\ requests'[k].rank # 0 => requests'[i].job = requests'[k].job
    BY <2>2, <2>7, Zenon
  <2>9. \A i \in N :
          /\ requests'[i].job <= job
          /\ q.job <= requests'[i].job /\ q # requests'[i]
          /\ requests'[i].rank # 0 => q.job = requests'[i].job
          /\ requests'[i].rank = 0 => requests'[i].job = job /\ phase = "connecting"
          /\ (phase # "over" /\ requests'[i].job = job) => client[requests'[i].rank] = "sent"
    BY <2>1, <2>7
  <2>10. 1..Len(requests') = N
    BY <2>6, <2>7
  <2> QED
    BY <2>3, <2>4, <2>5, <2>6, <2>8, <2>9, <2>10, Zenon DEF QueueOK
<1>18. GroupOK' /\ RpcOK'
  BY <1>2, <1>7, <1>8, <1>11, <1>13, ZenonT(30) DEF IInv, GroupOK, RpcOK
<1>19. ThreadsOK'
  <2>1. HandlerOK(Todo(calls'["cli"]))
    BY <1>12, HandlersOK DEF Threads
  <2>2. Watched' => PlacesOK(Todo(calls'["cli"]), Items', Group')
    BY <1>8, <1>12, NoCalls, Zenon DEF Watched, PlacesOK
  <2>3. HandlerOK(T) /\ PlacesOK(T, Items', Group')
    BY <1>13, FreshPlaces DEF HandlerOK
  <2> QED
    BY <1>11, <2>1, <2>2, <2>3, Zenon DEF ThreadsOK, Threads
<1>20. (phase # "over" /\ client[0] = "connected") => q.rank # 0 /\ T \subseteq A
  <2>1. 1 \in 1..n
    BY <1>4
  <2>2. (phase # "over" /\ client[0] = "connected") => q.rank # 0
    <3>1. requests[1].rank = 0 =>
              /\ requests[1].job = job
              /\ (phase # "over" /\ requests[1].job = job) => client[requests[1].rank] = "sent"
      BY <1>1, <2>1, Zenon DEF IInv, QueueOK
    <3>2. q = requests[1]
      BY <1>4
    <3> QED
      BY <3>1, <3>2
  <2> QED
    BY <1>10, <1>13, <2>2
<1>21. /\ \A f \in Tables : ClearCall(f) \in ClearSet
       /\ \A x \in Registers : RegisterCall(x) \in ClearSet
  BY DEF ClearSet
<1>22. CurrentOK'
  <2> SUFFICES ASSUME Current' PROVE CleanOK(T)'
    BY <1>11 DEF CurrentOK
  <2>1. CASE client[0] = "connected"
    <3>1. Current
      BY <1>2, <1>8, <1>20, <2>1 DEF Current
    <3>2. CleanOK({})
      BY <1>6, <3>1, Zenon DEF IInv, CurrentOK
    <3>3. \A f : ClearCall(f) \notin T
      <4>1. \A c \in T : Stage(c) = 4
        BY <1>2, <1>14, <1>20, <2>1 DEF Current
      <4>2. \A f : Stage(ClearCall(f)) # 4
        BY CallFields DEF Stage
      <4> QED
        BY <4>1, <4>2
    <3>4. CleanOK(T)
      BY <3>2, <3>3, ZenonT(30) DEF CleanOK, Clearing
    <3> QED
      BY <1>2, <3>4, SwitchKept
  <2>2. CASE client[0] # "connected"
    <3>1. First'
      BY <1>2, <2>2 DEF Current
    <3>2. q.rank = 0 /\ ~ failed'["rpc"]
      BY <1>2, <3>1 DEF First
    <3>3. ClearSet \subseteq T /\ Clearing(T)
      BY <1>10, <1>12, <3>2, Zenon
    <3>4. ClearCall("get_worker_bitmap") \in T /\ ClearCall("receive_roce") \in T
          /\ \A x \in Registers : RegisterCall(x) \in T
      BY <1>21, <3>3 DEF Tables
    <3>5. CleanOK(T)
      BY <3>3, <3>4, Zenon DEF CleanOK
    <3> QED
      BY <1>2, <3>5, SwitchKept
  <2> QED
    BY <2>1, <2>2
<1>23. FirstOK'
  <2> SUFFICES ASSUME q.rank = 0 PROVE EmptyOK(T)
    BY <1>2, <1>11, SwitchKept DEF FirstOK
  <2>1. CASE T = {}
    BY <2>1, Zenon DEF EmptyOK
  <2>2. CASE T = Todo(s)
    <3>1. ClearSet \subseteq T /\ Clearing(T)
      BY <1>10, <2>2
    <3> QED
      BY <1>21, <3>1 DEF EmptyOK
  <2> QED
    BY <1>13, <2>1, <2>2, Zenon
<1>24. ServedOK'
  <2> SUFFICES ASSUME q.job = job, ~ failed'["rpc"], Fits PROVE ProgressOK(q.rank, T)
    BY <1>2, <1>11, SwitchKept, Zenon DEF ServedOK
  <2>1. A \subseteq T
    BY <1>10, <1>12, Zenon DEF Fits
  <2>2. PICK r, h : r = q.rank /\ h = HostOf[job][q.rank]
    BY Zenon
  <2>3. PICK a, b, d : /\ a = [op |-> "rdma_receiver.add_entry", rid |-> r, host |-> h]
                       /\ b = [op |-> "worker_port_get", rid |-> r, host |-> h]
                       /\ d = [op |-> "log2_packets_per_message", bad |-> (q.job \in BadMessage)]
    BY Zenon
  <2>4. a \in T /\ b \in T /\ d \in T
    BY <1>9, <2>1, <2>2, <2>3, Zenon DEF AddSet
  <2>5. /\ a.op = "rdma_receiver.add_entry" /\ b.op = "worker_port_get"
        /\ d.op = "log2_packets_per_message"
    BY <2>3
  <2>6. IsAdd(b)
    BY <2>5 DEF IsAdd
  <2>7. AddCall("create_roce_packet", SendEntry(r)) \in T
    BY <1>9, <2>1, <2>2, Zenon DEF AddSet, SendEntry
  <2>8. \A k \in 1..Queues : AddCall("fill_in_qpn_and_psn", QueueEntry(r, k)) \in T
    BY <1>9, <2>1, <2>2, Zenon DEF AddSet, QueueEntry
  <2> QED
    BY <2>2, <2>4, <2>5, <2>6, <2>7, <2>8, Zenon DEF ProgressOK
<1>25. ConnectedOK'
  <2>1. (phase # "over" /\ client[0] = "connected") => Adding(T)
    BY <1>14, <1>20 DEF Adding
  <2>2. ASSUME phase # "over", alone', Fits, NEW r \in Ranks(job), client[r] = "connected"
        PROVE  Installed(r) /\ job \notin BadMessage
    <3>1. alone
      BY <1>8, <1>20, <2>2, RankZero, Zenon
    <3> QED
      BY <2>2, <3>1 DEF IInv, ConnectedOK
  <2> QED
    BY <1>2, <1>11, <2>1, <2>2, SwitchKept, Zenon DEF ConnectedOK, Ranks
<1> QED
  BY <1>15, <1>16, <1>17, <1>18, <1>19, <1>22, <1>23, <1>24, <1>25 DEF IInv

LEMMA InitInvariant ==
    ASSUME Init PROVE IInv
<1>1. /\ calls = [t \in Threads |-> <<>>] /\ failed = [t \in Threads |-> FALSE]
      /\ server = "down" /\ serving = NoRequest /\ requests = <<>> /\ job = 0 /\ phase = "over"
      /\ sw = NoWorkers /\ alone = FALSE /\ orderly = TRUE
  BY DEF Init
<1>2. calls["cli"] = <<>> /\ calls["rpc"] = <<>> /\ Todo(<<>>) = {} /\ Listed(<<>>)
  BY <1>1, NoCalls, Zenon DEF Threads
<1>3. Shape
  <2>1. CallsShape
    BY <1>1, <1>2 DEF CallsShape, IsFunction, Threads
  <2>2. requests \in Seq(Requests) /\ Len(requests) = 0
    BY <1>1
  <2>3. failed \in [Threads -> BOOLEAN] /\ job \in 0..Jobs
    BY <1>1, ControlAssumption
  <2>4. SwitchShape(sw)
    <3>1. PICK p : p = EmptyPre
      BY Zenon
    <3>2. SwitchML \in Mgids
      BY ControlAssumption
    <3>3. /\ p.mgid = [g \in Mgids |-> {}] /\ p.node = [r \in Rids |-> NoPort]
          /\ p.rids = [g \in Mgids |-> [dp \in DevPorts |-> NoRid]]
          /\ p = [x \in {"mgid", "node", "rids"} |-> p[x]]
      BY <3>1, Zenon DEF EmptyPre
    <3>4. p.rids[SwitchML] = [dp \in DevPorts |-> NoRid]
      BY <3>2, <3>3
    <3>5. /\ IsFunction(p.mgid, Mgids) /\ IsFunction(p.node, Rids) /\ IsFunction(p.rids, Mgids)
          /\ IsFunction(p.rids[SwitchML], DevPorts) /\ IsFunction(p, {"mgid", "node", "rids"})
      BY <3>3, <3>4 DEF IsFunction
    <3>6. sw.pre = p /\ sw.dirty = [x \in Registers |-> {}] /\ sw = [x \in Fields |-> sw[x]]
      BY <1>1, <3>1, Zenon DEF NoWorkers, Fields, Tables
    <3> QED
      BY <3>5, <3>6, Zenon DEF SwitchShape, PreShape, IsFunction
  <2>5. alone \in BOOLEAN /\ orderly \in BOOLEAN
    BY <1>1, Zenon
  <2>6. phase \in {"connecting", "running", "over"} /\ server \in {"down", "started", "serving"}
    BY <1>1
  <2>7. \A i \in 1..Len(requests) : FALSE
    BY <2>2
  <2> QED
    BY <1>1, <2>1, <2>2, <2>3, <2>4, <2>5, <2>6, <2>7, Zenon DEF Shape
<1>4. TurnsOK /\ QueueOK
  BY <1>1, <1>2 DEF TurnsOK, QueueOK
<1>5. GroupOK /\ ThreadsOK /\ RpcOK
  BY <1>1, <1>2 DEF GroupOK, ThreadsOK, RpcOK, HandlerOK, PlacesOK, Threads
<1>6. CurrentOK /\ FirstOK /\ ServedOK /\ ConnectedOK
  BY <1>1 DEF CurrentOK, Current, FirstOK, ServedOK, ConnectedOK
<1> QED
  BY <1>3, <1>4, <1>5, <1>6 DEF IInv

LEMMA StutterStep ==
    ASSUME IInv, UNCHANGED vars PROVE IInv'
<1>1. /\ UNCHANGED <<calls, failed, server, serving, sw, alone, orderly>> /\ UNCHANGED clients
      /\ requests' = requests /\ job' = job /\ phase' = phase /\ client' = client
  BY DEF vars, clients
<1>2. CallsShape' /\ SwitchShape(sw') /\ ThreadsOK' /\ Items' = Items /\ Group' = Group
  BY <1>1, PlainParts, Zenon DEF Watched
<1>3. Shape' /\ QueueOK'
  BY <1>1, <1>2, QueueKept, ShapeKept DEF IInv, Shape
<1>4. TurnsOK' /\ GroupOK' /\ RpcOK'
  BY <1>1, <1>2, Zenon DEF IInv, TurnsOK, GroupOK, RpcOK
<1>5. CurrentOK' /\ FirstOK' /\ ServedOK' /\ ConnectedOK'
  BY <1>1, KeptParts, Zenon
<1> QED
  BY <1>2, <1>3, <1>4, <1>5 DEF IInv

----------------------------------------------------------------------------
(* The steps of RDMAConnect: what they do to the parts of the invariant    *)
(* that say how far the request has come.                                  *)

(* What a step of worker_clear_all does: h is the call, R the calls that   *)
(* follow it and S the rest of h.                                          *)
ClearEffect(t, h, R, S) ==
    /\ Todo(calls[t]) = {h} \cup R /\ \A c \in R : Before(h, c)
    /\ Stage(h) < 4 /\ Items' \subseteq Items
    /\ \A f \in Tables : sw'[f] = {} \/ (sw'[f] = sw[f] /\ h # ClearCall(f))
    /\ \A x \in Registers :
          sw'.dirty[x] = {} \/ (sw'.dirty[x] = sw.dirty[x] /\ h # RegisterCall(x))
    /\ \/ Todo(calls'[t]) = {} /\ failed'[t]
       \/ /\ Todo(calls'[t]) = S \cup R /\ failed' = failed
          /\ \A g \in S : g.op \in ClearOps
          /\ (Watched /\ h.op \in ClearOps) => Clearing(S) \/ Items' = {}

RpcParts == RpcOK /\ CurrentOK /\ FirstOK /\ ServedOK /\ ConnectedOK

LEMMA ClearStep ==
    ASSUME IInv, Elsewhere, NEW h, NEW R, NEW S, ClearEffect("rpc", h, R, S)
    PROVE  RpcParts'
<1>1. PICK T : T = Todo(calls["rpc"])
  BY Zenon
<1>2. PICK U : U = Todo(calls'["rpc"])
  BY ZenonT(30)
<1>3. /\ T = {h} \cup R /\ \A c \in R : Before(h, c)
      /\ Stage(h) < 4 /\ Items' \subseteq Items /\ ~ Adding(T)
  <2>1. /\ T = {h} \cup R /\ \A c \in R : Before(h, c)
        /\ Stage(h) < 4 /\ Items' \subseteq Items
    BY <1>1, Zenon DEF ClearEffect
  <2>2. h \in T /\ Stage(h) # 4
    BY <2>1
  <2> QED
    BY <2>1, <2>2, Zenon DEF Adding
<1>4. \/ U = {} /\ failed'["rpc"]
      \/ /\ U = S \cup R /\ failed' = failed /\ \A g \in S : g.op \in ClearOps
         /\ (alone /\ Clearing(T)) => Clearing(U) \/ Items' = {}
  <2>1. \/ U = {} /\ failed'["rpc"]
        \/ /\ U = S \cup R /\ failed' = failed /\ \A g \in S : g.op \in ClearOps
           /\ (alone /\ h.op \in ClearOps) => Clearing(S) \/ Items' = {}
    BY <1>2, Zenon DEF ClearEffect, Watched
  <2>2. CASE U = {} /\ failed'["rpc"]
    BY <2>2, Zenon
  <2>3. CASE /\ U = S \cup R /\ failed' = failed /\ \A g \in S : g.op \in ClearOps
             /\ (alone /\ h.op \in ClearOps) => Clearing(S) \/ Items' = {}
    <3>1. Clearing(S) \/ Clearing(R) => Clearing(U)
      BY <2>3, Zenon DEF Clearing
    <3>2. Clearing(T) => h.op \in ClearOps \/ Clearing(R)
      BY <1>3, Zenon DEF Clearing
    <3> QED  BY <2>3, <3>1, <3>2, Zenon
  <2> QED  BY <2>1, <2>2, <2>3, Zenon
<1>5. \A c \in U : c \in R \/ c.op \in ClearOps
  BY <1>4
<1>6. /\ serving' = serving /\ requests' = requests /\ job' = job /\ phase' = phase
      /\ client' = client /\ (alone' <=> alone)
  BY Zenon DEF Elsewhere, clients
<1>7. /\ Accepted' = Accepted /\ (Fits' <=> Fits) /\ JobItems(job)' = JobItems(job)
      /\ Ranks(job)' = Ranks(job)
  BY <1>6, Zenon DEF Accepted, Alike, Fits, JobItems, Ranks
<1>8. RpcOK'
  <2>1. \A c \in T : RpcCall(serving, c)
    BY <1>1, Zenon DEF IInv, RpcOK
  <2>2. ASSUME NEW c, c.op \in ClearOps PROVE RpcCall(serving, c)
    BY <2>2 DEF RpcCall, ClearOps, AddOps
  <2> QED
    BY <1>2, <1>3, <1>5, <1>6, <2>1, <2>2 DEF RpcOK
<1>9. (alone /\ phase # "over") => \A r \in Ranks(job) : client[r] # "connected"
  <2>1. (alone /\ phase # "over") => client[0] # "connected"
    BY <1>1, <1>3, Zenon DEF IInv, ConnectedOK
  <2> QED
    BY <2>1, RankZero
<1>10. phase # "over" => 0 \in Ranks(job)
  BY RankZero
<1>11. ConnectedOK'
  BY <1>6, <1>7, <1>9, <1>10, Zenon DEF ConnectedOK
<1>12. ~ failed'["rpc"] => U = S \cup R /\ ~ failed["rpc"] /\ R \subseteq U
  BY <1>4
<1>13. CurrentOK'
  <2> SUFFICES ASSUME Current' PROVE CleanOK(U)'
    BY <1>2 DEF CurrentOK
  <2>1. ~ failed'["rpc"] /\ Current /\ phase # "over" /\ alone
    BY <1>6, <1>9, <1>10, <1>12 DEF Current, First
  <2>2. CleanOK(T)
    BY <1>1, <2>1 DEF IInv, CurrentOK
  <2>3. Clearing(T) => Clearing(U) \/ Items' = {}
    BY <1>4, <2>1
  <2>4. ASSUME NEW f \in Tables
        PROVE  sw'[f] = {} \/ (sw'[f] = sw[f] /\ (ClearCall(f) \in T => ClearCall(f) \in U))
    BY <1>3, <1>12, <2>1, Zenon DEF ClearEffect
  <2>5. {"get_worker_bitmap", "receive_roce"} \subseteq Tables
    BY DEF Tables
  <2>6. sw'.get_worker_bitmap = {} \/ ClearCall("get_worker_bitmap") \in U
    BY <2>2, <2>4, <2>5, ZenonT(30) DEF CleanOK
  <2>7. \/ \A e \in sw'.receive_roce : e.rid \in Ranks(job) /\ e.host = HostOf[job][e.rid]
        \/ ClearCall("receive_roce") \in U
    BY <2>2, <2>4, <2>5, ZenonT(30) DEF CleanOK
  <2>8. ASSUME NEW x \in Registers
        PROVE  sw'.dirty[x] \subseteq Accepted \/ RegisterCall(x) \in U
    <3>1. sw.dirty[x] \subseteq Accepted \/ RegisterCall(x) \in T
      BY <2>2, <2>8, Zenon DEF CleanOK
    <3> QED
      BY <3>1, <1>3, <1>12, <2>1, Zenon DEF ClearEffect
  <2>9. ASSUME NEW f \in {"get_worker_bitmap", "receive_roce"}, ClearCall(f) \in U
        PROVE  \A x \in Registers : RegisterCall(x) \in U
    <3>1. Stage(ClearCall(f)) = 1 /\ ClearCall(f).op \notin ClearOps
      BY CallFields DEF Stage, ClearOps
    <3>2. ClearCall(f) \in R /\ ClearCall(f) \in T
      BY <3>1, <2>9, <1>3, <1>5
    <3>3. Stage(h) <= 1
      BY <3>1, <3>2, <1>3, Zenon DEF Before
    <3>4. \A x : Stage(RegisterCall(x)) = 2
      BY Zenon DEF Stage, RegisterCall
    <3>5. \A x \in Registers : RegisterCall(x) \in T
      BY <3>2, <2>2 DEF CleanOK
    <3> QED
      BY <3>3, <3>4, <3>5, <1>3, <1>12, <2>1
  <2>10. Items' \subseteq JobItems(job) \/ Clearing(U)
    BY <2>2, <2>3, <1>3, Zenon DEF CleanOK
  <2> QED
    BY <1>6, <1>7, <2>6, <2>7, <2>8, <2>9, <2>10, Zenon DEF CleanOK
<1>14. FirstOK'
  <2> SUFFICES ASSUME alone, serving # NoRequest, serving.rank = 0,
                      NEW c \in U, c.op = "rdma_receiver.add_entry"
               PROVE  /\ \A f \in Tables : sw'[f] = {} \/ ClearCall(f) \in U
                      /\ Items' = {} \/ Clearing(U)
    BY <1>2, <1>6, Zenon DEF FirstOK, EmptyOK
  <2>1. c \in T /\ U = S \cup R
    BY <1>3, <1>4, <1>5, Zenon DEF ClearOps
  <2>2. /\ \A f \in Tables : sw[f] = {} \/ ClearCall(f) \in T
        /\ Items = {} \/ Clearing(T)
    BY <1>1, <2>1 DEF IInv, FirstOK, EmptyOK
  <2>3. ASSUME NEW f \in Tables PROVE sw'[f] = {} \/ ClearCall(f) \in U
    BY <2>1, <2>2, <1>3, Zenon DEF ClearEffect
  <2> QED
    BY <2>1, <2>2, <2>3, <1>3, <1>4, ZenonT(30)
<1>15. ServedOK'
  <2> SUFFICES ASSUME alone, Fits, phase # "over", serving # NoRequest, serving.job = job,
                      ~ failed'["rpc"]
               PROVE  ProgressOK(serving.rank, U)'
    BY <1>2, <1>6, <1>7 DEF ServedOK
  <2>1. PICK r : r = serving.rank
    BY Zenon
  <2>2. R \subseteq U /\ ProgressOK(r, T)
    BY <1>1, <1>12, <2>1 DEF IInv, ServedOK
  <2>3. \A c \in T : Stage(c) = 4 => c \in U
    BY <1>3, <2>2
  <2>4. \A c \in R : c.op # "extend_group"
    BY <1>3 DEF Before, Begun, AddOps
  <2>5. \A c : c.op \in {"rdma_receiver.add_entry", "add", "log2_packets_per_message"} => Stage(c) = 4
    BY DEF Stage, ClearOps
  <2>6. \A c : IsAdd(c) => Stage(c) = 4
    BY Zenon DEF Stage, ClearOps, IsAdd, AddOps
  <2>7. \A i \in 1..Len(Opcodes) :
          \/ \E c \in U : c.op = "rdma_receiver.add_entry"
          \/ \E c \in U : c.op = "add" /\ c.table = "receive_roce" /\ c.entry.opcode = Opcodes[i]
    <3>1. \A i \in 1..Len(Opcodes) :
            \/ \E c \in T : c.op = "rdma_receiver.add_entry"
            \/ \E c \in T : c.op = "add" /\ c.table = "receive_roce" /\ c.entry.opcode = Opcodes[i]
      BY <2>2, <1>3, Zenon DEF ProgressOK
    <3>2. \A c \in T : c.op \in {"rdma_receiver.add_entry", "add"} => c \in U
      BY <2>3, <2>5
    <3> QED
      BY <3>1, <3>2, Zenon
  <2>8. \E c \in U : IsAdd(c) /\ c.op # "extend_group"
    <3>1. \E c \in T : IsAdd(c) /\ Stage(c) = 4
      <4>1. \E c \in T : IsAdd(c) \/ c.op = "extend_group"
        BY <2>2, <1>3, Zenon DEF ProgressOK
      <4>2. \A c : c.op = "extend_group" => IsAdd(c)
        BY DEF IsAdd, AddOps
      <4> QED
        BY <4>1, <4>2, <2>6, Zenon
    <3>2. Stage(h) # 4
      BY <1>3 DEF Stage
    <3> QED
      BY <3>1, <3>2, <2>2, <2>4, <1>3, Zenon
  <2>9. AddCall("create_roce_packet", SendEntry(r)) \in U
    <3>1. PICK c : c = AddCall("create_roce_packet", SendEntry(r))
      BY Zenon
    <3>2. c \in T
      BY <3>1, <2>2, <1>3, Zenon DEF ProgressOK
    <3>3. c.op = "add"
      BY <3>1, CallFields
    <3> QED
      BY <3>1, <3>2, <3>3, <2>3, <2>5
  <2>10. ASSUME NEW q \in 1..Queues PROVE AddCall("fill_in_qpn_and_psn", QueueEntry(r, q)) \in U
    <3>1. PICK c : c = AddCall("fill_in_qpn_and_psn", QueueEntry(r, q))
      BY Zenon
    <3>2. c \in T
      BY <3>1, <2>2, <1>3, Zenon DEF ProgressOK
    <3>3. c.op = "add"
      BY <3>1, CallFields
    <3> QED
      BY <3>1, <3>2, <3>3, <2>3, <2>5
  <2>11. job \notin BadMessage \/ \E c \in U : c.op = "log2_packets_per_message"
    <3>1. job \notin BadMessage \/ \E c \in T : c.op = "log2_packets_per_message"
      BY <2>2, Zenon DEF ProgressOK
    <3> QED
      BY <3>1, <2>3, <2>5
  <2>12. SendEntry(r)' = SendEntry(r)
    BY <1>6 DEF SendEntry
  <2>13. ProgressOK(r, U)'
    BY <1>6, <2>7, <2>8, <2>9, <2>10, <2>11, <2>12, Zenon DEF ProgressOK
  <2> QED
    BY <1>6, <2>1, <2>13
<1> QED
  BY <1>8, <1>11, <1>13, <1>14, <1>15 DEF RpcParts

(* A step of worker_add_roce for the request that is served. *)
AddEffect(h, R, S) ==
    /\ Todo(calls["rpc"]) = {h} \cup R /\ (\A c \in R : Before(h, c)) /\ Stage(h) = 4
    /\ sw'.get_worker_bitmap = sw.get_worker_bitmap /\ sw'.dirty = sw.dirty
    /\ \A f \in Tables : sw[f] \subseteq sw'[f]
    /\ \A e \in sw'.receive_roce \ sw.receive_roce :
          e.rid = serving.rank /\ e.host = HostOf[serving.job][serving.rank]
    /\ Items' \subseteq Items \cup JobItems(serving.job)
    /\ \A r \in Rids \ {serving.rank} :
          sw'.pre.node[r] = sw.pre.node[r] /\ (r \in Group => r \in Group')
    /\ \/ Todo(calls'["rpc"]) = {} /\ failed'["rpc"]
       \/ /\ Todo(calls'["rpc"]) = S \cup R /\ failed' = failed
          /\ \A g \in S : RpcCall(serving, g) /\ Stage(g) = 4 /\ g.op # "rdma_receiver.add_entry"
          /\ h.op = "rdma_receiver.add_entry" =>
                \A i \in 1..Len(Opcodes) : \E c \in S :
                    c.op = "add" /\ c.table = "receive_roce" /\ c.entry.opcode = Opcodes[i]
          /\ h.op = "add" => h.entry \in sw'[h.table]
          /\ h.op = "log2_packets_per_message" => serving.job \notin BadMessage
          /\ IsAdd(h) /\ ~ failed["rpc"] =>
                \/ \E c \in S : IsAdd(c) /\ c.op # "extend_group"
                \/ /\ \E c \in S : c.op = "extend_group"
                   /\ sw'.pre.node[serving.rank] = PortOf[HostOf[serving.job][serving.rank]]
                \/ /\ h.op = "extend_group" /\ serving.rank \in Group'
                   /\ sw'.pre.node = sw.pre.node
                \/ h.op = "track_rid" /\ \E a \in Items : a.port = serving.rank
          /\ ~ IsAdd(h) => sw'.pre = sw.pre

(* The request that is served while a rank is connected, or the first one  *)
(* of its job, is a request of the current job.                            *)
LEMMA ServedJob ==
    ASSUME IInv, serving # NoRequest, phase # "over"
    PROVE  /\ Current => serving.job = job
           /\ \A r \in Ranks(job) : client[r] = "connected" => serving.job = job /\ r # serving.rank
<1>1. \A r \in Ranks(job) : client[r] = "connected" => serving.job = job /\ r # serving.rank
  BY RankZero, Zenon DEF IInv, QueueOK
<1>2. Current => serving.job = job
  BY <1>1, RankZero DEF Current, First
<1> QED
  BY <1>1, <1>2

(* A request of the current job that has not failed works on its tables. *)
LEMMA ServedCurrent ==
    ASSUME IInv, alone, phase # "over", serving # NoRequest, serving.job = job, ~ failed["rpc"]
    PROVE  Current
<1>1. IsRequest(serving) /\ client[serving.rank] = "sent" /\ serving.rank \in Ranks(job)
  BY Zenon DEF IInv, Shape, QueueOK, IsRequest
<1>2. CASE serving.rank = 0
  <2>1. serving = [job |-> job, rank |-> 0]
    BY <1>1, <1>2 DEF IsRequest, Requests
  <2> QED
    BY <2>1 DEF Current, First
<1>3. CASE serving.rank # 0
  <2>1. client[0] = "connected"
    BY <1>1, <1>3, Zenon DEF IInv, QueueOK
  <2> QED
    BY <2>1 DEF Current
<1> QED
  BY <1>2, <1>3

LEMMA AddStep ==
    ASSUME IInv, Elsewhere, serving # NoRequest, NEW h, NEW R, NEW S, AddEffect(h, R, S)
    PROVE  RpcParts'
<1>1. PICK T : T = Todo(calls["rpc"])
  BY Zenon
<1>2. PICK U : U = Todo(calls'["rpc"])
  BY Zenon
<1>3. T = {h} \cup R /\ (\A c \in R : Before(h, c)) /\ Stage(h) = 4
  BY <1>1, Zenon DEF AddEffect
<1>4. \A c \in R : Stage(c) = 4 /\ c.op # "rdma_receiver.add_entry" /\ c.op \notin Begun
  <2>1. \A c : Stage(c) \in 1..4
    BY DEF Stage
  <2> QED
    BY <1>3, <2>1 DEF Before
<1>5. /\ U \subseteq S \cup R /\ (U # {} \/ ~ failed'["rpc"] => U = S \cup R /\ failed' = failed)
      /\ \A g \in U : Stage(g) = 4 /\ g.op # "rdma_receiver.add_entry"
  BY <1>2, <1>4, Zenon DEF AddEffect
<1>6. /\ serving' = serving /\ requests' = requests /\ job' = job /\ phase' = phase
      /\ client' = client /\ (alone' <=> alone)
  BY DEF Elsewhere, clients
<1>7. Adding(T) /\ Adding(U) /\ ~ Clearing(T) /\ ~ Clearing(U)
  <2>1. \A c : Stage(c) = 4 => c.op \notin ClearOps
    BY DEF Stage
  <2> QED
    BY <1>3, <1>4, <1>5, <2>1 DEF Adding, Clearing
<1>8. /\ \A f \in Tables : ClearCall(f) \notin T /\ ClearCall(f) \notin U
      /\ \A x \in Registers : RegisterCall(x) \notin T
  <2>1. \A f \in Tables : Stage(ClearCall(f)) # 4
    BY CallFields DEF Stage
  <2>2. \A x : RegisterCall(x).op = "clear_register"
    BY DEF RegisterCall
  <2>3. \A x : Stage(RegisterCall(x)) # 4
    BY <2>2 DEF Stage
  <2> QED
    BY <1>7, <2>1, <2>3 DEF Adding
<1>9. Items' \subseteq Items \cup JobItems(serving.job)
  BY Zenon DEF AddEffect
<1>10. /\ Accepted' = Accepted /\ (Fits' <=> Fits) /\ JobItems(job)' = JobItems(job)
       /\ Ranks(job)' = Ranks(job) /\ \A r : Mistaken(r)' <=> Mistaken(r)
  BY <1>6, Zenon DEF Accepted, Alike, Fits, JobItems, Ranks, Mistaken
<1>11. RpcOK'
  <2>1. \A c \in T : RpcCall(serving, c)
    BY <1>1 DEF IInv, RpcOK
  <2>2. \A g \in U : g \in R \/ RpcCall(serving, g)
    BY <1>2, Zenon DEF AddEffect
  <2> QED
    BY <1>2, <1>3, <1>6, <2>1, <2>2 DEF RpcOK
<1>12. FirstOK'
  BY <1>2, <1>5, ZenonT(30) DEF FirstOK, EmptyOK
<1>13. CurrentOK'
  <2> SUFFICES ASSUME Current' PROVE CleanOK(U)'
    BY <1>2 DEF CurrentOK
  <2>1. Current /\ phase # "over"
    BY <1>5, <1>6, Zenon DEF Current, First
  <2>2. CleanOK(T) /\ serving.job = job
    BY <1>1, <2>1, ServedJob DEF IInv, CurrentOK
  <2>3. IsRequest(serving)
    BY DEF IInv, Shape
  <2>4. {"get_worker_bitmap", "receive_roce"} \subseteq Tables
    BY DEF Tables
  <2>5. sw'.get_worker_bitmap = {}
    BY <1>8, <2>2, <2>4, ZenonT(30) DEF CleanOK, AddEffect
  <2>6. \A e \in sw'.receive_roce : e.rid \in Ranks(job) /\ e.host = HostOf[job][e.rid]
    <3>1. \A e \in sw.receive_roce : e.rid \in Ranks(job) /\ e.host = HostOf[job][e.rid]
      BY <1>8, <2>2, <2>4, Zenon DEF CleanOK
    <3> QED
      <4>1. \A e \in sw'.receive_roce \ sw.receive_roce :
              e.rid = serving.rank /\ e.host = HostOf[serving.job][serving.rank]
        BY Zenon DEF AddEffect
      <4>2. serving.rank \in Ranks(job)
        BY <2>2, <2>3, Zenon DEF IsRequest
      <4> QED
        BY <2>2, <3>1, <4>1, <4>2
  <2>7. \A x \in Registers : sw'.dirty[x] \subseteq Accepted
    BY <1>8, <2>2, Zenon DEF CleanOK, AddEffect
  <2>8. Items' \subseteq JobItems(job)
    BY <1>7, <1>9, <2>2, Zenon DEF CleanOK
  <2> QED
    BY <1>6, <1>8, <1>10, <2>4, <2>5, <2>6, <2>7, <2>8, ZenonT(30) DEF CleanOK
<1>14. ConnectedOK'
  <2> SUFFICES ASSUME alone, Fits, phase # "over", NEW r \in Ranks(job), client[r] = "connected"
               PROVE  Installed(r)' /\ job \notin BadMessage
    BY <1>2, <1>6, <1>7, <1>10 DEF ConnectedOK
  <2>1. r # serving.rank /\ Installed(r) /\ job \notin BadMessage
    BY ServedJob DEF IInv, ConnectedOK
  <2>2. r \in Rids
    BY RankZero, ControlAssumption
  <2>3. sw'.pre.node[r] = sw.pre.node[r] /\ (r \in Group => r \in Group')
    BY <2>1, <2>2, Zenon DEF AddEffect
  <2>4. /\ sw.receive_roce \subseteq sw'.receive_roce
        /\ sw.create_roce_packet \subseteq sw'.create_roce_packet
        /\ sw.fill_in_qpn_and_psn \subseteq sw'.fill_in_qpn_and_psn
    BY Zenon DEF AddEffect, Tables
  <2> QED
    BY <1>6, <1>10, <2>1, <2>3, <2>4, Zenon DEF Installed, Group
<1>15. ServedOK'
  <2> SUFFICES ASSUME alone, Fits, phase # "over", serving.job = job, ~ failed'["rpc"]
               PROVE  ProgressOK(serving.rank, U)'
    BY <1>2, <1>6, <1>10 DEF ServedOK
  <2>1. PICK r : r = serving.rank
    BY Zenon
  <2>2. U = S \cup R /\ failed' = failed /\ ~ failed["rpc"] /\ ProgressOK(r, T)
    BY <1>1, <1>5, <2>1 DEF IInv, ServedOK
  <2>3. RpcCall(serving, h)
    BY <1>1, <1>3 DEF IInv, RpcOK
  <2>4. \A f \in Tables : sw[f] \subseteq sw'[f]
    BY Zenon DEF AddEffect
  <2>5. {"receive_roce", "create_roce_packet", "fill_in_qpn_and_psn"} \subseteq Tables
    BY DEF Tables
  <2>6. h.op = "add" => h.entry \in sw'[h.table]
    BY <2>2, Zenon DEF AddEffect
  <2>7. SendEntry(r)' = SendEntry(r)
    BY <1>6 DEF SendEntry
  <2>8. ASSUME NEW i \in 1..Len(Opcodes)
        PROVE  \/ Received(r, i)'
               \/ \E c \in U : c.op = "add" /\ c.table = "receive_roce" /\ c.entry.opcode = Opcodes[i]
    <3>1. CASE Received(r, i)
      BY <3>1, <1>6, <2>4, <2>5, Zenon DEF Received
    <3>2. CASE \E c \in T : c.op = "rdma_receiver.add_entry"
      <4>1. h.op = "rdma_receiver.add_entry"
        BY <3>2, <1>3, <1>4, Zenon
      <4> QED
        BY <4>1, <2>2, Zenon DEF AddEffect
    <3>3. CASE \E c \in T : c.op = "add" /\ c.table = "receive_roce" /\ c.entry.opcode = Opcodes[i]
      <4>1. CASE h.op = "add" /\ h.table = "receive_roce" /\ h.entry.opcode = Opcodes[i]
        <5>1. h.entry \in sw'.receive_roce /\ h.entry.rid = r /\ h.entry.host = HostOf[job][r]
          BY <4>1, <2>1, <2>3, <2>6 DEF RpcCall
        <5> QED
          BY <4>1, <5>1, <1>6, ZenonT(30) DEF Received
      <4> QED
        BY <3>3, <4>1, <1>3, <2>2
    <3> QED
      BY <2>2, <3>1, <3>2, <3>3, Zenon DEF ProgressOK
  <2>9. \/ Mistaken(r)
        \/ r \in Group' /\ sw'.pre.node[r] = PortOf[HostOf[job][r]]
        \/ \E c \in U : IsAdd(c) /\ c.op # "extend_group"
        \/ (\E c \in U : c.op = "extend_group") /\ sw'.pre.node[r] = PortOf[HostOf[job][r]]
    <3>1. CASE ~ IsAdd(h)
      <4>1. sw'.pre = sw.pre /\ Group' = Group
        BY <3>1, <2>2, Zenon DEF AddEffect, Group
      <4>2. \A c \in T : IsAdd(c) \/ c.op = "extend_group" => c \in U
        BY <3>1, <1>3, <2>2, Zenon DEF IsAdd, AddOps
      <4> QED
        BY <4>1, <4>2, <2>2, Zenon DEF ProgressOK
    <3>2. CASE IsAdd(h)
      <4>1. \/ \E c \in S : IsAdd(c) /\ c.op # "extend_group"
            \/ /\ \E c \in S : c.op = "extend_group"
               /\ sw'.pre.node[r] = PortOf[HostOf[job][r]]
            \/ h.op = "extend_group" /\ r \in Group' /\ sw'.pre.node = sw.pre.node
            \/ \E a \in Items : a.port = r
        BY <3>2, <2>1, <2>2, Zenon DEF AddEffect
      <4>2. h.op = "extend_group" => Mistaken(r) \/ sw.pre.node[r] = PortOf[HostOf[job][r]]
        <5>1. h.op = "extend_group" => \A c \in T : ~ (IsAdd(c) /\ c.op # "extend_group")
          BY <3>2, <1>3 DEF Before
        <5> QED
          BY <5>1, <2>2, Zenon DEF ProgressOK
      <4>3. S \subseteq U
        BY <2>2, Zenon
      <4>4. ASSUME NEW a \in Items, a.port = r PROVE Mistaken(r)
        <5>1. a \in JobItems(job)
          <6>1. Current
            BY <2>2, ServedCurrent
          <6>2. CleanOK(T)
            BY <1>1, <6>1 DEF IInv, CurrentOK
          <6> QED
            BY <1>7, <6>2, <4>4 DEF CleanOK
        <5>2. PICK x \in Ranks(job) : HostOf[job][x] \in DOMAIN PortOf /\ a = Item(PortOf[HostOf[job][x]], x)
          BY <5>1 DEF JobItems
        <5> QED
          BY <4>4, <5>2 DEF Mistaken, Item
      <4> QED
        BY <4>1, <4>2, <4>3, <4>4
    <3> QED
      BY <3>1, <3>2, Zenon
  <2>10. SendEntry(r) \in sw'.create_roce_packet \/ AddCall("create_roce_packet", SendEntry(r)) \in U
    <3>1. PICK c : c = AddCall("create_roce_packet", SendEntry(r))
      BY Zenon
    <3>2. c.op = "add" /\ c.table = "create_roce_packet" /\ c.entry = SendEntry(r)
      BY <3>1, CallFields
    <3>3. SendEntry(r) \in sw.create_roce_packet \/ c \in T
      BY <3>1, <2>2, Zenon DEF ProgressOK
    <3> QED
      BY <3>1, <3>2, <3>3, <1>3, <2>2, <2>4, <2>5, <2>6, Zenon
  <2>11. ASSUME NEW q \in 1..Queues
         PROVE  \/ QueueEntry(r, q) \in sw'.fill_in_qpn_and_psn
                \/ AddCall("fill_in_qpn_and_psn", QueueEntry(r, q)) \in U
    <3>1. PICK c : c = AddCall("fill_in_qpn_and_psn", QueueEntry(r, q))
      BY Zenon
    <3>2. c.op = "add" /\ c.table = "fill_in_qpn_and_psn" /\ c.entry = QueueEntry(r, q)
      BY <3>1, CallFields
    <3>3. QueueEntry(r, q) \in sw.fill_in_qpn_and_psn \/ c \in T
      BY <3>1, <2>2, Zenon DEF ProgressOK
    <3> QED
      BY <3>1, <3>2, <3>3, <1>3, <2>2, <2>4, <2>5, <2>6, Zenon
  <2>12. job \notin BadMessage \/ \E c \in U : c.op = "log2_packets_per_message"
    BY <1>3, <2>2, ZenonT(30) DEF ProgressOK, AddEffect
  <2>13. ProgressOK(r, U)'
    BY <1>6, <1>7, <1>10, <2>7, <2>8, <2>9, <2>10, <2>11, <2>12, Zenon DEF ProgressOK
  <2> QED
    BY <1>6, <2>1, <2>13
<1> QED
  BY <1>11, <1>12, <1>13, <1>14, <1>15 DEF RpcParts
=============================================================================
