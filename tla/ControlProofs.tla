----------------------------- MODULE ControlProofs -----------------------------
(***************************************************************************)
(* Proofs about the controller of ControlPlane, for any number of jobs,    *)
(* ranks, hosts, ports, opcodes, queues, commands and restarts: a worker   *)
(* that was told it is connected is installed, the group of a running job  *)
(* holds its workers only, its registers hold nothing of an earlier job,   *)
(* and the first worker finds empty tables.                                *)
(***************************************************************************)
EXTENDS ControlSteps

USE SMTT(30), ZenonT(20)

----------------------------------------------------------------------------
(* The step of a thread on its list.                                       *)

(* The calls h and R of a thread, and those after a step. *)
LEMMA OneStep ==
    ASSUME CallsShape, NEW t \in Threads, calls[t] # <<>>
    PROVE  \E R : LET h == Head(calls[t]) IN
               /\ Todo(calls[t]) = {h} \cup R /\ \A c \in R : Before(h, c)
               /\ Return(t) => NewCalls(t, R)
               /\ Raise(t) => NewCalls(t, {})
               /\ \A s : (/\ Expand(t, s) /\ Listed(s)
                          /\ \A c \in Todo(s), d \in R : Before(c, d))
                             => NewCalls(t, Todo(s) \cup R)
               /\ \A g : (/\ Become(t, g) /\ \A d \in R : Before(g, d)) => NewCalls(t, {g} \cup R)
<1>1. Listed(calls[t])
  BY DEF CallsShape
<1>2. PICK u : u = Tail(calls[t])
  BY Zenon
<1>3. /\ Listed(u) /\ Todo(calls[t]) = {Head(calls[t])} \cup Todo(u)
      /\ \A c \in Todo(u) : Before(Head(calls[t]), c)
  BY <1>1, <1>2, FirstAndRest
<1>4. ASSUME NEW s PROVE calls' = [calls EXCEPT ![t] = s \o Tail(@)] <=> calls' = [calls EXCEPT ![t] = s \o u]
  BY <1>2 DEF CallsShape, IsFunction
<1>5. Return(t) => NewCalls(t, Todo(u))
  BY <1>2, <1>3, NewList, Zenon DEF Return
<1>6. Raise(t) => NewCalls(t, {})
  BY NoCalls, NewList, ZenonT(30) DEF Raise
<1>7. ASSUME NEW s, Expand(t, s), Listed(s), \A c \in Todo(s), d \in Todo(u) : Before(c, d)
      PROVE  NewCalls(t, Todo(s) \cup Todo(u))
  <2>1. Listed(s \o u) /\ Todo(s \o u) = Todo(s) \cup Todo(u)
    BY <1>3, <1>7, Joined
  <2>2. calls' = [calls EXCEPT ![t] = s \o u]
    BY <1>4, <1>7, Zenon DEF Expand
  <2> QED
    BY <2>1, <2>2, NewList, Zenon
<1>8. ASSUME NEW g, Become(t, g), \A d \in Todo(u) : Before(g, d)
      PROVE  NewCalls(t, {g} \cup Todo(u))
  <2>1. Listed(<<g>>) /\ Todo(<<g>>) = {g}
    BY Single
  <2>2. \A c \in Todo(<<g>>), d \in Todo(u) : Before(c, d)
    BY <2>1, <1>8
  <2>3. NewCalls(t, Todo(<<g>>) \cup Todo(u))
    BY <1>7, <1>8, <2>1, <2>2 DEF Become
  <2> QED
    BY <2>1, <2>3, Zenon
<1> QED
  BY <1>3, <1>5, <1>6, <1>7, <1>8, Zenon

----------------------------------------------------------------------------
(* The dictionary and the tables of PRE.                                   *)

(* Adding a port to the dictionary, and forgetting it. *)
LEMMA ItemsTrack ==
    ASSUME NEW d, IsFunction(d, DevPorts), NEW dp \in DevPorts, NEW r, r # NoRid
    PROVE  LET e == SetField(d, dp, r) IN
           /\ ItemsOf(e) \subseteq ItemsOf(d) \cup {Item(dp, r)} /\ Item(dp, r) \in ItemsOf(e)
           /\ d[dp] \in {NoRid, r} => ItemsOf(d) \subseteq ItemsOf(e)
<1>1. PICK e : e = SetField(d, dp, r)
  BY Zenon
<1>2. e[dp] = r /\ \A x \in DevPorts \ {dp} : e[x] = d[x]
  BY <1>1 DEF IsFunction, SetField
<1>3. \A x \in DevPorts : e[x] # NoRid => Item(x, e[x]) \in ItemsOf(d) \cup {Item(dp, r)}
  BY <1>2 DEF ItemsOf
<1>4. d[dp] \in {NoRid, r} => \A x \in DevPorts : d[x] # NoRid => Item(x, d[x]) \in ItemsOf(e)
  BY <1>2 DEF ItemsOf
<1>5. Item(dp, r) \in ItemsOf(e)
  BY <1>2 DEF ItemsOf
<1>6. ItemsOf(e) \subseteq ItemsOf(d) \cup {Item(dp, r)}
  BY <1>3 DEF ItemsOf
<1>7. d[dp] \in {NoRid, r} => ItemsOf(d) \subseteq ItemsOf(e)
  BY <1>4 DEF ItemsOf
<1> QED
  BY <1>1, <1>5, <1>6, <1>7, Zenon

LEMMA ItemsForget ==
    ASSUME NEW d, IsFunction(d, DevPorts), NEW dp
    PROVE  LET e == SetField(d, dp, NoRid) IN
           /\ ItemsOf(e) \subseteq ItemsOf(d)
           /\ \A a \in ItemsOf(d) : a.port = dp => ItemsOf(e) = ItemsOf(d) \ {a}
<1>1. PICK e : e = SetField(d, dp, NoRid)
  BY Zenon
<1>2. /\ \A x \in DevPorts : e[x] = IF x = dp THEN NoRid ELSE d[x]
  BY <1>1 DEF IsFunction, SetField
<1>3. ASSUME NEW x \in DevPorts, e[x] # NoRid PROVE x # dp /\ e[x] = d[x]
  BY <1>2, <1>3
<1>4. ItemsOf(e) \subseteq ItemsOf(d)
  BY <1>3 DEF ItemsOf
<1>5. ASSUME NEW a \in ItemsOf(d), a.port = dp PROVE ItemsOf(e) = ItemsOf(d) \ {a}
  <2>1. PICK y \in DevPorts : d[y] # NoRid /\ a = Item(y, d[y])
    BY DEF ItemsOf
  <2>2. y = dp
    BY <1>5, <2>1 DEF Item
  <2>3. ASSUME NEW x, NEW v, x # dp PROVE Item(x, v) # a
    <3>1. Item(x, v).port = x
      BY DEF Item
    <3> QED
      BY <3>1, <1>5, <2>3
  <2>4. \A x \in DevPorts : e[x] # NoRid => Item(x, e[x]) \in ItemsOf(d) /\ Item(x, e[x]) # a
    BY <1>3, <2>3 DEF ItemsOf
  <2>5. \A x \in DevPorts : d[x] # NoRid => Item(x, d[x]) = a \/ Item(x, d[x]) \in ItemsOf(e)
    BY <1>2, <2>1, <2>2 DEF ItemsOf
  <2>6. ItemsOf(e) \subseteq ItemsOf(d) \ {a}
    BY <2>4 DEF ItemsOf
  <2>7. ItemsOf(d) \ {a} \subseteq ItemsOf(e)
    BY <2>5 DEF ItemsOf
  <2> QED
    BY <2>6, <2>7
<1> QED
  BY <1>1, <1>4, <1>5, Zenon

(* What each call of PRE does to the record. *)
LEMMA TrackRidEffect ==
    ASSUME NEW p, PreShape(p), NEW rid, NEW dp \in DevPorts, SwitchML \in Mgids
    PROVE  LET q == TrackRid(p, SwitchML, rid, dp) IN
           /\ PreShape(q) /\ q.mgid = p.mgid /\ q.node = p.node
           /\ q.rids[SwitchML] = SetField(p.rids[SwitchML], dp, rid)
  BY DEF TrackRid, PreShape, IsFunction, SetField

LEMMA ErasuresEffect ==
    ASSUME NEW p, PreShape(p), NEW rid, NEW q \in Erasures(p, rid), SwitchML \in Mgids
    PROVE  /\ PreShape(q) /\ q.rids = p.rids /\ q.mgid[SwitchML] \subseteq p.mgid[SwitchML]
           /\ \A r \in Rids \ {rid} :
                 q.node[r] = p.node[r] /\ (r \in p.mgid[SwitchML] => r \in q.mgid[SwitchML])
<1>1. q = p \/ q = NodeGone(p, rid)
  BY DEF Erasures
<1>2. CASE q = NodeGone(p, rid)
  BY <1>2, Zenon DEF NodeGone, PreShape, IsFunction
<1> QED
  BY <1>1, <1>2

LEMMA AddNodeEffect ==
    ASSUME NEW p, PreShape(p), NEW rid, NEW dp
    PROVE  LET q == AddNode(p, rid, dp) IN
           /\ PreShape(q) /\ q.rids = p.rids /\ q.mgid = p.mgid
           /\ rid \in Rids => q.node[rid] = dp
           /\ \A r \in Rids \ {rid} : q.node[r] = p.node[r]
  BY DEF AddNode, PreShape, IsFunction

LEMMA ExtendGroupEffect ==
    ASSUME NEW p, PreShape(p), NEW rid, SwitchML \in Mgids
    PROVE  LET q == ExtendGroup(p, SwitchML, rid) IN
           /\ PreShape(q) /\ q.rids = p.rids /\ q.node = p.node
           /\ q.mgid[SwitchML] = p.mgid[SwitchML] \cup {rid}
  BY Zenon DEF ExtendGroup, PreShape, IsFunction

LEMMA LeaveGroupEffect ==
    ASSUME NEW p, PreShape(p), NEW rid, SwitchML \in Mgids
    PROVE  LET q == LeaveGroup(p, SwitchML, rid) IN
           /\ PreShape(q) /\ q.rids = p.rids /\ q.node = p.node
           /\ q.mgid[SwitchML] = p.mgid[SwitchML] \ {rid}
  BY Zenon DEF LeaveGroup, PreShape, IsFunction

LEMMA ForgetEffect ==
    ASSUME NEW p, PreShape(p), NEW dp, SwitchML \in Mgids
    PROVE  LET q == Forget(p, SwitchML, dp) IN
           /\ PreShape(q) /\ q.mgid = p.mgid /\ q.node = p.node
           /\ q.rids[SwitchML] = SetField(p.rids[SwitchML], dp, NoRid)
  BY DEF Forget, PreShape, IsFunction, SetField

LEMMA TableEffect ==
    ASSUME NEW x, SwitchShape(x), NEW f \in Fields \ {"pre", "dirty"}, NEW v
    PROVE  LET y == SetField(x, f, v) IN
           /\ SwitchShape(y) /\ y[f] = v /\ y.pre = x.pre /\ y.dirty = x.dirty
           /\ \A g \in Fields \ {f} : y[g] = x[g]
<1>1. PICK z : z = SetField(x, f, v)
  BY Zenon
<1>2. IsFunction(z, Fields) /\ z[f] = v /\ \A g \in Fields \ {f} : z[g] = x[g]
  BY <1>1, FieldEffect
<1>3. "dirty" \in Fields \ {f} /\ "pre" \in Fields \ {f}
  BY DEF Fields
<1>4. z.pre = x.pre /\ z.dirty = x.dirty
  BY <1>2, <1>3
<1>5. SwitchShape(z)
  BY <1>2, <1>4 DEF SwitchShape
<1> QED
  BY <1>1, <1>2, <1>4, <1>5

LEMMA PreEffect ==
    ASSUME NEW x, SwitchShape(x), NEW q, PreShape(q)
    PROVE  LET y == SetField(x, "pre", q) IN
           /\ SwitchShape(y) /\ y.pre = q /\ y.dirty = x.dirty
           /\ \A g \in Fields \ {"pre"} : y[g] = x[g]
<1>1. PICK z : z = SetField(x, "pre", q)
  BY Zenon
<1>2. "pre" \in Fields /\ "dirty" \in Fields \ {"pre"}
  BY DEF Fields
<1>3. IsFunction(z, Fields) /\ z.pre = q /\ \A g \in Fields \ {"pre"} : z[g] = x[g]
  BY <1>1, <1>2, FieldEffect
<1>4. z.dirty = x.dirty
  BY <1>2, <1>3
<1>5. SwitchShape(z)
  BY <1>3, <1>4 DEF SwitchShape
<1> QED
  BY <1>1, <1>3, <1>4, <1>5

----------------------------------------------------------------------------
(* The step of either thread: the shape of the state, the group and the    *)
(* calls of the thread.                                                    *)

Ready(t) ==
    /\ t \in Threads /\ Shape /\ calls[t] # <<>>
    /\ HandlerOK(Todo(calls[t])) /\ (Watched => PlacesOK(Todo(calls[t]), Items, Group))
    /\ orderly => Grouped(Items, Group)
Generic(t) ==
    /\ CallsShape' /\ SwitchShape(sw') /\ failed' \in [Threads -> BOOLEAN]
    /\ \A o \in Threads \ {t} : calls'[o] = calls[o]
    /\ HandlerOK(Todo(calls'[t])) /\ (Watched => PlacesOK(Todo(calls'[t]), Items', Group'))
    /\ (orderly /\ ~ TakesOver(t)) => Grouped(Items', Group')

(* What a step of PRE.worker_add does. *)
GroupEffect(t, h, R, S) ==
    /\ Todo(calls[t]) = {h} \cup R /\ \A c \in R : Before(h, c)
    /\ (\A f \in Tables : sw'[f] = sw[f]) /\ sw'.dirty = sw.dirty
    /\ Items' \subseteq Items \cup {Item(h.port, h.rid)}
    /\ \A r \in Rids \ {h.rid} :
          sw'.pre.node[r] = sw.pre.node[r] /\ (r \in Group => r \in Group')
    /\ \/ Todo(calls'[t]) = {} /\ failed'[t]
       \/ /\ Todo(calls'[t]) = S \cup R /\ failed' = failed
          /\ \/ h.op = "track_rid" /\ AlreadyAdded(sw.pre, SwitchML, h.rid) /\ S = {}
             \/ \E g \in S :
                   /\ S = {g} /\ g.rid = h.rid /\ g.port = h.port
                   /\ g.op \in {"erase_node", "add_node", "extend_group"}
                   /\ (g.op = "extend_group" /\ h.rid \in Rids) => sw'.pre.node[h.rid] = h.port
             \/ /\ h.op = "extend_group" /\ S = {} /\ h.rid \in Group'
                /\ sw'.pre.node = sw.pre.node

(* A step of PRE.worker_clear_all, with the tables and registers alone. *)
LEMMA GroupClearEffect ==
    ASSUME NEW t, NEW h, NEW R, NEW S, Todo(calls[t]) = {h} \cup R,
           \A c \in R : Before(h, c), h.op \in ClearOps, Items' \subseteq Items,
           \A f \in Tables : sw'[f] = sw[f], sw'.dirty = sw.dirty,
           \/ Todo(calls'[t]) = {} /\ failed'[t]
           \/ /\ Todo(calls'[t]) = S \cup R /\ failed' = failed
              /\ \A g \in S : g.op \in ClearOps
              /\ Watched => Clearing(S) \/ Items' = {}
    PROVE  ClearEffect(t, h, R, S)
<1>1. Stage(h) < 4 /\ h.op # "clear" /\ h.op # "clear_register"
  BY DEF Stage, ClearOps
<1>2. \A x : h # ClearCall(x) /\ h # RegisterCall(x)
  BY <1>1, CallFields
<1> QED
  BY <1>1, <1>2 DEF ClearEffect

(* What a thread that has a call to make may count on. *)
LEMMA ReadyFacts ==
    ASSUME NEW t, Ready(t)
    PROVE  \E R : LET h == Head(calls[t]) IN
               /\ Todo(calls[t]) = {h} \cup R /\ CallOK(h) /\ (Watched => PlaceOK(h, Items, Group))
               /\ \A c \in R : Before(h, c) /\ c.op \notin Begun
               /\ Return(t) => NewCalls(t, R) /\ failed' \in [Threads -> BOOLEAN]
               /\ Raise(t) => NewCalls(t, {}) /\ failed' \in [Threads -> BOOLEAN]
               /\ \A s : (/\ Expand(t, s) /\ Listed(s)
                          /\ \A c \in Todo(s), d \in R : Before(c, d))
                             => NewCalls(t, Todo(s) \cup R) /\ failed' \in [Threads -> BOOLEAN]
               /\ \A g : (/\ Become(t, g) /\ \A d \in R : Before(g, d))
                             => NewCalls(t, {g} \cup R) /\ failed' \in [Threads -> BOOLEAN]
<1>1. t \in Threads /\ CallsShape /\ calls[t] # <<>> /\ failed \in [Threads -> BOOLEAN]
  BY DEF Ready, Shape
<1>2. PICK R : LET h == Head(calls[t]) IN
               /\ Todo(calls[t]) = {h} \cup R /\ \A c \in R : Before(h, c)
               /\ Return(t) => NewCalls(t, R)
               /\ Raise(t) => NewCalls(t, {})
               /\ \A s : (/\ Expand(t, s) /\ Listed(s)
                          /\ \A c \in Todo(s), d \in R : Before(c, d))
                             => NewCalls(t, Todo(s) \cup R)
               /\ \A g : (/\ Become(t, g) /\ \A d \in R : Before(g, d)) => NewCalls(t, {g} \cup R)
  BY <1>1, OneStep, Zenon
<1>3. /\ CallOK(Head(calls[t]))
      /\ Watched => PlaceOK(Head(calls[t]), Items, Group)
  BY <1>2, Zenon DEF Ready, HandlerOK, PlacesOK
<1>4. \A c \in R : Before(Head(calls[t]), c) /\ c.op \notin Begun
  BY <1>2 DEF Before
<1>5. Return(t) \/ Raise(t) \/ (\E s : Expand(t, s)) \/ (\E g : Become(t, g)) => failed' \in [Threads -> BOOLEAN]
  <2>1. Raise(t) => failed' \in [Threads -> BOOLEAN]
    BY <1>1 DEF Raise
  <2> QED
    BY <1>1, <2>1, Zenon DEF Return, Expand, Become
<1> QED
  BY <1>2, <1>3, <1>4, <1>5, Zenon

(* The calls that stay have not begun: only the new calls S count. *)
LEMMA StepGeneric ==
    ASSUME NEW t, Ready(t), NEW R, NEW h, Todo(calls[t]) = {h} \cup R,
           \A c \in R : c.op \notin Begun, NEW S, NewCalls(t, S \cup R),
           failed' \in [Threads -> BOOLEAN], SwitchShape(sw'),
           (orderly /\ ~ TakesOver(t)) => Grouped(Items', Group'),
           \A c \in S : CallOK(c) /\ (Watched => PlaceOK(c, Items', Group'))
    PROVE  Generic(t)
<1>1. HandlerOK(Todo(calls[t])) /\ PlacesOK(R, Items', Group')
  BY FreshPlaces, Zenon DEF Ready
<1>2. HandlerOK(S \cup R)
  BY <1>1, Zenon DEF HandlerOK
<1>3. Watched => PlacesOK(S \cup R, Items', Group')
  BY <1>1, Zenon DEF PlacesOK
<1> QED
  BY <1>2, <1>3, Zenon DEF Generic, NewCalls

(* The same for a method that goes on with its next step g. *)
LEMMA BecomeGeneric ==
    ASSUME NEW t, Ready(t), NEW R, NEW h, Todo(calls[t]) = {h} \cup R,
           \A c \in R : c.op \notin Begun, NEW g, NewCalls(t, {g} \cup R),
           failed' \in [Threads -> BOOLEAN], SwitchShape(sw'),
           (orderly /\ ~ TakesOver(t)) => Grouped(Items', Group'),
           CallOK(g), Watched => PlaceOK(g, Items', Group')
    PROVE  Generic(t)
<1>1. PICK S : S = {g}
  BY Zenon
<1>2. \A c \in S : CallOK(c) /\ (Watched => PlaceOK(c, Items', Group'))
  BY <1>1, Zenon
<1>3. NewCalls(t, S \cup R)
  BY <1>1, Zenon
<1> QED
  BY <1>2, <1>3, StepGeneric, Zenon

(* A step that leaves PRE alone and makes no new call. *)
LEMMA PlainGeneric ==
    ASSUME NEW t, Ready(t), NEW R, NEW h, Todo(calls[t]) = {h} \cup R,
           \A c \in R : c.op \notin Begun, NEW U, NewCalls(t, U), U = {} \/ U = R,
           failed' \in [Threads -> BOOLEAN], SwitchShape(sw'), sw'.pre = sw.pre
    PROVE  Generic(t)
<1>1. PICK S : S = {}
  BY Zenon
<1>2. Items' = Items /\ Group' = Group
  BY DEF Items, Group
<1>3. orderly => Grouped(Items', Group')
  BY <1>2, Zenon DEF Ready
<1>4. CASE U = R
  <2>1. S \cup R = U /\ \A c \in S : FALSE
    BY <1>1, <1>4
  <2> QED
    BY <1>3, <2>1, StepGeneric, Zenon
<1>5. CASE U = {}
  BY <1>3, <1>5, Zenon DEF Generic, NewCalls, HandlerOK, PlacesOK
<1> QED
  BY <1>4, <1>5

(* The calls that touch one table or register, or nothing. *)
LEMMA ClearTableGeneric ==
    ASSUME NEW t, Ready(t), ClearTable(t)
    PROVE  Generic(t) /\ \E R, S : ClearEffect(t, Head(calls[t]), R, S)
<1>1. PICK R : LET h == Head(calls[t]) IN
               /\ Todo(calls[t]) = {h} \cup R /\ CallOK(h) /\ (Watched => PlaceOK(h, Items, Group))
               /\ \A c \in R : Before(h, c) /\ c.op \notin Begun
               /\ Return(t) => NewCalls(t, R) /\ failed' \in [Threads -> BOOLEAN]
  BY ReadyFacts
<1>2. PICK h, f : h = Head(calls[t]) /\ f = h.table
  BY Zenon
<1>3. h.op = "clear" /\ f \in Tables
  BY <1>1, <1>2 DEF ClearTable, At, CallOK
<1>4. f \in Fields \ {"pre", "dirty"} /\ \A g \in Tables : g \in Fields
  BY <1>3 DEF Tables, Fields
<1>5. /\ SwitchShape(sw') /\ sw'.pre = sw.pre /\ sw'.dirty = sw.dirty
      /\ sw'[f] = {} /\ \A g \in Tables \ {f} : sw'[g] = sw[g]
  <2>1. SwitchShape(sw) /\ sw' = SetField(sw, f, {})
    BY <1>2 DEF ClearTable, Ready, Shape, SetField
  <2> QED
    BY <1>4, <2>1, TableEffect
<1>6. NewCalls(t, R) /\ failed' \in [Threads -> BOOLEAN] /\ failed' = failed
  BY <1>1 DEF ClearTable, Return
<1>7. h.op \notin ClearOps /\ Stage(h) < 4 /\ \A x : h # RegisterCall(x)
  BY <1>3, CallFields DEF ClearOps, Stage
<1>8. Generic(t)
  BY <1>1, <1>2, <1>5, <1>6, <1>7, PlainGeneric, Zenon
<1>9. \A g \in Tables : sw'[g] = {} \/ (sw'[g] = sw[g] /\ h # ClearCall(g))
  BY <1>2, <1>5, CallFields
<1>10. Items' = Items
  BY <1>5 DEF Items
<1>11. PICK S : S = {}
  BY Zenon
<1>12. Todo(calls'[t]) = S \cup R /\ \A g \in S : g.op \in ClearOps
  BY <1>6, <1>11, Zenon DEF NewCalls
<1>13. ClearEffect(t, h, R, S)
  BY <1>1, <1>2, <1>5, <1>6, <1>7, <1>9, <1>10, <1>12, Zenon DEF ClearEffect
<1> QED
  BY <1>2, <1>8, <1>13

LEMMA AddEntryGeneric ==
    ASSUME NEW t, Ready(t), AddEntry(t) PROVE Generic(t)
<1>1. PICK R : LET h == Head(calls[t]) IN
               /\ Todo(calls[t]) = {h} \cup R /\ CallOK(h) /\ (Watched => PlaceOK(h, Items, Group))
               /\ \A c \in R : c.op \notin Begun
               /\ Return(t) => NewCalls(t, R) /\ failed' \in [Threads -> BOOLEAN]
               /\ Raise(t) => NewCalls(t, {}) /\ failed' \in [Threads -> BOOLEAN]
  BY ReadyFacts, ZenonT(30)
<1>2. Head(calls[t]).op = "add" /\ Head(calls[t]).table \in Tables
  BY <1>1 DEF AddEntry, At, CallOK
<1>3. Head(calls[t]).table \in Fields \ {"pre", "dirty"}
  BY <1>2 DEF Tables, Fields
<1>4. PICK f, v : /\ f \in Fields \ {"pre", "dirty"}
                  /\ \/ Raise(t) /\ UNCHANGED sw
                     \/ Return(t) /\ sw' = SetField(sw, f, v)
  BY <1>3, Zenon DEF AddEntry, Ready, Shape, SwitchShape, IsFunction, SetField
<1>5. SwitchShape(sw)
  BY DEF Ready, Shape
<1>6. SwitchShape(sw') /\ sw'.pre = sw.pre
  <2>1. CASE UNCHANGED sw
    BY <2>1, <1>5
  <2>2. CASE sw' = SetField(sw, f, v)
    <3>1. f \in Fields \ {"pre", "dirty"}
      BY <1>4, Zenon
    <3>2. PICK y : y = SetField(sw, f, v)
      BY Zenon
    <3>3. SwitchShape(y) /\ y.pre = sw.pre
      BY <1>5, <3>1, <3>2, TableEffect
    <3> QED
      BY <2>2, <3>2, <3>3, Zenon
  <2> QED
    BY <1>4, <2>1, <2>2
<1>7. Head(calls[t]).op \notin ClearOps
  BY <1>2 DEF ClearOps
<1> QED
  BY <1>1, <1>4, <1>6, <1>7, PlainGeneric, Zenon

LEMMA ClearRegisterGeneric ==
    ASSUME NEW t, Ready(t), ClearRegister(t)
    PROVE  Generic(t) /\ \E R, S : ClearEffect(t, Head(calls[t]), R, S)
<1>1. PICK R : LET h == Head(calls[t]) IN
               /\ Todo(calls[t]) = {h} \cup R
               /\ \A c \in R : Before(h, c) /\ c.op \notin Begun
               /\ Return(t) => NewCalls(t, R) /\ failed' \in [Threads -> BOOLEAN]
  BY ReadyFacts
<1>2. PICK h, f : h = Head(calls[t]) /\ f = h.register
  BY Zenon
<1>3. SwitchShape(sw) /\ h.op = "clear_register" /\ IsFunction(sw.dirty, Registers)
  BY <1>2 DEF Ready, Shape, ClearRegister, At, SwitchShape
<1>4. PICK v : v = [sw.dirty EXCEPT ![f] = {}]
  BY Zenon
<1>5. IsFunction(v, Registers) /\ \A x \in Registers : v[x] = IF x = f THEN {} ELSE sw.dirty[x]
  BY <1>3, <1>4, Zenon DEF IsFunction
<1>6. sw' = SetField(sw, "dirty", v)
  BY <1>2, <1>3, <1>4, Zenon DEF ClearRegister, SwitchShape, IsFunction, SetField
<1>7. /\ SwitchShape(sw') /\ sw'.pre = sw.pre /\ sw'.dirty = v
      /\ \A g \in Fields \ {"dirty"} : sw'[g] = sw[g]
  BY <1>3, <1>5, <1>6, DirtyEffect
<1>8. h.op \notin ClearOps /\ Stage(h) < 4 /\ \A x : h # ClearCall(x)
  BY <1>3, CallFields DEF ClearOps, Stage
<1>9. NewCalls(t, R) /\ failed' \in [Threads -> BOOLEAN] /\ failed' = failed
  BY <1>1 DEF ClearRegister, Return
<1>10. Generic(t)
  BY <1>1, <1>2, <1>7, <1>8, <1>9, PlainGeneric, Zenon
<1>11. \A g \in Tables : sw'[g] = sw[g]
  <2>1. \A g \in Tables : g \in Fields \ {"dirty"}
    BY DEF Tables, Fields
  <2> QED
    BY <1>7, <2>1
<1>12. \A x \in Registers : sw'.dirty[x] = {} \/ (sw'.dirty[x] = sw.dirty[x] /\ h # RegisterCall(x))
  BY <1>2, <1>5, <1>7, CallFields
<1>13. Items' = Items
  BY <1>7 DEF Items
<1>14. PICK S : S = {}
  BY Zenon
<1>15. Todo(calls'[t]) = S \cup R /\ \A g \in S : g.op \in ClearOps
  BY <1>9, <1>14 DEF NewCalls
<1>16. ClearEffect(t, h, R, S)
  BY <1>1, <1>2, <1>8, <1>9, <1>11, <1>12, <1>13, <1>15 DEF ClearEffect
<1> QED
  BY <1>2, <1>10, <1>16

LEMMA AddressGeneric ==
    ASSUME NEW t, Ready(t), ResetSwitchMacAndIp(t) \/ SetSwitchAddress(t) PROVE Generic(t)
<1>1. PICK R : LET h == Head(calls[t]) IN
               /\ Todo(calls[t]) = {h} \cup R
               /\ \A c \in R : c.op \notin Begun
               /\ Return(t) => NewCalls(t, R) /\ failed' \in [Threads -> BOOLEAN]
               /\ Raise(t) => NewCalls(t, {}) /\ failed' \in [Threads -> BOOLEAN]
  BY ReadyFacts
<1>2. SwitchShape(sw) /\ {"switch_address", "sender_address"} \subseteq Fields \ {"pre", "dirty"}
  BY DEF Ready, Shape, Fields
<1>3. PICK f, v : f \in Fields \ {"pre", "dirty"} /\ sw' = SetField(sw, f, v)
  BY <1>2 DEF ResetSwitchMacAndIp, SetSwitchAddress, SetField
<1>4. SwitchShape(sw') /\ sw'.pre = sw.pre
  BY <1>2, <1>3, TableEffect
<1>5. /\ Return(t) \/ Raise(t)
      /\ Return(t) => Head(calls[t]).op \notin ClearOps \/ Raise(t)
  BY DEF ResetSwitchMacAndIp, SetSwitchAddress, At, ClearOps
<1> QED
  BY <1>1, <1>4, <1>5, PlainGeneric, Zenon

LEMMA NothingGeneric ==
    ASSUME NEW t, Ready(t), Log2PacketsPerMessage(t) \/ WorkerDelCommand(t) PROVE Generic(t)
<1>1. PICK R : LET h == Head(calls[t]) IN
               /\ Todo(calls[t]) = {h} \cup R
               /\ \A c \in R : c.op \notin Begun
               /\ Return(t) => NewCalls(t, R) /\ failed' \in [Threads -> BOOLEAN]
               /\ Raise(t) => NewCalls(t, {}) /\ failed' \in [Threads -> BOOLEAN]
  BY ReadyFacts
<1>2. SwitchShape(sw') /\ sw'.pre = sw.pre
  BY DEF Ready, Shape, Log2PacketsPerMessage, WorkerDelCommand
<1>3. (Return(t) \/ Raise(t)) /\ Head(calls[t]).op \notin ClearOps
  BY DEF Log2PacketsPerMessage, WorkerDelCommand, At, ClearOps
<1> QED
  BY <1>1, <1>2, <1>3, PlainGeneric, Zenon

ReceiveCall(h, i) ==
    AddCall("receive_roce", [rid |-> h.rid, host |-> h.host, opcode |-> Opcodes[i],
                             addr |-> sw.switch_address])
ReceiveCalls(h) == {ReceiveCall(h, i) : i \in 1..Len(Opcodes)}

LEMMA ReceiverAddEntryGeneric ==
    ASSUME NEW t, Ready(t), ReceiverAddEntry(t)
    PROVE  /\ Generic(t)
           /\ \E S, R : /\ Todo(calls[t]) = {Head(calls[t])} \cup R /\ NewCalls(t, S \cup R)
                        /\ \A c \in R : Before(Head(calls[t]), c)
                        /\ S = ReceiveCalls(Head(calls[t]))
<1>1. PICK R : LET h == Head(calls[t]) IN
               /\ Todo(calls[t]) = {h} \cup R
               /\ \A c \in R : Before(h, c) /\ c.op \notin Begun
               /\ \A s : (/\ Expand(t, s) /\ Listed(s)
                          /\ \A c \in Todo(s), d \in R : Before(c, d))
                             => NewCalls(t, Todo(s) \cup R) /\ failed' \in [Threads -> BOOLEAN]
  BY ReadyFacts, Zenon
<1>2. PICK h : h = Head(calls[t])
  BY Zenon
<1>3. h.op = "rdma_receiver.add_entry"
  BY <1>2 DEF ReceiverAddEntry, At
<1>4. PICK s : s = [i \in 1..Len(Opcodes) |->
                AddCall("receive_roce", [rid |-> h.rid, host |-> h.host, opcode |-> Opcodes[i],
                                         addr |-> sw.switch_address])]
  BY Zenon
<1>5. Expand(t, s) /\ UNCHANGED sw
  BY <1>2, <1>4 DEF ReceiverAddEntry
<1>6. Len(Opcodes) \in Nat
  BY ControlAssumption
<1>7. \A i \in 1..Len(Opcodes) :
         s[i] = AddCall("receive_roce", [rid |-> h.rid, host |-> h.host, opcode |-> Opcodes[i],
                                         addr |-> sw.switch_address])
  BY <1>4
<1>8. \A i \in 1..Len(Opcodes) : s[i].op = "add" /\ s[i].table = "receive_roce"
  <2>1. ASSUME NEW i \in 1..Len(Opcodes) PROVE s[i].op = "add" /\ s[i].table = "receive_roce"
    <3>1. PICK e : s[i] = AddCall("receive_roce", e)
      BY <1>7, Zenon
    <3> QED
      BY <3>1, CallFields
  <2> QED
    BY <2>1
<1>9. \A c, d : (c.op = "add" /\ d.op = "add" /\ c.table = "receive_roce" /\ d.table = "receive_roce") => Before(c, d)
  BY DEF Before, Stage, IsAdd, Begun, AddOps, ClearOps
<1>10. Listed(s) /\ Todo(s) = {s[i] : i \in 1..Len(Opcodes)}
  <2>1. s = [i \in 1..Len(Opcodes) |-> s[i]]
    BY <1>4
  <2>2. \A i, j \in 1..Len(Opcodes) : i < j => Before(s[i], s[j])
    BY <1>8, <1>9
  <2> QED
    BY <1>6, <2>1, <2>2, Tabled
<1>11. \A c \in Todo(s) : c.op = "add" /\ c.table = "receive_roce"
  BY <1>8, <1>10
<1>12. ASSUME NEW c, NEW d, c.op = "add", Before(h, d) PROVE Before(c, d)
  BY <1>12, <1>3 DEF Before, Stage, IsAdd, Begun, AddOps, ClearOps
<1>13. NewCalls(t, Todo(s) \cup R) /\ failed' \in [Threads -> BOOLEAN]
  BY <1>1, <1>2, <1>5, <1>10, <1>11, <1>12, ZenonT(30)
<1>14. Items' = Items /\ Group' = Group /\ SwitchShape(sw') /\ (orderly => Grouped(Items', Group'))
  BY <1>5, Zenon DEF Items, Group, Ready, Shape
<1>15. \A c \in Todo(s) : CallOK(c) /\ PlaceOK(c, Items', Group')
  BY <1>11 DEF CallOK, PlaceOK, Tables, AddOps
<1>17. Generic(t)
  BY <1>1, <1>2, <1>13, <1>14, <1>15, StepGeneric, ZenonT(30)
<1>18. \A i \in 1..Len(Opcodes) : s[i] = ReceiveCall(h, i)
  BY <1>7 DEF ReceiveCall
<1>19. Todo(s) = ReceiveCalls(h)
  BY <1>10, <1>18 DEF ReceiveCalls
<1> QED
  BY <1>1, <1>2, <1>13, <1>17, <1>19, Zenon

LEMMA WorkerPortGetGeneric ==
    ASSUME NEW t, Ready(t), WorkerPortGet(t) PROVE Generic(t)
<1>1. PICK R : LET h == Head(calls[t]) IN
               /\ Todo(calls[t]) = {h} \cup R /\ CallOK(h) /\ (Watched => PlaceOK(h, Items, Group))
               /\ \A c \in R : Before(h, c) /\ c.op \notin Begun
               /\ Raise(t) => NewCalls(t, {}) /\ failed' \in [Threads -> BOOLEAN]
               /\ \A g : (/\ Become(t, g) /\ \A d \in R : Before(g, d))
                             => NewCalls(t, {g} \cup R) /\ failed' \in [Threads -> BOOLEAN]
  BY ReadyFacts, Zenon
<1>2. PICK h : h = Head(calls[t])
  BY Zenon
<1>3. h.op = "worker_port_get" /\ UNCHANGED sw
  BY <1>2 DEF WorkerPortGet, At
<1>4. /\ Items' = Items /\ Group' = Group /\ SwitchShape(sw') /\ sw'.pre = sw.pre
      /\ orderly => Grouped(Items', Group')
  BY <1>3, Zenon DEF Items, Group, Ready, Shape
<1>5. CASE h.host \notin DOMAIN PortOf
  <2>1. Raise(t)
    BY <1>2, <1>5 DEF WorkerPortGet
  <2> QED
    BY <1>1, <1>2, <1>4, <2>1, PlainGeneric, Zenon
<1>6. CASE h.host \in DOMAIN PortOf
  <2>1. PICK g : g = WorkerAddCall("track_rid", h.rid, PortOf[h.host])
    BY Zenon
  <2>2. Become(t, g) /\ g.op = "track_rid" /\ g.rid = h.rid /\ g.port = PortOf[h.host]
    BY <1>2, <1>6, <2>1, Zenon DEF WorkerPortGet, WorkerAddCall
  <2>3. ASSUME NEW d, Before(h, d) PROVE Before(g, d)
    BY <2>2, <2>3, <1>3, ZenonT(30) DEF Before, Stage, IsAdd, Begun, AddOps, ClearOps
  <2>4. NewCalls(t, {g} \cup R) /\ failed' \in [Threads -> BOOLEAN]
    BY <1>1, <1>2, <2>2, <2>3
  <2>5. g.rid \in Nat /\ g.port \in DevPorts
    BY <1>1, <1>2, <1>3, <1>6, <2>2, ControlAssumption, Zenon DEF CallOK
  <2>6. CallOK(g) /\ PlaceOK(g, Items', Group')
    BY <2>2, <2>5, Zenon DEF CallOK, PlaceOK, AddOps
  <2> QED
    BY <1>1, <1>2, <1>4, <2>4, <2>6, BecomeGeneric, Zenon
<1> QED
  BY <1>5, <1>6

(* A step on the tables of PRE. *)
LEMMA PreStep ==
    ASSUME SwitchShape(sw), NEW q, PreShape(q), sw' = [sw EXCEPT !.pre = q]
    PROVE  /\ SwitchShape(sw') /\ sw'.pre = q /\ sw'.dirty = sw.dirty
           /\ Items' = ItemsOf(q.rids[SwitchML]) /\ Group' = q.mgid[SwitchML]
           /\ \A f \in Tables : sw'[f] = sw[f]
<1>1. sw' = SetField(sw, "pre", q)
  BY DEF SetField
<1>2. /\ SwitchShape(sw') /\ sw'.pre = q /\ sw'.dirty = sw.dirty
      /\ \A g \in Fields \ {"pre"} : sw'[g] = sw[g]
  BY <1>1, PreEffect
<1>3. \A f \in Tables : f \in Fields \ {"pre"}
  BY DEF Fields, Tables
<1> QED
  BY <1>2, <1>3 DEF Items, Group

(* The steps of PRE.worker_add. *)
LEMMA PreTrackRidGeneric ==
    ASSUME NEW t, Ready(t), PreTrackRid(t), SwitchML \in Mgids
    PROVE  Generic(t) /\ \E R, S : GroupEffect(t, Head(calls[t]), R, S)
<1>1. PICK R : LET h == Head(calls[t]) IN
               /\ Todo(calls[t]) = {h} \cup R /\ CallOK(h) /\ (Watched => PlaceOK(h, Items, Group))
               /\ \A c \in R : Before(h, c) /\ c.op \notin Begun
               /\ Return(t) => NewCalls(t, R) /\ failed' \in [Threads -> BOOLEAN]
               /\ \A g : (/\ Become(t, g) /\ \A d \in R : Before(g, d))
                             => NewCalls(t, {g} \cup R) /\ failed' \in [Threads -> BOOLEAN]
  BY ReadyFacts
<1>2. PICK h : h = Head(calls[t])
  BY Zenon
<1>3. h.op = "track_rid" /\ SwitchShape(sw) /\ h.op \notin ClearOps
  BY <1>2 DEF PreTrackRid, At, Ready, Shape, ClearOps
<1>4. CASE AlreadyAdded(sw.pre, SwitchML, h.rid)
  <2>1. UNCHANGED sw /\ Return(t)
    BY <1>2, <1>4 DEF PreTrackRid
  <2>2. Generic(t)
    BY <1>1, <1>2, <1>3, <2>1, PlainGeneric, Zenon
  <2>3. PICK S : S = {}
    BY ZenonT(30)
  <2>4. Todo(calls'[t]) = S \cup R /\ failed' = failed /\ Items' = Items /\ Group' = Group
    BY <1>1, <2>1, <2>3 DEF NewCalls, Return, Items, Group
  <2>5. GroupEffect(t, h, R, S)
    BY <1>1, <1>2, <1>3, <1>4, <2>1, <2>3, <2>4, ZenonT(30) DEF GroupEffect
  <2> QED
    BY <1>2, <2>2, <2>5
<1>5. CASE ~ AlreadyAdded(sw.pre, SwitchML, h.rid)
  <2>1. PICK q : q = TrackRid(sw.pre, SwitchML, h.rid, h.port)
    BY Zenon
  <2>2. PICK g : g = WorkerAddCall("erase_node", h.rid, h.port)
    BY Zenon
  <2>3. sw' = [sw EXCEPT !.pre = q] /\ Become(t, g)
    BY <1>2, <1>3, <1>5, <2>1, <2>2 DEF PreTrackRid, SwitchShape, IsFunction
  <2>4. g.op = "erase_node" /\ g.rid = h.rid /\ g.port = h.port
    BY <2>2 DEF WorkerAddCall
  <2>5. PICK a : a = Item(h.port, h.rid)
    BY Zenon
  <2>7. h.port \in DevPorts /\ h.rid \in Nat /\ h.rid # NoRid
    <3>1. h.port \in DevPorts /\ h.rid \in Nat
      BY <1>1, <1>2, <1>3, Zenon DEF CallOK, AddOps
    <3> QED
      BY <3>1 DEF NoRid
  <2>8. PreShape(sw.pre)
    BY <1>3 DEF SwitchShape
  <2>9. PreShape(q) /\ q.mgid = sw.pre.mgid /\ q.node = sw.pre.node
        /\ q.rids[SwitchML] = SetField(sw.pre.rids[SwitchML], h.port, h.rid)
    BY <2>1, <2>7, <2>8, TrackRidEffect
  <2>10. /\ SwitchShape(sw') /\ Items' = ItemsOf(q.rids[SwitchML]) /\ Group' = q.mgid[SwitchML]
         /\ sw'.pre = q /\ sw'.dirty = sw.dirty /\ \A f \in Tables : sw'[f] = sw[f]
    BY <1>3, <2>3, <2>9, PreStep, ZenonT(30)
  <2>11. /\ Items' \subseteq Items \cup {a} /\ a \in Items' /\ Group' = Group
         /\ ~ TakesOver(t) => Items \subseteq Items'
    <3>1. PICK d : d = sw.pre.rids[SwitchML]
      BY Zenon
    <3>2. IsFunction(d, DevPorts) /\ Items = ItemsOf(d)
      BY <3>1, <2>8 DEF PreShape, Items
    <3>3. PICK e : e = SetField(d, h.port, h.rid)
      BY Zenon
    <3>4. /\ ItemsOf(e) \subseteq ItemsOf(d) \cup {a} /\ a \in ItemsOf(e)
          /\ d[h.port] \in {NoRid, h.rid} => ItemsOf(d) \subseteq ItemsOf(e)
      BY <3>2, <3>3, <2>5, <2>7, ItemsTrack, Zenon
    <3>5. Group' = Group /\ Items' = ItemsOf(e)
      BY <3>1, <3>3, <2>9, <2>10, Zenon DEF Group
    <3>6. ~ TakesOver(t) => d[h.port] \in {NoRid, h.rid}
      BY <3>1, <1>2, <1>5, Zenon DEF TakesOver, PreTrackRid
    <3> QED
      BY <3>2, <3>4, <3>5, <3>6, Zenon
  <2>12. ASSUME NEW d, Before(h, d) PROVE Before(g, d)
    BY <2>4, <2>12, <1>3 DEF Before, Stage, IsAdd, Begun, AddOps, ClearOps
  <2>13. NewCalls(t, {g} \cup R) /\ failed' \in [Threads -> BOOLEAN]
    BY <1>1, <1>2, <2>3, <2>12, Zenon
  <2>14. CallOK(g) /\ PlaceOK(g, Items', Group')
    BY <2>4, <2>5, <2>7, <2>11, Zenon DEF CallOK, PlaceOK, AddOps
  <2>15. (orderly /\ ~ TakesOver(t)) => Grouped(Items', Group')
    BY <2>11, Zenon DEF Ready, Grouped
  <2>19. Generic(t)
    BY <1>1, <1>2, <2>10, <2>13, <2>14, <2>15, BecomeGeneric, Zenon
  <2>20. PICK S : S = {g}
    BY Zenon
  <2>21. Todo(calls'[t]) = S \cup R /\ failed' = failed
    BY <2>3, <2>13, <2>20, Zenon DEF NewCalls, Become, Expand
  <2>22. \A r \in Rids \ {h.rid} : sw'.pre.node[r] = sw.pre.node[r] /\ (r \in Group => r \in Group')
    BY <2>9, <2>10, <2>11
  <2>23. GroupEffect(t, h, R, S)
    BY <1>1, <1>2, <2>4, <2>5, <2>10, <2>11, <2>20, <2>21, <2>22, ZenonT(30) DEF GroupEffect
  <2> QED
    BY <1>2, <2>19, <2>23
<1> QED
  BY <1>4, <1>5, Zenon

LEMMA PreEraseNodeGeneric ==
    ASSUME NEW t, Ready(t), PreEraseNode(t), SwitchML \in Mgids
    PROVE  Generic(t) /\ \E R, S : GroupEffect(t, Head(calls[t]), R, S)
<1>1. PICK R : LET h == Head(calls[t]) IN
               /\ Todo(calls[t]) = {h} \cup R /\ CallOK(h) /\ (Watched => PlaceOK(h, Items, Group))
               /\ \A c \in R : Before(h, c) /\ c.op \notin Begun
               /\ \A g : (/\ Become(t, g) /\ \A d \in R : Before(g, d))
                             => NewCalls(t, {g} \cup R) /\ failed' \in [Threads -> BOOLEAN]
  BY ReadyFacts, Zenon
<1>2. PICK h : h = Head(calls[t])
  BY Zenon
<1>3. h.op = "erase_node" /\ SwitchShape(sw) /\ PreShape(sw.pre) /\ h.op \notin ClearOps
  BY <1>2 DEF PreEraseNode, At, Ready, Shape, ClearOps, SwitchShape
<1>4. PICK g : g = WorkerAddCall("add_node", h.rid, h.port)
  BY Zenon
<1>5. PICK q \in Erasures(sw.pre, h.rid) : sw' = [sw EXCEPT !.pre = q]
  BY <1>2 DEF PreEraseNode, EraseNode
<1>6. Become(t, g) /\ g.op = "add_node" /\ g.rid = h.rid /\ g.port = h.port
  BY <1>2, <1>4, Zenon DEF PreEraseNode, WorkerAddCall
<1>7. PreShape(q) /\ q.rids = sw.pre.rids /\ q.mgid[SwitchML] \subseteq sw.pre.mgid[SwitchML]
      /\ \A r \in Rids \ {h.rid} : q.node[r] = sw.pre.node[r]
                                    /\ (r \in sw.pre.mgid[SwitchML] => r \in q.mgid[SwitchML])
  BY <1>3, ErasuresEffect
<1>8. /\ SwitchShape(sw') /\ Items' = Items /\ Group' \subseteq Group /\ Group' = q.mgid[SwitchML]
      /\ sw'.pre = q /\ sw'.dirty = sw.dirty /\ \A f \in Tables : sw'[f] = sw[f]
  BY <1>3, <1>5, <1>7, PreStep, Zenon DEF Items, Group
<1>9. ASSUME NEW d, Before(h, d) PROVE Before(g, d)
  BY <1>6, <1>9, <1>3, Zenon DEF Before, Stage, IsAdd, Begun, AddOps, ClearOps
<1>10. NewCalls(t, {g} \cup R) /\ failed' \in [Threads -> BOOLEAN]
  BY <1>1, <1>2, <1>6, <1>9, Zenon
<1>11. orderly => Grouped(Items', Group')
  BY <1>8, ZenonT(30) DEF Ready, Grouped
<1>12. CallOK(g) /\ (Watched => PlaceOK(g, Items', Group'))
  <2>1. Watched => Item(g.port, g.rid) \in Items'
    BY <1>1, <1>2, <1>3, <1>6, <1>8, Zenon DEF PlaceOK, AddOps
  <2>2. g.rid \in Nat /\ g.port \in DevPorts
    BY <1>1, <1>2, <1>3, <1>6, Zenon DEF CallOK, AddOps
  <2> QED
    BY <2>1, <2>2, <1>6, Zenon DEF CallOK, PlaceOK, AddOps
<1>13. Generic(t)
  BY <1>1, <1>2, <1>8, <1>10, <1>11, <1>12, BecomeGeneric, Zenon
<1>14. PICK S : S = {g}
  BY Zenon
<1>15. Todo(calls'[t]) = S \cup R /\ failed' = failed
  BY <1>6, <1>10, <1>14, ZenonT(30) DEF NewCalls, Become, Expand
<1>16. \A r \in Rids \ {h.rid} : sw'.pre.node[r] = sw.pre.node[r] /\ (r \in Group => r \in Group')
  BY <1>7, <1>8 DEF Group
<1>17. GroupEffect(t, h, R, S)
  BY <1>1, <1>2, <1>6, <1>8, <1>14, <1>15, <1>16, Zenon DEF GroupEffect
<1> QED
  BY <1>2, <1>13, <1>17, Zenon

LEMMA PreAddNodeGeneric ==
    ASSUME NEW t, Ready(t), PreAddNode(t)
    PROVE  Generic(t) /\ \E R, S : GroupEffect(t, Head(calls[t]), R, S)
<1>1. PICK R : LET h == Head(calls[t]) IN
               /\ Todo(calls[t]) = {h} \cup R /\ CallOK(h) /\ (Watched => PlaceOK(h, Items, Group))
               /\ \A c \in R : Before(h, c) /\ c.op \notin Begun
               /\ Raise(t) => NewCalls(t, {}) /\ failed' \in [Threads -> BOOLEAN]
               /\ \A g : (/\ Become(t, g) /\ \A d \in R : Before(g, d))
                             => NewCalls(t, {g} \cup R) /\ failed' \in [Threads -> BOOLEAN]
  BY ReadyFacts, Zenon
<1>2. PICK h : h = Head(calls[t])
  BY Zenon
<1>3. h.op = "add_node" /\ SwitchShape(sw) /\ PreShape(sw.pre) /\ h.op \notin ClearOps
  BY <1>2 DEF PreAddNode, At, Ready, Shape, ClearOps, SwitchShape
<1>4. CASE UNCHANGED sw /\ Raise(t)
  <2>1. Generic(t)
    BY <1>1, <1>2, <1>3, <1>4, PlainGeneric, Zenon
  <2>2. Todo(calls'[t]) = {} /\ failed'[t] /\ Items' = Items /\ Group' = Group
    BY <1>1, <1>4, Zenon DEF NewCalls, Raise, Items, Group, Ready, Shape
  <2>3. GroupEffect(t, h, R, {})
    BY <1>1, <1>2, <1>4, <2>2, Zenon DEF GroupEffect
  <2> QED
    BY <1>2, <2>1, <2>3
<1>5. CASE ~ (UNCHANGED sw /\ Raise(t))
  <2>1. PICK g : g = WorkerAddCall("extend_group", h.rid, h.port)
    BY Zenon
  <2>2. PICK q : q = AddNode(sw.pre, h.rid, h.port)
    BY Zenon
  <2>3. sw' = [sw EXCEPT !.pre = q] /\ Become(t, g)
    BY <1>2, <1>3, <1>5, <2>1, <2>2, Zenon DEF PreAddNode, SwitchShape, IsFunction
  <2>4. g.op = "extend_group" /\ g.rid = h.rid /\ g.port = h.port
    BY <2>1, Zenon DEF WorkerAddCall
  <2>5. /\ PreShape(q) /\ q.rids = sw.pre.rids /\ q.mgid = sw.pre.mgid
        /\ h.rid \in Rids => q.node[h.rid] = h.port
        /\ \A r \in Rids \ {h.rid} : q.node[r] = sw.pre.node[r]
    BY <1>3, <2>2, AddNodeEffect
  <2>6. /\ SwitchShape(sw') /\ Items' = Items /\ Group' = Group
        /\ sw'.pre = q /\ sw'.dirty = sw.dirty /\ \A f \in Tables : sw'[f] = sw[f]
    BY <1>3, <2>3, <2>5, PreStep, ZenonT(30) DEF Items, Group
  <2>7. ASSUME NEW d, Before(h, d) PROVE Before(g, d)
    BY <2>4, <2>7, <1>3 DEF Before, Stage, IsAdd, Begun, AddOps, ClearOps
  <2>8. NewCalls(t, {g} \cup R) /\ failed' \in [Threads -> BOOLEAN]
    BY <1>1, <1>2, <2>3, <2>7, Zenon
  <2>9. orderly => Grouped(Items', Group')
    BY <2>6, Zenon DEF Ready
  <2>10. CallOK(g) /\ (Watched => PlaceOK(g, Items', Group'))
    <3>1. Watched => Item(g.port, g.rid) \in Items'
      BY <1>1, <1>2, <1>3, <2>4, <2>6, Zenon DEF PlaceOK, AddOps
    <3>2. g.rid \in Nat /\ g.port \in DevPorts
      BY <1>1, <1>2, <1>3, <2>4, Zenon DEF CallOK, AddOps
    <3> QED
      BY <3>1, <3>2, <2>4, Zenon DEF CallOK, PlaceOK, AddOps
  <2>11. Generic(t)
    BY <1>1, <1>2, <2>6, <2>8, <2>9, <2>10, BecomeGeneric, Zenon
  <2>12. PICK S : S = {g}
    BY Zenon
  <2>13. Todo(calls'[t]) = S \cup R /\ failed' = failed
    BY <2>3, <2>8, <2>12 DEF NewCalls, Become, Expand
  <2>14. GroupEffect(t, h, R, S)
    BY <1>1, <1>2, <2>4, <2>5, <2>6, <2>12, <2>13, ZenonT(30) DEF GroupEffect
  <2> QED
    BY <1>2, <2>11, <2>14
<1> QED
  BY <1>4, <1>5, Zenon

LEMMA PreExtendGroupGeneric ==
    ASSUME NEW t, Ready(t), PreExtendGroup(t), SwitchML \in Mgids
    PROVE  Generic(t) /\ \E R, S : GroupEffect(t, Head(calls[t]), R, S)
<1>1. PICK R : LET h == Head(calls[t]) IN
               /\ Todo(calls[t]) = {h} \cup R /\ CallOK(h) /\ (Watched => PlaceOK(h, Items, Group))
               /\ \A c \in R : Before(h, c) /\ c.op \notin Begun
               /\ Return(t) => NewCalls(t, R) /\ failed' \in [Threads -> BOOLEAN]
               /\ Raise(t) => NewCalls(t, {}) /\ failed' \in [Threads -> BOOLEAN]
  BY ReadyFacts
<1>2. PICK h : h = Head(calls[t])
  BY Zenon
<1>3. h.op = "extend_group" /\ SwitchShape(sw) /\ PreShape(sw.pre) /\ h.op \notin ClearOps
  BY <1>2 DEF PreExtendGroup, At, Ready, Shape, ClearOps, SwitchShape
<1>4. CASE UNCHANGED sw /\ Raise(t)
  <2>1. Generic(t)
    BY <1>1, <1>2, <1>3, <1>4, PlainGeneric
  <2>2. Todo(calls'[t]) = {} /\ failed'[t] /\ Items' = Items /\ Group' = Group
    BY <1>1, <1>4, Zenon DEF NewCalls, Raise, Items, Group, Ready, Shape
  <2>3. GroupEffect(t, h, R, {})
    BY <1>1, <1>2, <1>4, <2>2, Zenon DEF GroupEffect
  <2> QED
    BY <1>2, <2>1, <2>3
<1>5. CASE ~ (UNCHANGED sw /\ Raise(t))
  <2>1. PICK q : q = ExtendGroup(sw.pre, SwitchML, h.rid)
    BY Zenon
  <2>2. sw' = [sw EXCEPT !.pre = q] /\ Return(t)
    BY <1>2, <1>3, <1>5, <2>1, ZenonT(30) DEF PreExtendGroup, SwitchShape, IsFunction
  <2>3. /\ PreShape(q) /\ q.rids = sw.pre.rids /\ q.node = sw.pre.node
        /\ q.mgid[SwitchML] = sw.pre.mgid[SwitchML] \cup {h.rid}
    BY <1>3, <2>1, ExtendGroupEffect
  <2>4. /\ SwitchShape(sw') /\ Items' = Items /\ Group' = Group \cup {h.rid}
        /\ sw'.pre = q /\ sw'.dirty = sw.dirty /\ \A f \in Tables : sw'[f] = sw[f]
    BY <1>3, <2>2, <2>3, PreStep DEF Items, Group
  <2>5. Watched => Item(h.port, h.rid) \in Items
    BY <1>1, <1>2, <1>3, Zenon DEF PlaceOK, AddOps
  <2>6. orderly => Grouped(Items', Group')
    <3>1. Item(h.port, h.rid).rid = h.rid
      BY DEF Item
    <3> QED
      BY <2>4, <2>5, <3>1, Zenon DEF Ready, Grouped, Watched
  <2>7. NewCalls(t, R) /\ failed' \in [Threads -> BOOLEAN]
    BY <1>1, <2>2
  <2>8. PICK S : S = {}
    BY Zenon
  <2>9. NewCalls(t, S \cup R) /\ \A c \in S : FALSE
    <3>1. S \cup R = R
      BY <2>8
    <3> QED
      BY <2>7, <2>8, <3>1
  <2>10. Generic(t)
    BY <1>1, <1>2, <2>4, <2>6, <2>7, <2>9, StepGeneric, Zenon
  <2>11. Todo(calls'[t]) = S \cup R /\ failed' = failed
    BY <2>2, <2>9 DEF NewCalls, Return
  <2>12. GroupEffect(t, h, R, S)
    BY <1>1, <1>2, <1>3, <2>3, <2>4, <2>8, <2>11, ZenonT(30) DEF GroupEffect
  <2> QED
    BY <1>2, <2>10, <2>12
<1> QED
  BY <1>4, <1>5

(* The steps of PRE.worker_clear_all. *)
LEMMA PreWorkerClearAllGeneric ==
    ASSUME NEW t, Ready(t), PreWorkerClearAll(t)
    PROVE  Generic(t) /\ \E R, S : ClearEffect(t, Head(calls[t]), R, S)
<1>1. PICK R : LET h == Head(calls[t]) IN
               /\ Todo(calls[t]) = {h} \cup R
               /\ \A c \in R : Before(h, c) /\ c.op \notin Begun
               /\ \A g : (/\ Become(t, g) /\ \A d \in R : Before(g, d))
                             => NewCalls(t, {g} \cup R) /\ failed' \in [Threads -> BOOLEAN]
  BY ReadyFacts, Zenon
<1>2. PICK h : h = Head(calls[t])
  BY Zenon
<1>3. h.op = "pre.worker_clear_all" /\ SwitchShape(sw) /\ UNCHANGED sw
  BY <1>2, Zenon DEF PreWorkerClearAll, At, Ready, Shape
<1>4. PICK g : g = ClearItems(Items)
  BY Zenon
<1>5. Become(t, g) /\ g.op = "leave_group" /\ g.left = Items
  BY <1>4, Zenon DEF PreWorkerClearAll, ClearItems, Items, ItemsOf, Item, Tracked
<1>6. Items' = Items /\ Group' = Group /\ SwitchShape(sw') /\ (orderly => Grouped(Items', Group'))
  BY <1>3, Zenon DEF Items, Group, Ready
<1>7. ASSUME NEW d, Before(h, d) PROVE Before(g, d)
  BY <1>5, <1>7, <1>3 DEF Before, Stage, IsAdd, Begun, AddOps, ClearOps
<1>8. NewCalls(t, {g} \cup R) /\ failed' \in [Threads -> BOOLEAN]
  BY <1>1, <1>2, <1>5, <1>7, ZenonT(30)
<1>9. CallOK(g) /\ PlaceOK(g, Items', Group')
  BY <1>5, <1>6 DEF CallOK, PlaceOK, AddOps
<1>10. g.op \in ClearOps
  BY <1>5 DEF ClearOps
<1>11. Generic(t)
  BY <1>1, <1>2, <1>6, <1>8, <1>9, BecomeGeneric, Zenon
<1>12. PICK S : S = {g}
  BY Zenon
<1>13. /\ Todo(calls'[t]) = S \cup R /\ failed' = failed
       /\ (\A c \in S : c.op \in ClearOps) /\ Clearing(S)
  BY <1>5, <1>8, <1>10, <1>12 DEF NewCalls, Become, Expand, Clearing
<1>14. h.op \in ClearOps
  BY <1>3, Zenon DEF ClearOps
<1>15. ClearEffect(t, h, R, S)
  BY <1>1, <1>2, <1>3, <1>6, <1>13, <1>14, GroupClearEffect, Zenon
<1> QED
  BY <1>2, <1>11, <1>15

LEMMA PreLeaveGroupGeneric ==
    ASSUME NEW t, Ready(t), PreLeaveGroup(t), SwitchML \in Mgids
    PROVE  Generic(t) /\ \E R, S : ClearEffect(t, Head(calls[t]), R, S)
<1>1. PICK R : LET h == Head(calls[t]) IN
               /\ Todo(calls[t]) = {h} \cup R /\ CallOK(h) /\ (Watched => PlaceOK(h, Items, Group))
               /\ \A c \in R : Before(h, c) /\ c.op \notin Begun
               /\ Return(t) => NewCalls(t, R) /\ failed' \in [Threads -> BOOLEAN]
               /\ \A g : (/\ Become(t, g) /\ \A d \in R : Before(g, d))
                             => NewCalls(t, {g} \cup R) /\ failed' \in [Threads -> BOOLEAN]
  BY ReadyFacts
<1>2. PICK h : h = Head(calls[t])
  BY Zenon
<1>3. h.op = "leave_group" /\ SwitchShape(sw) /\ PreShape(sw.pre) /\ (Watched => h.left = Items)
  BY <1>1, <1>2, Zenon DEF PreLeaveGroup, At, Ready, Shape, SwitchShape, PlaceOK
<1>0. h.op \in ClearOps
  BY <1>3 DEF ClearOps
<1>4. CASE h.left = {} /\ UNCHANGED sw /\ Return(t)
  <2>1. Generic(t)
    BY <1>1, <1>2, <1>3, <1>4, PlainGeneric, Zenon
  <2>2. PICK S : S = {}
    BY Zenon
  <2>3. NewCalls(t, R) /\ failed' = failed /\ Items' = Items /\ (Watched => Items = {})
    BY <1>1, <1>3, <1>4, Zenon DEF Return, Items
  <2>4. Todo(calls'[t]) = S \cup R /\ \A c \in S : c.op \in ClearOps
    BY <2>2, <2>3, Zenon DEF NewCalls
  <2>5. ClearEffect(t, h, R, S)
    BY <1>0, <1>1, <1>2, <1>4, <2>3, <2>4, GroupClearEffect, ZenonT(30)
  <2> QED
    BY <1>2, <2>1, <2>5
<1>5. CASE ~ (h.left = {} /\ UNCHANGED sw /\ Return(t))
  <2>1. PICK item \in h.left :
                 /\ sw' = [sw EXCEPT !.pre = LeaveGroup(@, SwitchML, item.rid)]
                 /\ Become(t, ClearItem("delete_node", item, h.left \ {item}))
    BY <1>2, <1>5, Zenon DEF PreLeaveGroup
  <2>2. PICK q : q = LeaveGroup(sw.pre, SwitchML, item.rid)
    BY Zenon
  <2>3. PICK g : g = ClearItem("delete_node", item, h.left \ {item})
    BY Zenon
  <2>4. sw' = [sw EXCEPT !.pre = q] /\ Become(t, g)
    BY <1>3, <2>1, <2>2, <2>3, Zenon DEF SwitchShape, IsFunction
  <2>5. g.op = "delete_node" /\ g.item = item /\ g.left = h.left \ {item} /\ item \in h.left
    BY <2>3, Zenon DEF ClearItem
  <2>6. /\ PreShape(q) /\ q.rids = sw.pre.rids
        /\ q.mgid[SwitchML] = sw.pre.mgid[SwitchML] \ {item.rid}
    BY <1>3, <2>2, LeaveGroupEffect
  <2>7. /\ SwitchShape(sw') /\ Items' = Items /\ Group' = Group \ {item.rid}
        /\ sw'.dirty = sw.dirty /\ \A f \in Tables : sw'[f] = sw[f]
    BY <1>3, <2>4, <2>6, PreStep, Zenon DEF Items, Group
  <2>8. orderly => Grouped(Items', Group')
    BY <2>7, ZenonT(30) DEF Ready, Grouped
  <2>9. ASSUME NEW d, Before(h, d) PROVE Before(g, d)
    BY <2>5, <2>9, <1>3 DEF Before, Stage, IsAdd, Begun, AddOps, ClearOps
  <2>10. NewCalls(t, {g} \cup R) /\ failed' \in [Threads -> BOOLEAN]
    BY <1>1, <1>2, <2>4, <2>9, ZenonT(30)
  <2>11. CallOK(g) /\ (Watched => PlaceOK(g, Items', Group'))
    <3>1. Watched => g.item \notin g.left /\ g.left \cup {g.item} = Items' /\ g.item.rid \notin Group'
      BY <1>3, <2>5, <2>7
    <3> QED
      BY <2>5, <3>1 DEF CallOK, PlaceOK, AddOps
  <2>12. g.op \in ClearOps
    BY <2>5 DEF ClearOps
  <2>13. Generic(t)
    BY <1>1, <1>2, <2>7, <2>8, <2>10, <2>11, BecomeGeneric, Zenon
  <2>14. PICK S : S = {g}
    BY Zenon
  <2>15. /\ Todo(calls'[t]) = S \cup R /\ failed' = failed
         /\ (\A c \in S : c.op \in ClearOps) /\ Clearing(S)
    BY <2>4, <2>10, <2>12, <2>14 DEF NewCalls, Become, Expand, Clearing
  <2>16. ClearEffect(t, h, R, S)
    BY <1>0, <1>1, <1>2, <2>7, <2>15, GroupClearEffect, ZenonT(30)
  <2> QED
    BY <1>2, <2>13, <2>16
<1> QED
  BY <1>4, <1>5, ZenonT(30)

LEMMA PreDeleteNodeGeneric ==
    ASSUME NEW t, Ready(t), PreDeleteNode(t), SwitchML \in Mgids
    PROVE  Generic(t) /\ \E R, S : ClearEffect(t, Head(calls[t]), R, S)
<1>1. PICK R : LET h == Head(calls[t]) IN
               /\ Todo(calls[t]) = {h} \cup R /\ CallOK(h) /\ (Watched => PlaceOK(h, Items, Group))
               /\ \A c \in R : Before(h, c) /\ c.op \notin Begun
               /\ \A g : (/\ Become(t, g) /\ \A d \in R : Before(g, d))
                             => NewCalls(t, {g} \cup R) /\ failed' \in [Threads -> BOOLEAN]
  BY ReadyFacts
<1>2. PICK h : h = Head(calls[t])
  BY Zenon
<1>3. h.op = "delete_node" /\ SwitchShape(sw) /\ PreShape(sw.pre)
  BY <1>2 DEF PreDeleteNode, At, Ready, Shape, SwitchShape
<1>4. Watched => h.item \notin h.left /\ h.left \cup {h.item} = Items /\ h.item.rid \notin Group
  BY <1>1, <1>2, <1>3, Zenon DEF PlaceOK
<1>5. PICK g : g = ClearItem("forget", h.item, h.left)
  BY Zenon
<1>6. PICK q \in Erasures(sw.pre, h.item.rid) : sw' = [sw EXCEPT !.pre = q]
  BY <1>2 DEF PreDeleteNode, DeleteNode
<1>7. Become(t, g) /\ g.op = "forget" /\ g.item = h.item /\ g.left = h.left
  BY <1>2, <1>5, ZenonT(30) DEF PreDeleteNode, ClearItem
<1>8. PreShape(q) /\ q.rids = sw.pre.rids /\ q.mgid[SwitchML] \subseteq sw.pre.mgid[SwitchML]
  BY <1>3, ErasuresEffect
<1>9. /\ SwitchShape(sw') /\ Items' = Items /\ Group' \subseteq Group
      /\ sw'.dirty = sw.dirty /\ \A f \in Tables : sw'[f] = sw[f]
  BY <1>3, <1>6, <1>8, PreStep, Zenon DEF Items, Group
<1>10. ASSUME NEW d, Before(h, d) PROVE Before(g, d)
  BY <1>7, <1>10, <1>3, Zenon DEF Before, Stage, IsAdd, Begun, AddOps, ClearOps
<1>11. NewCalls(t, {g} \cup R) /\ failed' \in [Threads -> BOOLEAN]
  BY <1>1, <1>2, <1>7, <1>10, ZenonT(30)
<1>12. orderly => Grouped(Items', Group')
  BY <1>9 DEF Ready, Grouped
<1>13. CallOK(g) /\ (Watched => PlaceOK(g, Items', Group'))
  <2>1. Watched => g.item \notin g.left /\ g.left \cup {g.item} = Items' /\ g.item.rid \notin Group'
    BY <1>4, <1>7, <1>9, Zenon
  <2> QED
    BY <2>1, <1>7, Zenon DEF CallOK, PlaceOK, AddOps
<1>14. g.op \in ClearOps
  BY <1>7 DEF ClearOps
<1>15. Generic(t)
  BY <1>1, <1>2, <1>9, <1>11, <1>12, <1>13, BecomeGeneric, Zenon
<1>16. PICK S : S = {g}
  BY Zenon
<1>17. /\ Todo(calls'[t]) = S \cup R /\ failed' = failed
       /\ (\A c \in S : c.op \in ClearOps) /\ Clearing(S)
  BY <1>7, <1>11, <1>14, <1>16 DEF NewCalls, Become, Expand, Clearing
<1>18. h.op \in ClearOps
  BY <1>3, Zenon DEF ClearOps
<1>19. ClearEffect(t, h, R, S)
  BY <1>1, <1>2, <1>9, <1>17, <1>18, GroupClearEffect, ZenonT(30)
<1> QED
  BY <1>2, <1>15, <1>19

LEMMA PreForgetGeneric ==
    ASSUME NEW t, Ready(t), PreForget(t), SwitchML \in Mgids
    PROVE  Generic(t) /\ \E R, S : ClearEffect(t, Head(calls[t]), R, S)
<1>1. PICK R : LET h == Head(calls[t]) IN
               /\ Todo(calls[t]) = {h} \cup R /\ CallOK(h) /\ (Watched => PlaceOK(h, Items, Group))
               /\ \A c \in R : Before(h, c) /\ c.op \notin Begun
               /\ Raise(t) => NewCalls(t, {}) /\ failed' \in [Threads -> BOOLEAN]
               /\ \A g : (/\ Become(t, g) /\ \A d \in R : Before(g, d))
                             => NewCalls(t, {g} \cup R) /\ failed' \in [Threads -> BOOLEAN]
  BY ReadyFacts, Zenon
<1>2. PICK h : h = Head(calls[t])
  BY Zenon
<1>3. h.op = "forget" /\ SwitchShape(sw) /\ PreShape(sw.pre)
  BY <1>2 DEF PreForget, At, Ready, Shape, SwitchShape
<1>4. Watched => h.item \notin h.left /\ h.left \cup {h.item} = Items /\ h.item.rid \notin Group
  BY <1>1, <1>2, <1>3, Zenon DEF PlaceOK
<1>0. h.op \in ClearOps
  BY <1>3 DEF ClearOps
<1>5. CASE UNCHANGED sw /\ Raise(t)
  <2>1. Generic(t)
    BY <1>1, <1>2, <1>3, <1>5, PlainGeneric, ZenonT(30)
  <2>2. NewCalls(t, {}) /\ failed'[t] /\ Items' = Items
    BY <1>1, <1>5, Zenon DEF Raise, Items, Ready, Shape
  <2>3. ClearEffect(t, h, R, {})
    BY <1>0, <1>1, <1>2, <1>5, <2>2, GroupClearEffect, ZenonT(30) DEF NewCalls
  <2> QED
    BY <1>2, <2>1, <2>3
<1>6. CASE ~ (UNCHANGED sw /\ Raise(t))
  <2>1. PICK q : q = Forget(sw.pre, SwitchML, h.item.port)
    BY Zenon
  <2>2. PICK g : g = ClearItems(h.left)
    BY Zenon
  <2>3. sw' = [sw EXCEPT !.pre = q] /\ Become(t, g)
    BY <1>2, <1>3, <1>6, <2>1, <2>2 DEF PreForget, SwitchShape, IsFunction
  <2>4. g.op = "leave_group" /\ g.left = h.left
    BY <2>2 DEF ClearItems
  <2>5. PreShape(q) /\ q.mgid = sw.pre.mgid
        /\ q.rids[SwitchML] = SetField(sw.pre.rids[SwitchML], h.item.port, NoRid)
    BY <1>3, <2>1, ForgetEffect
  <2>6. /\ SwitchShape(sw') /\ Items' = ItemsOf(q.rids[SwitchML]) /\ Group' = q.mgid[SwitchML]
        /\ sw'.dirty = sw.dirty /\ \A f \in Tables : sw'[f] = sw[f]
    BY <1>3, <2>3, <2>5, PreStep
  <2>7. Items' \subseteq Items /\ (Watched => Items' = h.left) /\ Group' = Group
    <3>1. PICK d : d = sw.pre.rids[SwitchML]
      BY Zenon
    <3>2. IsFunction(d, DevPorts) /\ Items = ItemsOf(d)
      BY <3>1, <1>3 DEF PreShape, Items
    <3>3. PICK e : e = SetField(d, h.item.port, NoRid)
      BY Zenon
    <3>4. /\ ItemsOf(e) \subseteq ItemsOf(d)
          /\ h.item \in ItemsOf(d) => ItemsOf(e) = ItemsOf(d) \ {h.item}
      BY <3>2, <3>3, ItemsForget, Zenon
    <3>5. Group' = Group /\ Items' = ItemsOf(e)
      BY <3>1, <3>3, <2>5, <2>6, Zenon DEF Group
    <3> QED
      BY <3>2, <3>4, <3>5, <1>4, ZenonT(30)
  <2>8. ASSUME NEW d, Before(h, d) PROVE Before(g, d)
    BY <2>4, <2>8, <1>3 DEF Before, Stage, IsAdd, Begun, AddOps, ClearOps
  <2>9. NewCalls(t, {g} \cup R) /\ failed' \in [Threads -> BOOLEAN]
    BY <1>1, <1>2, <2>3, <2>8, ZenonT(30)
  <2>10. orderly => Grouped(Items', Group')
    BY <1>4, <2>7, Zenon DEF Ready, Grouped, Watched
  <2>11. CallOK(g) /\ (Watched => PlaceOK(g, Items', Group'))
    BY <2>4, <2>7, Zenon DEF CallOK, PlaceOK, AddOps
  <2>12. g.op \in ClearOps /\ Items' \subseteq Items
    BY <2>4, <2>7 DEF ClearOps
  <2>13. Generic(t)
    BY <1>1, <1>2, <2>6, <2>9, <2>10, <2>11, BecomeGeneric, Zenon
  <2>14. PICK S : S = {g}
    BY Zenon
  <2>15. /\ Todo(calls'[t]) = S \cup R /\ failed' = failed
         /\ (\A c \in S : c.op \in ClearOps) /\ Clearing(S)
    BY <2>3, <2>9, <2>12, <2>14 DEF NewCalls, Become, Expand, Clearing
  <2>16. ClearEffect(t, h, R, S)
    BY <1>0, <1>1, <1>2, <2>6, <2>12, <2>15, GroupClearEffect, ZenonT(30)
  <2> QED
    BY <1>2, <2>13, <2>16
<1> QED
  BY <1>5, <1>6

LEMMA LoadWorkerGeneric ==
    ASSUME NEW t, Ready(t), LoadWorker(t) PROVE Generic(t)
<1>1. PICK R : LET h == Head(calls[t]) IN
               /\ Todo(calls[t]) = {h} \cup R /\ CallOK(h) /\ (Watched => PlaceOK(h, Items, Group))
               /\ \A c \in R : Before(h, c) /\ c.op \notin Begun
               /\ Return(t) => NewCalls(t, R) /\ failed' \in [Threads -> BOOLEAN]
               /\ \A s : (/\ Expand(t, s) /\ Listed(s)
                          /\ \A c \in Todo(s), d \in R : Before(c, d))
                             => NewCalls(t, Todo(s) \cup R) /\ failed' \in [Threads -> BOOLEAN]
  BY ReadyFacts, Zenon
<1>2. PICK h : h = Head(calls[t])
  BY Zenon
<1>3. h.op = "load_worker" /\ UNCHANGED sw /\ h.op \notin ClearOps
  BY <1>2 DEF LoadWorker, At, ClearOps
<1>4. SwitchShape(sw') /\ Items' = Items /\ Group' = Group /\ sw'.pre = sw.pre
  BY <1>3, Zenon DEF Ready, Shape, Items, Group
<1>5. R = {}
  BY <1>1, <1>2, <1>3 DEF Before
<1>6. CASE Return(t)
  BY <1>1, <1>2, <1>3, <1>4, <1>6, PlainGeneric, ZenonT(30)
<1>7. CASE ~ Return(t)
  <2>1. PICK n, ports : n = h.next /\ ports = h.ports
    BY Zenon
  <2>2. ~ (n > Len(ports)) /\ \E k \in HostsOn(ports[n]) :
            Expand(t, AddUdp(n - 1, Len(ports), k, FALSE) \o <<LoadFrom(ports, n + 1)>>)
    BY <1>2, <1>7, <2>1, Zenon DEF LoadWorker
  <2>3. PICK k \in HostsOn(ports[n]) :
            Expand(t, AddUdp(n - 1, Len(ports), k, FALSE) \o <<LoadFrom(ports, n + 1)>>)
    BY <2>2, Zenon
  <2>4. PICK s : s = AddUdp(n - 1, Len(ports), k, FALSE)
    BY Zenon
  <2>5. PICK g : g = LoadFrom(ports, n + 1)
    BY Zenon
  <2>6. /\ Listed(s)
        /\ \A c \in Todo(s) : \/ c.op = "add" /\ c.table \in {"get_worker_bitmap", "set_dst_addr"}
                              \/ c = [op |-> "worker_port_get", rid |-> n - 1, host |-> k]
    BY <2>4, AddUdpList, Zenon
  <2>7. g.op = "load_worker" /\ g.ports = ports /\ g.next = n + 1
    BY <2>5 DEF LoadFrom
  <2>8. \A c \in Todo(s), d \in Todo(<<g>>) : Before(c, d)
    <3>1. Todo(<<g>>) = {g}
      BY Single
    <3>2. ASSUME NEW c, c.op \in {"add", "worker_port_get"} PROVE Before(c, g)
      BY <3>2, <2>7 DEF Before, Stage, IsAdd, Begun, AddOps, ClearOps
    <3>3. \A c \in Todo(s) : c.op \in {"add", "worker_port_get"}
      BY <2>6
    <3> QED
      BY <3>1, <3>2, <3>3
  <2>9. Listed(s \o <<g>>) /\ Todo(s \o <<g>>) = Todo(s) \cup {g}
    BY <2>6, <2>8, Joined, Single
  <2>10. PICK U : U = Todo(s) \cup {g}
    BY Zenon
  <2>11. NewCalls(t, U) /\ failed' \in [Threads -> BOOLEAN]
    <3>1. Expand(t, s \o <<g>>)
      BY <2>3, <2>4, <2>5, ZenonT(30)
    <3>2. NewCalls(t, Todo(s \o <<g>>) \cup R) /\ failed' \in [Threads -> BOOLEAN]
      BY <1>1, <1>5, <2>9, <3>1
    <3>3. Todo(s \o <<g>>) \cup R = U
      BY <1>5, <2>9, <2>10, Zenon
    <3> QED
      BY <3>2, <3>3
  <2>12. n \in Nat \ {0}
    BY <1>1, <1>2, <1>3, <2>1, Zenon DEF CallOK
  <2>13. ASSUME NEW c \in Todo(s) PROVE CallOK(c) /\ PlaceOK(c, Items', Group')
    <3>1. CASE c.op = "add" /\ c.table \in {"get_worker_bitmap", "set_dst_addr"}
      BY <3>1, Zenon DEF CallOK, PlaceOK, AddOps, Tables
    <3>2. CASE c = [op |-> "worker_port_get", rid |-> n - 1, host |-> k]
      <4>1. c.op = "worker_port_get" /\ c.rid \in Nat
        BY <3>2, <2>12
      <4> QED
        BY <4>1, Zenon DEF CallOK, PlaceOK, AddOps
    <3> QED
      BY <2>6, <3>1, <3>2, Zenon
  <2>14. CallOK(g) /\ PlaceOK(g, Items', Group')
    <3>1. g.next \in Nat \ {0}
      BY <2>7, <2>12
    <3> QED
      BY <3>1, <2>7, Zenon DEF CallOK, PlaceOK, AddOps
  <2>15. orderly => Grouped(Items', Group')
    BY <1>4, Zenon DEF Ready
  <2>16. U \cup R = U
    BY <1>5
  <2> QED
    BY <1>1, <1>2, <1>4, <2>10, <2>11, <2>13, <2>14, <2>15, <2>16, StepGeneric, Zenon
<1> QED
  BY <1>6, <1>7

(* Every step of a handler. *)
LEMMA ExecuteGeneric ==
    ASSUME NEW t, Ready(t), Execute(t) PROVE Generic(t)
<1>1. SwitchML \in Mgids
  BY ControlAssumption
<1> QED
  BY <1>1, ClearTableGeneric, AddEntryGeneric, ReceiverAddEntryGeneric, WorkerPortGetGeneric,
     NothingGeneric, PreTrackRidGeneric, PreEraseNodeGeneric, PreAddNodeGeneric,
     PreExtendGroupGeneric, PreWorkerClearAllGeneric, PreLeaveGroupGeneric,
     PreDeleteNodeGeneric, PreForgetGeneric, ClearRegisterGeneric, AddressGeneric,
     LoadWorkerGeneric, Zenon DEF Execute

----------------------------------------------------------------------------
(* What a step of RDMAConnect may count on. *)
LEMMA RpcReady ==
    ASSUME IInv, calls["rpc"] # <<>>
    PROVE  /\ Ready("rpc") /\ serving # NoRequest /\ IsRequest(serving) /\ server # "down"
           /\ (Watched => calls["cli"] = <<>>) /\ RpcCall(serving, Head(calls["rpc"]))
<1>1. serving # NoRequest /\ server # "down"
  BY DEF IInv, TurnsOK
<1>2. Watched => calls["cli"] = <<>>
  BY <1>1, Zenon DEF IInv, TurnsOK, Watched
<1>3. IsRequest(serving) /\ Shape /\ CallsShape /\ "rpc" \in Threads
  BY <1>1 DEF IInv, Shape, Threads
<1>4. orderly => Grouped(Items, Group)
  BY <1>1, Zenon DEF IInv, GroupOK
<1>5. HandlerOK(Todo(calls["rpc"])) /\ (Watched => PlacesOK(Todo(calls["rpc"]), Items, Group))
  BY <1>3, HandlersOK, Zenon DEF Watched
<1>6. Head(calls["rpc"]) \in Todo(calls["rpc"])
  BY <1>3, FirstAndRest DEF CallsShape
<1> QED
  BY <1>1, <1>2, <1>3, <1>4, <1>5, <1>6, Zenon DEF Ready, IInv, RpcOK

LEMMA AddEntryEffect ==
    ASSUME IInv, AddEntry("rpc")
    PROVE  \E R, S : AddEffect(Head(calls["rpc"]), R, S)
<1>1. PICK h, f : h = Head(calls["rpc"]) /\ f = h.table
  BY Zenon
<1>2. /\ Ready("rpc") /\ calls["rpc"] # <<>> /\ h.op = "add" /\ RpcCall(serving, h)
  BY <1>1, RpcReady DEF AddEntry, At
<1>3. PICK R : /\ Todo(calls["rpc"]) = {h} \cup R /\ \A c \in R : Before(h, c)
               /\ Return("rpc") => NewCalls("rpc", R)
               /\ Raise("rpc") => NewCalls("rpc", {})
  BY <1>1, <1>2, ReadyFacts, ZenonT(30)
<1>4. /\ f \in {"receive_roce", "create_roce_packet", "fill_in_qpn_and_psn"}
      /\ f = "receive_roce" => /\ h.entry.rid = serving.rank
                               /\ h.entry.host = HostOf[serving.job][serving.rank]
  BY <1>1, <1>2 DEF RpcCall
<1>5. f \in Fields \ {"pre", "dirty", "get_worker_bitmap"} /\ \A g \in Tables : g \in Fields
  BY <1>4 DEF Fields, Tables
<1>6. SwitchShape(sw) /\ Stage(h) = 4 /\ ~ IsAdd(h)
  BY <1>2, Zenon DEF Ready, Shape, Stage, ClearOps, IsAdd, AddOps
<1>7. PICK S : S = {}
  BY Zenon
<1>8. CASE UNCHANGED sw /\ Raise("rpc")
  <2>1. Todo(calls'["rpc"]) = {} /\ failed'["rpc"] /\ Items' = Items /\ Group' = Group
    BY <1>2, <1>3, <1>8, Zenon DEF NewCalls, Raise, Items, Group, Ready, Shape
  <2>2. AddEffect(h, R, S)
    BY <1>3, <1>6, <1>8, <2>1, Zenon DEF AddEffect
  <2> QED
    BY <1>1, <2>2
<1>9. CASE ~ (UNCHANGED sw /\ Raise("rpc"))
  <2>1. PICK v : v = sw[f] \cup {h.entry}
    BY Zenon
  <2>2. sw' = SetField(sw, f, v) /\ Return("rpc")
    BY <1>1, <1>5, <1>6, <1>9, <2>1, ZenonT(30) DEF AddEntry, SetField, SwitchShape, IsFunction
  <2>3. /\ sw'[f] = v /\ sw'.pre = sw.pre /\ sw'.dirty = sw.dirty
        /\ \A g \in Fields \ {f} : sw'[g] = sw[g]
    BY <1>5, <1>6, <2>2, TableEffect
  <2>4. Todo(calls'["rpc"]) = S \cup R /\ failed' = failed /\ Items' = Items /\ Group' = Group
    BY <1>3, <1>7, <2>2, <2>3, Zenon DEF NewCalls, Return, Items, Group
  <2>5. \A g \in Tables : sw[g] \subseteq sw'[g]
    BY <1>5, <2>1, <2>3
  <2>6. /\ sw'.get_worker_bitmap = sw.get_worker_bitmap
        /\ f # "receive_roce" => sw'.receive_roce = sw.receive_roce
    BY <1>5, <2>3 DEF Fields, Tables
  <2>7. \A e \in sw'.receive_roce \ sw.receive_roce :
           e.rid = serving.rank /\ e.host = HostOf[serving.job][serving.rank]
    BY <1>4, <2>1, <2>3, <2>6, ZenonT(30)
  <2>8. h.entry \in sw'[h.table]
    BY <1>1, <2>1, <2>3
  <2>9. AddEffect(h, R, S)
    BY <1>2, <1>3, <1>6, <1>7, <2>3, <2>4, <2>5, <2>6, <2>7, <2>8, ZenonT(30) DEF AddEffect
  <2> QED
    BY <1>1, <2>9
<1> QED
  BY <1>8, <1>9

(* Steps that leave the switch alone. *)
LEMMA QuietEffect ==
    ASSUME NEW h, NEW R, NEW S, UNCHANGED sw, Stage(h) = 4, h.op # "add",
           Todo(calls["rpc"]) = {h} \cup R, \A c \in R : Before(h, c),
           \/ Todo(calls'["rpc"]) = {} /\ failed'["rpc"]
           \/ /\ Todo(calls'["rpc"]) = S \cup R /\ failed' = failed
              /\ \A g \in S : RpcCall(serving, g) /\ Stage(g) = 4 /\ g.op # "rdma_receiver.add_entry"
              /\ h.op = "rdma_receiver.add_entry" =>
                    \A i \in 1..Len(Opcodes) : \E c \in S :
                        c.op = "add" /\ c.table = "receive_roce" /\ c.entry.opcode = Opcodes[i]
              /\ h.op = "log2_packets_per_message" => serving.job \notin BadMessage
              /\ IsAdd(h) => \E c \in S : IsAdd(c) /\ c.op # "extend_group"
    PROVE  AddEffect(h, R, S)
<1>1. Items' = Items /\ Group' = Group
  BY DEF Items, Group
<1> QED
  BY <1>1, ZenonT(30) DEF AddEffect

LEMMA ReceiverAddEntryEffect ==
    ASSUME IInv, ReceiverAddEntry("rpc")
    PROVE  \E R, S : AddEffect(Head(calls["rpc"]), R, S)
<1>1. PICK h : h = Head(calls["rpc"])
  BY ZenonT(30)
<1>2. /\ Ready("rpc") /\ h.op = "rdma_receiver.add_entry" /\ RpcCall(serving, h) /\ UNCHANGED sw
  BY <1>1, RpcReady DEF ReceiverAddEntry, At
<1>3. PICK S, R : /\ Todo(calls["rpc"]) = {h} \cup R /\ NewCalls("rpc", S \cup R)
                  /\ \A c \in R : Before(h, c)
                  /\ S = ReceiveCalls(h)
  BY <1>1, <1>2, ReceiverAddEntryGeneric, Zenon
<1>4. \A c \in R : Before(h, c)
  BY <1>3
<1>5. Stage(h) = 4 /\ ~ IsAdd(h)
  BY <1>2, ZenonT(30) DEF Stage, ClearOps, IsAdd, AddOps
<1>6. h.rid = serving.rank /\ h.host = HostOf[serving.job][serving.rank]
  BY <1>2 DEF RpcCall
<1>7. ASSUME NEW i \in 1..Len(Opcodes), NEW c, c = ReceiveCall(h, i)
      PROVE  /\ c.op = "add" /\ c.table = "receive_roce" /\ c.entry.opcode = Opcodes[i]
             /\ RpcCall(serving, c) /\ Stage(c) = 4
  <2>1. PICK e : e = [rid |-> h.rid, host |-> h.host, opcode |-> Opcodes[i], addr |-> sw.switch_address]
    BY Zenon
  <2>2. e.rid = h.rid /\ e.host = h.host /\ e.opcode = Opcodes[i]
    BY <2>1
  <2>3. c = AddCall("receive_roce", e)
    BY <2>1, <1>7 DEF ReceiveCall
  <2>4. c.op = "add" /\ c.table = "receive_roce" /\ c.entry = e
    BY <2>3, CallFields, Zenon
  <2>5. RpcCall(serving, c) /\ Stage(c) = 4
    BY <2>2, <2>4, <1>6, ZenonT(30) DEF RpcCall, Stage, ClearOps, AddOps
  <2> QED
    BY <2>2, <2>4, <2>5
<1>8. \A g \in S : RpcCall(serving, g) /\ Stage(g) = 4 /\ g.op # "rdma_receiver.add_entry"
  BY <1>3, <1>7 DEF ReceiveCalls
<1>9. \A i \in 1..Len(Opcodes) : \E c \in S :
          c.op = "add" /\ c.table = "receive_roce" /\ c.entry.opcode = Opcodes[i]
  BY <1>3, <1>7 DEF ReceiveCalls
<1>10. Todo(calls'["rpc"]) = S \cup R /\ failed' = failed
  BY <1>3 DEF NewCalls, ReceiverAddEntry, Expand
<1>11. AddEffect(h, R, S)
  BY <1>2, <1>3, <1>4, <1>5, <1>8, <1>9, <1>10, QuietEffect, ZenonT(30)
<1> QED
  BY <1>1, <1>11

LEMMA WorkerPortGetEffect ==
    ASSUME IInv, WorkerPortGet("rpc")
    PROVE  \E R, S : AddEffect(Head(calls["rpc"]), R, S)
<1>1. PICK h : h = Head(calls["rpc"])
  BY Zenon
<1>2. /\ Ready("rpc") /\ h.op = "worker_port_get" /\ RpcCall(serving, h) /\ UNCHANGED sw
  BY <1>1, RpcReady, Zenon DEF WorkerPortGet, At
<1>3. PICK R : /\ Todo(calls["rpc"]) = {h} \cup R /\ \A c \in R : Before(h, c)
               /\ Raise("rpc") => NewCalls("rpc", {})
               /\ \A g : (/\ Become("rpc", g) /\ \A d \in R : Before(g, d))
                             => NewCalls("rpc", {g} \cup R)
  BY <1>1, <1>2, ReadyFacts, Zenon
<1>4. Stage(h) = 4
  BY <1>2 DEF Stage, ClearOps
<1>5. CASE h.host \notin DOMAIN PortOf
  <2>1. Raise("rpc")
    BY <1>1, <1>5, ZenonT(30) DEF WorkerPortGet
  <2>2. Todo(calls'["rpc"]) = {} /\ failed'["rpc"]
    BY <1>2, <1>3, <2>1 DEF NewCalls, Raise, Ready, Shape
  <2>3. AddEffect(h, R, {})
    BY <1>2, <1>3, <1>4, <2>2, QuietEffect, Zenon
  <2> QED
    BY <1>1, <2>3
<1>6. CASE h.host \in DOMAIN PortOf
  <2>1. PICK g : g = WorkerAddCall("track_rid", h.rid, PortOf[h.host])
    BY Zenon
  <2>2. Become("rpc", g) /\ g.op = "track_rid" /\ g.rid = h.rid /\ g.port = PortOf[h.host]
    BY <1>1, <1>6, <2>1, ZenonT(30) DEF WorkerPortGet, WorkerAddCall
  <2>3. ASSUME NEW d, Before(h, d) PROVE Before(g, d)
    BY <2>2, <2>3, <1>2 DEF Before, Stage, IsAdd, Begun, AddOps, ClearOps
  <2>4. PICK S : S = {g}
    BY Zenon
  <2>5. Todo(calls'["rpc"]) = S \cup R /\ failed' = failed
    BY <1>3, <2>2, <2>3, <2>4, ZenonT(30) DEF NewCalls, Become, Expand
  <2>6. RpcCall(serving, g) /\ Stage(g) = 4 /\ IsAdd(g) /\ g.op # "extend_group"
    BY <1>2, <1>6, <2>2 DEF RpcCall, Stage, ClearOps, AddOps, IsAdd
  <2>7. \A c \in S : RpcCall(serving, c) /\ Stage(c) = 4 /\ c.op # "rdma_receiver.add_entry"
    BY <2>2, <2>4, <2>6
  <2>8. \E c \in S : IsAdd(c) /\ c.op # "extend_group"
    BY <2>4, <2>6
  <2>9. AddEffect(h, R, S)
    BY <1>2, <1>3, <1>4, <2>5, <2>7, <2>8, QuietEffect, ZenonT(30)
  <2> QED
    BY <1>1, <2>9
<1> QED
  BY <1>5, <1>6

LEMMA Log2Effect ==
    ASSUME IInv, Log2PacketsPerMessage("rpc")
    PROVE  \E R, S : AddEffect(Head(calls["rpc"]), R, S)
<1>1. PICK h : h = Head(calls["rpc"])
  BY Zenon
<1>2. /\ Ready("rpc") /\ h.op = "log2_packets_per_message" /\ RpcCall(serving, h) /\ UNCHANGED sw
  BY <1>1, RpcReady DEF Log2PacketsPerMessage, At
<1>3. PICK R : /\ Todo(calls["rpc"]) = {h} \cup R /\ \A c \in R : Before(h, c)
               /\ Return("rpc") => NewCalls("rpc", R)
               /\ Raise("rpc") => NewCalls("rpc", {})
  BY <1>1, <1>2, ReadyFacts, ZenonT(30)
<1>4. Stage(h) = 4 /\ ~ IsAdd(h) /\ h.bad = (serving.job \in BadMessage)
  BY <1>2 DEF Stage, ClearOps, IsAdd, AddOps, RpcCall
<1>5. PICK S : S = {}
  BY Zenon
<1>6. \/ Todo(calls'["rpc"]) = {} /\ failed'["rpc"]
      \/ Todo(calls'["rpc"]) = S \cup R /\ failed' = failed /\ serving.job \notin BadMessage
  <2>1. CASE serving.job \in BadMessage
    <3>1. Raise("rpc")
      BY <1>1, <1>4, <2>1, ZenonT(30) DEF Log2PacketsPerMessage
    <3> QED
      BY <1>2, <1>3, <3>1 DEF NewCalls, Raise, Ready, Shape
  <2>2. CASE serving.job \notin BadMessage
    <3>1. Return("rpc")
      BY <1>1, <1>4, <2>2, Zenon DEF Log2PacketsPerMessage
    <3> QED
      BY <1>3, <1>5, <2>2, <3>1 DEF NewCalls, Return
  <2> QED
    BY <2>1, <2>2
<1>7. AddEffect(h, R, S)
  BY <1>2, <1>3, <1>4, <1>5, <1>6, QuietEffect, Zenon
<1> QED
  BY <1>1, <1>7

(* Nothing but additions is left after a call of the last stage. *)
LEMMA LastStage ==
    ASSUME NEW h, NEW R, Stage(h) = 4, \A c \in R : Before(h, c)
    PROVE  \A c \in R : Stage(c) = 4
<1> SUFFICES ASSUME NEW c \in R PROVE Stage(c) = 4
  BY Zenon
<1>1. Stage(h) <= Stage(c)
  BY Zenon DEF Before
<1>2. Stage(c) \in 1..4
  BY DEF Stage
<1> QED
  BY <1>1, <1>2

(* The steps of PRE.worker_add.  Its early return is taken when the rank   *)
(* is the number of a port in the dictionary.                              *)
LEMMA GroupAdds ==
    ASSUME IInv, calls["rpc"] # <<>>, NEW h, NEW R, NEW S,
           h = Head(calls["rpc"]), h.op \in AddOps, GroupEffect("rpc", h, R, S)
    PROVE  AddEffect(h, R, S)
<1>1. serving # NoRequest /\ IsRequest(serving) /\ RpcCall(serving, h)
  BY RpcReady, Zenon
<1>2. /\ h.rid = serving.rank /\ HostOf[serving.job][serving.rank] \in DOMAIN PortOf
      /\ h.port = PortOf[HostOf[serving.job][serving.rank]]
  BY <1>1, ZenonT(30) DEF RpcCall
<1>3. serving.job \in 1..Jobs /\ serving.rank \in Ranks(serving.job) /\ serving.rank \in Rids
  BY <1>1, ControlAssumption DEF IsRequest, Requests
<1>4. Item(h.port, h.rid) \in JobItems(serving.job)
  BY <1>2, <1>3 DEF JobItems
<1>5. Stage(h) = 4 /\ IsAdd(h) /\ h.op # "add"
  BY DEF Stage, ClearOps, AddOps, IsAdd
<1>6. {"get_worker_bitmap", "receive_roce"} \subseteq Tables
  BY DEF Tables
<1>7. /\ Todo(calls["rpc"]) = {h} \cup R /\ \A c \in R : Before(h, c)
      /\ (\A f \in Tables : sw'[f] = sw[f]) /\ sw'.dirty = sw.dirty
      /\ Items' \subseteq Items \cup JobItems(serving.job)
      /\ \A r \in Rids \ {serving.rank} :
            sw'.pre.node[r] = sw.pre.node[r] /\ (r \in Group => r \in Group')
  BY <1>2, <1>4, Zenon DEF GroupEffect
<1>8. AlreadyAdded(sw.pre, SwitchML, h.rid) => \E a \in Items : a.port = serving.rank
  <2>1. AlreadyAdded(sw.pre, SwitchML, h.rid) => Item(h.rid, sw.pre.rids[SwitchML][h.rid]) \in Items
    BY Zenon DEF AlreadyAdded, Items, ItemsOf
  <2>2. Item(h.rid, sw.pre.rids[SwitchML][h.rid]).port = h.rid
    BY Zenon DEF Item
  <2> QED
    BY <1>2, <2>1, <2>2, Zenon
<1>9. CASE Todo(calls'["rpc"]) = {} /\ failed'["rpc"]
  BY <1>5, <1>6, <1>7, <1>9, Zenon DEF AddEffect
<1>10. CASE /\ Todo(calls'["rpc"]) = S \cup R /\ failed' = failed
            /\ h.op = "track_rid" /\ AlreadyAdded(sw.pre, SwitchML, h.rid) /\ S = {}
  BY <1>5, <1>6, <1>7, <1>8, <1>10, Zenon DEF AddEffect
<1>11. CASE /\ Todo(calls'["rpc"]) = S \cup R /\ failed' = failed
            /\ \E g \in S :
                  /\ S = {g} /\ g.rid = h.rid /\ g.port = h.port
                  /\ g.op \in {"erase_node", "add_node", "extend_group"}
                  /\ (g.op = "extend_group" /\ h.rid \in Rids) => sw'.pre.node[h.rid] = h.port
  <2>1. PICK g \in S :
                  /\ S = {g} /\ g.rid = h.rid /\ g.port = h.port
                  /\ g.op \in {"erase_node", "add_node", "extend_group"}
                  /\ (g.op = "extend_group" /\ h.rid \in Rids) => sw'.pre.node[h.rid] = h.port
    BY <1>11, Zenon
  <2>2. /\ RpcCall(serving, g) /\ Stage(g) = 4 /\ g.op # "rdma_receiver.add_entry" /\ IsAdd(g)
    BY <1>2, <2>1, ZenonT(30) DEF RpcCall, Stage, ClearOps, AddOps, IsAdd
  <2>3. \A c \in S : RpcCall(serving, c) /\ Stage(c) = 4 /\ c.op # "rdma_receiver.add_entry"
    BY <2>1, <2>2, Zenon
  <2>4. \/ \E c \in S : IsAdd(c) /\ c.op # "extend_group"
        \/ /\ \E c \in S : c.op = "extend_group"
           /\ sw'.pre.node[serving.rank] = PortOf[HostOf[serving.job][serving.rank]]
    BY <1>2, <1>3, <2>1, <2>2, ZenonT(30)
  <2>5. h.op # "rdma_receiver.add_entry" /\ h.op # "log2_packets_per_message"
    BY DEF AddOps
  <2> QED
    BY <1>5, <1>6, <1>7, <1>11, <2>3, <2>4, <2>5, ZenonT(30) DEF AddEffect
<1>12. CASE /\ Todo(calls'["rpc"]) = S \cup R /\ failed' = failed
            /\ h.op = "extend_group" /\ S = {} /\ h.rid \in Group'
            /\ sw'.pre.node = sw.pre.node
  BY <1>2, <1>5, <1>6, <1>7, <1>12, ZenonT(30) DEF AddEffect
<1> QED
  BY <1>9, <1>10, <1>11, <1>12, Zenon DEF GroupEffect

(* The steps of RDMAConnect: one of those of worker_clear_all, or one of   *)
(* those of worker_add_roce.                                               *)
LEMMA ExecuteKinds ==
    ASSUME IInv, Execute("rpc")
    PROVE  \/ \E R, S : ClearEffect("rpc", Head(calls["rpc"]), R, S)
           \/ \E R, S : AddEffect(Head(calls["rpc"]), R, S)
<1>1. calls["rpc"] # <<>>
  BY Zenon DEF Execute, At, ClearTable, AddEntry, ReceiverAddEntry, WorkerPortGet, Log2PacketsPerMessage,
         PreTrackRid, PreEraseNode, PreAddNode, PreExtendGroup, PreWorkerClearAll, PreLeaveGroup,
         PreDeleteNode, PreForget, ClearRegister, ResetSwitchMacAndIp, SetSwitchAddress,
         WorkerDelCommand, LoadWorker
<1>2. Ready("rpc") /\ RpcCall(serving, Head(calls["rpc"]))
  BY <1>1, RpcReady
<1>3. SwitchML \in Mgids
  BY ControlAssumption
<1>4. PICK h : h = Head(calls["rpc"])
  BY ZenonT(30)
<1>5. h.op \notin {"reset_switch_mac_and_ip", "set_address", "worker_del", "load_worker"}
  BY <1>2, <1>4 DEF RpcCall, ClearOps, AddOps
<1>6. ~ ResetSwitchMacAndIp("rpc") /\ ~ SetSwitchAddress("rpc") /\ ~ WorkerDelCommand("rpc")
      /\ ~ LoadWorker("rpc")
  BY <1>4, <1>5, Zenon DEF ResetSwitchMacAndIp, SetSwitchAddress, WorkerDelCommand, LoadWorker, At
<1>7. CASE \/ ClearTable("rpc") \/ ClearRegister("rpc") \/ PreWorkerClearAll("rpc")
           \/ PreLeaveGroup("rpc") \/ PreDeleteNode("rpc") \/ PreForget("rpc")
  <2>1. CASE ClearTable("rpc")
    BY <1>2, <2>1, ClearTableGeneric
  <2>2. CASE ClearRegister("rpc")
    BY <1>2, <2>2, ClearRegisterGeneric
  <2>3. CASE PreWorkerClearAll("rpc")
    BY <1>2, <1>3, <2>3, PreWorkerClearAllGeneric
  <2>4. CASE PreLeaveGroup("rpc")
    BY <1>2, <1>3, <2>4, PreLeaveGroupGeneric
  <2>5. CASE PreDeleteNode("rpc")
    BY <1>2, <1>3, <2>5, PreDeleteNodeGeneric, ZenonT(30)
  <2>6. CASE PreForget("rpc")
    BY <1>2, <1>3, <2>6, PreForgetGeneric
  <2> QED
    BY <1>7, <2>1, <2>2, <2>3, <2>4, <2>5, <2>6
<1>8. CASE \/ PreTrackRid("rpc") \/ PreEraseNode("rpc") \/ PreAddNode("rpc") \/ PreExtendGroup("rpc")
  <2>1. h.op \in AddOps
    BY <1>4, <1>8 DEF PreTrackRid, PreEraseNode, PreAddNode, PreExtendGroup, At, AddOps
  <2>2. \E R, S : GroupEffect("rpc", h, R, S)
    <3>1. CASE PreTrackRid("rpc")
      BY <1>2, <1>3, <1>4, <3>1, PreTrackRidGeneric
    <3>2. CASE PreEraseNode("rpc")
      BY <1>2, <1>3, <1>4, <3>2, PreEraseNodeGeneric
    <3>3. CASE PreAddNode("rpc")
      BY <1>2, <1>3, <1>4, <3>3, PreAddNodeGeneric, ZenonT(30)
    <3>4. CASE PreExtendGroup("rpc")
      BY <1>2, <1>3, <1>4, <3>4, PreExtendGroupGeneric
    <3> QED
      BY <1>8, <3>1, <3>2, <3>3, <3>4
  <2> QED
    BY <1>1, <1>4, <2>1, <2>2, GroupAdds
<1>9. CASE \/ AddEntry("rpc") \/ ReceiverAddEntry("rpc") \/ WorkerPortGet("rpc")
           \/ Log2PacketsPerMessage("rpc")
  BY <1>9, AddEntryEffect, ReceiverAddEntryEffect, WorkerPortGetEffect, Log2Effect
<1> QED
  BY <1>6, <1>7, <1>8, <1>9 DEF Execute

LEMMA ExecuteElsewhere ==
    ASSUME NEW t, Execute(t) PROVE Elsewhere /\ calls[t] # <<>>
  BY Zenon DEF Execute, At, ClearTable, AddEntry, ReceiverAddEntry, WorkerPortGet, Log2PacketsPerMessage,
         PreTrackRid, PreEraseNode, PreAddNode, PreExtendGroup, PreWorkerClearAll, PreLeaveGroup,
         PreDeleteNode, PreForget, ClearRegister, ResetSwitchMacAndIp, SetSwitchAddress,
         WorkerDelCommand, LoadWorker

LEMMA ExecuteHistory ==
    ASSUME NEW t, Execute(t), Shape
    PROVE  /\ alone' \in BOOLEAN /\ orderly' \in BOOLEAN /\ (alone' <=> alone)
           /\ orderly' => orderly /\ ~ TakesOver(t)
<1>1. alone' = alone /\ alone \in BOOLEAN
  BY ExecuteElsewhere DEF Elsewhere, Shape
<1>2. orderly' = (orderly /\ ~ TakesOver(t))
  BY Zenon DEF Execute
<1> QED
  BY <1>1, <1>2, Zenon

LEMMA RpcStep ==
    ASSUME IInv, Execute("rpc") PROVE IInv'
<1>1. Elsewhere /\ calls["rpc"] # <<>>
  BY ExecuteElsewhere
<1>2. /\ Ready("rpc") /\ serving # NoRequest /\ server # "down"
      /\ Watched => calls["cli"] = <<>>
  BY <1>1, RpcReady, Zenon
<1>3. Generic("rpc")
  BY <1>2, ExecuteGeneric, Zenon
<1>4. RpcParts'
  BY <1>1, <1>2, ExecuteKinds, ClearStep, AddStep, Zenon
<1>5. calls'["cli"] = calls["cli"]
  BY <1>3, Zenon DEF Generic, Threads
<1>6. /\ alone' \in BOOLEAN /\ orderly' \in BOOLEAN /\ (alone' <=> alone)
      /\ orderly' => orderly /\ ~ TakesOver("rpc")
  BY <1>1, ExecuteHistory, Zenon DEF IInv
<1>7. Shape' /\ QueueOK'
  BY <1>1, <1>3, <1>6, QueueKept, ShapeKept, Zenon DEF IInv, Elsewhere, Generic
<1>8. TurnsOK'
  BY <1>1, <1>2, <1>5, <1>6, Zenon DEF IInv, TurnsOK, Elsewhere
<1>9. GroupOK'
  BY <1>3, <1>6, Zenon DEF GroupOK, Generic
<1>10. ThreadsOK'
  <2>1. HandlerOK(Todo(calls'["cli"]))
    BY <1>5, HandlersOK DEF Threads
  <2>2. Watched' => Watched
    BY <1>6, Zenon DEF Watched
  <2>3. Watched' => PlacesOK(Todo(calls'["cli"]), Items', Group')
    BY <1>2, <1>5, <2>2, NoCalls, Zenon DEF PlacesOK
  <2> QED
    BY <1>3, <2>1, <2>2, <2>3, Zenon DEF ThreadsOK, Threads, Generic
<1> QED
  BY <1>4, <1>7, <1>8, <1>9, <1>10 DEF IInv, RpcParts

(* While a command runs no job is left alone with the controller. *)
LEMMA CliStep ==
    ASSUME IInv, Execute("cli") PROVE IInv'
<1>1. Elsewhere /\ calls["cli"] # <<>>
  BY ExecuteElsewhere, ZenonT(30)
<1>2. ~ alone /\ (orderly => calls["rpc"] = <<>>) /\ server # "down"
  BY <1>1, Zenon DEF IInv, TurnsOK
<1>3. "cli" \in Threads
  BY ZenonT(30) DEF Threads
<1>4. orderly => Grouped(Items, Group)
  BY <1>2, Zenon DEF IInv, GroupOK
<1>5. HandlerOK(Todo(calls["cli"])) /\ (Watched => PlacesOK(Todo(calls["cli"]), Items, Group))
  BY <1>3, HandlersOK, Zenon DEF Watched
<1>6. Ready("cli")
  BY <1>1, <1>3, <1>4, <1>5, Zenon DEF Ready, IInv
<1>7. Generic("cli")
  BY <1>6, ExecuteGeneric, ZenonT(30)
<1>8. calls'["rpc"] = calls["rpc"] /\ serving' = serving /\ server' = server
  BY <1>1, <1>7 DEF Generic, Threads, Elsewhere
<1>9. /\ alone' \in BOOLEAN /\ orderly' \in BOOLEAN /\ ~ alone'
      /\ orderly' => orderly /\ ~ TakesOver("cli")
  BY <1>2, ExecuteHistory, Zenon DEF IInv
<1>10. Shape' /\ QueueOK'
  BY <1>1, <1>7, <1>9, QueueKept, ShapeKept, ZenonT(30) DEF IInv, Elsewhere, Generic
<1>11. TurnsOK'
  BY <1>1, <1>2, <1>8, <1>9, Zenon DEF IInv, TurnsOK
<1>12. GroupOK' /\ RpcOK'
  BY <1>7, <1>8, <1>9, Zenon DEF IInv, GroupOK, Generic, RpcOK
<1>13. ThreadsOK'
  <2>1. HandlerOK(Todo(calls'["rpc"]))
    BY <1>8, HandlersOK DEF Threads
  <2>2. Watched' => Watched /\ calls["rpc"] = <<>>
    BY <1>2, <1>9, Zenon DEF Watched
  <2>3. Watched' => PlacesOK(Todo(calls'["rpc"]), Items', Group')
    BY <1>8, <2>2, NoCalls, Zenon DEF PlacesOK
  <2> QED
    BY <1>7, <2>1, <2>2, <2>3, Zenon DEF ThreadsOK, Threads, Generic
<1>14. alone' = FALSE
  BY <1>9, Zenon
<1> QED
  BY <1>10, <1>11, <1>12, <1>13, <1>14, NotAlone, Zenon DEF IInv

----------------------------------------------------------------------------
(* The invariant, and what it says.                                        *)

LEMMA NextInvariant ==
    ASSUME IInv, [Next]_vars PROVE IInv'
<1>1. CASE Boot \/ Publish \/ Stop \/ Accept \/ Respond
  BY <1>1, BootStep, PublishStep, StopStep, AcceptStep, RespondStep
<1>2. CASE \E t \in Threads : Execute(t)
  BY <1>2, RpcStep, CliStep DEF Threads
<1>3. CASE \E c \in Commands : Type(c)
  BY <1>3, TypeStep
<1>4. CASE StartJob \/ Begin \/ Finish
  BY <1>4, StartJobStep, BeginStep, FinishStep
<1>5. CASE job > 0 /\ \E r \in Ranks(job) : Connect(r)
  BY <1>5, ConnectStep
<1>6. CASE \E j \in 1..job : \E r \in Ranks(j) : Packet(j, r)
  BY <1>6, PacketStep
<1>7. CASE UdpPacket
  BY <1>7, UdpPacketStep
<1>8. CASE UNCHANGED vars
  BY <1>8, StutterStep
<1> QED
  BY <1>1, <1>2, <1>3, <1>4, <1>5, <1>6, <1>7, <1>8, ZenonT(30) DEF Next

(* The state of the controller, the clients and the switch satisfies IInv: *)
(* whatever the operator types and whenever, wherever the workers are, and *)
(* however often the controller is restarted.                              *)
THEOREM Invariant == Spec => []IInv
<1>1. Init => IInv
  BY InitInvariant
<1>2. IInv /\ [Next]_vars => IInv'
  BY NextInvariant
<1> QED
  BY <1>1, <1>2, PTL DEF Spec

(* A client that RDMAConnect has answered is in every table and stays so   *)
(* until its job ends, if no command was under way and the controller did  *)
(* not stop since the job's first request was taken up.  Nothing is asked  *)
(* of what went on before.                                                 *)
THEOREM AlwaysAcknowledgedInstalled == Spec => []AcknowledgedInstalled
<1>1. IInv => AcknowledgedInstalled
  BY Zenon DEF IInv, ConnectedOK, AcknowledgedInstalled
<1> QED
  BY <1>1, Invariant, PTL

(* The group of such a job, once it runs, holds its workers and nobody     *)
(* else, but for the ranks that PRE.worker_add takes for ports.  Here the  *)
(* controller must have been orderly since it started.                     *)
THEOREM AlwaysGroupExact == Spec => []GroupExact
<1>1. ASSUME IInv, phase = "running", alone, orderly, Fits
      PROVE  /\ Group \subseteq Ranks(job)
             /\ \A r \in Ranks(job) : r \in Group \/ Mistaken(r)
  <2>1. \A r \in Ranks(job) : client[r] = "connected"
    BY <1>1 DEF IInv, QueueOK
  <2>2. 0 \in Ranks(job) /\ job \in 1..Jobs
    BY <1>1, RankZero
  <2>3. \A r \in Ranks(job) : r \in Group \/ Mistaken(r)
    BY <1>1, <2>1, Zenon DEF IInv, ConnectedOK, Installed, Group
  <2>4. PICK T : T = Todo(calls["rpc"])
    BY Zenon
  <2>5. CleanOK(T) /\ Adding(T)
    BY <1>1, <2>1, <2>2, <2>4, ZenonT(30) DEF IInv, CurrentOK, Current, ConnectedOK
  <2>6. ~ Clearing(T)
    BY <2>5 DEF Adding, Clearing, Stage
  <2>7. Items \subseteq JobItems(job)
    BY <2>5, <2>6, ZenonT(30) DEF CleanOK
  <2>8. Grouped(Items, Group)
    BY <1>1, ZenonT(30) DEF IInv, TurnsOK, GroupOK
  <2>9. \A a \in JobItems(job) : a.rid \in Ranks(job)
    BY DEF JobItems, Item
  <2>10. Group \subseteq Ranks(job)
    BY <2>7, <2>8, <2>9 DEF Grouped
  <2> QED
    BY <2>3, <2>10, Zenon
<1>2. IInv => GroupExact
  BY <1>1, Zenon DEF GroupExact, Group
<1> QED
  BY <1>2, Invariant, PTL

(* No register of such a job has seen a packet of another, but for the     *)
(* jobs with a worker of the same rank at the same host, whose packets     *)
(* nothing tells apart from its own.                                       *)
THEOREM AlwaysFreshRegisters == Spec => []FreshRegisters
<1>1. ASSUME IInv, phase = "running", alone PROVE \A x \in Registers : sw.dirty[x] \subseteq Accepted
  <2>1. 0 \in Ranks(job)
    BY <1>1, RankZero, Zenon
  <2>2. client[0] = "connected"
    BY <1>1, <2>1, ZenonT(30) DEF IInv, QueueOK
  <2>3. PICK T : T = Todo(calls["rpc"])
    BY Zenon
  <2>4. CleanOK(T) /\ Adding(T)
    BY <1>1, <2>2, <2>3, ZenonT(30) DEF IInv, CurrentOK, Current, ConnectedOK
  <2>5. \A x : Stage(RegisterCall(x)) # 4
    BY CallFields DEF Stage
  <2>6. \A x : RegisterCall(x) \notin T
    BY <2>4, <2>5 DEF Adding
  <2> QED
    BY <2>4, <2>6 DEF CleanOK
<1>2. IInv => FreshRegisters
  BY <1>1, ZenonT(30) DEF FreshRegisters, Accepted
<1> QED
  BY <1>2, Invariant, PTL

(* When RDMAConnect starts to add rank 0 and no command was under way, the *)
(* tables and the dictionary are empty, and the group is if the controller *)
(* has been orderly.                                                       *)
THEOREM AlwaysClearedBeforeFirst == Spec => []ClearedBeforeFirst
<1>1. ASSUME IInv, serving # NoRequest, serving.rank = 0, alone, At("rpc", "rdma_receiver.add_entry")
      PROVE  /\ Tracked(sw.pre, SwitchML) = {} /\ (orderly => Group = {})
             /\ \A f \in Tables : sw[f] = {}
  <2>1. PICK h, R, T : /\ h = Head(calls["rpc"]) /\ T = Todo(calls["rpc"])
                       /\ R = Todo(Tail(calls["rpc"]))
    BY Zenon
  <2>2. calls["rpc"] # <<>> /\ h.op = "rdma_receiver.add_entry"
    BY <1>1, <2>1, ZenonT(30) DEF At
  <2>3. Listed(calls["rpc"])
    BY <1>1 DEF IInv, Shape, CallsShape, Threads
  <2>4. T = {h} \cup R /\ \A c \in R : Before(h, c)
    BY <2>1, <2>2, <2>3, FirstAndRest, ZenonT(30)
  <2>5. Stage(h) = 4 /\ \A c : Stage(c) \in 1..4
    BY <2>2 DEF Stage, ClearOps
  <2>6. \A c \in T : Stage(c) = 4
    BY <2>4, <2>5 DEF Before
  <2>7. ~ Clearing(T)
    BY <2>6 DEF Clearing, Stage
  <2>8. \A f : ClearCall(f) \notin T
    <3>1. \A f : Stage(ClearCall(f)) # 4
      BY CallFields DEF Stage
    <3> QED
      BY <2>6, <3>1
  <2>9. EmptyOK(T)
    BY <1>1, <2>1, Zenon DEF IInv, FirstOK
  <2>10. Items = {} /\ \A f \in Tables : sw[f] = {}
    BY <2>2, <2>4, <2>7, <2>8, <2>9, ZenonT(30) DEF EmptyOK
  <2>11. orderly => Grouped(Items, Group)
    BY <1>1, Zenon DEF IInv, TurnsOK, GroupOK
  <2>12. orderly => Group = {}
    BY <2>10, <2>11, Zenon DEF Grouped
  <2>13. Tracked(sw.pre, SwitchML) = {}
    BY <2>10, Zenon DEF Items, ItemsOf, Tracked
  <2> QED
    BY <2>10, <2>12, <2>13, Zenon
<1>2. IInv => ClearedBeforeFirst
  BY <1>1, Zenon DEF ClearedBeforeFirst, Group, Tables
<1> QED
  BY <1>2, Invariant, PTL
=============================================================================
