------------------------------- MODULE TimeoutQueue -------------------------------
(***************************************************************************)
(* Every use a thread can make of its timeout queue.  Time does not go     *)
(* back: the thread reads the time stamp counter once in each turn of its  *)
(* loop.                                                                   *)
(*                                                                         *)
(* age is not in the code: the number of pushes when an entry was pushed   *)
(* last, 0 for an entry that is not queued.  It is what the list stands    *)
(* for, and the properties compare the two.                                *)
(***************************************************************************)
EXTENDS TimeoutList

CONSTANTS MaxTime, MaxPushes   \* bounds of the instance

ASSUME BoundsAssumption == MaxTime \in Nat /\ MaxPushes \in Nat

VARIABLES q, now, age, pushes

queueVars == <<q, now, age, pushes>>

QueueTypeOK ==
    /\ q \in QueueType
    /\ now \in 0..MaxTime
    /\ age \in [Entries -> 0..MaxPushes]
    /\ pushes \in 0..MaxPushes

QueueInit ==
    /\ q = NewQueue
    /\ now = 0
    /\ age = [i \in Entries |-> 0]
    /\ pushes = 0

PushEntry(i) ==
    /\ pushes < MaxPushes
    /\ q' = Push(q, i, now)
    /\ pushes' = pushes + 1
    /\ age' = [age EXCEPT ![i] = pushes + 1]
    /\ UNCHANGED now

RemoveEntry(i) ==
    /\ q' = Remove(q, i)
    /\ age' = [age EXCEPT ![i] = 0]
    /\ UNCHANGED <<now, pushes>>

(* pop on an empty queue is remove of the sentinel. *)
PopEntry ==
    /\ q' = Pop(q)
    /\ age' = IF Top(q) \in Entries THEN [age EXCEPT ![Top(q)] = 0] ELSE age
    /\ UNCHANGED <<now, pushes>>

Tick ==
    /\ now < MaxTime
    /\ now' = now + 1
    /\ UNCHANGED <<q, age, pushes>>

QueueNext ==
    \/ \E i \in Entries : PushEntry(i) \/ RemoveEntry(i)
    \/ PopEntry
    \/ Tick

QueueSpec == QueueInit /\ [][QueueNext]_queueVars

----------------------------------------------------------------------------
QueuedIn(a) == {i \in Entries : a[i] # 0}
Queued == QueuedIn(age)

(* bottom is the queued entry that was pushed first and whose time stamp   *)
(* is the oldest, so check_for_timeouts, which looks at no other, finds a  *)
(* timer that has run out if there is one.                                 *)
BottomIsOldest ==
    /\ Queued = {} => Bottom(q) = Nil
    /\ Queued # {} => /\ Bottom(q) \in Queued
                      /\ \A i \in Queued : /\ age[Bottom(q)] <= age[i]
                                           /\ BottomTime(q) <= q.timestamp[i]

(* top is the queued entry that was pushed last, or the sentinel. *)
TopIsNewest ==
    IF Queued = {} THEN Top(q) = Sentinel
    ELSE Top(q) \in Queued /\ \A i \in Queued : age[i] <= age[Top(q)]

----------------------------------------------------------------------------
(* The list l holds the entries that the ages a say are queued: the links  *)
(* go from each entry to the one pushed last before it and back, and the   *)
(* sentinel stands behind the oldest.                                      *)

NextIs(a, i, j) ==
    \/ /\ j \in QueuedIn(a) /\ a[j] < a[i]
       /\ \A k \in QueuedIn(a) : ~ (a[j] < a[k] /\ a[k] < a[i])
    \/ /\ j = Sentinel
       /\ \A k \in QueuedIn(a) : ~ (a[k] < a[i])

NewestIs(a, j) ==
    \/ j \in QueuedIn(a) /\ \A k \in QueuedIn(a) : a[k] <= a[j]
    \/ j = Sentinel /\ QueuedIn(a) = {}

Links(l, a) ==
    /\ \A i \in QueuedIn(a) : NextIs(a, i, l.next[i]) /\ l.previous[l.next[i]] = i
    /\ \A i \in Entries \ QueuedIn(a) : l.next[i] = Nil /\ l.previous[i] = Nil
    /\ l.next[Sentinel] = Nil
    /\ \A e \in Elements : l.previous[e] # Nil => /\ l.previous[e] \in QueuedIn(a)
                                                  /\ l.next[l.previous[e]] = e
    /\ NewestIs(a, l.head)
    /\ \A e \in QueuedIn(a) \cup {Sentinel} : l.previous[e] = Nil <=> l.head = e

Distinct(a) == \A i, j \in QueuedIn(a) : a[i] = a[j] => i = j

(* The time stamps grow with the order of the pushes. *)
Times(l, a) == \A i, j \in QueuedIn(a) : a[i] < a[j] => l.timestamp[i] <= l.timestamp[j]

(* The inductive invariant: the array is the list of the queued entries in *)
(* the order of their pushes, and of their time stamps.                    *)
QueueInv ==
    /\ QueueTypeOK
    /\ Distinct(age) /\ Links(q, age) /\ Times(q, age)
    /\ \A i \in Queued : age[i] <= pushes /\ q.timestamp[i] <= now
=============================================================================
