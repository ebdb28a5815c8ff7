------------------------------- MODULE TimeoutList -------------------------------
(***************************************************************************)
(* The class TimeoutQueue of the client (TimeoutQueue.hpp): a list of      *)
(* timers that is doubly linked through an array, newest entry first.  The *)
(* last element of the array is a sentinel behind the oldest entry.  A     *)
(* queue is a record q of three arrays and the head.                       *)
(***************************************************************************)
EXTENDS Integers

CONSTANT NumEntries   \* num_entries of the constructor: the slots of a thread

ASSUME NumEntriesAssumption == NumEntries \in Nat

Nil == -1
Sentinel == NumEntries
Entries == 0..(NumEntries - 1)
Elements == 0..NumEntries

QueueType == [timestamp : [Elements -> Nat],
              next : [Elements -> Elements \cup {Nil}],
              previous : [Elements -> Elements \cup {Nil}],
              head : Elements]

NewQueue == [timestamp |-> [e \in Elements |-> 0],
             next |-> [e \in Elements |-> Nil],
             previous |-> [e \in Elements |-> Nil],
             head |-> Sentinel]

(* Mutant: the successor keeps its link to the removed entry. *)
RemoveOneLink(q, i) ==
    IF i \notin Entries THEN q ELSE
    [timestamp |-> [q.timestamp EXCEPT ![i] = 0],
     next |-> [e \in Elements |-> IF e = i THEN Nil
                                  ELSE IF e = q.previous[i] THEN q.next[i] ELSE q.next[e]],
     previous |-> [q.previous EXCEPT ![i] = Nil],
     head |-> IF q.head = i THEN q.next[i] ELSE q.head]

(* The neighbours are linked to each other and the entry is zeroed; the    *)
(* sentinel is never removed.  An entry that is not in the list has no     *)
(* neighbours and nothing happens.                                         *)
Remove(q, i) ==
    IF i \notin Entries THEN q ELSE
    [timestamp |-> [q.timestamp EXCEPT ![i] = 0],
     next |-> [e \in Elements |-> IF e = i THEN Nil
                                  ELSE IF e = q.previous[i] THEN q.next[i] ELSE q.next[e]],
     previous |-> [e \in Elements |-> IF e = i THEN Nil
                                      ELSE IF e = q.next[i] THEN q.previous[i] ELSE q.previous[e]],
     head |-> IF q.head = i THEN q.next[i] ELSE q.head]

(* The entry becomes the head, in front of the old one. *)
Prepend(q, i, now) ==
    [timestamp |-> [q.timestamp EXCEPT ![i] = now],
     next |-> [q.next EXCEPT ![i] = q.head],
     previous |-> [q.previous EXCEPT ![i] = Nil, ![q.head] = i],
     head |-> i]

(* Mutant: an entry that is in the list already is not removed first. *)
PushTwice(q, i, now) == IF i \notin Entries THEN q ELSE Prepend(q, i, now)

Push(q, i, now) == IF i \notin Entries THEN q ELSE Prepend(Remove(q, i), i, now)

Pop(q) == Remove(q, q.head)

(* The newest entry, or the sentinel; the oldest entry, or Nil. *)
Top(q) == q.head
Bottom(q) == q.previous[Sentinel]
BottomTime(q) == IF Bottom(q) = Nil THEN 0 ELSE q.timestamp[Bottom(q)]
=============================================================================
