------------------------------ MODULE SwitchPass ------------------------------
(***************************************************************************)
(* What one pass of a packet through an ingress pipe does to the           *)
(* registers of one slot: the tables and register actions of               *)
(* UpdateAndCheckWorkerBitmap, CountWorkers, SignificandSum, ExponentMax   *)
(* and NextStep, as operators on the values they read and write.           *)
(*                                                                         *)
(* A slot has two sets, 0 and 1 (the low bit of pool_index).  A            *)
(* significand is a multiset of contributions: the worker and message it   *)
(* was read from, with the number of times it has been added.  Addition    *)
(* in the registers is addition of multisets, so an input that is added    *)
(* twice or left over from an earlier message shows.  An exponent is the   *)
(* set of contributions that its maximum was taken over.                   *)
(***************************************************************************)
EXTENDS Integers, FiniteSets

CONSTANTS Workers,      \* the workers of the job
          MaxMessage    \* messages that a worker sends through the slot

ASSUME WorkersAssumption == IsFiniteSet(Workers) /\ Workers # {}
ASSUME MaxMessageAssumption == MaxMessage \in Nat \ {0}

Messages == 1 .. MaxMessage
Sets == {0, 1}
num_workers == Cardinality(Workers)

-------------------------------------------------------------------------------
(* Data.                                                                   *)

Contributions == Workers \X Messages
Significands == [Contributions -> Nat]
Exponents == SUBSET Contributions

Zero == [c \in Contributions |-> 0]

\* The significand that worker w put into message m.
Input(w, m) == [c \in Contributions |-> IF c = <<w, m>> THEN 1 ELSE 0]

Plus(u, v) == [c \in Contributions |-> u[c] + v[c]]

\* The reduction of message m: every worker's input, once.
Total(m) == [c \in Contributions |-> IF c[2] = m THEN 1 ELSE 0]

\* The exponents that the maximum for message m ranges over.
AllExponents(m) == Workers \X {m}

-------------------------------------------------------------------------------
(* UpdateAndCheckWorkerBitmap: bm is the pair of bitmaps of the slot.      *)

\* Mutant: the bit is not removed from the other set.
UpdateBitmapOneSet(bm, set, w) ==
    [s \in Sets |-> IF s = set THEN bm[s] \cup {w} ELSE bm[s]]

UpdateBitmap(bm, set, w) ==
    [s \in Sets |-> IF s = set THEN bm[s] \cup {w} ELSE bm[s] \ {w}]

\* Nonzero (nonempty) when the packet is a retransmission.
MapResult(bm, set, w) == bm[set] \cap {w}

-------------------------------------------------------------------------------
(* CountWorkers: cnt is the count of the packet's set before the pass.     *)

\* Mutant: the count is not set to num_workers by the first packet.
UpdateCountNoReset(cnt, map) == IF map # {} THEN cnt ELSE cnt - 1

UpdateCount(cnt, map) ==
    IF map # {} THEN cnt
    ELSE IF cnt = 0 THEN num_workers - 1
    ELSE cnt - 1

\* first_last_flag: 1 for the last packet of a set, 0 for the first packet,
\* and 0 for a retransmission to a complete set.
FirstLastFlag(cnt, map) ==
    IF num_workers = 1 THEN (IF map = {} THEN 1 ELSE 0) ELSE cnt

-------------------------------------------------------------------------------
(* SignificandSum and ExponentMax on a CONSUME pass; before is the bitmap  *)
(* of the packet's set before the pass, reg the register of that set.      *)

\* Mutant: a retransmission is added again.
UpdateSignificandsTwice(reg, before, map, d0, d1) ==
    IF before = {} THEN [first |-> d0, second |-> d1]
    ELSE [first |-> Plus(reg.first, d0), second |-> Plus(reg.second, d1)]

UpdateSignificands(reg, before, map, d0, d1) ==
    IF before = {} THEN [first |-> d0, second |-> d1]
    ELSE IF map = {} THEN [first |-> Plus(reg.first, d0), second |-> Plus(reg.second, d1)]
    ELSE reg

\* hdr.d1 after the pass.  A retransmission runs significand_read0_action,
\* which assigns hdr.d0 only.  The field is both the in and the out argument
\* of the control, and its container is not written: it keeps its value.
ConsumedD1(reg, before, map, d0, d1) ==
    IF before = {} \/ map = {}
    THEN UpdateSignificands(reg, before, map, d0, d1).second
    ELSE d1

UpdateExponents(reg, before, map, e0, e1) ==
    IF before = {} THEN [first |-> e0, second |-> e1]
    ELSE IF map = {} THEN [first |-> reg.first \cup e0, second |-> reg.second \cup e1]
    ELSE reg

-------------------------------------------------------------------------------
(* NextStep for 256-byte packets: the next packet_type, or the reason why  *)
(* the packet goes no further.                                             *)

\* Mutant: a retransmission to a complete set is dropped.
NextStepConsume256NoReply(flag, map) ==
    IF flag = 1 THEN "HARVEST7"
    ELSE IF map = {} THEN "finish_consume"
    ELSE "drop"

\* Mutant: flag 0 is taken for a retransmission before map_result is looked at.
NextStepConsume256Swapped(flag, map) ==
    IF flag \in {0, 1} THEN "HARVEST7"
    ELSE IF map = {} THEN "finish_consume"
    ELSE "drop"

NextStepConsume256(flag, map) ==
    IF flag = 1 THEN "HARVEST7"
    ELSE IF map = {} THEN "finish_consume"
    ELSE IF flag = 0 THEN "HARVEST7"
    ELSE "drop"

\* Mutant: a retransmission to a set that lacks one worker is broadcast.
NextStepHarvest7Early(flag, nonzero) ==
    IF flag = 1 THEN "BROADCAST"
    ELSE IF flag = 0 /\ ~nonzero THEN "unexpected"
    ELSE "RETRANSMIT"

\* The entries of the final pass, for the worker types that are
\* implemented (SWITCHML_UDP and ROCEv2).
NextStepHarvest7(flag, nonzero) ==
    IF flag = 1 /\ ~nonzero THEN "BROADCAST"
    ELSE IF flag = 0 /\ ~nonzero THEN "unexpected"
    ELSE IF flag = 0 THEN "RETRANSMIT"
    ELSE "drop"

\* ReconstructWorkerBitmap: the flag that a recirculated packet carries, as
\* the two booleans of its metadata header.
ReconstructFlag(first_flag, last_flag) ==
    IF first_flag THEN 0 ELSE IF last_flag THEN 1 ELSE 255

===============================================================================
