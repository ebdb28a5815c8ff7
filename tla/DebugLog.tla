-------------------------------- MODULE DebugLog --------------------------------
(***************************************************************************)
(* The packet log: the ring registers the switch writes (src/p4/DebugLog.p4)*)
(* the code that clears and reads them (src/py/DebugLog.py), and the tool  *)
(* that turns a saved log into a sheet (src/tools/convert_log.py).         *)
(*                                                                         *)
(* An entry is a 51 bit word, represented by the set of its bits that are  *)
(* set, so that {} is the number 0.  One pipe is modelled: each has a log  *)
(* of its own at ingress and one at egress.                                *)
(***************************************************************************)
EXTENDS Integers, Sequences, FiniteSets, FiniteSetsExt, SequencesExt

CONSTANTS LogSize,        \* entries of a log, 22528 in the code
          PacketIdBits,   \* bits of the packet id in an entry, 11 in the code
          Packets,        \* the packets that pass, without their id
          MaxLogged,      \* packets logged in a behaviour
          MaxClears       \* log_clear commands in a behaviour

Logs == {"Ingress", "Egress"}
IGNORE == 3
CONSUME0 == 4
BROADCAST == 1
RETRANSMIT == 2

VARIABLES
    log,      \* log[l][i]: entry i of log l
    next,     \* next[l]: the entry the switch writes next
    counter,  \* the register that numbers the packets
    todo,     \* what clear_log still has to do
    since,    \* since[l]: what was logged since the entries were last cleared
    logged,   \* packets logged so far
    clears    \* log_clear commands so far

vars == <<log, next, counter, todo, since, logged, clears>>

----------------------------------------------------------------------------
(* Words.                                                                  *)

Bits(v, w) == {i \in 0 .. w - 1 : (v \div 2^i) % 2 = 1}
Number(bits) == MapThenSumSet(LAMBDA i : 2^i, bits)

(* 2^w - 1 & (entry >> shift). *)
Field(entry, shift, w) == Number({i \in 0 .. w - 1 : i + shift \in entry})

(* The ++ of P4: parts are pairs of a value and a width, the most          *)
(* significant one first.                                                  *)
Concat(parts) ==
    UNION {LET rest == {j \in DOMAIN parts : j > k}
               low == MapThenSumSet(LAMBDA j : parts[j][2], rest)
           IN  {i + low : i \in Bits(parts[k][1], parts[k][2])} : k \in DOMAIN parts}

(* value.addr and value.data, read as value.addr << 32 | value.data. *)
Word(addr, data) == {i + 32 : i \in addr} \cup data

(* log_action.  The flags are bitmap_before, map_result, first and last    *)
(* worker at ingress, and four bits of the port at egress.                 *)
Encode(p) ==
    Word(Concat(<<<<p.address_bits, 8>>, <<p.id, PacketIdBits>>>>),
         Concat(<<<<p.ingress_pipe, 2>>, <<p.worker_id, 5>>, <<p.first_packet, 1>>,
                  <<p.last_packet, 1>>, <<p.flags, 4>>, <<p.packet_type, 4>>,
                  <<p.pool_index, 15>>>>))

----------------------------------------------------------------------------
(* Readers.                                                                *)

(* DebugLog.parse_log_entry. *)
ParseLogEntry(entry) ==
    [address_bits |-> Field(entry, 32 + PacketIdBits, 8),
     packet_id |-> Field(entry, 32, PacketIdBits),
     ingress_pipe |-> Field(entry, 30, 2), worker_id |-> Field(entry, 25, 5),
     first_packet |-> Field(entry, 24, 1), last_packet |-> Field(entry, 23, 1),
     bitmap_before |-> Field(entry, 22, 1), map_result |-> Field(entry, 21, 1),
     first_worker |-> Field(entry, 20, 1), last_worker |-> Field(entry, 19, 1),
     packet_type |-> Field(entry, 15, 4), pool_index |-> Field(entry, 1, 14),
     set |-> Field(entry, 0, 1)]

(* convert_log.Packet.parse: pairs of bits become one number; 4 and 2      *)
(* stand for EGRESS.                                                       *)
Parse(index, entry) ==
    LET f == ParseLogEntry(entry)
        egress == f.packet_type \in {BROADCAST, RETRANSMIT}
    IN  [capture_index |-> index, address_bits |-> f.address_bits, packet_id |-> f.packet_id,
         ingress_pipe |-> f.ingress_pipe, worker_id |-> f.worker_id,
         message_sequence |-> 2 * f.first_packet + f.last_packet,
         worker_sequence |-> IF egress THEN 4 ELSE 2 * f.first_worker + f.last_worker,
         map_result |-> IF f.packet_type = BROADCAST THEN 0
                        ELSE IF f.packet_type = RETRANSMIT THEN 1 ELSE f.map_result,
         bitmap_before |-> IF egress THEN 2 ELSE f.bitmap_before,
         packet_type |-> f.packet_type, pool_index |-> f.pool_index, pool_set |-> f.set]

(* get_log and the loop of convert_file: the entries that are not 0, in    *)
(* the order of their index.                                               *)
Collected(entries) ==
    LET indices == SetToSortSeq({i \in DOMAIN entries : entries[i] # {}}, <)
    IN  [k \in 1..Len(indices) |-> Parse(indices[k], entries[indices[k]])]

(* Places where the index does not follow the one before, 0 at first. *)
PossibleIndices(pkts) ==
    {k \in DOMAIN pkts : pkts[k].capture_index # (IF k = 1 THEN 0 ELSE pkts[k - 1].capture_index) + 1}

(* Mutant: the first of the places is taken. *)
RotatePacketListFirst(pkts) ==
    IF PossibleIndices(pkts) = {} THEN pkts
    ELSE LET k == Min(PossibleIndices(pkts))
         IN  SubSeq(pkts, k, Len(pkts)) \o SubSeq(pkts, 1, k - 1)

(* rotate_packet_list. *)
RotatePacketList(pkts) ==
    IF PossibleIndices(pkts) = {} THEN pkts
    ELSE LET k == Max(PossibleIndices(pkts))
         IN  SubSeq(pkts, k, Len(pkts)) \o SubSeq(pkts, 1, k - 1)

(* The rows of log l in the sheet. *)
Sheet(l) == RotatePacketList(Collected(log[l]))

(* The red format: AND(OR($B2<$B1, $B2>$B1+1), $A2=$A1). *)
Red(rows, k) ==
    /\ k > 1
    /\ \/ rows[k].packet_id < rows[k - 1].packet_id
       \/ rows[k].packet_id > rows[k - 1].packet_id + 1

----------------------------------------------------------------------------
(* The switch.  A packet gets the next number on its first pass; id holds  *)
(* the bits of the number that fit in an entry.                            *)

Write(l, p) ==
    /\ logged < MaxLogged
    /\ log' = [log EXCEPT ![l][next[l]] = Encode(p)]
    /\ next' = [next EXCEPT ![l] = (@ + 1) % LogSize]
    /\ since' = [since EXCEPT ![l] = Append(@, p)]
    /\ logged' = logged + 1
    /\ UNCHANGED <<todo, clears>>

Numbered(p, n) == p @@ [number |-> n, id |-> n % 2^PacketIdBits]

FirstPass(p) ==
    /\ p.packet_type = CONSUME0
    /\ Write("Ingress", Numbered(p, counter))
    /\ counter' = counter + 1

(* A later pass of the packet that was numbered last. *)
LaterPass(p) ==
    /\ p.packet_type > CONSUME0 /\ counter > 0
    /\ Write("Ingress", Numbered(p, counter - 1))
    /\ UNCHANGED counter

EgressPass(p) ==
    /\ p.packet_type < CONSUME0 /\ counter > 0
    /\ Write("Egress", Numbered(p, counter - 1))
    /\ UNCHANGED counter

(* clear_log: every register is cleared twice, and packets may pass        *)
(* between any two of the calls.  The position of a log is not reset.      *)
ClearLog ==
    /\ todo = <<>> /\ clears < MaxClears
    /\ todo' = <<"packet_id", "packet_id", "Ingress", "Ingress", "Egress", "Egress">>
    /\ clears' = clears + 1
    /\ UNCHANGED <<log, next, counter, since, logged>>

ClearPacketId ==
    /\ todo # <<>> /\ Head(todo) = "packet_id"
    /\ counter' = 0 /\ todo' = Tail(todo)
    /\ UNCHANGED <<log, next, since, logged, clears>>

ClearEntries ==
    /\ todo # <<>> /\ Head(todo) \in Logs
    /\ log' = [log EXCEPT ![Head(todo)] = [i \in 0 .. LogSize - 1 |-> {}]]
    /\ since' = [since EXCEPT ![Head(todo)] = <<>>]
    /\ todo' = Tail(todo)
    /\ UNCHANGED <<next, counter, logged, clears>>

Init ==
    /\ log = [l \in Logs |-> [i \in 0 .. LogSize - 1 |-> {}]]
    /\ next = [l \in Logs |-> 0] /\ counter = 0 /\ todo = <<>>
    /\ since = [l \in Logs |-> <<>>] /\ logged = 0 /\ clears = 0

Next == \/ \E p \in Packets : FirstPass(p) \/ LaterPass(p) \/ EgressPass(p)
        \/ ClearLog \/ ClearPacketId \/ ClearEntries

Spec == Init /\ [][Next]_vars

----------------------------------------------------------------------------
(* What the row of a packet should say. *)
RowOf(l, p) ==
    [address_bits |-> p.address_bits, packet_id |-> p.id, ingress_pipe |-> p.ingress_pipe,
     worker_id |-> p.worker_id, message_sequence |-> 2 * p.first_packet + p.last_packet,
     worker_sequence |-> IF l = "Egress" THEN 4 ELSE p.flags % 4,
     map_result |-> IF l = "Egress" THEN (IF p.packet_type = RETRANSMIT THEN 1 ELSE 0)
                    ELSE (p.flags \div 4) % 2,
     bitmap_before |-> IF l = "Egress" THEN 2 ELSE p.flags \div 8,
     packet_type |-> p.packet_type, pool_index |-> p.pool_index \div 2,
     pool_set |-> p.pool_index % 2]

Says(row, r) == \A f \in DOMAIN r : row[f] = r[f]

(* As long as a log has not been filled, the sheet shows the packets it    *)
(* holds, all of them, in the order in which they passed and with the      *)
(* fields they had, wherever in the ring the log began when it was         *)
(* cleared and whether or not it wrapped.  (A packet that is dropped at    *)
(* egress is logged as IGNORE with port bits in place of its flags.)       *)
SheetFaithful ==
    \A l \in Logs : Len(since[l]) < LogSize =>
        /\ Len(Sheet(l)) = Len(since[l])
        /\ \A k \in DOMAIN since[l] :
               since[l][k].packet_type # IGNORE =>
                   Says(Sheet(l)[k], RowOf(l, since[l][k]))

(* However full the log is, it holds the most recent packets. *)
RecentKept ==
    \A l \in Logs :
        {Sheet(l)[k].address_bits : k \in DOMAIN Sheet(l)} =
        {p.address_bits : p \in ToSet(SubSeq(since[l], Max({1, Len(since[l]) - LogSize + 1}),
                                             Len(since[l])))}

(* "highlight sequence violations that are not from harvest operations,    *)
(* within a single pipe": a row is only red if its packet is not the one   *)
(* numbered after that of the row before.                                  *)
RedIsViolation ==
    LET rows == Sheet("Ingress")
    IN  (clears = 0 /\ Len(since["Ingress"]) < LogSize) =>
            \A k \in DOMAIN rows : Red(rows, k) =>
                since["Ingress"][k].number \notin
                    {since["Ingress"][k - 1].number, since["Ingress"][k - 1].number + 1}
=============================================================================
