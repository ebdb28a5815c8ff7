# A TLA+ model of SwitchML

SwitchML adds up vectors of several workers inside a network switch. A worker
sends a piece of its vector in a packet, the switch adds the packet to a
register (a *slot*), and when every worker has contributed it sends the sum back
to all of them. Packets get lost, so workers send again; registers are scarce,
so a slot is reused as soon as possible. The protocol that makes this safe is
spread over a P4 program, a client and a control plane. This directory models
it in TLA+, checks it with TLC and proves its main properties with TLAPS.

## The system

Paths are below `src/`.

| Part | Source | Model |
|---|---|---|
| Aggregation of one slot, 256-byte packets | `p4/UpdateAndCheckWorkerBitmap.p4`, `CountWorkers.p4`, `SignificandSum.p4`, `ExponentMax.p4`, `NextStep.p4`, `switchml.p4`, `parsers.p4` | `SwitchPass`, `Slot256` |
| Aggregation of 1024-byte packets in four pipes | the same | `SwitchPass`, `Slot1024` |
| What a slot promises | | `AllReduce` |
| Client thread: slots, completions, timers | `RDMAExampleClient/ClientThread.cpp` | `Slot256`, `Slot1024` (one slot with the switch), `ClientThread` (several slots) |
| Work partition between threads | `ClientThread.cpp` (`compute_thread_pointers`) | `ThreadPartition` |
| Timeout queue | `TimeoutQueue.hpp` | `TimeoutList`, `TimeoutQueue` |
| Reducer, barrier | `Reducer.cpp`, `Barrier.hpp` | `Barrier`, `Reducer` |
| RDMA receiver, queue pairs of replies | `p4/RDMAReceiver.p4`, `py/RDMAReceiver.py`, `py/RDMASender.py` | `RdmaMessages` |
| Controller: jobs, workers, multicast, gRPC; how clients connect | `py/Job.py`, `GRPCServer.py`, `PRE.py`, `RDMAReceiver.py`, `RDMASender.py`, `GetWorkerBitmap.py`, `SetDstAddr.py`; `Connections.cpp` | `PRE`, `ControlPlane` |
| Controller: ports, forwarding, recirculation port | `py/Ports.py`, `NonSwitchMLForward.py`, `NextStep.py`, `Job.py` | `PRE`, `PortControl` |
| Controller: counters | `py/RDMAReceiver.py`, `RDMASender.py`, `NextStep.py`, ... | `Counters` |
| Drop simulator | `p4/DropSimulator.p4`, `py/DropSimulator.py` | `DropSimulator`; losses of the slot modules |
| Debug log and its converter | `p4/DebugLog.p4`, `py/DebugLog.py`, `tools/convert_log.py` | `DebugLog` |

How the parts interact. A client thread owns a number of slots. For each it
keeps one send work request; its `rkey` holds the slot's pool index, whose low
bit selects one of the slot's two *sets*. Messages alternate between the sets.
In the switch a packet makes a first pass (`CONSUME0`): the worker's bit is set
in the bitmap of the packet's set and cleared in that of the other, the worker
count of the set goes down, the data is added (or written, for the first packet
of a set). The packet that completes the set is recirculated, and on a second
pass (`HARVEST7`) picks up the other half of the sums and is multicast. A packet
whose bit was already set is a retransmission: it is not added, and if the set
is complete it is recirculated too and answered to its sender only. The client
accepts an answer when its pool index is the current one, and then posts the
next message of the slot, in the other set.

A job starts with its clients calling `RDMAConnect` on the controller: rank 0
first, the others after a barrier. The first call clears the tables, the
multicast group and the registers, and every call adds one worker to them. The
controller has a second thread, its command line, which calls the same objects.

## Modules

**`SwitchPass`** holds the tables and register actions of one pass as operators:
`UpdateBitmap`, `MapResult`, `UpdateCount`, `FirstLastFlag`,
`UpdateSignificands`, `UpdateExponents`, `NextStepConsume256`,
`NextStepHarvest7`, `ReconstructFlag`. A significand is a multiset of
contributions (how often the input of a worker to a message has been added), an
exponent the set of contributions its maximum was taken over. So "the sum is
exact" means: each worker's input to this message, once, and nothing else. The
wrap-around of 32-bit addition is not visible at this level.

**`Slot256`** is one slot with 256-byte packets in pipe 0, the clients' part of
it, and the network between them.

| Variable | In the code |
|---|---|
| `bitmap`, `count`, `sig`, `expo` | registers `worker_bitmap`, `worker_count`, `significands` (32 of them, alike), `exponents` |
| `recirc` | packets on their way through recirculation port 68 |
| `up`, `down` | packets from and to each worker |
| `posted`, `slot_bit` | the slot's `send_wrs[i]`: the message (`pointers[i]`) and the low bit of its rkey |
| `finished` | the last message of the slot has been answered |
| `mem`, `cq` | the worker's buffer, reduced in place, and receive completions not polled yet |

| Action | In the code |
|---|---|
| `PostInitial` | `post_initial_writes` |
| `Repost` | `check_for_timeouts` and `repost_send_wr` |
| `HandleRecv` | `handle_recv_completion`, with `post_next_send_wr` (`PostNext`, `PostNothing`) |
| `RdmaWrite` | the NIC: writes the payload, raises a completion |
| `Consume` | the ingress pass of a `CONSUME0` packet |
| `Harvest` | the ingress pass of a `HARVEST7` packet, multicast, egress |
| `LoseUp`, `LoseDown`, `LoseRecirc` | loss in the network, by the drop simulator, at the recirculation port |

A message number stands for the address of its buffer, which the switch copies
from the request into the reply. The two halves of a packet, `d0` and `d1`, are
kept apart because they are read in different passes. A worker whose last
message has been answered may still repost: its timer is removed only by posting
a next message, and the thread runs on while other slots are busy.

Every path keeps the order of packets: the packets of a slot use one queue pair,
and `next_step` sends every recirculated 256-byte packet to port 68 ("set the
recirculation port to ensure ordering of requests to the same memory
locations"). The proofs use this; it is what makes one slot bit enough.

Messages consist of one packet (message size = packet size), the only case in
which the RDMA receiver never rejects a packet.

**`AllReduce`** is the abstract specification: workers go through messages; a
worker leaves a message only when every worker has entered it, with the sum over
all workers.

The theorems and proofs about `Slot256` are in **`Slot256Lemmas`** (types, facts
about queues, what a step leaves alone, losses, harvest passes and passes of
retransmitted packets), **`Slot256Client`** (steps of the client and its NIC) and
**`Slot256Proofs`** (passes of new packets, the invariant, what follows from it,
and the refinement).

**`Slot1024`** is the same slot with 1024-byte packets. A packet makes four
consume passes, one in each pipe, and eight slices of it are summed in two
registers of each pipe; the packet that completes the set in pipe 3 makes seven
harvest passes. `consume[p][port]` and `harvest[port]` are the queues at the
loopback and recirculation ports. `LoopbackPort` follows `next_step`: the port
between pipes depends on the worker, so packets of two workers keep their order
only if their workers share a loopback port. Workers are attached to pipe 0; worker
`w` uses loopback port `4 * (w % 16)`, so that the ranks of a job of up to 16 workers
have ports of their own.
A slice is marked by counting its contributions as often as its number, so that
a slice in the wrong place shows.

**`ThreadPartition`** has `compute_thread_pointers` as operators: `Share` is what a
thread counts on (`outstanding_operations`), `PostedBy` what it posts, up to
`thread_end_pointer`. **`ClientThread`**
is one thread with several slots over several reductions: `StartReduction`
(the barrier, `compute_thread_pointers`), `PostInitialWrite` (one turn of the loop
of `post_initial_writes`), and the steps of `run`: `Poll`, `HandleRecv`,
`HandleWrite`, `TimedOut`, `NoTimeout`, `Leave`. The NIC and the switch are
external: a write completion may come before or after the answer, an answer may be
lost or come twice. Time is abstract: a timer may have run out whenever it is
looked at. **`ClientProofs`** has the
theorems about both.

**`TimeoutList`** is the list linked through an array (`push`, `remove`, `pop`,
`top`, `bottom`), and **`TimeoutQueue`** uses it in every order.

**`Barrier`** has the mutex and condition variable of `Barrier.hpp`, with spurious
wakeups; **`Reducer`** is the main thread and the client threads that meet at it:
hand-over of buffer and length, the end of a reduction, shutdown.

**`RdmaMessages`** is the receiver's register that follows the sequence numbers of
a message of several packets and computes the slot of each, the queue pair that
the controller's entries select for a reply, and the receiver's counters as
`print_counters` shows them. Packets are lost, overtaken and sent again; jobs
follow each other. The dimensions are fields of a record `config`, of which a
behaviour picks one. In the runs the sequence number space is scaled from 2^24 to
10 or 16; the error bit 0x80000000 is 2^30 to stay within TLC's integers. `Recent`
is what is assumed of the network: `Span`, half of the sequence numbers at most,
bounds how many packets of a queue pair may be sent after the last that reached the
switch, and after one still under way. The number of packets is not bounded by it. Packets per
message are a power of two, as the mask of `add_write_worker` needs.
**`RdmaProofs`** has the theorems.

**`PRE`** is the class of the multicast tables: groups and nodes live on the switch,
the dictionary `rids` in the controller. Its operators are single calls, so that
a method can be cut between any two.

**`ControlPlane`** is the controller with its two threads (`cli`, `rpc`) and the
clients that connect. A handler is the sequence of table calls that it still has
to make; a step executes one call, so the other thread, packets and a restart of
the controller come between any two, and an exception drops the rest of the
sequence. A method of several steps (`worker_add`, `worker_clear_all`,
`worker_load_file`) holds one place of the sequence and keeps in it what it has
still to do. `sw` holds the tables; a register is the set of jobs that have written
to it. `Boot`, `Publish`, `Stop` are start and end of the server, which is
reachable before the job object is stored; `Accept`, `Respond` handle a request;
`Type` is a command line, typed at any time. `Stop` fails the calls in progress, whose
clients exit and take their job with them; clients that wait at a barrier, or run,
are not told, and the next `Boot` wipes their tables under them. Two history
variables say what the properties need: `alone`, since the request of rank 0 was
taken up no command was under way and the controller did not stop; `orderly`, since
the controller started no command and request were under way together and no port
got a second worker. In this module the driver refuses only what it must (an entry
that exists or is missing, a node in use); refusals without a reason are in
`PortControl`. **`ControlInvariant`** has the inductive invariant, **`ControlSteps`** the
lemmas about sequences of calls and the steps of server, clients and packets,
**`ControlProofs`** the remaining calls and the theorems.

**`PortControl`** has one action per port, address, file and recirculation command
of `Job.py`. A command is a chain of driver calls, and with `Faults` the driver may
refuse any of them: the outcome is a set of pairs of the state left behind and
whether the command returned. Most refusals raise an exception. Those in
`PRE.worker_clear_all` are logged, and the dictionary forgets the node although it is
still in the group; the history `stray` holds such nodes.

**`ComponentProofs`** has the theorems about `Reducer`, `TimeoutQueue` and
`PortControl`, which have nothing in common but are short. The specifications of
the last two are named `QueueSpec` and `PortSpec` so that one module can extend
all three.

**`Counters`** clears the counters entry by entry (`entry_get`, `entry_mod`) while
packets are counted and the other thread adds and removes workers. What a packet
counts on ingress, on its passes and, for each copy of the answer, on egress is one
step, because a driver call takes far longer than the passes of a packet.
**`DropSimulator`** has the setting, its copy in the controller and the two tables,
written statement by statement by two threads. **`DebugLog`** packs an entry of the
ring field by field, clears the ring while packets pass, reads it back and rotates
and marks rows as `convert_log.py` does. The three share no state.

The answer of the driver to a call is modelled from how the code uses it: adding
an entry that exists and deleting one that does not raise an exception;
`entry_del` without keys empties a table; the table of port metadata has a record
for every port. Where the code does not show what the driver does (deleting a
multicast node that is still in a group), both outcomes are possible.

The `MC` modules instantiate these for TLC. `MCPortControl` and `MCClientThread`
add a history variable each: whether a driver call failed without a reason, and
whether a timer ever ran out. `MCSlot1024` ends a behaviour where partial sums
reach a worker. `MCController` puts `PortControl`, `Counters`, `DropSimulator` and
`DebugLog` into one state space, and `MCClientParts` puts `Reducer`, `TimeoutQueue` and
`RdmaMessages` (with the set-ups of `MCRdmaMessages`) into one; each part is explored
with the others at their initial state. The parts share no variable, so nothing is
lost.

## Runs

| Run | Instance | Shows |
|---|---|---|
| `two` | `Slot256`: 2 workers, 3 messages, 3 in flight, fairness | `RepliesExact`: every reply is exact; `MemoryExact`: a result, once taken, stays; `AcceptedIsCurrent`: a stale answer is never accepted; `NoUnexpectedHarvest`: the "shouldn't ever get here" entry is not reached; `NoEarlyOverwrite`: registers are written afresh only after every worker took their old contents; `BroadcastOnCompletion`: the pass that completes a set, and no other, starts the broadcast; `ImplementsAllReduce`; `Termination`; `IInv`, which contains `TypeOK` |
| `retransmit` | `Slot256`: 2 workers, 2 messages, 3 in flight | a violation of `RetransmitsWhole`, see *Findings* |
| `slot1024_messages` | `Slot1024`: ranks 0 and 1 on their two loopback ports, 3 messages, a loss anywhere, up to the first wrong answer that reaches a worker | `BroadcastsExact`: a broadcast is exact in every slice although packets overtake each other; `ImplementsAllReduce` |
| `slot1024_apart` | `Slot1024`: the same ports, 1 message, 2 losses anywhere, fairness | `Termination`, although the packet that completes a set can be dropped |
| `slot1024_overtaken` | `Slot1024`: the same ports, 1 message, no loss | a violation of `RepliesExact`, see *Findings* |
| `control_jobs` | `ControlPlane`: 3 jobs, a command and a restart at any time, late packets, fairness | `AcknowledgedInstalled`: a client that got its response is in every table; `GroupExact`: broadcasts go to exactly the job; `FreshRegisters`: no trace of another job in a register; `ClearedBeforeFirst`: nothing of an earlier job when rank 0 is added; `Settles`: a job gets started or ends. The first four speak of jobs that nobody else interferes with, after whatever happened before |
| `controller_parts` | `PortControl`: 2 ports, a lane and a port that do not exist, 1 address, 2 files, a driver that may refuse any call; `Counters`: 2 jobs, 2 clears; `DropSimulator`: 3 commands; `DebugLog`: ring of 3, 5 packets, 1 clear | `PortInv`; `PortAddComplete`: `port_add` repairs what was left half done; `ClearAllEmpties`: `port_clear_all` empties the flood group but for what the driver refused; `FloodExact`: without refusals that group is the active ports; `FreshCounters`: a job's counters hold its own packets only; `Cleared`: `clear_counters` clears whatever the other thread does; `SettingKept`: a drop probability lasts through later jobs; `SheetFaithful`: the sheet shows the packets in order, and the latest of a full ring |
| `client_single` | `ClientThread`: 1 slot, 2 reductions, losses and timeouts, fairness | `RunEndsComplete`: the thread leaves when every message was answered; `ReductionEnds`: every reduction of a buffer that is not empty ends |
| `client_empty` | `ClientThread`: the same with length 0 | a violation of `EmptyReductionEnds`, see *Findings* |
| `client_slots` | `ClientThread`: 2 slots, losses and timeouts | `WaitingIsTimed`: a message that waits has a timer or will get one; `EndsCompleteUnlessReposted`; `SharesPartition`: up to two threads post every float of buffers of up to 40 floats once, and up to four leave none out |
| `client_three` | `ClientThread`: 3 threads, length 6 | a violation of `PostsOwnShare`, see *Findings* |
| `client_parts` | `Reducer`: 3 threads, 2 calls, spurious wakeups, fairness; `TimeoutQueue`: 3 entries, 6 pushes; `RdmaMessages`: one queue pair with losses and numbers that come round, 2 ranks with 2 queue pairs, 2 jobs that may continue each other's numbers | `HandedOver`: no thread sees half of a request; `ReturnsComplete`: no call returns early; `Ends`: the destructor returns; `BottomIsOldest`: the timer that is looked at is the oldest; `QueueInv`; `SlotExact`: no packet is aggregated in a wrong slot or for a wrong worker; `ReplyQueueExact`: a reply matches one entry, the right one; `CountersShown` |

Bounds, and why they are enough.

 - *Slots.* Three messages reuse a set (messages 1 and 3 share it), so that old
   contents of the registers, stale replies and the reset of the count are met.
   `MaxInFlight` bounds only reposts, which the code does not bound. The proofs
   about `Slot256` cover any number of workers, among them one, which
   `count_workers` treats apart, and three, the least for which a packet is
   neither first nor last.
 - `slot1024_messages` stops where a worker is given partial sums: it then posts the
   next message too early, and TLC finds later broadcasts that are wrong.
   `MaxLost` bounds losses so that liveness needs no assumption on them.
 - *Controller.* The three jobs have a rank that is also a dev port and an unknown
   host, two ranks as they should be, and two ranks on one port, one of which has
   the host and rank it had in the first job. One command of each kind, some with
   arguments that make them fail, is typed at any time, also between two calls of
   `RDMAConnect`; some only from a later job on (the field `from`), to keep the run
   short. One restart leaves nodes behind, empties tables under a job, or kills one.
   The jobs of `Counters` are on different hosts: nothing in the switch tells a late
   packet of an earlier job from one of the same sender in the next.
 - *Clients.* Lengths are such that threads have no message or several, and a last
   message that is shorter than the others. One thread with one slot is
   what the example command in `RDMAExampleClient/README.md` uses.
 - *Receiver.* Sequence numbers come round within a behaviour, to those that the
   register or a packet under way still holds; a `Span` of five packets holds more
   than one message.

Deadlock is checked where the system does not stop by itself. `control_jobs`,
`controller_parts`, `slot1024_messages` and the runs of `ClientThread` end when their
jobs, commands or reductions are used up.

Every property has a mutant (defined just before the definition it changes):
the same code with a dropped guard, a missing reset or a swapped order, under
which TLC finds the property violated.

## Fairness

 - `Slot256`: a client thread starts and polls (weak fairness of `PostInitial`,
   `HandleRecv`); a timer that has run out is served (`check_for_timeouts` is
   called on every turn of the loop in `run`); and no path loses all packets of a
   worker for ever (strong fairness of `Consume`, `HarvestFor` and `RdmaWrite` for
   each worker). The last is an assumption on the network, as for any
   retransmission protocol. `Repost` has strong fairness because its guard has the
   bound `MaxInFlight`, which is not in the code: without the bound weak fairness
   would do.
 - `Slot1024`: weak fairness of pipes, NICs and clients; losses end at `MaxLost`;
   `Repost` as above.
 - `ControlPlane`: both threads run, the server starts and takes its requests one
   after the other, a client that may connect does. Nothing is assumed of when the
   operator types, or of when the controller stops; there are finitely many restarts
   (`MaxRestarts`), and the controller is started again after each.
 - `ClientThread`: the main thread lets the threads start, the loop goes round,
   the NIC completes its writes (weak fairness); an armed timer runs out some day
   and not every packet of a slot is lost (strong fairness).
 - `Reducer`: every thread runs. Wakeups may be spurious.

## Proofs

About `Slot256`, for any finite non-empty set of workers, any number of messages
and any number of packets under way:

| Theorem | Statement |
|---|---|
| `TypeCorrect` | `Spec => []TypeOK` |
| `Invariant` | `Spec => []IInv` |
| `ExactReplies` | `Spec => []RepliesExact` |
| `ExactMemory` | `Spec => []MemoryExact` |
| `CurrentAccepted` | `Spec => []AcceptedIsCurrent` |
| `HarvestExpected` | `Spec => []NoUnexpectedHarvest` |
| `OverwriteSafe` | `Spec => NoEarlyOverwrite` |
| `BroadcastOnce` | `Spec => BroadcastOnCompletion` |
| `Refinement` | `Spec => ImplementsAllReduce` |

Assumptions: `WorkersAssumption`, `MaxMessageAssumption`,
`MaxInFlightAssumption` (finiteness and positivity).

The argument. No property is inductive alone: whether a reply is exact depends
on what the registers hold when the packet under harvest reads them, and that
on how far apart workers can be. `IInv` therefore says, in terms of
`Consumed(w)`, the last message of `w` that the switch has consumed:

 - `ClientInv`: no worker is more than one message ahead of what any worker has
   had consumed, and the bitmaps hold exactly the workers whose last consumed
   message is in that set;
 - `UpInv`: packets on the way are in order, and those not consumed yet carry
   the worker's own input (a repost of an answered message may carry the sum,
   but then the bitmap already has the worker's bit);
 - `RegisterInv`: the registers of a message that some worker has sent, and that
   none is two ahead of, hold the inputs that have arrived, and the count is the
   number of workers missing;
 - `RecircInv`: a packet under harvest that will be answered is for a complete
   message, and nothing behind it in the queue is older;
 - `DownInv`, `CqInv`, `MemInv`: replies, completions and buffers are exact, in
   order, and at most one message behind their worker.

The proof has a lemma for each action and each conjunct that the action can
disturb; the refinement follows from `IInv` step by step.

About `ControlPlane`, for any number of jobs, ranks, hosts, ports, opcodes, queue
pairs, commands and restarts, which may come at any call (assumptions
`PREAssumption`, `ControlAssumption`, which only give constants their types):

| Theorem | Statement |
|---|---|
| `Invariant` | `Spec => []IInv` |
| `AlwaysAcknowledgedInstalled` | `Spec => []AcknowledgedInstalled` |
| `AlwaysGroupExact` | `Spec => []GroupExact` |
| `AlwaysFreshRegisters` | `Spec => []FreshRegisters` |
| `AlwaysClearedBeforeFirst` | `Spec => []ClearedBeforeFirst` |

There are no hypotheses on hosts, ports or the operator. What the code does not
promise is in the properties themselves, and each proviso is needed (see
*Disagreements*): a job is promised its entries while nobody else commands or
restarts the controller (`alone`), and if it has no more workers than the limit
(`Fits`); a rank that is also the port of a worker of the job is in every table but
the group (`Mistaken`); nothing in the group escapes `worker_clear_all` as long as
the dictionary has not lost a node, to a second worker of a port or to a command
that overlapped a request (`orderly`); and the registers of a job that runs again on
the same hosts with the same ranks may hold its own late packets, which nothing in
the switch tells from new ones (`Alike`). Earlier jobs, commands and restarts are
under no proviso: the next job finds its entries installed whatever they left
behind.

The difficulty is that a handler is cut at every call, so that an invariant seems
to need a case for every suffix of every handler. `IInv` avoids it by looking at
the calls ahead as a set (`Todo`). A table is clean or the call that clears it is
ahead (`CurrentOK`, `FirstOK`); an entry of the rank that is served is in its table or
the call that adds it is ahead (`ServedOK`). Of the order of the calls it keeps
one relation (`Before`): receive entries are cleared before registers, everything
is cleared before anything is added, and no method is begun before its turn. The
other parts: one thread works at a time while the work is orderly or a job alone
(`TurnsOK`); requests are served in the
order of the jobs, and only rank 0 of the current job waits behind a rank of an
earlier one (`QueueOK`), which is what the barrier of
`exchange_connection_info` gives; while the work is orderly every node of the group is
in the dictionary (`GroupOK`), or `worker_clear_all` would not find it; while no other
thread changes them, a call under way agrees with dictionary and group (`ThreadsOK`);
what `RDMAConnect` still calls is for the request it serves (`RpcOK`); a client with
a response is installed (`ConnectedOK`). Each call has a lemma for
what it does to the set of calls ahead and to the tables, and the conjuncts follow
from that.

About `PortControl`, for any ports, addresses, files and arguments, with or
without refused calls (assumptions `PREAssumption`, `PortAssumption`):
`PortInvariant` (`[]PortInv`), `ActivePortsUp` (`[]ActiveUp`), `PortAddRepairs`
(`[]PortAddComplete`), `PortClearAllClears` (`[]ClearAllEmpties`). `port_clear_all`
empties the group by walking the dictionary `rids`, so it needs that no command
makes `rids` forget a member of the group, other than a `port_clear_all` whose
removal of that member the driver refused (`stray`): `FloodTracked`, which with
`PortTypeOK` and `ActiveUp` is the inductive invariant `PortInv`. One lemma per call
shows that each of its outcomes keeps it, whether the call returned or not.

About the timeout queue, for any number of entries (assumptions
`NumEntriesAssumption`, `BoundsAssumption`): `QueueInvariant` (`[]QueueInv`),
`OldestAtBottom` (`[]BottomIsOldest`), `NewestAtTop` (`[]TopIsNewest`). `QueueInv`
relates the links to the history `age` of pushes: the next entry of a queued one
is the youngest that is older, the previous one its inverse. `RemoveLinks` and
`PrependLinks` show that taking an entry out and putting one in front keep this.

About `Reducer`, for any finite set of threads, any number of calls and any
spurious wakeups (assumptions `ParticipantsAssumption`, `ReducerAssumption`): `HandedOverCorrect`
(`[]HandedOver`), `ReturnsCompleteCorrect` (`[]ReturnsComplete`), `NoLostWakeup`
(`[]ReleasedIsWoken`: whoever the barrier has released has also been woken). A
thread that the barrier has released may still sleep, so `pc` says too little; the
invariant `ReducerInv` speaks of `at`, where a released sleeper counts as being
where it will go on. In these terms the system is in one of three phases (`Between`
calls, `Reducing`, `Stopped`), the barrier counts exactly those who have yet to
come, and only the last arrival changes the phase.

About `ThreadPartition` and `ClientThread` (assumptions of these modules and of
`TimeoutList`):

 - `PartitionCorrect`, for any length above 0 and any message size, about what is
   posted up to `thread_end_pointer`: with one thread or two, every float is in one
   message of one thread, and a thread posts as many messages as it waits for
   (`IsPartition`); with any number of threads no message that a thread waits for is
   left out (`PostsShares`). That three threads overlap is a finding.
 - `WaitingIsTimedCorrect` (`[]WaitingIsTimed`), for any number of slots, threads
   and reductions, with losses, reposts and answers that come twice. `ThreadInv`
   adds that the timers' links agree, that completions are there exactly while they
   are handled, and that a slot's message is one of this reduction or an older one.
 - `RunEndsCompleteCorrect` (`[]RunEndsComplete`), for one or two threads with one
   slot each, any length (also 0, for which it says that no thread leaves), message
   size, number of reductions, losses and reposts. `SlotInv` counts posted and answered messages (`Counting`) and says that
   among answers and packets under way those with the slot's bit are copies of its
   message and come last (`OrderInv`): one bit is enough because the paths keep the
   order. The restriction `OneSlot` is needed: for several slots and for three
   threads TLC refutes the property, see *Disagreements*.

About `RdmaMessages`, for any set-up that `RdmaAssumption` admits: up to 32 ranks
and 512 queue pairs each (the widths of `QP_INDEX`), slots that fit into 15 bits,
initial numbers that are not 0 and in the lower half (`qp_num/2`), and any number of
packets, losses and jobs. The one assumption on the network is `Recent`: of a queue
pair fewer than 2^23 packets are sent after the last one that arrived, and after
one that is still under way. A queue pair has a handful of packets under way at a
time, and 2^23 in a row would have to be lost.

| Theorem | Statement |
|---|---|
| `SlotExactCorrect` | `RdmaSpec => []SlotExact` |
| `ReplyQueueCorrect` | `RdmaSpec => []ReplyQueueExact` |
| `CountersCorrect` | `RdmaSpec => []CountersShown` |

`PacketInv` places every packet under way in the sequence of its queue pair, and
consecutive packets, the second of which is not a first, are of one message
(`InSequence`). `RegisterInv` says that a register is marked as in error, or is as the
switch started with it (`Untouched`), or expects the successor of the last packet
that arrived, for the next slot (`Followed`). Numbers come round, but among the
packets that `Recent` lets be under way a number tells the packet. In a job after the
first the register still holds a number of the job before, of which nothing is known
until the first packet of some message resets it: `SlotExact` promises nothing before
that (`known`; see *Disagreements*, `RDMAReceiver.p4:67`). TLC has checked these
invariants on the set-ups of the run. For `CountersCorrect` the index of a counter is
injective on queue pairs.

Only model-checked:

 - liveness (`Termination`, `Settles`, `ReductionEnds`, `Ends`), which under fairness
   is beyond TLAPS 1.4.5;
 - `Slot1024`: its invariant would describe packets in the queues between four
   pipes, and the runs show that it depends on which workers share a port;
 - `Counters`, `DropSimulator`, `DebugLog`. The requests of a job in `Counters` are one
   flattened sequence and the sheet of `DebugLog` is sorted and rotated: what these
   operators return needs induction over data. `DropSimulator` has few values; its run
   leaves out longer sequences of commands, and commands that overlap the start of a
   job (see *Disagreements*);
 - `FloodExact` and `EndsCompleteUnlessReposted`, which speak of history variables of
   the `MC` modules; `SharesPartition`, whose general form is `PartitionCorrect`.

## Findings

*Retransmitted replies are half wrong* (run `retransmit`). The `CONSUME0` pass
of a retransmission runs `significand_read0_action`
(`p4/SignificandSum.p4:102`), which assigns `hdr.d0` only. The packet is then
recirculated without `d0`, and `HARVEST7` reads the first half again. The second
half of the reply is what the packet held: the worker's own input. The tests
(`test/ThreeWorkerTests.py:118`) expect the full reduction. `RepliesExact`,
`MemoryExact` and the refinement therefore speak of both halves for a broadcast
and of the first half for a retransmission. The last slice of a retransmitted
1024-byte packet is input for the same reason.

*Retransmissions of 1024-byte packets are answered with partial sums* (run
`slot1024_overtaken`). "For retransmitted packets to a full slot, recirculate for
harvest. Run through the same path as novel packets to ensure ordering."
(`p4/NextStep.p4:386`): the path depends on the worker, so a retransmission of one
worker overtakes the packet of another that completes the set, and reads registers
of later pipes before that packet has come to them. No loss is needed, only a timer
that runs out. The worker takes the answer for the result, moves on, and may spoil
later broadcasts; up to then broadcasts are exact (`slot1024_messages`).

*The reduction of an empty buffer does not end* (run `client_empty`). "send 1 message
even if length is 0 for barrier" (`ClientThread.cpp:504`): one message is counted in
`outstanding_operations`, but `thread_end_pointer` is the start of the buffer and none
is posted.

*Three threads post messages of each other's shares* (run `client_three`).
`thread_end_pointer` adds the absolute `end_message_index`, "1+ the last message index
we will reduce" (`ClientThread.cpp:526`), to the start of the share
(`ClientThread.cpp:536`). With one thread or two the end of the buffer cuts it right.

## Disagreements

These are further places where the code does not do what one of its comments,
messages or tests says. The passing runs leave the case out, or the properties have
a proviso for it. TLC refutes the property named here on the instance described, or
without the proviso.

| Where | Code and text | Property, instance |
|---|---|---|
| `py/GRPCServer.py:20` | "limit concurrency to 1 to avoid synchronization problems", but the command line is a second thread: `worker_clear_all` during a connect leaves a worker in some tables only | `NoHalfWorker`, one job, command `worker_clear_all`; `AcknowledgedInstalled` without `alone` |
| `Connections.cpp:338` | "ensure switch has gotten all workers' job state before proceeding", but a restart of the controller clears it again while the clients wait at this barrier or run | `AcknowledgedInstalled`, `GroupExact` and `FreshRegisters` without `alone` |
| `py/PRE.py:131` | `rids` is keyed by port: of two ranks on a port one is forgotten and stays in the group | `GroupExact`, `ClearedBeforeFirst` without `orderly` |
| `py/PRE.py:126` | "already added to multicast group" looks the rank up among dev ports: a rank equal to an earlier worker's port is skipped and still acknowledged | `AcknowledgedInstalled` without `Mistaken` |
| `py/Job.py:703` | more than 32 workers are only reported on the console; the client is acknowledged | `AcknowledgedInstalled` without `Fits`, `MaxWorkers` below the job's size |
| `py/Job.py:111` | "Clear all registers, counters, and tables.": the calls are commented out | `ClearAllClears`, command `clear_all` |
| `py/Job.py:398` | `set_switch_address` ends in an exception before the sender gets the new address | `AddressUsed`, that command |
| `py/PRE.py:196` | a refused removal is taken for "maybe it's already deleted?": the node stays in the group, and nothing will remove it | `ClearAllEmpties` without `stray` |
| `py/Ports.py:145` | "don't touch internal ones", but the range includes the loopback ports | `LoopbackKept` |
| `py/NonSwitchMLForward.py:71` | dictionary keyed by spelling, table by value | `MacsForwarded`, one address in two spellings |
| `py/Job.py:379` | "optional port, default 192", but only 192 is enabled | `RecircReady`, `RecircArgs` with another port |
| `py/RDMAReceiver.py:325` | 'Clear counters.' leaves those per queue pair | `QueuePairsCleared` |
| `py/DropSimulator.py:38` | setting and job start interleave; the printed value is not the one in the table, and the setting can be lost | `GetTruthful`, `SettingKept`, `Overlap <- TRUE` |
| `tools/convert_log.py:325` | red rows are "sequence violations"; so is the row where the 11-bit id wraps | `RedIsViolation`, `PacketIdBits <- 2` |
| `p4/RDMAReceiver.p4:19` | 14 bits of queue pair index, 9 kept: two queue pairs share an entry | `SlotExact`, 513 queues, of which 0 and 512 send (`RdmaAssumption` excludes it) |
| `p4/RDMAReceiver.p4:67` | the register survives a job; when the next job's first packet is lost the second may continue the old sequence | `SlotExact` without `known`, set-up `TwoJobs` |
| `ClientThread.cpp:354` | a second answer to a slot's last message is counted again: "reduction is complete" while another slot waits | `RunEndsComplete`, 2 slots with timeouts |
| `p4/NextStep.p4:572` | "shouldn't ever get here": a packet first in pipe 0 and last in pipe 3 does; timers recover it | `NoUnexpectedHarvest` of `Slot1024`, two loopback ports |
| `p4/switchml.p4:170` | exponents are read in pipe 0, the set is completed in pipe 3 | `ExponentsExact`, 3 workers on different ports |

Packets dropped at egress are logged as `IGNORE`, with port bits where the
converter shows flags; `SheetFaithful` does not speak of the fields of those rows.

## Not modelled

 - Contents of headers (addresses, checksums, ICRC), ARP and ICMP, the match on
   header fields of UDP packets: stateless rewriting.
 - Sequence numbers of replies (`p4/RDMASender.p4`): what a NIC does with a gap in
   the packets of a UC message is outside the repository.
 - 32-bit overflow of sums and the conversion between floats and integers; the
   client in the repository sends integers.
 - `Endpoint.cpp` and the states of the verbs queue pairs: library calls with no
   state of the program's own; error completions, which end the process.
 - Commands that only print, port counters and link state, `Worker.py`,
   `switchml.py`, mirroring, capture, packet generation and the packet formats of
   the tests: nothing in them changes state that a property speaks of.
