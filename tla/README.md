# spawnnet in TLA+

spawnnet is a small C library that lets the processes of a launching tool find
and talk to each other before MPI exists. It gives them channels over three
transports (InfiniBand UD, named pipes, TCP) and, on top, light-weight groups
with collective operations. These modules model the parts in which processes,
threads and packets can meet in an order nobody tested, check them with TLC and
prove with TLAPS what the transports promise: the reliable stream over InfiniBand
datagrams, its connections, buffers and threads, the TCP transport and the named pipes, and
that the channels and the collectives of a group are right for every size of it.
Paths below are relative to `src/src/` of the repository.

## 1. Inventory

| Part | State it keeps | Operations | Modelled by |
|---|---|---|---|
| IB virtual channel (`spawn_net_ib.c`, `_internal.h`) | per `vc_t`: `seqnum_next_tosend`, `_torecv`, `_toack`, send, extended-send, receive and application queues, `ack_need_tosend`, `ack_pending`, retry counts | `ud_post_send`, `ud_process_ack`, `mv2_ud_place_recvwin`, `ud_send_ack`, `ud_check_acks`, `ud_check_resend`, read, write | `SeqNum`, `VirtualChannel`, `ReliableChannel` |
| IB connections (same file) | table of VCs, connect list, connected list, `local_closed`/`remote_closed`, `sends_outstanding`, `g_count_conn` | connect, accept, disconnect, `ud_process_connreq`, `vc_free`, send completions | `UDConnect` |
| IB context and vbufs | free lists, send and receive credits | `vbuf_get`, `vbuf_release`, `ud_post_recv_buffers`, `ud_update_send_credits`, `vc_purge_queues` | `UDBuffers` |
| IB threads | `comm_lock`, `g_recv_flag`, `g_shutdown`, notification flag of the completion queue | receive thread, timeout thread, `packet_wait`, shutdown | `UDThreads` |
| FIFO transport (`spawn_net_fifo.c`) | the pipe, `g_open_count`, `g_writer_count`, packet queue | open, close, connect, accept, disconnect, read, write | `Fifo` |
| TCP transport (`spawn_net_tcp.c`) | one socket per channel | the same, over sockets, and wait | `Tcp` |
| dispatch (`spawn_net.c`) | none | switch on the transport | no: no state |
| strings over channels (`spawn_net_util.c`) | none | `spawn_net_write_str`, `_read_str`, `_write_strmap`, `_read_strmap` | `Tcp`, `MapTransfer` |
| group creation (`lwgrp.c`) | `list_left`, `list_right`, rank, size | `lwgrp_create` | `LwgrpConnect` |
| collectives (`lwgrp.c`) | buffers of a call | barrier, shift, allreduce, scan, double scan, allgather | `LwgrpCollect` |
| split (`lwgrp.c`) | buffers of a call | `lwgrp_split` (bitonic sort, segmented scan) | `LwgrpSplit` |
| string map (`strmap.c`) | AVL tree with parent pointers, heights, packed size | set, get, unset, iterate, merge, pack, unpack | `StringMap`, `Strmap` |
| clocks, utilities | none | wrappers | no |

How they interact. A group calls `spawn_net_connect`, `accept`, `read` and
`write` of one endpoint; `spawn_net.c` passes each call on to the transport. In
the IB transport the application thread, a receive thread and a timeout thread
share all VCs under one lock, `comm_lock`. In the FIFO transport a process has
one pipe for all its channels and a single thread. In both, the two ends of a
channel exchange CONNECT and ACCEPT packets that carry the ids each end will
write to. The TCP transport has neither threads nor packets of its own; its
clients and its server meet in the sockets and in `spawn_net_wait`. A string map
is packed into one message and unpacked at the other end; the gather of a group
sends its maps that way.

What is hard. Datagrams are lost, repeated and reordered; sequence numbers have
16 bits and wrap; the acknowledgement of a packet races with its
retransmission; DISCONNECT packets of the two ends cross, and a VC must survive
until its last send completes; a pipe must stay open for writers that are not
yet counted; a vbuf is linked by hand into several lists while the hardware may
still read it; a thread may go to sleep just before the event that would have
woken it; a process may end in the middle of a frame; members of a group run ahead of each other into other rounds,
other operations and other groups on the same channels and the same endpoint.
`PROJECT.json` lists these hazards at their lines, each with the properties that
would notice it going wrong, or with the reason none does yet.

What makes each part correct: a channel delivers exactly what was written, in
order; an acknowledgement is true; a channel in use has its memory; a request is
accepted once; a buffer is free or in use and never both; whoever waits for a
packet that has arrived wakes up; a map is the same map after any sequence of
changes, and at the other end of a channel; connect, close, group creation and collectives end; every entry
of a group's lists leads to the member it should; a collective returns every
input exactly once; a split gives every member the right rank, size and
neighbours.

## 2. Modules and their relation to the code

One action is one critical section of `comm_lock` (IB), or one packet read,
packet written or call (FIFO, groups). Operators named `X_Something`, next to
`X`, are faulty variants of `X`; no specification uses them. They document which
mistake each property would catch.

**`SeqNum`** holds the arithmetic modulo `SeqMod` (65536 in the code):
`INCL_BETWEEN`, the receive window test and the insertion into the out-of-order
queue, `recv_window_add`, as pure operators.

**`VirtualChannel`** is one channel from the moment its acceptor has sent
ACCEPT. `vc[e]` is the `vc_t` of end `e`; counters in it do not wrap, and every
comparison the code makes on numbers is made on their wrapped values, so that a
wrong decision at the wrap is a behaviour of the model. `wire[e]` is the set of
packets the fabric may still deliver to `e`: any order, any number of times, or
never. Actions: `ProcessRecv` (`ud_process_recv`, with acknowledgement, flush of
the extended window, placement, drain, and the acknowledgement sent when
`ack_pending` passes its limit), `Write`, `Read`, `CheckAcks`, `CheckResend`
(resend or toss) and the fabric's `Lose`. The two ends differ as in the code:
only the acceptor is on the connected list, so only it sends acknowledgements
from the timeout thread; the connector's come with its packets, with repeated
CONNECT and ACCEPT answers, and when `ack_pending` passes its limit.

**`ReliableChannel`** is what a channel promises: each end reads what the other
wrote, once and in order. `VirtualChannel` implements it
(`ImplementsChannel`).

**`UDConnect`** has processes with several VCs. It keeps the ids, lists, flags,
outstanding sends and the connection count, and reduces the stream to "next
number or not". `accepts` is a history of the requests accepted, each with the VC
made for it. The increment of `g_count_conn` at the end of
`spawn_net_accept_ib`, made without the lock, is a load and a store.

**`UDBuffers`** follows every vbuf of a process over the free list, the send and
receive queues of the hardware, the extended send queue of the context, the
unacknowledged queue and the windows of its VC, with the two flags that delay a
release, the send credits, `sends_outstanding` and the count of posted receives.
Sequence numbers are left to `VirtualChannel`: an acknowledgement covers any
prefix of the window. A `cq_poll` is several steps, and from its first send
completion to its end no other call runs. `late` marks a VC that got a packet
while it was closing; the memory invariants are stated for behaviours without
one (see the table below). What a loop of the code does to a list of vbufs
(release, post, flush, purge) is said in closed form, for all of them at once.

**`UDThreads`** has the application, the receive thread and the timeout thread
with `comm_lock`, `g_recv_flag` and the condition variable, and the hardware
with its completion queue, which raises an event only for the first completion
after `ibv_req_notify_cq`. The receive thread holds the lock between draining and
asking for the next event, but the hardware does not wait for it, so a completion
may fall into that gap. `posted` is `num_sends_posted`, on which the last
loop of `ud_ctx_destroy` waits.

**`Tcp`** has clients that connect, send strings and leave, any of which may
crash at any point, and one server that waits on its endpoint and channels,
accepts and reads. Every `read` and `write` moves any part of what is asked for.
Bytes are units that know their frame and place, so that a torn or shifted frame
shows as a message nobody sent. `Tcp` implements `ReliableChannel`, one channel
per client.

**`StringMap`** is what `strmap.h` promises, **`Strmap`** the AVL tree with all
fields of its nodes; a string is its length. `Strmap` implements `StringMap`.
**`MapTransfer`** composes `Strmap` and `Tcp`: a client builds a map, packs it
into its message, and the server unpacks what it has read.

**`Fifo`** has processes with a pipe of bounded capacity, the packet queue, both
reference counts and the position of the thread inside a call. `queue_progress`
takes one packet per step (`Poll`), while others go on writing; `PacketRead` is
the search that follows once the pipe is empty, over the packets that are new
since the last one. Pipes are numbered: a process that closes and opens again has
a new pipe, and a descriptor of the old one stays with the old one. A write to a
pipe nobody reads ends the process (`BrokenPipe`, SIGPIPE), and with it its own
pipe. Close leaves the queue as it is, so that a CONNECT in it is answered after
the next open; `stale` records the requests to which that can happen.

**`LwgrpConnect`** is `lwgrp_create` for a list of groups. A connection carries
only its round, as in the code. `Synced` says whether the application waits for
all members of a group before it creates the next one, which is what
`lwgrp_split` achieves with its collective calls. `SplitOrder` says which groups
follow each other that way: the group a process was in last contains all members
of its next one.

**`LwgrpCollect`** is the collectives of a group, each in the form of the
interface (send, then read) and in the `_blocking` form. A value is the count of
every member's input in it, so that an input missing or added twice shows.
`Cap` is the number of messages the transport takes before a write waits. A round
is four steps, a write and a read on either side, in the order of the form; a
step without a partner, or one a scan does not make, is skipped. A member's place
is its next step and whether the write before has yet to return.

**`LwgrpSplit`** is `lwgrp_split`: sort by color and key, exchange with the
neighbours, segmented scan in both directions, and the answers sent back. It
uses a recursive operator for the bitonic network, as the code does, and is
therefore model-checked only.

## 3. Runs

| Run | Shows | Bounds |
|---|---|---|
| `vc_wrap` | refinement of `ReliableChannel`, stream, true and monotone acknowledgements, no stalled sends, and the inductive invariant, which holds the types, the order of the receive queue and the bound of the send window | 6 packets one way, numbers modulo 6, windows 2 and 1: the numbers wrap and the window straddles the wrap; one packet may be given up; at most 2 packets under way to an end |
| `vc_live` | every packet written is read and the windows drain (`StreamCompletes`) | fair, 2 packets, one more than the window |
| `conn_life` | requests kept once; no dangling list entry, send completions find their VC, types (`ReferencesAreLive`) | one connection and a repeat of its CONNECT, data from the client, disconnects |
| `conn_two` | no dangling channel; ids pair up; DISCONNECT closes its own channel only | two channels between two processes, DISCONNECT sent twice |
| `conn_live` | connect returns | fair, packets may be lost |
| `buffers` | a free vbuf is free, no vbuf but the known ones is lost, types (`VbufsAreConserved`), no dangling VC, credits add up, no send is stranded, the process keeps hearing its peers | 2 VCs, 4 vbufs in use, 1 send and 2 receive elements, window 1, one packet discarded unseen; VCs are interchangeable (symmetry) |
| `threads` | no lost wake-up, nothing destroyed in use, waiting and closing end | one thread of the application, one packet of each of two kinds, one packet written, a shutdown timer of 2 rounds; fair |
| `fifo_life` | established channels have readers; channels sharing a pipe stay separate; no packet is overlooked; the last close returns; types | 2 processes that connect to each other, 2 channels, messages of 2 packets, pipes of 1 packet, one process reopens; fair |
| `net_map` | the tree is an AVL tree and a map, is searched, iterated and merged right (`ReadsAreRight`), survives packing; frames arrive whole and in order, the map among them; finished messages arrive whatever other clients do | all trees over 12 keys, one of them with values of two lengths; maps of 2 keys are sent; 2 clients, either may crash, lengths of 2 units, bodies of 0 to 2, sockets of 2, a backlog of 1; fair |
| `grp_split` | lists and addresses of a group of 5 and of the two groups it is split into; creation ends | fair, all interleavings |
| `coll_ops` | results, no early leave, no mixing, all operations end | 4 members, all pairs of six operations, both forms, over the least buffering each form needs; fair |
| `split_five` | sorted, right answers when the size is no power of two | 5 members, every choice of 2 colors, keys that turn the order around with ties |

The type invariant of a module is a conjunct of one of its invariants, as are
the parts named in parentheses, so that each run asks few questions and each of
them can be broken by a plausible fault.

The bounds are the smallest at which the case in question happens: a window of
one plus the extra packet of the code gives three positions a packet can be in
(in flight, waiting, arrived early), a modulus just above the windows makes them
meet at the wrap, five members make three rounds none of which is full, and two
operations are enough for a member to run ahead into the next. `MaxWire` bounds
packets under way; what exceeds it is lost, which the fabric may do anyway. In
`vc_wrap` a packet is given up at its first timeout; packets stay on the wire
after delivery, so that they still arrive more than once there.
Twelve keys are the fewest with which removing one node rotates at two levels.
Four vbufs are enough for a packet in the window, one that waits, one that
arrives and an ACK. Data in both directions of a virtual channel is left to the
proofs, which hold for any amount of it at both ends.
Deadlock is not checked where the application may stop calling (`vc_*`,
`conn_*`, `buffers`, `threads`, `fifo_life`, `net_map`) or where the members are done (`grp_*`, `coll_ops`, whose
liveness properties say that they end no other way).

### Where the code and its comments differ

Some claims of comments do not hold, and some properties hold only under a
premise. TLC refutes each of these within seconds when the formula is put into
the cfg named here:

| Formula | cfg | What happens |
|---|---|---|
| `SendWindowLimit` | `vc_wrap` | the send window holds one packet more than the "Max number of outstanding buffers" of `spawn_net_ib.c:82`, because `ud_post_send` tests with `>` |
| `AcceptedOnce` | `conn_life` | a copy of CONNECT that arrives after its VC was freed is accepted again, as a connection nobody asked for, against "silently drop extras" of `spawn_net_ib.c:3475`: `ud_process_connreq` looks for repetitions only in the lists of waiting and of accepted requests, and `vc_free` takes a closed VC off the second |
| `NeighboursAreRight` | `grp_split` with `Groups <- Reordered`, `Synced = FALSE` | with groups created back to back on one endpoint, a connection of the second is filed in a list of the first, against `lwgrp.h:33`. Inside one group connections come in round order, so filing a connection of a later round, which `lwgrp_accept_left` provides for, happens only across groups |
| `FreeIsFree` without `late = {}` | `buffers` without its constraint | a second DISCONNECT for a VC that is closing (a send is outstanding) purges it again; the heads of its windows are still set and the same vbufs are released twice, which `vbuf_release` tries to assert away (`spawn_net_ib.c:769`) |
| `NoLostWakeup` | `threads` with two `Apps` | `cq_drain` signals one waiting thread and clears `g_recv_flag`; it may be the wrong one, and the right one sleeps on beside its packet |
| `CloseReturns` without `ShutdownUnseen` | `threads` | the SHUTDOWN packet is lost, or completes before the receive thread asks for an event; the timeout thread has ended and nobody looks again, so close hangs |
| `mem.recvs = mem.posted` | `buffers` | packets for unknown or deleted VCs are not counted, against "number of receive elements currently posted"; with `credit_preserve` of them the process is deaf. `HearsThePeers` says what holds before |
| `FreedWhenAcked` | `conn_life` | a VC is freed with packets that are not acknowledged, against `spawn_net_ib.c:1826` |
| `ConnCountIsACount` | `conn_life` | `g_count_conn` drops below zero, by repeated DISCONNECT packets and by the increment without the lock |
| `NoSigpipe` | `fifo_life` | a process that has opened a pipe and is not yet counted as its writer is ended by SIGPIPE when the pipe closes, against `spawn_net_fifo.c:93` |
| `ChannelsHaveReaders` without `stale` | `fifo_life` | a CONNECT is in the queue when its receiver closes; the receiver opens again and accepts it; the requestor gets a channel to the pipe that is gone, and SIGPIPE with its first write, against the same comment. `queue_progress` drains the pipe but `spawn_net_close_fifo` does not clear the queue |
| `NotAllBlocked` | `fifo_life` | two processes that write to each other are both blocked, against `spawn_net_fifo.c:88` |
| `ReadTakesItsSize` | `fifo_life` with `PayloadSize = 2`, `ReadSizes = {1}` | a read takes a whole packet though it asked for less, against `spawn_net_fifo.c:809` |

`ChannelsHaveReaders` is the part of the SIGPIPE claim that does hold, and
`ReadersStay` proves it: only a process that is about to write its CONNECT, or
whose CONNECT outlived the pipe it was written to, can be ended by it (or one
whose peer was).

### Fairness

`VirtualChannel`: the timeout thread wakes periodically and resends every packet
whose timer expired, and sends the acknowledgements that are due (weak
fairness of `ResendOf` and `CheckAcks`); the reader reads; a number, or an
acknowledgement of it, that is offered to the fabric again and again arrives
(strong fairness). The retry limit (1000 in the code) is set aside by
`Patient` in the liveness runs, because a stream that gives up delivers nothing
further by design. `UDConnect`: the same, plus a server that keeps calling
accept and sends that complete. `UDThreads`: threads run and posted sends
complete; whether packets and acknowledgements come is left open. A waiting
thread gets the mutex although others take it again and again (strong fairness
of `TakeOrSleep`): the timeout thread sleeps 25 ms between its rounds and the
receive thread blocks for events. `MapTransfer`: clients and server run, nobody
has to crash or to close; a client that connects and then never writes is thereby
excluded, and would indeed block the server inside accept. `Fifo` and the groups:
a thread inside a call keeps running (for groups only: some member that can go on
does); nothing is assumed about which calls are made.

## 4. Proofs

| Component | Theorems (the property each states) | Inductive invariant |
|---|---|---|
| `SeqNum` | `AckExact`, `WindowExact` | none: arithmetic |
| `VirtualChannel` | `TypeCorrect`, `StreamIsReliable` (`InOrderExactlyOnce`), `AcksAreTrue` (`NoFalseAck`), `RecvQueueOrdered`, `SendWindowBounded`, `AcksNeverGoBack` (`AckNeverRetracts`), `SendsNeverStall` (`NoStalledSends`), `ChannelRefinement` (`ImplementsChannel`) | `IInv` |
| `UDConnect` | `ReferencesLive` (`ReferencesAreLive`), `HeldAreLive` (`HeldChannelsAreLive`), `RequestsHeldOnce` (`OneEntryPerRequest`), `ChannelsPaired` (`ChannelsArePaired`), `RemoteCloseIsGenuine` (`RemoteClosedIsTrue`) | `TablesOK`, `OneEntryPerRequest`, `PairsOK` |
| `UDThreads` | `TypeCorrect`, `ShutdownIsPeaceful` (`DestroyedInPeace`), `NoWakeupIsLost` (`NoLostWakeup`) | `IInv`, `SleepersAreFlagged` |
| `Tcp` | `NetTypeCorrect`, `TcpRefinement` (`TcpImplementsChannel`) | `NetInv` |
| `Fifo` | `FifoTypeCorrect`, `ReadersStay` (`ChannelsHaveReaders`), `NothingPassedOver` (`NothingOverlooked`), `ChannelStreams` (`StreamsAreSeparate`) | `FifoInv`, `StreamInv` |
| `UDBuffers` | `PeersAreHeard` (`HearsThePeers`), `BuffersConserved` (`VbufsAreConserved`), `PointersLive` (`PointersAreLive`), `CreditsConserved` (`CreditsAddUp`), `NoneStranded` (`NothingStranded`) | `RecvsInv`, `BuffersInv` |
| `LwgrpConnect` | `NeighboursRight` (`NeighboursAreRight`) | `ConnectInv` |
| `LwgrpCollect` | `CollectivesAreRight` (`ResultsAreRight`), `NobodyLeaves` (`NobodyLeavesEarly`), `MessagesNeverMix` (`NoMixing`) | `CollectInv` |

Each proof has one lemma per action, and lemmas on the operators and on the
frame (what a step of one process or VC leaves alone) below them. TLC checked
every inductive invariant on small instances before it was proved.

### The reliable stream

`VirtualChannel_proofs` first shows that the modular tests decide what they should: if the
true distances stay below the modulus, `INCL_BETWEEN` says exactly whether an
acknowledgement covers a number (`AckExact`), and the receive window test
accepts the next `RecvWin + 1` numbers and at most one more (`WindowExact`); and
that `RecvWindowAdd` keeps the queue ordered and free of repetition.

It then proves, for every modulus, window size, retry limit,
bound and amount of data:

- `InductiveInvariant`: `Spec => []IInv`;
- `TypeCorrect`, `StreamIsReliable` (`InOrderExactlyOnce`), `AcksAreTrue`
  (`NoFalseAck`), `RecvQueueOrdered` (`RecvWindowOrdered`), `SendWindowBounded`
  (`SendWindowBound`): consequences of it;
- `AcksNeverGoBack` (`AckNeverRetracts`), an action property;
- `SendsNeverStall` (`NoStalledSends`): packets wait in the extended window only
  while the send window is full, so that an acknowledgement is still to come;
  every step that shortens the send window also flushes the extended one;
- `ChannelRefinement`: `Spec => ImplementsChannel`.

`InOrderExactlyOnce` speaks of what was read only; it is kept by a read because
the application queue is contiguous, that by the drain of the receive queue,
that by the window test being exact, that by the distance between the number
on a packet and the number expected, and that by the send window being bounded
and by acknowledgements being true, for which in turn the receiver's numbers
matter. `IInv` states this circle: `SendOK` (the send window lies between the
highest acknowledgement and the next number, and is short), `CoverOK` (what is
not acknowledged is in it or was tossed), `ExtOK` (waiting packets continue the
numbering), `RecvOK` (both receive queues), `LinkOK` (how the two ends' numbers
relate), `PacketOK` (what a packet under way may say) and `StreamOK` (what was
read). `vc_wrap` checks `IInv` first. The proof has one lemma per action and
uses lemmas on queues (append, remove, tail, insert).

Assumptions: `SeqNumAssumption` (the receive window is smaller than the modulus
by more than 2), `VCAssumption` (the send window and the tossed packets stay
below the modulus), both far from tight for the code's 2501, 400 and 65536; and
`Fresh`, a guard on delivery: the fabric has discarded a datagram before a whole
turn of the 16-bit numbers has passed. No code in the transport could tell such
a datagram from a current one.

### Connections

`UDConnect_proofs` holds for any number of processes, VCs, copies and losses. Its
invariant has three parts. `TablesOK` follows each VC by itself: while a list
entry, a channel of the application, a call under way or an outstanding send
refers to it, it exists and is in a state in which `vc_free` does not delete it.
That a request is in the lists once (`OneEntryPerRequest`) rests on it, because a
new VC gets an id nobody refers to. `PairsOK` then relates two processes: what
was accepted was requested; ids told in ACCEPT belong to VCs made for the
request; a DISCONNECT under way, and a `remoteClosed` that is set, mean that the
peer has closed that very channel. An accepted request stays on the connected
list until the requestor has closed, which is why the copies of CONNECT that
`AcceptedOnce` fails on can pair no live channels wrongly.

### Threads

`IInv` of `UDThreads` counts sends under way and completions (`CountsOK`), says
when the completion queue is armed and who holds the lock (`EventsOK`), and how
far the threads have ended at each stage of the last close (`StagesOK`). From it,
nothing is destroyed while a thread or a send uses it, for any number of threads
of the application. `NoWakeupIsLost` has the hypothesis that the application has
one thread, and needs it: with two, TLC shows the lost wake-up (table above).
Its invariant adds that whoever sleeps has `g_recv_flag` set, so that each drain
that finds a packet signals.

### TCP

`NetInv` says what the units in a socket and in the reader's buffer continue:
the socket holds consecutive units, the last of which is the last written
(`StreamOK`); the server reads on at the first of them, or where the client will
write (`JoinOK`); what it has got so far is the first part of the length or of
the body of a frame (`ReaderOK`); the client writes the frame of its latest
message and no further (`WriterOK`); and a connection is in one place, not made,
in the backlog, being accepted, a channel or closed (`PlacesOK`).
`TcpRefinement` maps the step in which the last unit of a frame is read to a
receive of the abstract channel, for any lengths, socket sizes and crashes.

### Named pipes

`ChannelsHaveReaders` is about `g_writer_count`: close must not miscount peers
that are about to be counted. `FifoInv` therefore follows the right to write to a
process p as its channel k. It is with the process that has the channel, or in
the ACCEPT that gives it away, or in the DISCONNECT that gives it back, and in
one of them only (`RightsOK`), since ids are given out once (`IdsOK`).
`CountOK` then says that the count is the number of rights not yet returned, less
the one p is about to be told of itself; `RequestsOK` that a CONNECT is in one
place and that its process waits for the answer with its pipe open, so that the
process that accepts it has a reader when it answers; `InboxOK` that a packet
other than a message is not repeated. Requests that survive a close (`stale`) are
named in the property. `NothingPassedOver` is inductive with `FifoInv`: packets
that arrive do not change the part of the queue that was searched, and nobody
but the searching thread removes any.

The second half of `Fifo_proofs` shows that channels which share a pipe stay
separate (`ChannelStreams`). `StreamInv` looks at the mail of a process, its queue followed
by its pipe, in which `Poll` moves no message. The messages for a channel
continue what was read of it, without a gap and in ascending order (`Flow`); all
of them come from one channel of one process, which is its peer (`SourceOK`); the
two ends name each other, from the answer on (`PairsOK`); as long as the pipe has
a reader, the last unit in the mail is the last written (`EndOK`); and a channel
that is not in use yet has written nothing (`OutOK`). It rests on `FifoInv`, for
who may write to a channel, and on `NothingOverlooked`: a read that passed over a
packet would take the messages of a channel out of order.

### Buffers

`RecvsInv` is about the two counters of receives. Only the receive path touches
them, so that `PeersAreHeard` needs no premise.

The other four theorems follow from `BuffersInv`. One handler may release a list
of vbufs, post others, flush the extended window, free the VC and refill the
receive queue, and between these the lists do not agree. Its main part
`MemOK(s, n, hand, sub)` is therefore stated for the record `s` in the middle of
a call: `n` completions are counted and not yet credited, the vbufs `hand` were
taken from a list and are not linked again yet, and `sub` are being submitted.
Each operator has a lemma that says how it changes these two sets, each handler
composes the lemmas, and at its end both sets are empty. The parts of `MemOK`:
what is free belongs to no VC and was released once (`FreeOK`); a vbuf is in one
place on its way to the hardware (`OutOK`); the two flags say where in its life a
vbuf is, which decides whether an ack or a completion releases it (`FlagsOK`); a
VC lives while the hardware has a vbuf of it, and is open while something waits
for the hardware (`OwnerOK`); the window of an open VC is what it has
unacknowledged, and what waits in its other lists is with nobody else
(`WindowsOK`); what is not free is somewhere (`PlaceOK`); credits and outstanding
sends are counts of the same set (`CreditOK`). `Drained` adds that packets wait
for the hardware only when there are no credits.

The premise `late = {}` is needed: a second DISCONNECT releases vbufs twice
(table above), and after that none of the four holds.

### Group creation

`NeighboursRight` holds for groups of any number and size. `ConnectInv` states a
circle: an entry of a list is empty or the channel to the member 2^d away, and is
that channel once its step is made (`EntriesOK`); the requests that fill entries
come from the process that waits in `lwgrp_connect_right` for that very round,
each once (`RequestsOK`); it sent them to the right address (`AddrOK`), which a
message of the round before told it (`MessageOK`), through a channel of the lists.
A connection names its round and not its group. That the acceptor files it in the
right group is shown by `SameGroup`, for which `SyncOK` says that nobody is past a
group a member of it still creates.

The theorem has two premises. `Synced` is needed (table above). So is
`SplitOrder`: with the groups (a, b) and then (c, b), where c has nothing to wait
for, TLC finds the connection of c in the list of the first group. Groups made by
splitting the group made last satisfy it; `MCLwgrpConnect` has TLC evaluate it.

### Collectives

`LwgrpCollect_proofs` holds for any group size, any sequence of operations, any
capacity of the transport and both forms. After the round at distance d a member
has the inputs of those less than 2d away (`Window`); the parts it joins in a
round, its own and its neighbours', do not overlap and leave no gap (`LeftJoins`,
`RightJoins`, `BothJoin`), and after the last round the distance is at least the
size. So the results are right, and whoever leaves a barrier has heard, through
others, from everybody. The induction over rounds is carried by the state:
`CollectInv` says for each member where it is (`PlaceOK`), what its value holds at
that place (`BufOK`) and what it has read in the round (`GotOK`); that a channel
holds exactly the messages sent and not read, in the order of the operations,
each with the value its writer then had (`ChanOK`), that what was read was sent
(`SentOK`), and that the transport's capacity is kept (`RoomOK`); and that all
those a member has heard of are in the operation (`EnteredOK`). `NoMixing` follows
from `ChanOK`: the first message in a channel is the one its reader waits for,
because both sides go through the same operations and rounds in the same order,
and two members exchange messages in one round of an operation only. How far the distances grow takes an
induction outside the state; it is made with the least element of a set, by
`WFMin` of the library.

`DistAssumption`, here and in `LwgrpConnect`, states that the distances start at 1
and double, because the provers know nothing of `^`; it follows from the
definition, and TLC evaluates it.

### Assumptions

Assumptions on constants (`ConnectAssumption`, `ThreadsAssumption`,
`TcpAssumption`, `FifoAssumption`, `BuffersAssumption`, `CollectAssumption`, `GroupsAssumption`) say only that bounds and
sizes are natural numbers, positive where the code has a size; in `UDConnect` the
bounds are per process, and in `UDBuffers` there are finitely many vbufs and the
receive queue takes at least `credit_preserve` of them; a group lists its members
once. Bounds on ids, opens and
units are parameters of the theorems, so that they hold for any of them.

### Only model-checked

- All liveness: TLAPS does no fairness.
- `LwgrpSplit`, `Strmap`, `StringMap` and with them `MapTransfer`: recursion over
  the network of comparators and over the tree.

## 5. Abstractions and what is not modelled

- Work queue elements, completions of sends (except in `UDConnect`, where they
  decide when a VC is deleted) and timers: a posted packet is with the fabric,
  and a timer may expire at any time.
- Payloads are their place in the stream; names are processes.
- Allocation failures and errors of system calls that end the process.
- `UDConnect` takes a sequenced packet only when it is the next expected;
  `VirtualChannel` has the full windows.
- `Fifo` writes and reads one packet atomically (it is at most `PIPE_BUF` bytes).
  A process that SIGPIPE has ended stays ended.
- `UDBuffers` gives the vbuf of an ACK, which the code never releases, a new
  life; the code registers more memory instead.
- `UDThreads` has the mode with a receive thread, not the busy-spin mode, and
  ends with the last close: `force_shutdown` and `g_shutdown` are never reset, so
  an endpoint opened afterwards would have no working threads. Its last loop
  treats packets that still arrive as addressed to nobody.
- `Tcp`: interrupted system calls (the code gives up on EINTR), and clients that
  read. A server that reads a map learns of a failure in the model, which
  `spawn_net_read_strmap` does not report. `spawn_net_wait` with nothing but NULL
  entries switches on a type that was never set.
- `Strmap`: NULL values, which `strmap_pack` and `strmap_unpack` treat
  differently, and the printf forms (`strmap_setf` without "=" returns a value
  that was never set).
- The `count` of a receive window, which `recv_window_add` does not raise for the
  first packet of an empty queue; nothing reads it.
- Device setup, memory registration, host name lookup, clocks, formatting.
- `spawn_net.c`: a switch over transports without state.
- `lwgrp_free`, `lwgrp_split_sorted_blocking` (never called).

## 6. Plan

Done, in the order of importance: the virtual channel with its proofs,
connections, FIFO, group creation, collectives, split; then buffers and credits,
threads and shutdown, TCP with framed strings, the string map and its transfer.
Proved since: connections, threads, TCP, named pipes with their streams, and
buffers, the channels of a group and its collectives. Left is what recursion and
fairness keep from the provers: the split, the string map and all liveness.
