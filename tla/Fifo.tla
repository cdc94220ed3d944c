-------------------------------- MODULE Fifo --------------------------------
(***************************************************************************)
(* The named-pipe transport (spawn_net_fifo.c).  A process has one pipe    *)
(* that all of its peers write to; it drains the pipe into a queue and     *)
(* searches the queue for the packet it waits for.  The pipe is closed and *)
(* removed only when g_writer_count says that every peer has sent          *)
(* DISCONNECT.                                                             *)
(*                                                                         *)
(* A process has one thread, whose position is app[p].  Writing or reading *)
(* one packet is atomic (it is at most PIPE_BUF bytes); a write blocks     *)
(* while the pipe is full.  A process that closes its pipe and opens again *)
(* has a new pipe, with another number; a descriptor stays with the pipe   *)
(* it was opened on.  Bytes are counted in units; <<p, i, n>> is the n-th   *)
(* unit p wrote on its channel i.                                          *)
(***************************************************************************)
EXTENDS Integers, Sequences, FiniteSets, SequencesExt

CONSTANTS
    Procs,
    Connectors,     \* processes whose application calls connect
    PipeCap,        \* packets that fit in a pipe
    PayloadSize,    \* PIPE_BUF - HDR_SIZE, in units
    WriteSizes,     \* sizes the application writes
    ReadSizes,      \* sizes the application reads
    MaxChan,        \* bound: ids a process gives out
    MaxUnits,       \* bound: units written on a channel
    MaxOpen         \* bound: MaxOpen[p], calls of open in process p

ASSUME FifoAssumption ==
    /\ Connectors \subseteq Procs
    /\ {PipeCap, PayloadSize, MaxChan, MaxUnits} \subseteq Nat \ {0}
    /\ MaxOpen \in [Procs -> Nat]
    /\ WriteSizes \cup ReadSizes \subseteq Nat \ {0}

Ids == 1..MaxChan
NoId == 0           \* the source field of CONNECT is not valid

VARIABLES
    pipe,       \* pipe[p]: packets in the pipe p reads
    inode,      \* inode[p]: the number of the pipe p has open, or NoPipe
    opens,      \* opens[p]: g_open_count
    openCalls,  \* openCalls[p]: calls of open so far (bound)
    queue,      \* queue[p]: packets drained and not yet matched
    writers,    \* writers[p]: g_writer_count
    nextId,     \* nextId[p]: g_next_id
    chans,      \* chans[p][i]: the channel with readid i, or NoChan
    app,        \* app[p]: where the thread of p is
    out,        \* out[p][i]: units written on channel i (history)
    got,        \* got[p][i]: units read from channel i, in order (history)
    stale       \* <<p, i>>: the pipe closed while the request of channel i of p
                \* was in the queue (history)

vars == <<pipe, inode, opens, openCalls, queue, writers, nextId, chans, app,
          out, got, stale>>
api == <<inode, opens, openCalls>>

NoPipe == 0

\* A descriptor open for writing to the pipe of a process.
Fd(q) == [proc |-> q, no |-> inode[q]]
HasReader(fd) == inode[fd.proc] = fd.no

NoChan == [fd |-> [proc |-> "none", no |-> NoPipe], writeid |-> NoId]
Idle == [at |-> "idle"]
HasChan(p, i) == chans[p][i] # NoChan

Init ==
    /\ pipe = [p \in Procs |-> << >>]
    /\ inode = [p \in Procs |-> NoPipe]
    /\ opens = [p \in Procs |-> 0]
    /\ openCalls = [p \in Procs |-> 0]
    /\ queue = [p \in Procs |-> << >>]
    /\ writers = [p \in Procs |-> 0]
    /\ nextId = [p \in Procs |-> 1]
    /\ chans = [p \in Procs |-> [i \in Ids |-> NoChan]]
    /\ app = [p \in Procs |-> Idle]
    /\ out = [p \in Procs |-> [i \in Ids |-> 0]]
    /\ got = [p \in Procs |-> [i \in Ids |-> << >>]]
    /\ stale = {}

\* A packet: src is the id the receiver gave out; data is the id and name that
\* CONNECT carries, the id ACCEPT carries, or the units of a message.
Packet(type, src, data) == [type |-> type, src |-> src, data |-> data]

-----------------------------------------------------------------------------
(* Reading packets.                                                        *)

IsDisconnect(pk) == pk.type = "DISCONNECT"

\* Faulty variant: DISCONNECT packets are not counted.
Enqueue_NotCounted(p, pk) ==
    /\ queue' = IF IsDisconnect(pk) THEN queue ELSE [queue EXCEPT ![p] = Append(@, pk)]
    /\ UNCHANGED writers

\* queue_progress: a packet goes to the queue, except DISCONNECT, which is
\* counted.
Enqueue(p, pk) ==
    \/ /\ IsDisconnect(pk)
       /\ writers' = [writers EXCEPT ![p] = @ - 1]
       /\ UNCHANGED queue
    \/ /\ ~IsDisconnect(pk)
       /\ queue' = [queue EXCEPT ![p] = Append(@, pk)]
       /\ UNCHANGED writers

\* packet_poll, in the loop of queue_progress that empties the pipe: packet_read
\* runs it before each search, close while writers are left.
Poll(p) ==
    /\ app[p].at \in {"wait", "drain"} /\ pipe[p] # << >>
    /\ pipe' = [pipe EXCEPT ![p] = Tail(@)]
    /\ Enqueue(p, Head(pipe[p]))
    /\ UNCHANGED <<api, nextId, chans, app, out, got, stale>>

\* Faulty variant: the id of the channel is not compared.
Match_IgnoresSource(pk, type, src) == pk.type = type

\* packet_match.
Match(pk, type, src) == pk.type = type /\ (type = "CONNECT" \/ pk.src = src)

\* Faulty variant: the search starts one packet late.
Unseen_SkipsOne(p) == (app[p].seen + 2)..Len(queue[p])

\* packet_read looks at the packets that arrived since its last look.
Unseen(p) == (app[p].seen + 1)..Len(queue[p])

Wait(op, type, src, args) ==
    [at |-> "wait", op |-> op, type |-> type, src |-> src, seen |-> 0, args |-> args]
Send(op, to, pk, args) ==
    [at |-> "write", op |-> op, to |-> to, pk |-> pk, args |-> args]

\* What connect does with the ACCEPT packet.
GotAccept(p, pk) ==
    /\ app[p].op = "connect"
    /\ chans' = [chans EXCEPT ![p][app[p].src] =
                    [fd |-> app[p].args, writeid |-> pk.data]]
    /\ writers' = [writers EXCEPT ![p] = @ + 1]
    /\ app' = [app EXCEPT ![p] = Idle]
    /\ UNCHANGED <<nextId, got>>

\* What accept does with a CONNECT packet: it returns no channel when the
\* pipe of the requestor cannot be opened.
GotConnect(p, pk) ==
    /\ app[p].op = "accept"
    /\ IF inode[pk.data.proc] # NoPipe
       THEN /\ nextId[p] \in Ids
            /\ nextId' = [nextId EXCEPT ![p] = @ + 1]
            /\ app' = [app EXCEPT ![p] =
                  Send("accept", Fd(pk.data.proc),
                       Packet("ACCEPT", pk.data.id, nextId[p]),
                       [fd |-> Fd(pk.data.proc), writeid |-> pk.data.id])]
       ELSE app' = [app EXCEPT ![p] = Idle] /\ UNCHANGED nextId
    /\ UNCHANGED <<writers, chans, got>>

\* What read does with a message packet: all of it is copied, and the next
\* packet is awaited while the buffer is not full.
GotMessage(p, pk) ==
    /\ app[p].op = "read"
    /\ got' = [got EXCEPT ![p][app[p].src] = @ \o pk.data]
    /\ LET left == app[p].args - Len(pk.data)
       IN  app' = [app EXCEPT ![p] =
                      IF left > 0 THEN Wait("read", "MESSAGE", app[p].src, left) ELSE Idle]
    /\ UNCHANGED <<writers, nextId, chans>>

\* packet_read searches the queue when queue_progress has emptied the pipe: the
\* first packet that matches leaves the queue.
PacketRead(p) ==
    LET q == queue[p]
        Matches(k) == Match(q[k], app[p].type, app[p].src)
    IN  /\ app[p].at = "wait" /\ pipe[p] = << >>
        /\ \/ \E k \in Unseen(p) :
                 /\ Matches(k) /\ \A j \in Unseen(p) : j < k => ~Matches(j)
                 /\ queue' = [queue EXCEPT ![p] = RemoveAt(q, k)]
                 /\ GotAccept(p, q[k]) \/ GotConnect(p, q[k]) \/ GotMessage(p, q[k])
           \/ /\ \A k \in Unseen(p) : ~Matches(k)
              /\ app' = [app EXCEPT ![p].seen = Len(q)]
              /\ UNCHANGED <<queue, writers, nextId, chans, got>>
        /\ UNCHANGED <<pipe, api, out, stale>>

-----------------------------------------------------------------------------
(* Writing packets.                                                        *)

\* spawn_net_write_fifo sends a message in packets of at most PayloadSize units:
\* the next packet, when from units of the channel are written and left are not.
Bytes(left) == IF left > PayloadSize THEN PayloadSize ELSE left
SendPart(p, i, from, left) ==
    Send("write", chans[p][i].fd,
         Packet("MESSAGE", chans[p][i].writeid,
                [j \in 1..Bytes(left) |-> <<p, i, from + j>>]),
         [chan |-> i, left |-> left - Bytes(left)])

\* What follows the packet that has been written.
Wrote(p) ==
    LET a == app[p]
    IN  \/ /\ a.op = "connect"
           /\ app' = [app EXCEPT ![p] = Wait("connect", "ACCEPT", a.args, a.to)]
           /\ UNCHANGED <<writers, chans, out>>
        \/ /\ a.op = "accept"
           /\ chans' = [chans EXCEPT ![p][a.pk.data] = a.args]
           /\ writers' = [writers EXCEPT ![p] = @ + 1]
           /\ app' = [app EXCEPT ![p] = Idle]
           /\ UNCHANGED out
        \/ /\ a.op = "disconnect"
           /\ chans' = [chans EXCEPT ![p][a.args] = NoChan]
           /\ app' = [app EXCEPT ![p] = Idle]
           /\ UNCHANGED <<writers, out>>
        \/ /\ a.op = "write"
           /\ out' = [out EXCEPT ![p][a.args.chan] = @ + Len(a.pk.data)]
           /\ app' = [app EXCEPT ![p] =
                 IF a.args.left = 0 THEN Idle
                 ELSE SendPart(p, a.args.chan, out[p][a.args.chan] + Len(a.pk.data),
                               a.args.left)]
           /\ UNCHANGED <<writers, chans>>

\* reliable_write puts one packet in the pipe when it has room.
PacketWrite(p) ==
    LET q == app[p].to.proc
    IN  /\ app[p].at = "write" /\ HasReader(app[p].to)
        /\ Len(pipe[q]) < PipeCap
        /\ pipe' = [pipe EXCEPT ![q] = Append(@, app[p].pk)]
        /\ Wrote(p)
        /\ UNCHANGED <<api, queue, nextId, got, stale>>

\* A write to a pipe that nobody reads any more: SIGPIPE ends the process, and
\* nobody reads its own pipe any more either.
BrokenPipe(p) ==
    /\ app[p].at = "write" /\ ~HasReader(app[p].to)
    /\ app' = [app EXCEPT ![p] = [at |-> "killed"]]
    /\ inode' = [inode EXCEPT ![p] = NoPipe]
    /\ pipe' = [pipe EXCEPT ![p] = << >>]
    /\ UNCHANGED <<opens, openCalls, queue, writers, nextId, chans, out, got, stale>>

-----------------------------------------------------------------------------
(* The interface.                                                          *)

\* spawn_net_open_fifo: the first open makes a new pipe.
Open(p) ==
    /\ app[p] = Idle
    /\ openCalls[p] < MaxOpen[p]
    /\ openCalls' = [openCalls EXCEPT ![p] = @ + 1]
    /\ opens' = [opens EXCEPT ![p] = @ + 1]
    /\ inode' = [inode EXCEPT ![p] = IF @ = NoPipe THEN openCalls[p] + 1 ELSE @]
    /\ UNCHANGED <<pipe, queue, writers, nextId, chans, app, out, got, stale>>

\* spawn_net_close_fifo: the last close waits until the writers are gone.
Close(p) ==
    /\ app[p] = Idle
    /\ opens[p] > 0
    /\ opens' = [opens EXCEPT ![p] = @ - 1]
    /\ app' = [app EXCEPT ![p] = IF opens[p] = 1 THEN [at |-> "close"] ELSE Idle]
    /\ UNCHANGED <<pipe, inode, openCalls, queue, writers, nextId, chans, out, got, stale>>

\* Faulty variant: the pipe is closed while one writer is left.
WritersGone_OneLeft(p) == writers[p] <= 1

WritersGone(p) == writers[p] <= 0

\* queue_progress inside close, while it finds packets.
CloseProgress(p) ==
    /\ \/ app[p].at = "close" /\ ~WritersGone(p) /\ pipe[p] # << >>
          /\ app' = [app EXCEPT ![p] = [at |-> "drain"]]
       \/ app[p].at = "drain" /\ pipe[p] = << >>
          /\ app' = [app EXCEPT ![p] = [at |-> "close"]]
    /\ UNCHANGED <<pipe, api, queue, writers, nextId, chans, out, got, stale>>

\* The pipe is closed and removed.  The queue stays as it is.
CloseDone(p) ==
    /\ app[p].at = "close" /\ WritersGone(p)
    /\ inode' = [inode EXCEPT ![p] = NoPipe]
    /\ pipe' = [pipe EXCEPT ![p] = << >>]
    /\ app' = [app EXCEPT ![p] = Idle]
    /\ stale' = stale \cup {<<pk.data.proc, pk.data.id>> :
                               pk \in {pk \in Range(queue[p]) : pk.type = "CONNECT"}}
    /\ UNCHANGED <<opens, openCalls, queue, writers, nextId, chans, out, got>>

\* spawn_net_connect_fifo: open the pipe of q, then write CONNECT.
Connect(p, q) ==
    /\ p # q /\ p \in Connectors
    /\ app[p] = Idle /\ inode[p] # NoPipe /\ inode[q] # NoPipe
    /\ nextId[p] \in Ids
    /\ nextId' = [nextId EXCEPT ![p] = @ + 1]
    /\ app' = [app EXCEPT ![p] =
          Send("connect", Fd(q), Packet("CONNECT", NoId, [proc |-> p, id |-> nextId[p]]),
               nextId[p])]
    /\ UNCHANGED <<pipe, api, queue, writers, chans, out, got, stale>>

\* spawn_net_accept_fifo.
Accept(p) ==
    /\ app[p] = Idle /\ inode[p] # NoPipe
    /\ app' = [app EXCEPT ![p] = Wait("accept", "CONNECT", NoId, NoId)]
    /\ UNCHANGED <<pipe, api, queue, writers, nextId, chans, out, got, stale>>

\* spawn_net_disconnect_fifo.
Disconnect(p, i) ==
    /\ app[p] = Idle /\ HasChan(p, i)
    /\ app' = [app EXCEPT ![p] =
          Send("disconnect", chans[p][i].fd,
               Packet("DISCONNECT", chans[p][i].writeid, << >>), i)]
    /\ UNCHANGED <<pipe, api, queue, writers, nextId, chans, out, got, stale>>

\* spawn_net_read_fifo of size units.
Read(p, i, size) ==
    /\ app[p] = Idle /\ HasChan(p, i) /\ inode[p] # NoPipe
    /\ app' = [app EXCEPT ![p] = Wait("read", "MESSAGE", i, size)]
    /\ UNCHANGED <<pipe, api, queue, writers, nextId, chans, out, got, stale>>

\* spawn_net_write_fifo of size units.
Write(p, i, size) ==
    /\ app[p] = Idle /\ HasChan(p, i)
    /\ out[p][i] + size <= MaxUnits
    /\ app' = [app EXCEPT ![p] = SendPart(p, i, out[p][i], size)]
    /\ UNCHANGED <<pipe, api, queue, writers, nextId, chans, out, got, stale>>

Next ==
    \E p \in Procs :
        \/ Poll(p) \/ PacketRead(p) \/ PacketWrite(p) \/ BrokenPipe(p)
        \/ Open(p) \/ Close(p) \/ CloseProgress(p) \/ CloseDone(p)
        \/ Accept(p)
        \/ \E q \in Procs : Connect(p, q)
        \/ \E i \in Ids :
              \/ Disconnect(p, i)
              \/ \E size \in ReadSizes : Read(p, i, size)
              \/ \E size \in WriteSizes : Write(p, i, size)

Spec == Init /\ [][Next]_vars

\* Fairness.  A thread that is inside a call keeps running.
InCall(p) == Poll(p) \/ PacketRead(p) \/ PacketWrite(p) \/ CloseProgress(p) \/ CloseDone(p)
Fairness == \A p \in Procs : WF_vars(InCall(p))

FairSpec == Spec /\ Fairness

-----------------------------------------------------------------------------
(* Properties.                                                             *)

Units == Procs \X Ids \X (1..MaxUnits)
Fds == [proc : Procs, no : Nat \ {NoPipe}]
Chans == [fd : Fds, writeid : Ids]

Connects == [type : {"CONNECT"}, src : {NoId}, data : [proc : Procs, id : Ids]]
Accepts == [type : {"ACCEPT"}, src : Ids, data : Ids]
Disconnects == [type : {"DISCONNECT"}, src : Ids, data : {<< >>}]
Messages == [type : {"MESSAGE"}, src : Ids, data : Seq(Units)]
Packets == Connects \cup Accepts \cup Disconnects \cup Messages

\* Where a thread can be: between calls, inside close, ended by SIGPIPE, waiting
\* for a packet in packet_read, or writing one.
Positions ==
    [at : {"idle", "close", "drain", "killed"}]
    \cup [at : {"wait"}, op : {"connect"}, type : {"ACCEPT"}, src : Ids, seen : Nat, args : Fds]
    \cup [at : {"wait"}, op : {"accept"}, type : {"CONNECT"}, src : {NoId}, seen : Nat,
          args : {NoId}]
    \cup [at : {"wait"}, op : {"read"}, type : {"MESSAGE"}, src : Ids, seen : Nat, args : Nat]
    \cup [at : {"write"}, op : {"connect"}, to : Fds, pk : Connects, args : Ids]
    \cup [at : {"write"}, op : {"accept"}, to : Fds, pk : Accepts, args : Chans]
    \cup [at : {"write"}, op : {"disconnect"}, to : Fds, pk : Disconnects, args : Ids]
    \cup [at : {"write"}, op : {"write"}, to : Fds, pk : Messages,
          args : [chan : Ids, left : Nat]]

\* Type invariant: pipes hold at most PipeCap well-formed packets, queues hold
\* no DISCONNECT, and counters and channels have values of their kind.
TypeOK ==
    /\ pipe \in [Procs -> Seq(Packets)] /\ \A p \in Procs : Len(pipe[p]) <= PipeCap
    /\ queue \in [Procs -> Seq(Packets \ Disconnects)]
    /\ inode \in [Procs -> Nat] /\ opens \in [Procs -> Nat] /\ openCalls \in [Procs -> Nat]
    /\ \A p \in Procs : openCalls[p] <= MaxOpen[p] /\ opens[p] <= openCalls[p]
                        /\ inode[p] <= openCalls[p]
    /\ writers \in [Procs -> Int] /\ nextId \in [Procs -> 1..(MaxChan + 1)]
    /\ chans \in [Procs -> [Ids -> Chans \cup {NoChan}]]
    /\ app \in [Procs -> Positions]
    /\ out \in [Procs -> [Ids -> 0..MaxUnits]] /\ got \in [Procs -> [Ids -> Seq(Units)]]
    /\ stale \subseteq Procs \X Ids

\* The process at the other end has the pipe open, unless SIGPIPE has ended it.
Served(fd) == HasReader(fd) \/ app[fd.proc].at = "killed"

\* The reading end of an established channel is open, and so is that of the
\* channel an accept is about to establish: close waits for every peer, whatever
\* order connects, accepts, disconnects and closes come in, so that no write on a
\* channel meets a closed pipe.  Excepted are channels whose request outlived
\* the pipe it came through (README).
ChannelsHaveReaders ==
    \A p \in Procs :
        /\ \A i \in Ids : HasChan(p, i) => Served(chans[p][i].fd) \/ <<p, i>> \in stale
        /\ app[p].at = "write" /\ app[p].op = "accept" => HasReader(app[p].to)

\* packet_read looks at new packets only, and yet never passes over a packet it
\* waits for.
NothingOverlooked ==
    \A p \in Procs : app[p].at = "wait" =>
        \A k \in 1..app[p].seen : ~Match(queue[p][k], app[p].type, app[p].src)

\* Although all peers share one pipe and one queue, what is read from a channel
\* is what its peer wrote on that channel, in order and without gaps; no
\* DISCONNECT is left in the queue, where nobody would look for it (TypeOK).
StreamsAreSeparate ==
    /\ TypeOK
    /\ \A p \in Procs : \A i \in Ids : \A k \in 1..Len(got[p][i]) :
           /\ got[p][i][k] = <<got[p][i][1][1], got[p][i][1][2], k>>
           /\ HasChan(p, i) => got[p][i][1][1] = chans[p][i].fd.proc
                               /\ got[p][i][1][2] = chans[p][i].writeid

\* Nobody is connected to p or about to be.
NoPeer(p) ==
    \A q \in Procs \ {p} :
        /\ \A i \in Ids : HasChan(q, i) => chans[q][i].fd.proc # p
        /\ app[q].at = "write" => app[q].to.proc # p
        /\ (app[q].at = "wait" /\ app[q].op = "connect") => app[q].args.proc # p

\* The count of writers is exact: the last close returns once every peer has
\* disconnected, so that no process stays in close while it has no peer.
CloseReturns ==
    \A p \in Procs : []<>~(app[p].at \in {"close", "drain"} /\ NoPeer(p))

-----------------------------------------------------------------------------
(* The inductive invariant.  The right to write to p as its channel k is   *)
(* in one place at a time: with the process that has the channel, in the   *)
(* ACCEPT that gives it away, or in the DISCONNECT that gives it back.     *)

\* The packets of a sequence that are not messages.
Signals(s) == {pk \in Range(s) : pk.type # "MESSAGE"}

\* Packets on the way to a process: a request of q with its id i, on the way to p,
\* the answer to it, which gives the id k, and the end of channel k of p.
Pending(p) == Signals(queue[p]) \cup Signals(pipe[p])
Request(q, i) == Packet("CONNECT", NoId, [proc |-> q, id |-> i])
Requested(p, q, i) == Request(q, i) \in Pending(p)
Answered(q, i, k) == Packet("ACCEPT", i, k) \in Pending(q)
Returned(p, k) == Packet("DISCONNECT", k, << >>) \in Signals(pipe[p])

Killed(p) == app[p].at = "killed"
Awaits(q) == app[q].at = "wait" /\ app[q].op = "connect"
Accepting(p, q) == app[p].at = "write" /\ app[p].op = "accept" /\ app[p].to.proc = q
Accepted(q) == \E i, k \in Ids : Answered(q, i, k)

\* The places of the right to write to p as k.
Granted(q, j, p, k) ==
    HasChan(q, j) /\ chans[q][j].fd.proc = p /\ chans[q][j].writeid = k
Promised(q, p, k) == Awaits(q) /\ app[q].args.proc = p /\ \E i \in Ids : Answered(q, i, k)
Held(p, k) ==
    \/ \E q \in Procs, j \in Ids : Granted(q, j, p, k)
    \/ \E q \in Procs : Promised(q, p, k)
    \/ Returned(p, k)

\* Signals are not repeated, and a pipe that is closed is empty.
Distinct(s) == \A k, l \in 1..Len(s) : s[k] = s[l] /\ s[k].type # "MESSAGE" => k = l
InboxOK(p) ==
    /\ Distinct(pipe[p]) /\ Distinct(queue[p])
    /\ Signals(pipe[p]) \cap Signals(queue[p]) = {}
    /\ inode[p] = NoPipe => pipe[p] = << >>

\* The thread is where its channel and its packet say.
ThreadOK(p) ==
    LET a == app[p]
    IN  /\ a.at = "wait" => inode[p] # NoPipe /\ a.seen <= Len(queue[p])
        /\ a.at = "write" =>
              /\ a.op = "connect" => inode[p] # NoPipe /\ a.pk = Request(p, a.args)
              /\ a.op = "accept" => a.args = [fd |-> a.to, writeid |-> a.pk.src]
              /\ a.op = "disconnect" =>
                    chans[p][a.args] = [fd |-> a.to, writeid |-> a.pk.src]
              /\ a.op = "write" =>
                    /\ chans[p][a.args.chan] = [fd |-> a.to, writeid |-> a.pk.src]
                    /\ out[p][a.args.chan] + Len(a.pk.data) + a.args.left <= MaxUnits

\* A request was written to the pipe its target has open, or to one that closed
\* while the request was in the queue.
Through(q) == Served(app[q].args) \/ <<q, app[q].src>> \in stale

\* A request is in one place, and its process waits for the answer to it.
RequestOK(p, q) ==
    /\ \A i \in Ids : Requested(p, q, i) =>
          /\ Awaits(q) /\ app[q].src = i /\ app[q].args.proc = p
          /\ ~Accepting(p, q) /\ ~Accepted(q) /\ Through(q)
          /\ Request(q, i) \in Signals(pipe[p]) => HasReader(app[q].args)
    /\ Accepting(p, q) =>
          /\ Awaits(q) /\ app[q].src = app[p].pk.src /\ app[q].args.proc = p
          /\ ~Accepted(q) /\ Through(q) /\ HasReader(app[p].to)
    /\ \A i, k \in Ids : Answered(q, i, k) =>
          /\ Awaits(q) /\ app[q].src = i /\ Through(q)
          /\ \A j, l \in Ids : Answered(q, j, l) => l = k
RequestsOK == \A p, q \in Procs : RequestOK(p, q)

\* The right to write is in one place, and its channel has a reader.
RightsOK ==
    /\ \A p, q \in Procs, k, j \in Ids : Granted(q, j, p, k) =>
          q # p /\ ~Returned(p, k) /\ (Served(chans[q][j].fd) \/ <<q, j>> \in stale)
    /\ \A p, q, r \in Procs, k, j, i \in Ids :
          Granted(q, j, p, k) /\ Granted(r, i, p, k) => r = q /\ i = j
    /\ \A p, q, r \in Procs, k, j \in Ids : ~(Granted(q, j, p, k) /\ Promised(r, p, k))
    /\ \A p, q \in Procs, k \in Ids : ~(Promised(q, p, k) /\ Returned(p, k))
    /\ \A p, q, r \in Procs, k \in Ids : Promised(q, p, k) /\ Promised(r, p, k) => r = q

\* An id is given out once, and the right to write to it comes with the answer.
InUse(p, k) == HasChan(p, k) \/ Held(p, k)
IdsOK(p) ==
    /\ \A k \in Ids : InUse(p, k) => k < nextId[p]
    /\ Awaits(p) => /\ app[p].args.proc # p /\ app[p].src < nextId[p]
                    /\ ~HasChan(p, app[p].src) /\ (~Accepted(p) => ~Held(p, app[p].src))
    /\ app[p].at = "write" =>
          /\ app[p].op = "connect" => /\ app[p].to.proc # p /\ app[p].args < nextId[p]
                                      /\ ~InUse(p, app[p].args)
          /\ app[p].op = "accept" => /\ app[p].pk.data < nextId[p]
                                     /\ ~InUse(p, app[p].pk.data)

\* g_writer_count is the number of rights that are not yet returned.
Writers(p) == {k \in Ids : Held(p, k)}
CountOK(p) ==
    ~Killed(p) => writers[p] = Cardinality(Writers(p)) - (IF Accepted(p) THEN 1 ELSE 0)

FifoInv ==
    /\ TypeOK
    /\ \A p \in Procs : InboxOK(p) /\ ThreadOK(p) /\ IdsOK(p) /\ CountOK(p)
    /\ RequestsOK /\ RightsOK

-----------------------------------------------------------------------------
(* The inductive invariant behind StreamsAreSeparate.  What p has drained  *)
(* and what is in its pipe is one sequence, its mail.                      *)

Mail(p) == queue[p] \o pipe[p]
IsMessage(pk, i) == pk.type = "MESSAGE" /\ pk.src = i
Carries(s, i) == \E k \in 1..Len(s) : IsMessage(s[k], i)
FirstUnit(pk) == pk.data[1][3]
LastUnit(pk) == FirstUnit(pk) + Len(pk.data) - 1

\* A packet carries consecutive units of channel j of r.
RunOf(pk, r, j) ==
    pk.data # << >> /\ \A x \in 1..Len(pk.data) : pk.data[x] = <<r, j, FirstUnit(pk) + x - 1>>

\* The messages for i in s continue the first n units of channel j of r.
Flow(s, i, r, j, n) ==
    \A k \in 1..Len(s) : IsMessage(s[k], i) =>
        /\ RunOf(s[k], r, j)
        /\ \/ FirstUnit(s[k]) = n + 1
           \/ \E l \in 1..(k - 1) : IsMessage(s[l], i) /\ FirstUnit(s[k]) = LastUnit(s[l]) + 1
        /\ \A l \in 1..(k - 1) : IsMessage(s[l], i) => LastUnit(s[l]) < FirstUnit(s[k])

\* They end with unit e.
EndsAt(s, i, n, e) ==
    /\ \A k \in 1..Len(s) : IsMessage(s[k], i) => LastUnit(s[k]) <= e
    /\ \/ e = n /\ ~Carries(s, i)
       \/ \E k \in 1..Len(s) : IsMessage(s[k], i) /\ LastUnit(s[k]) = e

Fed(p, i) == got[p][i] # << >> \/ Carries(Mail(p), i)
Feeds(r, j, p, i) ==
    /\ \A k \in 1..Len(got[p][i]) : got[p][i][k] = <<r, j, k>>
    /\ Flow(Mail(p), i, r, j, Len(got[p][i]))

\* p knows, from its channel or from an answer it has yet to read, that its id i
\* belongs to id j of r.
Half(p, i, r, j) ==
    \/ Granted(p, i, r, j)
    \/ Awaits(p) /\ app[p].src = i /\ app[p].args.proc = r /\ Answered(p, i, j)

\* Id i of p belongs to nobody yet.
New(p, i) ==
    \/ nextId[p] <= i
    \/ /\ app[p].at = "write"
       /\ \/ app[p].op = "connect" /\ app[p].args = i
          \/ app[p].op = "accept" /\ app[p].pk.data = i
    \/ Awaits(p) /\ app[p].src = i /\ ~Accepted(p)

\* The two ends of a channel name each other.
PairsOK ==
    \A p, q, r \in Procs, i, j, k \in Ids : Half(p, i, r, j) /\ Half(q, k, p, i) => q = r /\ k = j

\* Whoever has units for channel i of p on the way is its peer, and has its channel.
SourceOK(p, i) ==
    Fed(p, i) =>
        /\ ~New(p, i)
        /\ \E r \in Procs, j \in Ids :
              /\ Feeds(r, j, p, i)
              /\ \A q \in Procs, k \in Ids : Half(p, i, q, k) => q = r /\ k = j
              /\ \A q \in Procs, k \in Ids : Half(q, k, p, i) => q = r /\ k = j /\ Granted(r, j, p, i)

\* What is on the way ends with what was written last, unless the pipe was closed.
EndOK(q, k, p, i) ==
    Granted(q, k, p, i) /\ HasReader(chans[q][k].fd)
        => EndsAt(Mail(p), i, Len(got[p][i]), out[q][k])

\* A channel that is not there yet has written nothing; the packet being written
\* continues what was written; no descriptor is of a pipe yet to be made.
OutOK(p) ==
    /\ \A i \in Ids : New(p, i) \/ (Awaits(p) /\ app[p].src = i) => out[p][i] = 0
    /\ \A i \in Ids : HasChan(p, i) => chans[p][i].fd.no <= openCalls[chans[p][i].fd.proc]
    /\ Awaits(p) => app[p].args.no <= openCalls[app[p].args.proc]
    /\ app[p].at = "write" => app[p].to.no <= openCalls[app[p].to.proc]
    /\ app[p].at = "write" /\ app[p].op = "write" =>
          /\ RunOf(app[p].pk, p, app[p].args.chan)
          /\ FirstUnit(app[p].pk) = out[p][app[p].args.chan] + 1

StreamInv ==
    /\ PairsOK
    /\ \A p \in Procs : OutOK(p)
    /\ \A p \in Procs, i \in Ids : SourceOK(p, i)
    /\ \A p, q \in Procs, i, k \in Ids : EndOK(q, k, p, i)

-----------------------------------------------------------------------------
(* What comments in the code claim and the code does not keep.             *)

\* "In order to avoid this signal, the read end of a pipe is not closed until all
\* connections have been closed": no process is ended by SIGPIPE.
NoSigpipe == \A p \in Procs : app[p].at # "killed"

\* "The pipe is drained frequently in order to avoid blocking writers": the
\* processes are never all blocked in a write to a full pipe.
NotAllBlocked ==
    \E p \in Procs : ~(app[p].at = "write" /\ Len(pipe[app[p].to.proc]) = PipeCap)

\* spawn_net_read_fifo: "read sizes bytes of data from channel into buffer", so no
\* more than is asked for is taken from the channel.
ReadTakesItsSize ==
    [][\A p \in Procs : \A i \in Ids :
          got'[p][i] # got[p][i] => Len(got'[p][i]) - Len(got[p][i]) <= app[p].args]_vars
=============================================================================
