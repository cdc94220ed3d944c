-------------------------------- MODULE Tcp --------------------------------
(***************************************************************************)
(* The TCP transport (spawn_net_tcp.c) and the strings and maps that are   *)
(* sent over its channels (spawn_net_util.c).  A connection starts with    *)
(* the name of the client; a name, a string and a packed map are framed    *)
(* alike: a length of 8 bytes and then the bytes.  The server waits on its *)
(* endpoint and its channels with spawn_net_wait, and then accepts or      *)
(* reads.  Sockets are external: a write takes, and a read returns, any    *)
(* part of what is asked for, a full buffer blocks the writer, a client    *)
(* that ends (or crashes) closes its socket, and a write to a socket that  *)
(* the server has closed kills the client with SIGPIPE.                    *)
(*                                                                         *)
(* Bytes are counted in units: Hdr units of length, and as many of body as *)
(* Messages says.  A unit is <<frame, position>>: frame 0 is the name.     *)
(***************************************************************************)
EXTENDS Integers, Sequences, FiniteSets, SequencesExt

CONSTANTS
    Clients,    \* the clients
    Messages,   \* Messages[c]: lengths of the bodies that c sends, in order
    Fragile,    \* clients that may crash
    Hdr,        \* units of the length of a frame
    NameLen,    \* units of a client's name
    Cap,        \* room of a socket
    Backlog     \* spawn_net_tcp_backlog

ASSUME TcpAssumption ==
    /\ Fragile \subseteq Clients
    /\ Messages \in [Clients -> Seq(Nat)]
    /\ {Hdr, NameLen, Cap, Backlog} \subseteq Nat \ {0}

VARIABLES
    client,     \* client[c]: where c is, and what of which frame it has written
    socket,     \* socket[c]: units on their way from c to the server
    written,    \* written[c]: messages c has started to write
    listening,  \* the endpoint is open
    backlog,    \* connections that are not accepted yet
    hungup,     \* clients whose connection the server has closed
    chs,        \* the channels of the server, in the order of its array
    server,     \* what the server does
    inbox       \* inbox[c]: messages read from c

netvars == <<client, socket, written, listening, backlog, hungup, chs, server, inbox>>

Waiting == [at |-> "wait"]
Reading(c, naming) == [at |-> "read", from |-> c, naming |-> naming,
                       want |-> Hdr, got |-> << >>, header |-> TRUE]

BodyLen(c, frame) == IF frame = 0 THEN NameLen ELSE Messages[c][frame]

\* spawn_net_open_tcp has been called.
NetInit ==
    /\ client = [c \in Clients |-> [at |-> "start", frame |-> 0, pos |-> 0]]
    /\ socket = [c \in Clients |-> << >>]
    /\ written = [c \in Clients |-> 0]
    /\ listening = TRUE /\ backlog = << >> /\ hungup = {}
    /\ chs = << >> /\ server = Waiting
    /\ inbox = [c \in Clients |-> << >>]

-----------------------------------------------------------------------------
(* A client.                                                               *)

\* spawn_net_connect_tcp up to connect(), which fails if nobody listens.
Connect(c) ==
    /\ client[c].at = "start"
    /\ Len(backlog) < Backlog
    /\ IF listening
       THEN /\ client' = [client EXCEPT ![c].at = "write"]
            /\ backlog' = Append(backlog, c)
       ELSE /\ client' = [client EXCEPT ![c].at = "gone"]
            /\ UNCHANGED backlog
    /\ UNCHANGED <<socket, written, listening, hungup, chs, server, inbox>>

\* spawn_net_write_str, spawn_net_write_strmap.
StartMessage(c) ==
    /\ client[c].at = "open" /\ written[c] < Len(Messages[c])
    /\ written' = [written EXCEPT ![c] = @ + 1]
    /\ client' = [client EXCEPT ![c] = [at |-> "write", frame |-> written[c] + 1, pos |-> 0]]
    /\ UNCHANGED <<socket, listening, backlog, hungup, chs, server, inbox>>

\* n units of a frame, after the first ones.
Units(frame, from, n) == [i \in 1..n |-> <<frame, from + i>>]

\* One write() of reliable_write: of the length, and then of the body.  After
\* the last one the call returns.
WriteSome(c) ==
    LET w == client[c]
        size == Hdr + BodyLen(c, w.frame)
        end == IF w.pos < Hdr THEN Hdr ELSE size
    IN  /\ w.at = "write" /\ c \notin hungup
        /\ \E n \in 1..(Cap - Len(socket[c])) :
              /\ w.pos + n <= end
              /\ socket' = [socket EXCEPT ![c] = @ \o Units(w.frame, w.pos, n)]
              /\ client' = [client EXCEPT ![c].pos = w.pos + n,
                                          ![c].at = IF w.pos + n = size THEN "open" ELSE "write"]
        /\ UNCHANGED <<written, listening, backlog, hungup, chs, server, inbox>>

Leave(c) ==
    /\ client' = [client EXCEPT ![c].at = "gone"]
    /\ UNCHANGED <<socket, written, listening, backlog, hungup, chs, server, inbox>>

\* The connection is closed at the other end: SIGPIPE.
WriteBroken(c) == client[c].at = "write" /\ c \in hungup /\ Leave(c)

\* spawn_net_disconnect_tcp.
Disconnect(c) == client[c].at = "open" /\ written[c] = Len(Messages[c]) /\ Leave(c)

Crash(c) == c \in Fragile /\ client[c].at \in {"write", "open"} /\ Leave(c)

-----------------------------------------------------------------------------
(* The server.                                                             *)

AtEOF(c) == socket[c] = << >> /\ client[c].at = "gone"
Ready == {i \in 1..Len(chs) : socket[chs[i]] # << >> \/ AtEOF(chs[i])}

\* spawn_net_wait: the index of a ready endpoint is overwritten by that of the
\* first ready channel.
Wait ==
    /\ server.at = "wait"
    /\ \/ /\ Ready # {}
          /\ \E i \in Ready : /\ \A j \in Ready : i <= j
                              /\ server' = Reading(chs[i], FALSE)
          /\ UNCHANGED backlog
       \/ /\ Ready = {} /\ backlog # << >>      \* accept()
          /\ server' = Reading(Head(backlog), TRUE)
          /\ backlog' = Tail(backlog)
    /\ UNCHANGED <<client, socket, written, listening, hungup, chs, inbox>>

\* What the units of a body (of the length, if there is no body) amount to: the
\* message, or Torn, something that nobody sent.
Torn == 0
Message(c, got) ==
    LET frame == got[1][1]
        len == BodyLen(c, frame)
    IN  IF got = (IF len = 0 THEN Units(frame, 0, Hdr) ELSE Units(frame, Hdr, len))
        THEN frame ELSE Torn

\* The call ends: spawn_net_accept_tcp with a name, spawn_net_read_str or
\* spawn_net_read_strmap with a message.
Deliver(c, got) ==
    /\ server' = Waiting
    /\ IF server.naming THEN chs' = Append(chs, c) /\ UNCHANGED inbox
       ELSE inbox' = [inbox EXCEPT ![c] = Append(@, Message(c, got))] /\ UNCHANGED chs

\* Faulty variant: what the first read() of a body returns is taken for all.
GetSome(c, got) ==
    LET len == BodyLen(c, got[1][1])
    IN  IF server.header /\ Len(got) < server.want
        THEN server' = [server EXCEPT !.got = got] /\ UNCHANGED <<chs, inbox>>
        ELSE IF server.header /\ len > 0
        THEN /\ server' = [server EXCEPT !.got = << >>, !.want = len, !.header = FALSE]
             /\ UNCHANGED <<chs, inbox>>
        ELSE Deliver(c, got)

\* What happens with the units got so far: read on, turn to the body (there is
\* none if the length is 0), or end the call.
GetAll(c, got) ==
    LET len == BodyLen(c, got[1][1])
    IN  IF Len(got) < server.want
        THEN server' = [server EXCEPT !.got = got] /\ UNCHANGED <<chs, inbox>>
        ELSE IF server.header /\ len > 0
        THEN /\ server' = [server EXCEPT !.got = << >>, !.want = len, !.header = FALSE]
             /\ UNCHANGED <<chs, inbox>>
        ELSE Deliver(c, got)

\* One read() of reliable_read.
ReadSome ==
    /\ server.at = "read"
    /\ LET c == server.from
           left == server.want - Len(server.got)
       IN  /\ \E n \in 1..Len(socket[c]) :
                 /\ n <= left
                 /\ socket' = [socket EXCEPT ![c] = SubSeq(@, n + 1, Len(@))]
                 /\ GetAll(c, server.got \o SubSeq(socket[c], 1, n))
    /\ UNCHANGED <<client, written, listening, backlog, hungup>>

\* Faulty variant: end of file is taken for "nothing yet".
ReadEOFRetries ==
    /\ server.at = "read" /\ AtEOF(server.from)
    /\ UNCHANGED netvars

\* read() returns 0: accept returns NULL, or the read fails and the server, which
\* knows that nothing was read, disconnects the channel.  (spawn_net_read_strmap
\* does not report the failure: its caller has to find out some other way.)
ReadEOF ==
    /\ server.at = "read" /\ AtEOF(server.from)
    /\ server' = Waiting
    /\ IF server.naming THEN UNCHANGED chs
       ELSE \E i \in 1..Len(chs) : chs[i] = server.from /\ chs' = RemoveAt(chs, i)
    /\ hungup' = hungup \cup {server.from}
    /\ UNCHANGED <<client, socket, written, listening, backlog, inbox>>

\* spawn_net_close_tcp: connections that wait to be accepted are reset.
CloseEndpoint ==
    /\ listening /\ server.at = "wait"
    /\ listening' = FALSE
    /\ hungup' = hungup \cup Range(backlog) /\ backlog' = << >>
    /\ UNCHANGED <<client, socket, written, chs, server, inbox>>

Server == Wait \/ ReadSome \/ ReadEOF

Works(c) == Connect(c) \/ StartMessage(c) \/ WriteSome(c) \/ WriteBroken(c) \/ Disconnect(c)

NetNext == Server \/ CloseEndpoint \/ \E c \in Clients : Works(c) \/ Crash(c)

\* Every process runs; nobody has to crash or to close the endpoint.
NetFairness == WF_netvars(Server) /\ \A c \in Clients : WF_netvars(Works(c))

NetSpec == NetInit /\ [][NetNext]_netvars /\ NetFairness

-----------------------------------------------------------------------------
(* Properties.                                                             *)

\* Type invariant: no write runs past its buffer, no socket or queue past its
\* room.
NetTypeOK ==
    /\ \A c \in Clients : /\ client[c].at \in {"start", "write", "open", "gone"}
                          /\ client[c].pos \in 0..(Hdr + BodyLen(c, client[c].frame))
                          /\ Len(socket[c]) <= Cap
                          /\ written[c] <= Len(Messages[c])
    /\ Len(backlog) <= Backlog /\ listening \in BOOLEAN
    /\ hungup \subseteq Clients /\ chs \in Seq(Clients)
    /\ server.at \in {"wait", "read"}

\* The room that a frame takes in the stream of its client, and the unit that
\* follows a unit.
Size(c, frame) == Hdr + BodyLen(c, frame)
After(c, u) == IF u[2] < Size(c, u[1]) THEN <<u[1], u[2] + 1>> ELSE <<u[1] + 1, 1>>

\* The frame that the server is reading, and what of it was read before got.
Frame == IF server.naming THEN 0 ELSE Len(inbox[server.from]) + 1
Base == IF server.header THEN 0 ELSE Hdr

\* The unit that c writes next, and the one that the server reads next.
ToWrite(c) == After(c, <<client[c].frame, client[c].pos>>)
ToRead(c) ==
    IF server.at = "read" /\ server.from = c THEN <<Frame, Base + Len(server.got) + 1>>
    ELSE IF c \in Range(chs) THEN <<Len(inbox[c]) + 1, 1>>
    ELSE <<0, 1>>

\* The sets that the variables belong to.
NetShape ==
    /\ client \in [Clients -> [at : {"start", "write", "open", "gone"}, frame : Nat, pos : Nat]]
    /\ socket \in [Clients -> Seq(Nat \X Nat)]
    /\ written \in [Clients -> Nat] /\ inbox \in [Clients -> Seq(Nat)]
    /\ listening \in BOOLEAN /\ hungup \subseteq Clients
    /\ backlog \in Seq(Clients) /\ chs \in Seq(Clients)
    /\ server \in {Waiting} \cup [at : {"read"}, from : Clients, naming : BOOLEAN,
                                   want : Nat, got : Seq(Nat \X Nat), header : BOOLEAN]

\* A client writes the frame of its latest message, and no further.
WriterOK(c) ==
    /\ client[c].frame = written[c] /\ written[c] <= Len(Messages[c])
    /\ client[c].pos <= Size(c, written[c])
    /\ client[c].at = "open" => client[c].pos = Size(c, written[c])
    /\ client[c].at = "write" => client[c].pos < Size(c, written[c])
    /\ client[c].at = "start" => client[c].pos = 0 /\ written[c] = 0 /\ socket[c] = << >>

\* The units of s are of the frames of c up to the given one, and each follows
\* the one before it.
InFrames(c, s, frame) ==
    \A k \in 1..Len(s) : s[k][1] <= frame /\ s[k][2] \in 1..Size(c, s[k][1])
Consecutive(c, s) ==
    \A j, k \in 1..Len(s) :
        /\ j <= k /\ s[j][2] + (k - j) <= Size(c, s[j][1])
              => s[k] = <<s[j][1], s[j][2] + (k - j)>>
        /\ k = j + 1 /\ s[j][2] = Size(c, s[j][1]) => s[k] = <<s[j][1] + 1, 1>>
Contiguous(c, s, frame) == InFrames(c, s, frame) /\ Consecutive(c, s)

\* A socket holds consecutive units, the last of which is the last written.
StreamOK(c) ==
    /\ Len(socket[c]) <= Cap /\ Contiguous(c, socket[c], written[c])
    /\ socket[c] # << >> => After(c, socket[c][Len(socket[c])]) = ToWrite(c)

\* The server reads on where it stopped, in a connection that it has not closed.
JoinOK(c) ==
    c \notin hungup => ToRead(c) = IF socket[c] = << >> THEN ToWrite(c) ELSE socket[c][1]

\* A connection is in one place: not made, waiting to be accepted, being
\* accepted, a channel, or closed.
PlacesOK ==
    /\ IsInjective(backlog) /\ IsInjective(chs) /\ Len(backlog) <= Backlog
    /\ Range(backlog) \cap Range(chs) = {}
    /\ hungup \cap (Range(backlog) \cup Range(chs)) = {}
    /\ \A c \in Clients :
          /\ client[c].at = "start" => c \notin hungup \cup Range(backlog) \cup Range(chs)
          /\ c \notin hungup \cup Range(chs) => inbox[c] = << >>
    /\ server.at = "read" => /\ server.from \notin hungup
                             /\ client[server.from].at # "start"
                             /\ IF server.naming THEN server.from \notin Range(backlog) \cup Range(chs)
                                ELSE server.from \in Range(chs)

\* What the server has got is the first part of the length, or of the body, of
\* the frame it is reading.
ReaderOK ==
    server.at = "read" =>
        /\ Len(server.got) < server.want
        /\ server.got = Units(Frame, Base, Len(server.got))
        /\ IF server.header THEN server.want = Hdr
           ELSE Frame <= written[server.from] /\ server.want = BodyLen(server.from, Frame)

\* Inductive invariant.
NetInv ==
    /\ NetShape /\ PlacesOK /\ ReaderOK
    /\ \A c \in Clients : WriterOK(c) /\ StreamOK(c) /\ JoinOK(c)

EndsOf == Clients \X {"client", "server"}
OtherEnd(e) == <<e[1], IF e[2] = "client" THEN "server" ELSE "client">>

\* One channel per client, on which only the client writes.
Channels == INSTANCE ReliableChannel WITH
                Ends <- EndsOf, Peer <- OtherEnd,
                written <- [e \in EndsOf |-> IF e[2] = "client" THEN written[e[1]] ELSE 0],
                delivered <- [e \in EndsOf |-> IF e[2] = "server" THEN inbox[e[1]] ELSE << >>]

\* However reads and writes are cut up, and wherever a client crashes, the
\* server gets each message whole, once and in order, and never takes a part of
\* one, or a name, for a message.
TcpImplementsChannel == Channels!ChanSpec

\* A message that a client finished writing reaches the server, whatever becomes
\* of the other clients, unless the endpoint was closed before it was accepted.
\* So no client that crashes in a connect or a write blocks the server.
MessagesArrive ==
    \A c \in Clients : \A n \in 1..Len(Messages[c]) :
        (written[c] >= n /\ client[c].at = "open") ~> (Len(inbox[c]) >= n \/ c \in hungup)
=============================================================================
