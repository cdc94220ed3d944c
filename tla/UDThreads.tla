----------------------------- MODULE UDThreads -----------------------------
(***************************************************************************)
(* The threads of a process on the InfiniBand transport (spawn_net_ib.c):  *)
(* the application, which waits for packets on a condition variable; the   *)
(* receive thread, which sleeps until the completion queue raises an       *)
(* event; the timeout thread, which wakes up periodically to send acks, to *)
(* drain the completion queue and to resend; and the shutdown that the     *)
(* last spawn_net_close runs.                                              *)
(*                                                                         *)
(* What is in the packets is the subject of VirtualChannel and UDConnect:  *)
(* here a packet either is of a kind the application may wait for, or      *)
(* acknowledges one that was sent, or is the SHUTDOWN packet a process sends *)
(* to itself.  A critical section under comm_lock is one step, except that *)
(* the receive thread holds the lock from the end of cq_drain until        *)
(* ibv_req_notify_cq: the hardware does not wait for locks.                *)
(***************************************************************************)
EXTENDS Integers, FiniteSets

CONSTANTS
    Apps,       \* threads of the application ("main thread" in the comments)
    Kinds,      \* what a thread waits for: a VC's packets, an endpoint's requests
    Nobody,     \* the holder of a free lock
    MaxArrive,  \* bound on the packets of each kind
    MaxWrites,  \* bound on the packets the application writes
    Rounds,     \* shutdown_timeout / rdma_ud_progress_timeout
    Cancel      \* SPAWNNET_IBUD_RETRY_CANCEL

ASSUME ThreadsAssumption ==
    /\ Nobody \notin Apps /\ Rounds \in Nat \ {0} /\ Cancel \in BOOLEAN
    /\ {MaxArrive, MaxWrites} \subseteq Nat
    /\ IsFiniteSet(Kinds) /\ Kinds \cap {"send", "ack", "SHUTDOWN"} = {}

VARIABLES
    pc,         \* pc[a]: where thread a of the application is
    target,     \* target[a]: the kinds a waits for
    rpc,        \* where the receive thread is
    tpc,        \* where the timeout thread is
    timer,      \* its rounds since it saw force_shutdown; 0: timer not set
    empty,      \* it found the unacknowledged queue empty
    lock,       \* holder of comm_lock_object
    flag,       \* g_recv_flag
    queue,      \* queue[k]: packets of kind k that were received and not taken
    written,    \* packets the application has written so far
    unack,      \* packets that are not acknowledged (proc.unack_queue)
    oweAck,     \* ack_need_tosend
    posted,     \* num_sends_posted
    forceShutdown, gShutdown,
    cq,         \* cq[c]: completions of class c in the completion queue
    armed,      \* the next completion raises an event
    events,     \* events of the completion channel
    sending,    \* sends the hardware has not completed
    arrived,    \* arrived[k]: packets of kind k that have arrived so far
    shutdown    \* the SHUTDOWN packet: "none", "sent", "arrived" or "lost"

app == <<pc, target, written, forceShutdown>>
rcv == <<rpc, lock>>
tmo == <<tpc, timer, empty>>
sw == <<flag, queue, unack, oweAck, posted, gShutdown>>
hw == <<armed, events, arrived, shutdown>>
vars == <<app, rcv, tmo, sw, hw, cq, sending>>

Classes == Kinds \cup {"send", "ack", "SHUTDOWN"}
NoCompletions == [c \in Classes |-> 0]

Init ==
    /\ pc = [a \in Apps |-> "run"] /\ target = [a \in Apps |-> {}]
    /\ rpc = "start" /\ tpc = "sleep" /\ timer = 0 /\ empty = FALSE
    /\ lock = Nobody /\ flag = FALSE /\ queue = [k \in Kinds |-> 0]
    /\ written = 0 /\ unack = 0 /\ oweAck = FALSE /\ posted = 0
    /\ forceShutdown = FALSE /\ gShutdown = FALSE
    /\ cq = NoCompletions /\ armed = FALSE /\ events = 0 /\ sending = 0
    /\ arrived = [k \in Kinds |-> 0] /\ shutdown = "none"

-----------------------------------------------------------------------------
(* The hardware and the network.                                           *)

\* A completion enters the queue; the first one after ibv_req_notify_cq raises
\* an event.
Complete(c) ==
    /\ cq' = [cq EXCEPT ![c] = @ + 1]
    /\ armed' = FALSE
    /\ events' = IF armed THEN events + 1 ELSE events

Arrive(k) ==
    /\ arrived[k] < MaxArrive
    /\ Complete(k)
    /\ arrived' = [arrived EXCEPT ![k] = @ + 1]
    /\ UNCHANGED <<app, rcv, tmo, sw, sending, shutdown>>

AckArrives ==
    /\ cq["ack"] < unack
    /\ Complete("ack")
    /\ UNCHANGED <<app, rcv, tmo, sw, sending, arrived, shutdown>>

SendCompletes ==
    /\ sending > 0
    /\ Complete("send")
    /\ sending' = sending - 1
    /\ UNCHANGED <<app, rcv, tmo, sw, arrived, shutdown>>

ShutdownArrives ==
    /\ shutdown = "sent"
    /\ Complete("SHUTDOWN")
    /\ shutdown' = "arrived"
    /\ UNCHANGED <<app, rcv, tmo, sw, sending, arrived>>

ShutdownIsLost ==
    /\ shutdown = "sent" /\ shutdown' = "lost"
    /\ UNCHANGED <<app, rcv, tmo, sw, cq, sending, armed, events, arrived>>

-----------------------------------------------------------------------------
(* Parts of critical sections.                                             *)

Asleep(a) == pc[a] = "asleep"

\* pthread_cond_signal: one of the threads that wait wakes up.
Signal(wake) ==
    IF wake /\ \E a \in Apps : Asleep(a)
    THEN \E a \in Apps : Asleep(a) /\ pc' = [pc EXCEPT ![a] = "awake"]
    ELSE UNCHANGED pc

\* Faulty variant: only the last round of cq_poll decides about the signal; it
\* found nothing.
DrainForgets ==
    /\ queue' = [k \in Kinds |-> queue[k] + cq[k]]
    /\ gShutdown' = (gShutdown \/ cq["SHUTDOWN"] > 0)
    /\ unack' = unack - cq["ack"]
    /\ cq' = NoCompletions
    /\ UNCHANGED <<flag, pc>>

\* cq_drain: the completion queue is emptied, and a thread that waits is
\* signalled if a packet came in.  PostSends counts the send completions.
Drain ==
    LET new_recv == \E c \in Classes \ {"send"} : cq[c] > 0
    IN  /\ queue' = [k \in Kinds |-> queue[k] + cq[k]]
        /\ gShutdown' = (gShutdown \/ cq["SHUTDOWN"] > 0)
        /\ unack' = unack - cq["ack"]
        /\ cq' = NoCompletions
        /\ flag' = (flag /\ ~new_recv)
        /\ Signal(flag /\ new_recv)

GotData == \E k \in Kinds : cq[k] > 0

\* n sends are posted; done of the earlier ones have completed.
PostSends(n, done) ==
    /\ posted' = posted + n - done
    /\ sending' = sending + n

\* ud_check_acks sends an ack that is owed.
AckDue(owed) == IF owed THEN 1 ELSE 0

-----------------------------------------------------------------------------
(* The application.                                                        *)

InWait(a) == pc[a] \in {"awake", "asleep"}

\* spawn_net_read_ib, spawn_net_accept_ib and spawn_net_wait_ib start.
StartWait(a, kinds) ==
    /\ pc[a] = "run" /\ ~forceShutdown
    /\ pc' = [pc EXCEPT ![a] = "awake"] /\ target' = [target EXCEPT ![a] = kinds]
    /\ UNCHANGED <<written, forceShutdown, rcv, tmo, sw, hw, cq, sending>>

\* packet_wait, recv_connect_message and the loop of spawn_net_wait_ib: with the
\* lock held, look, and return or wait.  Only spawn_net_wait_ib leaves the packet
\* where it is.
TakeOrSleep(a) ==
    /\ pc[a] = "awake" /\ lock = Nobody
    /\ IF \E k \in target[a] : queue[k] > 0
       THEN /\ \/ /\ Cardinality(target[a]) = 1
                  /\ queue' = [k \in Kinds |-> IF k \in target[a] THEN queue[k] - 1 ELSE queue[k]]
               \/ UNCHANGED queue
            /\ pc' = [pc EXCEPT ![a] = "run"]
            /\ target' = [target EXCEPT ![a] = {}]
            /\ UNCHANGED flag
       ELSE /\ flag' = TRUE
            /\ pc' = [pc EXCEPT ![a] = "asleep"]
            /\ UNCHANGED <<queue, target>>
    /\ UNCHANGED <<written, forceShutdown, rcv, tmo, unack, oweAck, posted, gShutdown,
                   hw, cq, sending>>

\* POSIX allows pthread_cond_wait to return without a signal.
SpuriousWakeup(a) ==
    /\ Asleep(a)
    /\ pc' = [pc EXCEPT ![a] = "awake"]
    /\ UNCHANGED <<target, written, forceShutdown, rcv, tmo, sw, hw, cq, sending>>

\* spawn_net_write_ib.
Write(a) ==
    /\ pc[a] = "run" /\ ~forceShutdown /\ lock = Nobody
    /\ written < MaxWrites
    /\ written' = written + 1 /\ unack' = unack + 1 /\ PostSends(1, 0)
    /\ UNCHANGED <<pc, target, forceShutdown, rcv, tmo, flag, queue, oweAck, gShutdown, hw, cq>>

\* Faulty variant: the receive thread is told to stop while the timeout thread
\* still runs.
CloseInHaste(a) ==
    /\ pc[a] = "run" /\ ~forceShutdown
    /\ \A b \in Apps \ {a} : ~InWait(b)
    /\ forceShutdown' = TRUE /\ pc' = [pc EXCEPT ![a] = "stop receiver"]
    /\ UNCHANGED <<target, written, rcv, tmo, sw, hw, cq, sending>>

\* spawn_net_close_ib of the last endpoint (the others only count down
\* g_count_open): ud_ctx_destroy sets force_shutdown and waits for the timeout
\* thread.
Close(a) ==
    /\ pc[a] = "run" /\ ~forceShutdown
    /\ \A b \in Apps \ {a} : ~InWait(b)
    /\ forceShutdown' = TRUE /\ pc' = [pc EXCEPT ![a] = "join timeout"]
    /\ UNCHANGED <<target, written, rcv, tmo, sw, hw, cq, sending>>

JoinTimeout(a) ==
    /\ pc[a] = "join timeout" /\ tpc = "done"
    /\ pc' = [pc EXCEPT ![a] = "stop receiver"]
    /\ UNCHANGED <<target, written, forceShutdown, rcv, tmo, sw, hw, cq, sending>>

\* packet_send of SHUTDOWN to ourselves.  Nobody looks at the unacknowledged
\* queue any more.
StopReceiver(a) ==
    /\ pc[a] = "stop receiver" /\ lock = Nobody
    /\ pc' = [pc EXCEPT ![a] = "join receiver"]
    /\ shutdown' = "sent" /\ PostSends(1, 0)
    /\ UNCHANGED <<target, written, forceShutdown, rcv, tmo, flag, queue, unack, oweAck,
                   gShutdown, armed, events, arrived, cq>>

\* The threads are gone: the lock and the condition variable are destroyed, and
\* the VCs are freed.
JoinReceiver(a) ==
    /\ pc[a] = "join receiver" /\ rpc = "done"
    /\ pc' = [pc EXCEPT ![a] = "finish"]
    /\ UNCHANGED <<target, written, forceShutdown, rcv, tmo, sw, hw, cq, sending>>

\* The loop that waits for the sends to complete; then all memory is freed.
\* Packets that still arrive find no VC.
Finish(a) ==
    /\ pc[a] = "finish"
    /\ posted' = posted - cq["send"]
    /\ cq' = NoCompletions
    /\ pc' = IF posted' = 0 THEN [pc EXCEPT ![a] = "closed"] ELSE pc
    /\ UNCHANGED <<target, written, forceShutdown, rcv, tmo, flag, queue, unack, oweAck,
                   gShutdown, hw, sending>>

-----------------------------------------------------------------------------
(* The receive thread.                                                     *)

RStart ==
    /\ rpc = "start" /\ lock = Nobody
    /\ lock' = "receiver" /\ rpc' = "arm"
    /\ UNCHANGED <<app, tmo, sw, hw, cq, sending>>

\* ibv_req_notify_cq; the lock is released.
RArm ==
    /\ rpc = "arm"
    /\ armed' = TRUE
    /\ rpc' = "wait" /\ lock' = Nobody
    /\ UNCHANGED <<app, tmo, sw, events, arrived, shutdown, cq, sending>>

\* ibv_get_cq_event.
RGetEvent ==
    /\ rpc = "wait" /\ events > 0
    /\ rpc' = "event"
    /\ UNCHANGED <<app, lock, tmo, sw, hw, cq, sending>>

\* The lock is taken, the event acknowledged and the queue drained.
RDrain ==
    /\ rpc = "event" /\ lock = Nobody
    /\ events' = events - 1
    /\ Drain
    /\ oweAck' = (oweAck \/ GotData)
    /\ PostSends(0, cq["send"])
    /\ IF gShutdown' THEN rpc' = "done" /\ UNCHANGED lock
       ELSE rpc' = "arm" /\ lock' = "receiver"
    /\ UNCHANGED <<target, written, forceShutdown, tmo, armed, arrived, shutdown>>

-----------------------------------------------------------------------------
(* The timeout thread.                                                     *)

\* ud_check_resend: at most one packet, as one whose send is in progress is not
\* sent again.
Resends(left) == IF left > 0 /\ sending = 0 THEN {0, 1} ELSE {0}

\* Faulty variant: draining is left to the receive thread.
TRoundNoDrain ==
    /\ tpc = "sleep" /\ lock = Nobody
    /\ oweAck' = FALSE
    /\ empty' = (unack = 0)
    /\ \E again \in Resends(unack) : PostSends(AckDue(oweAck) + again, 0)
    /\ tpc' = "look"
    /\ UNCHANGED <<app, rcv, timer, flag, queue, unack, gShutdown, hw, cq>>

\* One round under the lock: ud_check_acks, cq_drain, ud_check_resend.
TRound ==
    /\ tpc = "sleep" /\ lock = Nobody
    /\ Drain
    /\ oweAck' = GotData
    /\ empty' = (unack' = 0)
    /\ \E again \in Resends(unack') : PostSends(AckDue(oweAck) + again, cq["send"])
    /\ tpc' = "look"
    /\ UNCHANGED <<target, written, forceShutdown, rcv, timer, hw>>

\* Faulty variant: it waits for the acks however long they take.
TLookPatient ==
    /\ tpc = "look"
    /\ tpc' = IF forceShutdown /\ (Cancel \/ empty) THEN "last" ELSE "sleep"
    /\ UNCHANGED <<app, rcv, timer, empty, sw, hw, cq, sending>>

\* After the round, without the lock: stop once force_shutdown is set and
\* everything is acknowledged, or the shutdown timer has expired.
TLook ==
    /\ tpc = "look"
    /\ \/ /\ ~forceShutdown
          /\ tpc' = "sleep" /\ UNCHANGED timer
       \/ /\ forceShutdown
          /\ Cancel \/ empty \/ timer > 0
          /\ tpc' = "last" /\ UNCHANGED timer
       \/ /\ forceShutdown /\ ~Cancel /\ ~empty /\ timer < Rounds
          /\ tpc' = "sleep" /\ timer' = timer + 1
    /\ UNCHANGED <<app, rcv, empty, sw, hw, cq, sending>>

\* The last drain and the last acks.
TLast ==
    /\ tpc = "last" /\ lock = Nobody
    /\ Drain
    /\ oweAck' = FALSE
    /\ PostSends(AckDue(oweAck \/ GotData), cq["send"])
    /\ tpc' = "done"
    /\ UNCHANGED <<target, written, forceShutdown, rcv, timer, empty, hw>>

-----------------------------------------------------------------------------

Hardware == AckArrives \/ SendCompletes \/ ShutdownArrives

Shutdown(a) == JoinTimeout(a) \/ StopReceiver(a) \/ JoinReceiver(a) \/ Finish(a)

Receiver == RStart \/ RArm \/ RGetEvent \/ RDrain

Timeout == TRound \/ TLook \/ TLast

Next ==
    \/ \E k \in Kinds : Arrive(k)
    \/ Hardware \/ ShutdownIsLost
    \/ \E a \in Apps :
          \/ \E kinds \in SUBSET Kinds \ {{}} : StartWait(a, kinds)
          \/ TakeOrSleep(a) \/ SpuriousWakeup(a)
          \/ Write(a) \/ Close(a) \/ Shutdown(a)
    \/ Receiver \/ Timeout

\* The scheduler runs every thread, and the hardware completes what is posted;
\* whether packets and acks come is up to the network.  A thread that wants the
\* lock gets it although others take it again and again: the receive thread
\* blocks and the timeout thread sleeps between their critical sections.
Fairness ==
    /\ WF_vars(SendCompletes) /\ WF_vars(ShutdownArrives \/ ShutdownIsLost)
    /\ WF_vars(Receiver) /\ WF_vars(Timeout)
    /\ \A a \in Apps : SF_vars(TakeOrSleep(a)) /\ WF_vars(Shutdown(a))

Spec == Init /\ [][Next]_vars /\ Fairness

-----------------------------------------------------------------------------
(* Properties.                                                             *)

\* Type invariant; the counters of sends agree with the hardware.
TypeOK ==
    /\ pc \in [Apps -> {"run", "awake", "asleep", "join timeout", "stop receiver",
                        "join receiver", "finish", "closed"}]
    /\ target \in [Apps -> SUBSET Kinds]
    /\ rpc \in {"start", "arm", "wait", "event", "done"}
    /\ tpc \in {"sleep", "look", "last", "done"}
    /\ timer \in 0..Rounds /\ 0 <= unack /\ unack <= written
    /\ queue \in [Kinds -> 0..MaxArrive] /\ events \in 0..1
    /\ posted = sending + cq["send"]

\* A thread that waits on the condition variable is not left there when a packet
\* it waits for is in its queue: whoever drains the completion queue, and
\* whenever, signals it (g_recv_flag).  For one thread of the application.
NoLostWakeup ==
    \A a \in Apps : Asleep(a) => \A k \in target[a] : queue[k] = 0

\* When the lock, the condition variable and the memory are destroyed, both
\* threads have ended, nobody holds the lock or is to be signalled; when close
\* returns the hardware uses no buffer any more.  num_sends_posted, on which
\* the last close waits, is right all the time (TypeOK).
DestroyedInPeace ==
    /\ TypeOK
    /\ \A a \in Apps :
           /\ pc[a] \in {"finish", "closed"} =>
                 rpc = "done" /\ tpc = "done" /\ lock = Nobody /\ ~flag
           /\ pc[a] = "closed" => sending = 0 /\ posted = 0

\* A read, accept or wait returns once its packet has arrived, although the
\* event of a completion between the last poll of the receive thread and
\* ibv_req_notify_cq never comes: the timeout thread drains the queue.
WaitReturns ==
    \A a \in Apps, k \in Kinds :
        (InWait(a) /\ k \in target[a] /\ cq[k] + queue[k] > 0) ~> ~InWait(a)

\* spawn_net_close returns whether or not the peers acknowledge what they got;
\* the one way it can hang is that the receive thread never sees SHUTDOWN, the
\* packet being lost or its completion in that same gap, as no timeout thread is
\* left to find it.
ShutdownUnseen ==
    /\ tpc = "done" /\ rpc = "wait" /\ events = 0
    /\ shutdown = "lost" \/ cq["SHUTDOWN"] > 0
CloseReturns == forceShutdown ~> (ShutdownUnseen \/ \E a \in Apps : pc[a] = "closed")

-----------------------------------------------------------------------------
(* The inductive invariant behind the safety properties.                   *)

\* What the queues of the hardware and of the process hold, against what has
\* arrived and what was written.
CountsOK ==
    /\ cq \in [Classes -> Nat] /\ {sending, written} \subseteq Nat /\ unack \in Int
    /\ arrived \in [Kinds -> 0..MaxArrive]
    /\ \A k \in Kinds : queue[k] + cq[k] <= arrived[k]
    /\ cq["ack"] <= unack

\* There is at most one event, and the completion queue is not armed while it
\* is there; the receive thread holds the lock only between drain and arm.
EventsOK ==
    /\ armed => rpc = "wait" /\ events = 0
    /\ events = 1 => rpc \in {"wait", "event"}
    /\ rpc = "event" => events = 1
    /\ rpc # "arm" => lock = Nobody

\* The stages of the last close.
HasJoinedTimeout(a) == pc[a] \in {"stop receiver", "join receiver", "finish", "closed"}
HasSentShutdown(a) == pc[a] \in {"join receiver", "finish", "closed"}
IsClosing(a) == pc[a] = "join timeout" \/ HasJoinedTimeout(a)

\* One thread closes, when no other waits; the threads end in turn, and SHUTDOWN
\* is under way only when nobody but the receive thread can drain it.
StagesOK ==
    /\ \A a \in Apps : IsClosing(a) => forceShutdown
    /\ \A a, b \in Apps : IsClosing(a) /\ IsClosing(b) => a = b
    /\ forceShutdown => \A a \in Apps : ~InWait(a)
    /\ \A a \in Apps : HasJoinedTimeout(a) => tpc = "done"
    /\ shutdown # "none" => \E a \in Apps : HasSentShutdown(a)
    /\ cq["SHUTDOWN"] > 0 => shutdown = "arrived"
    /\ gShutdown => rpc = "done"
    /\ rpc = "done" => shutdown = "arrived" /\ ~flag
    /\ \A a \in Apps : pc[a] \in {"finish", "closed"} => rpc = "done"
    /\ \A a \in Apps : pc[a] = "closed" => posted = 0

\* Inductive invariant of the threads.
IInv == TypeOK /\ CountsOK /\ EventsOK /\ StagesOK

\* With one thread of the application: whoever sleeps is to be signalled.
SleepersAreFlagged == \A a \in Apps : Asleep(a) => flag
=============================================================================
