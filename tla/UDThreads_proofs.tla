-------------------------- MODULE UDThreads_proofs --------------------------
(***************************************************************************)
(* Proofs about UDThreads: what the last close destroys is not in use, and *)
(* with one thread of the application no wake-up is lost, for any number   *)
(* of packets, writes and rounds.                                          *)
(*                                                                         *)
(* There is one lemma per group of actions: the hardware, the application, *)
(* the close, the receive thread and the timeout thread.  The critical     *)
(* sections that drain the completion queue share the lemma DrainProps.    *)
(***************************************************************************)
EXTENDS UDThreads, FiniteSetTheorems, TLAPS

-----------------------------------------------------------------------------
(* Operators.                                                              *)

\* The classes of completions differ.
LEMMA ClassesProps ==
    /\ "send" \in Classes /\ "ack" \in Classes /\ "SHUTDOWN" \in Classes
    /\ Kinds \subseteq Classes
    /\ \A k \in Kinds : k # "send" /\ k # "ack" /\ k # "SHUTDOWN"
BY ThreadsAssumption DEF Classes

\* Types of the counters, from the invariant.
LEMMA Counters ==
    ASSUME IInv
    PROVE  /\ cq \in [Classes -> Nat] /\ sending \in Nat /\ written \in Nat
           /\ unack \in Int /\ posted \in Nat /\ posted = sending + cq["send"]
           /\ cq["send"] \in Nat /\ cq["ack"] \in Nat /\ cq["SHUTDOWN"] \in Nat
           /\ \A k \in Kinds : cq[k] \in Nat /\ queue[k] \in Nat /\ arrived[k] \in Nat
           /\ MaxArrive \in Nat
<1>1. /\ cq \in [Classes -> Nat] /\ sending \in Nat /\ written \in Nat /\ unack \in Int
      /\ posted = sending + cq["send"] /\ queue \in [Kinds -> 0..MaxArrive]
      /\ arrived \in [Kinds -> 0..MaxArrive] /\ MaxArrive \in Nat
  BY ThreadsAssumption DEF IInv, TypeOK, CountsOK
<1>2. cq["send"] \in Nat /\ cq["ack"] \in Nat /\ cq["SHUTDOWN"] \in Nat
  BY <1>1, ClassesProps
<1>3. ASSUME NEW k \in Kinds
      PROVE  cq[k] \in Nat /\ queue[k] \in Nat /\ arrived[k] \in Nat
  BY <1>1, ClassesProps
<1>4. QED
  BY <1>1, <1>2, <1>3

\* cq_drain moves every completion to its place and wakes at most one thread.
LEMMA DrainProps ==
    ASSUME IInv, Drain
    PROVE  /\ pc' \in [Apps -> {"run", "awake", "asleep", "join timeout", "stop receiver",
                                "join receiver", "finish", "closed"}]
           /\ \A a \in Apps : pc'[a] = pc[a] \/ (pc[a] = "asleep" /\ pc'[a] = "awake")
           /\ queue' \in [Kinds -> 0..MaxArrive]
           /\ \A k \in Kinds : queue'[k] = queue[k] + cq[k] /\ queue'[k] <= arrived[k]
           /\ cq' = NoCompletions /\ cq' \in [Classes -> Nat]
           /\ \A c \in Classes : cq'[c] = 0
           /\ unack' \in Int /\ 0 <= unack' /\ unack' <= unack
           /\ gShutdown' => gShutdown \/ cq["SHUTDOWN"] > 0
           /\ flag' => flag
           /\ cq["SHUTDOWN"] > 0 => ~flag'
<1>1. pc \in [Apps -> {"run", "awake", "asleep", "join timeout", "stop receiver",
                       "join receiver", "finish", "closed"}]
  BY DEF IInv, TypeOK
<1>2. /\ pc' \in [Apps -> {"run", "awake", "asleep", "join timeout", "stop receiver",
                           "join receiver", "finish", "closed"}]
      /\ \A a \in Apps : pc'[a] = pc[a] \/ (pc[a] = "asleep" /\ pc'[a] = "awake")
  <2>1. CASE UNCHANGED pc
    BY <1>1, <2>1
  <2>2. CASE \E a \in Apps : Asleep(a) /\ pc' = [pc EXCEPT ![a] = "awake"]
    BY <1>1, <2>2 DEF Asleep
  <2>3. QED
    BY <2>1, <2>2 DEF Drain, Signal
<1>3. /\ queue' = [k \in Kinds |-> queue[k] + cq[k]] /\ arrived \in [Kinds -> 0..MaxArrive]
      /\ \A k \in Kinds : queue[k] + cq[k] <= arrived[k]
  BY DEF Drain, IInv, CountsOK
<1>4. ASSUME NEW k \in Kinds
      PROVE  queue'[k] = queue[k] + cq[k] /\ queue'[k] <= arrived[k] /\ queue'[k] \in 0..MaxArrive
  <2>1. queue'[k] = queue[k] + cq[k] /\ arrived[k] \in 0..MaxArrive
    BY <1>3
  <2>2. QED
    BY <1>3, <2>1, Counters
<1>5. queue' \in [Kinds -> 0..MaxArrive]
  BY <1>3, <1>4
<1>6. cq' = NoCompletions /\ cq' \in [Classes -> Nat] /\ \A c \in Classes : cq'[c] = 0
  BY DEF Drain, NoCompletions
<1>7. unack' \in Int /\ 0 <= unack' /\ unack' <= unack
  <2>1. unack' = unack - cq["ack"] /\ cq["ack"] <= unack
    BY DEF Drain, IInv, CountsOK
  <2>2. QED
    BY <2>1, Counters
<1>8. (flag' => flag) /\ (cq["SHUTDOWN"] > 0 => ~flag')
  BY ClassesProps DEF Drain
<1>9. gShutdown' => gShutdown \/ cq["SHUTDOWN"] > 0
  BY DEF Drain
<1>10. QED
  BY <1>2, <1>4, <1>5, <1>6, <1>7, <1>8, <1>9

-----------------------------------------------------------------------------
(* The hardware.                                                           *)

\* What a completion does to the queue and to the events.
LEMMA CompleteProps ==
    ASSUME IInv, NEW c \in Classes, Complete(c), rpc' = rpc, lock' = lock
    PROVE  /\ EventsOK' /\ events' \in 0..1
           /\ cq' \in [Classes -> Nat] /\ cq'[c] = cq[c] + 1
           /\ \A d \in Classes : d # c => cq'[d] = cq[d]
<1>1. events \in 0..1 /\ EventsOK /\ cq \in [Classes -> Nat]
  BY DEF IInv, TypeOK, CountsOK
<1>2. cq' = [cq EXCEPT ![c] = @ + 1] /\ armed' = FALSE
      /\ events' = IF armed THEN events + 1 ELSE events
  BY DEF Complete
<1>3. EventsOK' /\ events' \in 0..1
  BY <1>1, <1>2 DEF EventsOK
<1>4. QED
  BY <1>1, <1>2, <1>3

\* A packet, an acknowledgement, a send or SHUTDOWN completes, or SHUTDOWN is lost.
LEMMA HardwareStep ==
    ASSUME IInv, \/ \E k \in Kinds : Arrive(k)
                 \/ Hardware \/ ShutdownIsLost
    PROVE  IInv'
<1> USE DEF app, rcv, tmo, sw, hw
<1>0. TypeOK /\ CountsOK /\ EventsOK /\ StagesOK
  BY DEF IInv
<1>1. ASSUME NEW k \in Kinds, Arrive(k)
      PROVE  IInv'
  <2>0. Complete(k) /\ arrived[k] < MaxArrive /\ arrived' = [arrived EXCEPT ![k] = @ + 1]
    BY <1>1 DEF Arrive
  <2>1. /\ EventsOK' /\ events' \in 0..1 /\ cq' \in [Classes -> Nat] /\ cq'[k] = cq[k] + 1
        /\ \A d \in Classes : d # k => cq'[d] = cq[d]
    BY <1>1, <2>0, ClassesProps, CompleteProps DEF Arrive
  <2>2. cq'["send"] = cq["send"] /\ cq'["ack"] = cq["ack"] /\ cq'["SHUTDOWN"] = cq["SHUTDOWN"]
    BY <2>1, ClassesProps
  <2>3. TypeOK'
    BY <1>0, <1>1, <2>1, <2>2 DEF TypeOK, Arrive
  <2>4. CountsOK'
    <3>1. arrived' \in [Kinds -> 0..MaxArrive]
      BY <1>0, <2>0, Counters DEF CountsOK
    <3>2. ASSUME NEW j \in Kinds
          PROVE  queue'[j] + cq'[j] <= arrived'[j]
      <4>1. CASE j = k
        <5>1. arrived'[j] = arrived[j] + 1 /\ cq'[j] = cq[j] + 1 /\ queue'[j] = queue[j]
          BY <1>0, <1>1, <2>0, <2>1, <4>1 DEF CountsOK, Arrive
        <5>2. QED
          BY <1>0, <5>1, Counters DEF CountsOK
      <4>2. CASE j # k
        BY <1>0, <1>1, <2>0, <2>1, <4>2, ClassesProps DEF CountsOK, Arrive
      <4>3. QED
        BY <4>1, <4>2
    <3>3. QED
      BY <1>0, <1>1, <2>1, <2>2, <3>1, <3>2 DEF CountsOK, Arrive
  <2>5. StagesOK'
    BY <1>0, <1>1, <2>2 DEF StagesOK, Arrive, IsClosing, HasJoinedTimeout, HasSentShutdown, InWait
  <2>6. QED
    BY <2>1, <2>3, <2>4, <2>5 DEF IInv
<1>2. CASE AckArrives
  <2>1. /\ EventsOK' /\ events' \in 0..1 /\ cq' \in [Classes -> Nat] /\ cq'["ack"] = cq["ack"] + 1
        /\ \A d \in Classes : d # "ack" => cq'[d] = cq[d]
    BY <1>2, ClassesProps, CompleteProps DEF AckArrives
  <2>2. /\ cq'["send"] = cq["send"] /\ cq'["SHUTDOWN"] = cq["SHUTDOWN"]
        /\ \A k \in Kinds : cq'[k] = cq[k]
    BY <2>1, ClassesProps
  <2>3. TypeOK'
    BY <1>0, <1>2, <2>1, <2>2 DEF TypeOK, AckArrives
  <2>4. cq'["ack"] <= unack'
    BY <1>2, <2>1, Counters DEF AckArrives
  <2>5. CountsOK'
    BY <1>0, <1>2, <2>1, <2>2, <2>4 DEF CountsOK, AckArrives
  <2>6. StagesOK'
    BY <1>0, <1>2, <2>2 DEF StagesOK, AckArrives, IsClosing, HasJoinedTimeout, HasSentShutdown, InWait
  <2>7. QED
    BY <2>1, <2>3, <2>5, <2>6 DEF IInv
<1>3. CASE SendCompletes
  <2>1. /\ EventsOK' /\ events' \in 0..1 /\ cq' \in [Classes -> Nat] /\ cq'["send"] = cq["send"] + 1
        /\ \A d \in Classes : d # "send" => cq'[d] = cq[d]
    BY <1>3, ClassesProps, CompleteProps DEF SendCompletes
  <2>2. /\ cq'["ack"] = cq["ack"] /\ cq'["SHUTDOWN"] = cq["SHUTDOWN"]
        /\ \A k \in Kinds : cq'[k] = cq[k]
    BY <2>1, ClassesProps
  <2>3. sending' \in Nat /\ posted' = sending' + cq'["send"]
    BY <1>3, <2>1, Counters DEF SendCompletes
  <2>4. TypeOK'
    BY <1>0, <1>3, <2>1, <2>3 DEF TypeOK, SendCompletes
  <2>5. CountsOK'
    BY <1>0, <1>3, <2>1, <2>2, <2>3 DEF CountsOK, SendCompletes
  <2>6. StagesOK'
    BY <1>0, <1>3, <2>2 DEF StagesOK, SendCompletes, IsClosing, HasJoinedTimeout, HasSentShutdown, InWait
  <2>7. QED
    BY <2>1, <2>4, <2>5, <2>6 DEF IInv
<1>4. CASE ShutdownArrives
  <2>1. /\ EventsOK' /\ events' \in 0..1 /\ cq' \in [Classes -> Nat]
        /\ \A d \in Classes : d # "SHUTDOWN" => cq'[d] = cq[d]
    BY <1>4, ClassesProps, CompleteProps DEF ShutdownArrives
  <2>2. /\ cq'["ack"] = cq["ack"] /\ cq'["send"] = cq["send"]
        /\ \A k \in Kinds : cq'[k] = cq[k]
    BY <2>1, ClassesProps
  <2>4. TypeOK'
    BY <1>0, <1>4, <2>1, <2>2 DEF TypeOK, ShutdownArrives
  <2>5. CountsOK'
    BY <1>0, <1>4, <2>1, <2>2 DEF CountsOK, ShutdownArrives
  <2>6. StagesOK'
    BY <1>0, <1>4 DEF StagesOK, ShutdownArrives, IsClosing, HasJoinedTimeout, HasSentShutdown, InWait
  <2>7. QED
    BY <2>1, <2>4, <2>5, <2>6 DEF IInv
<1>5. CASE ShutdownIsLost
  <2>1. cq["SHUTDOWN"] = 0 /\ rpc # "done"
    BY <1>0, <1>5, Counters DEF StagesOK, ShutdownIsLost
  <2>2. StagesOK'
    BY <1>0, <1>5, <2>1 DEF StagesOK, ShutdownIsLost, IsClosing, HasJoinedTimeout, HasSentShutdown, InWait
  <2>3. TypeOK' /\ CountsOK' /\ EventsOK'
    BY <1>0, <1>5 DEF TypeOK, CountsOK, EventsOK, ShutdownIsLost
  <2>4. QED
    BY <2>2, <2>3 DEF IInv
<1>6. QED
  BY <1>1, <1>2, <1>3, <1>4, <1>5 DEF Hardware

-----------------------------------------------------------------------------
(* The application.                                                        *)

\* Once the process is closing, nobody waits, and who closes is alone.
LEMMA ClosingProps ==
    ASSUME IInv
    PROVE  /\ \A a \in Apps : pc[a] = "run" /\ ~forceShutdown => \A b \in Apps : ~IsClosing(b)
           /\ \A a \in Apps : InWait(a) => ~forceShutdown
           /\ ~forceShutdown => /\ \A b \in Apps : ~IsClosing(b)
                                /\ shutdown = "none" /\ rpc # "done" /\ ~gShutdown
                                /\ cq["SHUTDOWN"] = 0
           /\ tpc # "done" => /\ \A b \in Apps : ~HasJoinedTimeout(b)
                              /\ shutdown = "none" /\ rpc # "done" /\ ~gShutdown
                              /\ cq["SHUTDOWN"] = 0
<1>0. StagesOK /\ cq["SHUTDOWN"] \in Nat
  BY Counters DEF IInv
<1>1. \A a \in Apps : HasSentShutdown(a) => IsClosing(a) /\ HasJoinedTimeout(a)
  BY DEF HasSentShutdown, IsClosing, HasJoinedTimeout
<1>2. (\A a \in Apps : ~HasSentShutdown(a)) =>
          shutdown = "none" /\ rpc # "done" /\ ~gShutdown /\ cq["SHUTDOWN"] = 0
  <2>1. ASSUME \A a \in Apps : ~HasSentShutdown(a)
        PROVE  shutdown = "none"
    BY <1>0, <2>1 DEF StagesOK
  <2>2. shutdown = "none" => rpc # "done" /\ ~gShutdown /\ cq["SHUTDOWN"] = 0
    BY <1>0 DEF StagesOK
  <2>3. QED
    BY <2>1, <2>2
<1>3. /\ ~forceShutdown => \A a \in Apps : ~IsClosing(a)
      /\ tpc # "done" => \A a \in Apps : ~HasJoinedTimeout(a)
      /\ \A a \in Apps : InWait(a) => ~forceShutdown
  BY <1>0 DEF StagesOK
<1>4. QED
  BY <1>1, <1>2, <1>3

\* A thread of the application waits, takes a packet, wakes up or writes.
LEMMA AppStep ==
    ASSUME IInv, NEW a \in Apps,
           \/ \E kinds \in SUBSET Kinds \ {{}} : StartWait(a, kinds)
           \/ TakeOrSleep(a) \/ SpuriousWakeup(a) \/ Write(a)
    PROVE  IInv'
<1> USE DEF app, rcv, tmo, sw, hw
<1>0. TypeOK /\ CountsOK /\ EventsOK /\ StagesOK
  BY DEF IInv
<1>1. ASSUME NEW kinds \in SUBSET Kinds \ {{}}, StartWait(a, kinds)
      PROVE  IInv'
  <2>1. TypeOK' /\ CountsOK' /\ EventsOK'
    BY <1>0, <1>1 DEF TypeOK, CountsOK, EventsOK, StartWait
  <2>2. pc' = [pc EXCEPT ![a] = "awake"] /\ pc[a] = "run" /\ ~forceShutdown
    BY <1>1 DEF StartWait
  <2>3. /\ \A b \in Apps : ~IsClosing(b) /\ ~HasJoinedTimeout(b) /\ ~HasSentShutdown(b)
        /\ shutdown = "none" /\ rpc # "done" /\ ~gShutdown /\ cq["SHUTDOWN"] = 0
    BY <2>2, ClosingProps DEF IsClosing, HasJoinedTimeout, HasSentShutdown
  <2>4. \A b \in Apps : pc'[b] = pc[b] \/ pc'[b] = "awake"
    BY <1>0, <2>2 DEF TypeOK
  <2>5. StagesOK'
    BY <1>0, <1>1, <2>2, <2>3, <2>4
       DEF StagesOK, StartWait, IsClosing, HasJoinedTimeout, HasSentShutdown, InWait
  <2>6. QED
    BY <2>1, <2>5 DEF IInv
<1>2. CASE TakeOrSleep(a)
  <2>1. ~forceShutdown
    BY <1>2, ClosingProps DEF TakeOrSleep, InWait
  <2>2. /\ \A b \in Apps : ~IsClosing(b) /\ ~HasJoinedTimeout(b) /\ ~HasSentShutdown(b)
        /\ shutdown = "none" /\ rpc # "done" /\ ~gShutdown /\ cq["SHUTDOWN"] = 0
    BY <2>1, ClosingProps DEF IsClosing, HasJoinedTimeout, HasSentShutdown
  <2>3. \A b \in Apps : pc'[b] = pc[b] \/ pc'[b] \in {"run", "asleep"}
    BY <1>0, <1>2 DEF TypeOK, TakeOrSleep
  <2>4. StagesOK'
    BY <1>0, <1>2, <2>1, <2>2, <2>3
       DEF StagesOK, TakeOrSleep, IsClosing, HasJoinedTimeout, HasSentShutdown, InWait
  <2>5. queue' \in [Kinds -> 0..MaxArrive] /\ \A k \in Kinds : queue'[k] <= queue[k]
    <3>1. CASE queue' = queue
      <4>1. queue \in [Kinds -> 0..MaxArrive] /\ \A k \in Kinds : queue[k] \in Nat
        BY <1>0, Counters DEF TypeOK
      <4>2. QED
        BY <3>1, <4>1
    <3>2. CASE /\ \E k \in target[a] : queue[k] > 0
               /\ Cardinality(target[a]) = 1
               /\ queue' = [k \in Kinds |-> IF k \in target[a] THEN queue[k] - 1 ELSE queue[k]]
      <4>0. target[a] \subseteq Kinds /\ queue \in [Kinds -> 0..MaxArrive]
        BY <1>0 DEF TypeOK
      <4>1. PICK k0 \in target[a] : queue[k0] > 0
        BY <3>2
      <4>2. IsFiniteSet(target[a])
        BY <4>0, ThreadsAssumption, FS_Subset
      <4>3. PICK x : target[a] = {x}
        BY <3>2, <4>2, FS_Singleton
      <4>4. target[a] = {k0}
        BY <4>1, <4>3
      <4>5. \A k \in Kinds : queue'[k] = IF k = k0 THEN queue[k] - 1 ELSE queue[k]
        BY <3>2, <4>4
      <4>6. \A k \in Kinds : queue'[k] \in 0..MaxArrive /\ queue'[k] <= queue[k]
        BY <4>0, <4>1, <4>5, Counters
      <4>7. QED
        BY <3>2, <4>6
    <3>3. QED
      BY <1>2, <3>1, <3>2 DEF TakeOrSleep
  <2>6. TypeOK'
    BY <1>0, <1>2, <2>5 DEF TypeOK, TakeOrSleep
  <2>7. CountsOK'
    <3>1. \A k \in Kinds : queue'[k] \in Nat
      BY <2>5, Counters
    <3>2. \A k \in Kinds : queue'[k] + cq[k] <= arrived[k]
      BY <1>0, <2>5, <3>1, Counters DEF CountsOK
    <3>3. QED
      BY <1>0, <1>2, <3>2 DEF CountsOK, TakeOrSleep
  <2>8. EventsOK'
    BY <1>0, <1>2 DEF EventsOK, TakeOrSleep
  <2>9. QED
    BY <2>4, <2>6, <2>7, <2>8 DEF IInv
<1>3. CASE SpuriousWakeup(a)
  <2>1. TypeOK' /\ CountsOK' /\ EventsOK'
    BY <1>0, <1>3 DEF TypeOK, CountsOK, EventsOK, SpuriousWakeup
  <2>2. \A b \in Apps : pc'[b] = pc[b] \/ (pc[b] = "asleep" /\ pc'[b] = "awake")
    BY <1>0, <1>3 DEF TypeOK, SpuriousWakeup, Asleep
  <2>1a. ~forceShutdown /\ ~forceShutdown'
    BY <1>3, ClosingProps DEF SpuriousWakeup, Asleep, InWait
  <2>1b. /\ \A b \in Apps : ~IsClosing(b) /\ ~HasJoinedTimeout(b) /\ ~HasSentShutdown(b)
        /\ shutdown = "none" /\ rpc # "done" /\ ~gShutdown /\ cq["SHUTDOWN"] = 0
    BY <2>1a, ClosingProps DEF IsClosing, HasJoinedTimeout, HasSentShutdown
  <2>3. StagesOK'
    BY <1>0, <1>3, <2>1a, <2>1b, <2>2
       DEF StagesOK, SpuriousWakeup, IsClosing, HasJoinedTimeout, HasSentShutdown, InWait
  <2>4. QED
    BY <2>1, <2>3 DEF IInv
<1>4. CASE Write(a)
  <2>1. sending' \in Nat /\ posted' = sending' + cq'["send"] /\ written' \in Nat /\ unack' \in Int
        /\ 0 <= unack' /\ unack' <= written' /\ cq'["ack"] <= unack'
    <3>1. /\ sending' = sending + 1 /\ posted' = posted + 1 - 0 /\ cq' = cq
          /\ written' = written + 1 /\ unack' = unack + 1
      BY <1>4 DEF Write, PostSends
    <3>2. 0 <= unack /\ unack <= written /\ cq["ack"] <= unack
      BY <1>0 DEF TypeOK, CountsOK
    <3>3. QED
      BY <3>1, <3>2, Counters
  <2>2. TypeOK' /\ CountsOK' /\ EventsOK'
    BY <1>0, <1>4, <2>1 DEF TypeOK, CountsOK, EventsOK, Write
  <2>3. ~forceShutdown
    BY <1>4 DEF Write
  <2>4. \A b \in Apps : pc[b] # "closed"
    BY <2>3, ClosingProps DEF IsClosing, HasJoinedTimeout
  <2>5. StagesOK'
    BY <1>0, <1>4, <2>4
       DEF StagesOK, Write, IsClosing, HasJoinedTimeout, HasSentShutdown, InWait
  <2>6. QED
    BY <2>2, <2>5 DEF IInv
<1>5. QED
  BY <1>1, <1>2, <1>3, <1>4

-----------------------------------------------------------------------------
(* The last close.                                                         *)

LEMMA CloseStep ==
    ASSUME IInv, NEW a \in Apps, Close(a) \/ Shutdown(a)
    PROVE  IInv'
<1> USE DEF app, rcv, tmo, sw, hw
<1>0. TypeOK /\ CountsOK /\ EventsOK /\ StagesOK
  BY DEF IInv
<1>1. CASE Close(a)
  <2>1. TypeOK' /\ CountsOK' /\ EventsOK'
    BY <1>0, <1>1 DEF TypeOK, CountsOK, EventsOK, Close
  <2>2. /\ pc' = [pc EXCEPT ![a] = "join timeout"] /\ pc[a] = "run"
        /\ ~forceShutdown /\ forceShutdown' /\ \A b \in Apps \ {a} : ~InWait(b)
    BY <1>1 DEF Close
  <2>3. /\ \A b \in Apps : ~IsClosing(b)
        /\ shutdown = "none" /\ rpc # "done" /\ ~gShutdown /\ cq["SHUTDOWN"] = 0
    BY <2>2, ClosingProps
  <2>4. pc'[a] = "join timeout" /\ \A b \in Apps : b # a => pc'[b] = pc[b]
    BY <1>0, <2>2 DEF TypeOK
  <2>5. StagesOK'
    BY <1>0, <1>1, <2>2, <2>3, <2>4
       DEF StagesOK, Close, IsClosing, HasJoinedTimeout, HasSentShutdown, InWait
  <2>6. QED
    BY <2>1, <2>5 DEF IInv
<1>2. CASE JoinTimeout(a)
  <2>1. TypeOK' /\ CountsOK' /\ EventsOK'
    BY <1>0, <1>2 DEF TypeOK, CountsOK, EventsOK, JoinTimeout
  <2>2. pc[a] = "join timeout" /\ pc'[a] = "stop receiver" /\ \A b \in Apps : b # a => pc'[b] = pc[b]
    BY <1>0, <1>2 DEF TypeOK, JoinTimeout
  <2>3. StagesOK'
    BY ZenonT(60), <1>0, <1>2, <2>2
       DEF StagesOK, JoinTimeout, IsClosing, HasJoinedTimeout, HasSentShutdown, InWait
  <2>4. QED
    BY <2>1, <2>3 DEF IInv
<1>3. CASE StopReceiver(a)
  <2>0. sending' = sending + 1 /\ posted' = posted + 1 - 0 /\ cq' = cq
    BY <1>3 DEF StopReceiver, PostSends
  <2>1. sending' \in Nat /\ posted' = sending' + cq'["send"]
    BY <2>0, Counters
  <2>2. TypeOK' /\ CountsOK' /\ EventsOK'
    BY <1>0, <1>3, <2>1 DEF TypeOK, CountsOK, EventsOK, StopReceiver
  <2>3. pc[a] = "stop receiver" /\ pc'[a] = "join receiver" /\ \A b \in Apps : b # a => pc'[b] = pc[b]
    BY <1>0, <1>3 DEF TypeOK, StopReceiver
  <2>4. \A b \in Apps : ~HasSentShutdown(b)
    BY <1>0, <2>3 DEF StagesOK, IsClosing, HasJoinedTimeout, HasSentShutdown
  <2>5. shutdown = "none" /\ cq["SHUTDOWN"] = 0 /\ rpc # "done" /\ ~gShutdown
    BY <1>0, <2>4, Counters DEF StagesOK
  <2>6. StagesOK'
    BY ZenonT(60), <1>0, <1>3, <2>3, <2>4, <2>5
       DEF StagesOK, StopReceiver, IsClosing, HasJoinedTimeout, HasSentShutdown, InWait
  <2>7. QED
    BY <2>2, <2>6 DEF IInv
<1>4. CASE JoinReceiver(a)
  <2>1. TypeOK' /\ CountsOK' /\ EventsOK'
    BY <1>0, <1>4 DEF TypeOK, CountsOK, EventsOK, JoinReceiver
  <2>2. pc[a] = "join receiver" /\ pc'[a] = "finish" /\ \A b \in Apps : b # a => pc'[b] = pc[b]
    BY <1>0, <1>4 DEF TypeOK, JoinReceiver
  <2>3. StagesOK'
    BY ZenonT(60), <1>0, <1>4, <2>2
       DEF StagesOK, JoinReceiver, IsClosing, HasJoinedTimeout, HasSentShutdown, InWait
  <2>4. QED
    BY <2>1, <2>3 DEF IInv
<1>5. CASE Finish(a)
  <2>1. cq' \in [Classes -> Nat] /\ \A c \in Classes : cq'[c] = 0
    BY <1>5 DEF Finish, NoCompletions
  <2>2. /\ cq'["send"] = 0 /\ cq'["ack"] = 0 /\ cq'["SHUTDOWN"] = 0
        /\ \A k \in Kinds : cq'[k] = 0
    BY <2>1, ClassesProps
  <2>3. posted' = sending' + cq'["send"]
    BY <1>5, <2>2, Counters DEF Finish
  <2>4. /\ pc[a] = "finish" /\ pc' \in [Apps -> {"run", "awake", "asleep", "join timeout", "stop receiver",
                                         "join receiver", "finish", "closed"}]
        /\ \A b \in Apps : b # a => pc'[b] = pc[b]
        /\ pc'[a] = "finish" \/ (pc'[a] = "closed" /\ posted' = 0)
    BY <1>0, <1>5 DEF TypeOK, Finish
  <2>5. TypeOK'
    BY <1>0, <1>5, <2>3, <2>4 DEF TypeOK, Finish
  <2>6. CountsOK'
    <3>1. \A k \in Kinds : queue'[k] + cq'[k] <= arrived'[k]
      <4>1. TAKE k \in Kinds
      <4>2. queue[k] + cq[k] <= arrived[k] /\ cq'[k] = 0
        BY <1>0, <2>2 DEF CountsOK
      <4>3. queue[k] \in Nat /\ cq[k] \in Nat /\ arrived[k] \in Nat
        BY Counters
      <4>4. queue' = queue /\ arrived' = arrived
        BY <1>5 DEF Finish
      <4>5. QED
        BY <4>2, <4>3, <4>4
    <3>2. cq'["ack"] <= unack'
      BY <1>0, <1>5, <2>2, Counters DEF CountsOK, Finish
    <3>3. QED
      BY <1>0, <1>5, <2>1, <3>1, <3>2 DEF CountsOK, Finish
  <2>7. EventsOK'
    BY <1>0, <1>5 DEF EventsOK, Finish
  <2>8. \A b \in Apps : b # a => pc[b] # "closed"
    BY <1>0, <2>4 DEF StagesOK, IsClosing, HasJoinedTimeout
  <2>9. StagesOK'
    BY ZenonT(60), <1>0, <1>5, <2>2, <2>4, <2>8
       DEF StagesOK, Finish, IsClosing, HasJoinedTimeout, HasSentShutdown, InWait
  <2>10. QED
    BY <2>5, <2>6, <2>7, <2>9 DEF IInv
<1>6. QED
  BY <1>1, <1>2, <1>3, <1>4, <1>5 DEF Shutdown

-----------------------------------------------------------------------------
(* The progress threads.                                                   *)

\* What a critical section that drains keeps, whoever runs it.
LEMMA DrainKeeps ==
    ASSUME IInv, Drain, NEW n \in Nat, PostSends(n, cq["send"]),
           UNCHANGED <<target, written, forceShutdown, arrived, shutdown>>
    PROVE  /\ CountsOK' /\ posted' = sending' + cq'["send"]
           /\ 0 <= unack' /\ unack' <= written' /\ cq'["SHUTDOWN"] = 0
           /\ \A a \in Apps : /\ IsClosing(a)' <=> IsClosing(a)
                              /\ HasJoinedTimeout(a)' <=> HasJoinedTimeout(a)
                              /\ HasSentShutdown(a)' <=> HasSentShutdown(a)
                              /\ InWait(a)' <=> InWait(a)
                              /\ pc'[a] \in {"finish", "closed"} => pc'[a] = pc[a]
<1>1. cq'["send"] = 0 /\ cq'["ack"] = 0 /\ cq'["SHUTDOWN"] = 0 /\ \A k \in Kinds : cq'[k] = 0
  BY ClassesProps, DrainProps
<1>2. sending' \in Nat /\ posted' = sending' + cq'["send"]
  <2>1. posted' = posted + n - cq["send"] /\ sending' = sending + n
    BY DEF PostSends
  <2>2. QED
    BY <1>1, <2>1, Counters
<1>3. unack' \in Int /\ 0 <= unack' /\ unack' <= unack /\ unack <= written /\ written \in Nat
  BY DrainProps, Counters DEF IInv, TypeOK
<1>4. unack' <= written'
  BY <1>3, Counters
<1>5. CountsOK'
  <2>1. \A k \in Kinds : queue'[k] + cq'[k] <= arrived'[k]
    <3>1. TAKE k \in Kinds
    <3>2. queue'[k] \in 0..MaxArrive /\ queue'[k] <= arrived[k] /\ cq'[k] = 0 /\ MaxArrive \in Nat
      BY <1>1, DrainProps, Counters
    <3>3. arrived[k] \in Nat
      BY Counters
    <3>4. QED
      BY <3>2, <3>3
  <2>2. cq' \in [Classes -> Nat] /\ arrived' \in [Kinds -> 0..MaxArrive]
    BY DrainProps DEF IInv, CountsOK
  <2>3. QED
    BY <1>1, <1>2, <1>3, <2>1, <2>2 DEF CountsOK
<1>6. ASSUME NEW a \in Apps
      PROVE  /\ IsClosing(a)' <=> IsClosing(a)
             /\ HasJoinedTimeout(a)' <=> HasJoinedTimeout(a)
             /\ HasSentShutdown(a)' <=> HasSentShutdown(a)
             /\ InWait(a)' <=> InWait(a)
             /\ pc'[a] \in {"finish", "closed"} => pc'[a] = pc[a]
  <2>1. pc'[a] = pc[a] \/ (pc[a] = "asleep" /\ pc'[a] = "awake")
    BY DrainProps
  <2>2. QED
    BY <2>1 DEF IsClosing, HasJoinedTimeout, HasSentShutdown, InWait
<1>7. QED
  BY <1>1, <1>2, <1>3, <1>4, <1>5, <1>6

\* The receive thread.
LEMMA ReceiverStep ==
    ASSUME IInv, Receiver
    PROVE  IInv'
<1> USE DEF app, rcv, tmo, sw, hw
<1>0. TypeOK /\ CountsOK /\ EventsOK /\ StagesOK
  BY DEF IInv
<1>1. CASE RStart
  <2>1. TypeOK' /\ CountsOK' /\ EventsOK'
    BY <1>0, <1>1 DEF TypeOK, CountsOK, EventsOK, RStart
  <2>2. StagesOK'
    BY <1>0, <1>1 DEF StagesOK, RStart, IsClosing, HasJoinedTimeout, HasSentShutdown, InWait
  <2>3. QED
    BY <2>1, <2>2 DEF IInv
<1>2. CASE RArm
  <2>0a. events \in 0..1
    BY <1>0 DEF TypeOK
  <2>0. events = 0 \/ events = 1
    BY <2>0a
  <2>1a. TypeOK' /\ CountsOK'
    BY <1>0, <1>2 DEF TypeOK, CountsOK, RArm
  <2>1b. EventsOK'
    BY <1>0, <1>2, <2>0 DEF EventsOK, RArm
  <2>1. TypeOK' /\ CountsOK' /\ EventsOK'
    BY <2>1a, <2>1b
  <2>2. StagesOK'
    BY <1>0, <1>2 DEF StagesOK, RArm, IsClosing, HasJoinedTimeout, HasSentShutdown, InWait
  <2>3. QED
    BY <2>1, <2>2 DEF IInv
<1>3. CASE RGetEvent
  <2>0a. events \in 0..1
    BY <1>0 DEF TypeOK
  <2>0. events = 0 \/ events = 1
    BY <2>0a
  <2>1a. TypeOK' /\ CountsOK'
    BY <1>0, <1>3 DEF TypeOK, CountsOK, RGetEvent
  <2>1b. EventsOK'
    BY <1>0, <1>3, <2>0 DEF EventsOK, RGetEvent
  <2>1. TypeOK' /\ CountsOK' /\ EventsOK'
    BY <2>1a, <2>1b
  <2>2. StagesOK'
    BY <1>0, <1>3 DEF StagesOK, RGetEvent, IsClosing, HasJoinedTimeout, HasSentShutdown, InWait
  <2>3. QED
    BY <2>1, <2>2 DEF IInv
<1>4. CASE RDrain
  <2>0. /\ rpc = "event" /\ lock = Nobody /\ events' = events - 1 /\ Drain
        /\ PostSends(0, cq["send"])
        /\ IF gShutdown' THEN rpc' = "done" /\ UNCHANGED lock ELSE rpc' = "arm" /\ lock' = "receiver"
        /\ UNCHANGED <<target, written, forceShutdown, tpc, timer, empty, armed, arrived, shutdown>>
    BY <1>4 DEF RDrain
  <2>1. /\ CountsOK' /\ posted' = sending' + cq'["send"]
        /\ 0 <= unack' /\ unack' <= written' /\ cq'["SHUTDOWN"] = 0
        /\ \A a \in Apps : /\ IsClosing(a)' <=> IsClosing(a)
                           /\ HasJoinedTimeout(a)' <=> HasJoinedTimeout(a)
                           /\ HasSentShutdown(a)' <=> HasSentShutdown(a)
                           /\ InWait(a)' <=> InWait(a)
                           /\ pc'[a] \in {"finish", "closed"} => pc'[a] = pc[a]
    BY <2>0, DrainKeeps
  <2>2. events = 1 /\ ~armed /\ ~gShutdown
    BY <1>0, <2>0 DEF EventsOK, StagesOK
  <2>3. TypeOK'
    <3>1. events' \in 0..1 /\ rpc' \in {"start", "arm", "wait", "event", "done"}
      BY <2>0, <2>2
    <3>2. queue' \in [Kinds -> 0..MaxArrive]
          /\ pc' \in [Apps -> {"run", "awake", "asleep", "join timeout", "stop receiver",
                               "join receiver", "finish", "closed"}]
      BY <2>0, DrainProps
    <3>3. QED
      BY <1>0, <2>0, <2>1, <3>1, <3>2 DEF TypeOK
  <2>4. EventsOK'
    BY <2>0, <2>2 DEF EventsOK
  <2>5. gShutdown' => cq["SHUTDOWN"] > 0 /\ ~flag'
    BY <2>0, <2>2, DrainProps
  <2>6. \A a \in Apps : pc[a] \notin {"finish", "closed"}
    BY <1>0, <2>0 DEF StagesOK
  <2>7. StagesOK'
    <3>1. /\ \A a \in Apps : IsClosing(a)' => forceShutdown'
          /\ \A a, b \in Apps : IsClosing(a)' /\ IsClosing(b)' => a = b
          /\ forceShutdown' => \A a \in Apps : ~InWait(a)'
          /\ \A a \in Apps : HasJoinedTimeout(a)' => tpc' = "done"
          /\ shutdown' # "none" => \E a \in Apps : HasSentShutdown(a)'
      BY <1>0, <2>0, <2>1 DEF StagesOK
    <3>2. rpc' = "done" => gShutdown' /\ shutdown' = "arrived" /\ ~flag'
      BY <1>0, <2>0, <2>5 DEF StagesOK
    <3>3. \A a \in Apps : pc'[a] \notin {"finish", "closed"}
      BY <2>1, <2>6
    <3>4. (cq'["SHUTDOWN"] > 0 => shutdown' = "arrived") /\ (gShutdown' => rpc' = "done")
      BY <2>0, <2>1
    <3>5. QED
      BY <3>1, <3>2, <3>3, <3>4 DEF StagesOK
  <2>8. QED
    BY <2>1, <2>3, <2>4, <2>7 DEF IInv
<1>5. QED
  BY <1>1, <1>2, <1>3, <1>4 DEF Receiver

\* The timeout thread drains while it runs, and SHUTDOWN is sent only when it
\* has ended: it never takes the packet that the receive thread waits for.
LEMMA TimeoutStep ==
    ASSUME IInv, Timeout
    PROVE  IInv'
<1> USE DEF app, rcv, tmo, sw, hw
<1>0. TypeOK /\ CountsOK /\ EventsOK /\ StagesOK
  BY DEF IInv
<1>1. ASSUME NEW n \in Nat, Drain, PostSends(n, cq["send"]), tpc # "done",
             tpc' \in {"sleep", "look", "last", "done"}, timer' = timer,
             UNCHANGED <<target, written, forceShutdown, rpc, lock, armed, events, arrived, shutdown>>
      PROVE  IInv'
  <2>1. /\ CountsOK' /\ posted' = sending' + cq'["send"]
        /\ 0 <= unack' /\ unack' <= written' /\ cq'["SHUTDOWN"] = 0
        /\ \A a \in Apps : /\ IsClosing(a)' <=> IsClosing(a)
                           /\ HasJoinedTimeout(a)' <=> HasJoinedTimeout(a)
                           /\ HasSentShutdown(a)' <=> HasSentShutdown(a)
                           /\ InWait(a)' <=> InWait(a)
                           /\ pc'[a] \in {"finish", "closed"} => pc'[a] = pc[a]
    BY <1>1, DrainKeeps
  <2>2. /\ \A b \in Apps : ~HasJoinedTimeout(b)
        /\ shutdown = "none" /\ rpc # "done" /\ ~gShutdown /\ cq["SHUTDOWN"] = 0
    BY <1>1, ClosingProps
  <2>3. ~gShutdown'
    <3>1. ~(cq["SHUTDOWN"] > 0)
      BY <2>2
    <3>2. QED
      BY <1>1, <2>2, <3>1, DrainProps, Zenon
  <2>4. TypeOK'
    BY <1>0, <1>1, <2>1, DrainProps DEF TypeOK
  <2>5. EventsOK'
    BY <1>0, <1>1 DEF EventsOK
  <2>6. StagesOK'
    <3>1. /\ \A a \in Apps : IsClosing(a)' => forceShutdown'
          /\ \A a, b \in Apps : IsClosing(a)' /\ IsClosing(b)' => a = b
          /\ forceShutdown' => \A a \in Apps : ~InWait(a)'
          /\ \A a \in Apps : ~HasJoinedTimeout(a)'
      BY <1>0, <1>1, <2>1, <2>2 DEF StagesOK
    <3>2. \A a \in Apps : pc'[a] \notin {"finish", "closed"}
      BY <2>1, <2>2 DEF HasJoinedTimeout
    <3>3. shutdown' = "none" /\ rpc' # "done" /\ ~(cq'["SHUTDOWN"] > 0)
      BY <1>1, <2>1, <2>2
    <3>4. QED
      BY <2>3, <3>1, <3>2, <3>3 DEF StagesOK
  <2>7. QED
    BY <2>1, <2>4, <2>5, <2>6 DEF IInv
<1>2. CASE TRound
  <2>1. PICK again \in Resends(unack') : PostSends(AckDue(oweAck) + again, cq["send"])
    BY <1>2 DEF TRound
  <2>2. AckDue(oweAck) + again \in Nat
    BY <2>1 DEF AckDue, Resends
  <2>3. QED
    BY <1>1, <1>2, <2>1, <2>2 DEF TRound
<1>3. CASE TLook
  <2>0. timer' \in 0..Rounds
    <3>1. timer \in 0..Rounds /\ Rounds \in Nat
      BY <1>0, ThreadsAssumption DEF TypeOK
    <3>2. timer' = timer \/ (timer < Rounds /\ timer' = timer + 1)
      BY <1>3 DEF TLook
    <3>3. QED
      BY <3>1, <3>2
  <2>1. TypeOK'
    BY <1>0, <1>3, <2>0 DEF TypeOK, TLook
  <2>2. CountsOK' /\ EventsOK'
    BY <1>0, <1>3 DEF CountsOK, EventsOK, TLook
  <2>3. \A a \in Apps : ~HasJoinedTimeout(a)
    BY <1>0, <1>3 DEF StagesOK, TLook
  <2>4. StagesOK'
    BY <1>0, <1>3, <2>3 DEF StagesOK, TLook, IsClosing, HasJoinedTimeout, HasSentShutdown, InWait
  <2>5. QED
    BY <2>1, <2>2, <2>4 DEF IInv
<1>4. CASE TLast
  <2>1. AckDue(oweAck \/ GotData) \in Nat
    BY DEF AckDue
  <2>2. QED
    BY <1>1, <1>4, <2>1 DEF TLast
<1>5. QED
  BY <1>2, <1>3, <1>4 DEF Timeout

-----------------------------------------------------------------------------
(* The invariant, and what it says.                                        *)

LEMMA InitIInv == Init => IInv
<1> SUFFICES ASSUME Init PROVE IInv
  OBVIOUS
<1>1. cq \in [Classes -> Nat] /\ \A c \in Classes : cq[c] = 0
  BY DEF Init, NoCompletions
<1>2. cq["send"] = 0 /\ cq["ack"] = 0 /\ cq["SHUTDOWN"] = 0 /\ \A k \in Kinds : cq[k] = 0
  BY <1>1, ClassesProps
<1>3. MaxArrive \in Nat /\ Rounds \in Nat
  BY ThreadsAssumption
<1>4. TypeOK
  BY <1>2, <1>3 DEF Init, TypeOK
<1>5. CountsOK
  BY <1>1, <1>2, <1>3 DEF Init, CountsOK
<1>6. EventsOK
  BY DEF Init, EventsOK
<1>7. StagesOK
  BY <1>2 DEF Init, StagesOK, IsClosing, HasJoinedTimeout, HasSentShutdown, InWait
<1>8. QED
  BY <1>4, <1>5, <1>6, <1>7 DEF IInv

LEMMA NextIInv ==
    ASSUME IInv, [Next]_vars
    PROVE  IInv'
<1>1. CASE UNCHANGED vars
  BY ZenonT(60), <1>1 DEF vars, app, rcv, tmo, sw, hw, IInv, TypeOK, CountsOK, EventsOK, StagesOK,
              IsClosing, HasJoinedTimeout, HasSentShutdown, InWait
<1>2. CASE Next
  BY <1>2, HardwareStep, AppStep, CloseStep, ReceiverStep, TimeoutStep DEF Next
<1>3. QED
  BY <1>1, <1>2

\* The queues, the events, the lock and the stages of the close are in order
\* whatever the threads, the hardware and the network do.
THEOREM ThreadsInvariant == Spec => []IInv
BY InitIInv, NextIInv, PTL DEF Spec

\* Type correctness: num_sends_posted always is the number of sends under way
\* plus that of their completions nobody has read.
THEOREM TypeCorrect == Spec => []TypeOK
<1>1. IInv => TypeOK
  BY DEF IInv
<1>2. QED
  BY <1>1, ThreadsInvariant, PTL

\* ud_ctx_destroy destroys the lock, the condition variable and the memory when
\* both threads have ended, the lock is free, nobody is to be signalled and no
\* send is under way.
THEOREM ShutdownIsPeaceful == Spec => []DestroyedInPeace
<1>1. ASSUME IInv PROVE DestroyedInPeace
  <2>0. TypeOK /\ EventsOK /\ StagesOK
    BY <1>1 DEF IInv
  <2>1. ASSUME NEW a \in Apps, pc[a] \in {"finish", "closed"}
        PROVE  rpc = "done" /\ tpc = "done" /\ lock = Nobody /\ ~flag
    BY <2>0, <2>1 DEF EventsOK, StagesOK, HasJoinedTimeout
  <2>2. ASSUME NEW a \in Apps, pc[a] = "closed"
        PROVE  sending = 0 /\ posted = 0
    <3>1. posted = 0 /\ posted = sending + cq["send"]
      BY <2>0, <2>2 DEF StagesOK, TypeOK
    <3>2. QED
      BY <1>1, <3>1, Counters
  <2>3. QED
    BY <2>0, <2>1, <2>2 DEF DestroyedInPeace
<1>2. QED
  BY <1>1, ThreadsInvariant, PTL

-----------------------------------------------------------------------------
(* Wake-ups.                                                               *)

\* A drain that brings a packet for the only sleeper wakes it up.
LEMMA DrainWakes ==
    ASSUME IInv, SleepersAreFlagged, NoLostWakeup, Drain, target' = target,
           \A a, b \in Apps : a = b
    PROVE  SleepersAreFlagged' /\ NoLostWakeup'
<1> DEFINE new_recv == \E c \in Classes \ {"send"} : cq[c] > 0
<1>0. pc \in [Apps -> {"run", "awake", "asleep", "join timeout", "stop receiver",
                       "join receiver", "finish", "closed"}] /\ target \in [Apps -> SUBSET Kinds]
  BY DEF IInv, TypeOK
<1>1. flag' = (flag /\ ~new_recv) /\ Signal(flag /\ new_recv)
  BY DEF Drain
<1>2. SUFFICES ASSUME NEW a \in Apps, Asleep(a)'
               PROVE  flag' /\ \A k \in target'[a] : queue'[k] = 0
  BY DEF SleepersAreFlagged, NoLostWakeup
<1>3. Asleep(a) /\ flag
  <2>1. pc'[a] = pc[a] \/ pc'[a] = "awake"
    BY DrainProps
  <2>2. QED
    BY <1>2, <2>1 DEF Asleep, SleepersAreFlagged
<1>4. ~new_recv
  <2>1. SUFFICES ASSUME new_recv PROVE FALSE
    OBVIOUS
  <2>2. PICK b \in Apps : pc' = [pc EXCEPT ![b] = "awake"]
    BY <1>1, <1>3, <2>1 DEF Signal
  <2>3. a = b
    BY <2>2
  <2>4. QED
    BY <1>0, <1>2, <2>2, <2>3 DEF Asleep
<1>5. ASSUME NEW k \in target'[a]
      PROVE  queue'[k] = 0
  <2>1. k \in Kinds /\ k \in target[a]
    BY <1>0, <1>5
  <2>2. queue[k] = 0 /\ cq[k] \in Nat /\ queue'[k] = queue[k] + cq[k]
    BY <1>3, <2>1, Counters, DrainProps DEF NoLostWakeup
  <2>3. ~(cq[k] > 0)
    BY <1>4, <2>1, ClassesProps
  <2>4. QED
    BY <2>2, <2>3
<1>6. QED
  BY <1>1, <1>3, <1>4, <1>5

LEMMA NextWakeup ==
    ASSUME IInv, SleepersAreFlagged, NoLostWakeup, [Next]_vars, \A a, b \in Apps : a = b
    PROVE  SleepersAreFlagged' /\ NoLostWakeup'
<1> USE DEF app, rcv, tmo, sw, hw
<1>0. pc \in [Apps -> {"run", "awake", "asleep", "join timeout", "stop receiver",
                       "join receiver", "finish", "closed"}]
      /\ target \in [Apps -> SUBSET Kinds]
  BY DEF IInv, TypeOK
<1>1. ASSUME target' = target, queue' = queue, flag' = flag,
             \A b \in Apps : Asleep(b)' => Asleep(b)
      PROVE  SleepersAreFlagged' /\ NoLostWakeup'
  BY <1>1 DEF SleepersAreFlagged, NoLostWakeup
<1>2. ASSUME NEW k \in Kinds, Arrive(k)
      PROVE  SleepersAreFlagged' /\ NoLostWakeup'
  BY <1>1, <1>2 DEF Arrive, Asleep
<1>3. CASE Hardware \/ ShutdownIsLost
  BY <1>1, <1>3 DEF Hardware, AckArrives, SendCompletes, ShutdownArrives, ShutdownIsLost, Asleep
<1>4. ASSUME NEW a \in Apps, NEW kinds \in SUBSET Kinds \ {{}}, StartWait(a, kinds)
      PROVE  SleepersAreFlagged' /\ NoLostWakeup'
  <2>1. \A b \in Apps : ~Asleep(b)'
    BY <1>0, <1>4 DEF StartWait, Asleep
  <2>2. QED
    BY <2>1 DEF SleepersAreFlagged, NoLostWakeup
<1>5. ASSUME NEW a \in Apps, TakeOrSleep(a)
      PROVE  SleepersAreFlagged' /\ NoLostWakeup'
  <2>1. CASE \E k \in target[a] : queue[k] > 0
    <3>1. \A b \in Apps : ~Asleep(b)'
      BY <1>0, <1>5, <2>1 DEF TakeOrSleep, Asleep
    <3>2. QED
      BY <3>1 DEF SleepersAreFlagged, NoLostWakeup
  <2>2. CASE ~ \E k \in target[a] : queue[k] > 0
    <3>1. flag' /\ target' = target /\ queue' = queue
      BY <1>5, <2>2 DEF TakeOrSleep
    <3>2. ASSUME NEW k \in target[a] PROVE queue[k] = 0
      <4>1. k \in Kinds
        BY <1>0, <3>2
      <4>2. queue[k] \in Nat /\ ~(queue[k] > 0)
        BY <2>2, <4>1, Counters
      <4>3. QED
        BY <4>2
    <3>3. \A b \in Apps : b = a
      OBVIOUS
    <3>4. QED
      BY <3>1, <3>2, <3>3 DEF SleepersAreFlagged, NoLostWakeup
  <2>3. QED
    BY <2>1, <2>2
<1>6. ASSUME NEW a \in Apps, SpuriousWakeup(a) \/ Write(a) \/ Close(a) \/ Shutdown(a)
      PROVE  SleepersAreFlagged' /\ NoLostWakeup'
  <2>1. target' = target /\ queue' = queue /\ flag' = flag
    BY <1>6 DEF SpuriousWakeup, Write, Close, Shutdown, JoinTimeout, StopReceiver, JoinReceiver, Finish
  <2>2. \A b \in Apps : Asleep(b)' => Asleep(b)
    BY <1>0, <1>6 DEF SpuriousWakeup, Write, Close, Shutdown, JoinTimeout, StopReceiver,
                      JoinReceiver, Finish, Asleep
  <2>3. QED
    BY <1>1, <2>1, <2>2
<1>7. CASE RStart \/ RArm \/ RGetEvent \/ TLook
  BY <1>1, <1>7 DEF RStart, RArm, RGetEvent, TLook, Asleep
<1>8. CASE RDrain \/ TRound \/ TLast
  BY <1>8, DrainWakes DEF RDrain, TRound, TLast
<1>9. CASE UNCHANGED vars
  BY <1>1, <1>9 DEF vars, Asleep
<1>10. QED
  BY <1>2, <1>3, <1>4, <1>5, <1>6, <1>7, <1>8, <1>9 DEF Next, Receiver, Timeout

\* With one thread of the application, packet_wait never sleeps on a packet that
\* is in its queue, whichever thread drains the completion queue and when:
\* g_recv_flag stays set as long as it sleeps, and is cleared only by the drain
\* that signals it.
THEOREM NoWakeupIsLost ==
    ASSUME \A a, b \in Apps : a = b
    PROVE  Spec => []NoLostWakeup
<1>1. Init => SleepersAreFlagged /\ NoLostWakeup
  BY DEF Init, SleepersAreFlagged, NoLostWakeup, Asleep
<1>2. IInv /\ SleepersAreFlagged /\ NoLostWakeup /\ [Next]_vars
          => SleepersAreFlagged' /\ NoLostWakeup'
  BY NextWakeup
<1>3. QED
  BY <1>1, <1>2, ThreadsInvariant, PTL DEF Spec
=============================================================================
