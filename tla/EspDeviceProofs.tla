--------------------------- MODULE EspDeviceProofs --------------------------
(***************************************************************************)
(* Proofs of the safety properties of EspDevice, for buffers and queues of *)
(* any size and any number of failures, restarts and networks.             *)
(*                                                                         *)
(* Commissioning: the alarm is set only while no procedure runs, and a     *)
(* device that has a network runs or schedules formation only after a      *)
(* failed steering (RetryInv).                                             *)
(*                                                                         *)
(* Reception: whatever is in the ring behind what the task is about to     *)
(* read is accounted as unannounced, or the queue still holds an event     *)
(* that makes the task look at the ring (CoveredInv).  The property itself *)
(* speaks of an idle task only, and is not inductive: the task reads in    *)
(* chunks while data goes on arriving behind them.                         *)
(***************************************************************************)
EXTENDS EspDevice, TLAPS

Events == {"DATA", "OVERFLOW", "LINE"}

TypeOK ==
  /\ network \in Nat
  /\ stack \in {"off", "skip_startup", "idle"} \cup Procedures
  /\ alarm \in {"none", "initialization", "formation"}
  /\ steer_failed \in BOOLEAN
  /\ ring \in Seq(Nat)
  /\ queue \in Seq(Events)
  /\ rx \in {"off", "receive", "query", "read", "flush", "reset"}
  /\ remaining \in Nat
  /\ arrived \in Nat

RetryInv ==
  /\ alarm # "none" => stack = "idle"
  /\ network # 0 /\ "formation" \in {stack, alarm} => steer_failed

\* An event is queued that makes the task look at the ring.
Watched == \E i \in 1..Len(queue) : queue[i] # "LINE"

CoveredInv ==
  /\ remaining <= Len(ring)
  /\ rx # "read" => remaining = 0
  /\ rx = "off" => ring = <<>>
  /\ rx \in {"receive", "read"} =>
       \A i \in 1..Len(ring) : i > remaining => ring[i] \in unannounced \/ Watched
  /\ rx = "reset" => \A i \in 1..Len(ring) : ring[i] \in unannounced

IInv == TypeOK /\ RetryInv /\ CoveredInv

-----------------------------------------------------------------------------
(***************************************************************************)
(* Commissioning.                                                          *)
(***************************************************************************)
\* Every step of the device preserves what is said of the Zigbee stack.
LEMMA RetryStep ==
  ASSUME IInv, [Next]_vars
  PROVE  /\ network' \in Nat
         /\ stack' \in {"off", "skip_startup", "idle"} \cup Procedures
         /\ alarm' \in {"none", "initialization", "formation"}
         /\ steer_failed' \in BOOLEAN
         /\ RetryInv'
<1> DEFINE Goal == /\ network' \in Nat
                   /\ stack' \in {"off", "skip_startup", "idle"} \cup Procedures
                   /\ alarm' \in {"none", "initialization", "formation"}
                   /\ steer_failed' \in BOOLEAN
                   /\ RetryInv'
<1> USE CommissioningBounds DEF IInv, TypeOK, RetryInv, Procedures
<1>1. CASE UNCHANGED zigbeeVars
  BY <1>1 DEF zigbeeVars
<1>2. CASE zigbee_main_task
  BY <1>2 DEF zigbee_main_task
<1>3. CASE SkipStartup
  BY <1>3 DEF SkipStartup
<1>4. CASE DeviceStart
  BY <1>4 DEF DeviceStart, factory_new
<1>5. CASE Formation
  BY <1>5 DEF Formation
<1>6. CASE Steering
  BY <1>6 DEF Steering
<1>7. ASSUME NEW p \in Procedures, CommissioningFails(p) PROVE Goal
  BY <1>7 DEF CommissioningFails, alarm_timer_schedule
<1>8. CASE zigbee_alarm_bdb_commissioning
  BY <1>8 DEF zigbee_alarm_bdb_commissioning
<1>9. ASSUME NEW duration \in {0, 180}, zigbee_open_network(duration) PROVE Goal
  BY <1>9 DEF zigbee_open_network
<1>10. CASE ZigbeeBoots
  BY <1>10 DEF ZigbeeBoots
<1>11. QED
  BY <1>1, <1>2, <1>3, <1>4, <1>5, <1>6, <1>7, <1>8, <1>9, <1>10
     DEF Next, app_main, Zigbee, ZigbeeStep, Rpc, Uart, Reboot, vars

-----------------------------------------------------------------------------
(***************************************************************************)
(* Reception.                                                              *)
(***************************************************************************)
\* An event that is posted is in the queue, or the queue was full.
LEMMA PostFacts ==
  ASSUME TypeOK, NEW type \in Events, PostEvent(type)
  PROVE  /\ queue' \in Seq(Events)
         /\ Watched => Watched'
         /\ type # "LINE" => Watched' \/ (~HasRoom /\ OnlyLineEvents)
<1>1. queue \in Seq(Events) /\ DOMAIN queue = 1..Len(queue) /\ Len(queue) \in Nat
  BY DEF TypeOK
<1>2. CASE HasRoom
  <2>1. queue' = Append(queue, type)
    BY <1>2 DEF PostEvent
  <2>2. /\ queue' \in Seq(Events) /\ Len(queue') = Len(queue) + 1
        /\ queue'[Len(queue) + 1] = type
        /\ \A i \in 1..Len(queue) : queue'[i] = queue[i]
    BY <1>1, <2>1
  <2>3. QED
    BY <1>1, <2>2 DEF Watched
<1>3. CASE ~HasRoom
  BY <1>1, <1>3 DEF PostEvent, Watched, OnlyLineEvents
<1>4. QED
  BY <1>2, <1>3

\* What the ring holds when n pieces have been read from it.
LEMMA ReadFacts ==
  ASSUME NEW s \in Seq(Nat), NEW n \in Nat, n <= Len(s),
         NEW t, t = SubSeq(s, n + 1, Len(s))
  PROVE  /\ t \in Seq(Nat) /\ Len(t) = Len(s) - n
         /\ \A i \in 1..Len(t) : i + n \in 1..Len(s) /\ t[i] = s[i + n]
<1>1. Len(s) \in Nat /\ n + 1 \in 1..(Len(s) + 1) /\ Len(s) \in 0..Len(s)
  OBVIOUS
<1>2. t \in Seq(Nat) /\ Len(t) = Len(s) - n
  BY <1>1
<1>3. ASSUME NEW i \in 1..Len(t) PROVE i + n \in 1..Len(s) /\ t[i] = s[i + n]
  <2>1. i \in Nat /\ i >= 1 /\ i <= Len(s) - n
    BY <1>1, <1>2
  <2>2. i + n \in 1..Len(s)
    BY <1>1, <2>1
  <2>3. t[i] = s[(n + 1) + i - 1]
    BY <1>1, <2>1
  <2>4. (n + 1) + i - 1 = i + n
    BY <2>1
  <2>5. QED
    BY <2>2, <2>3, <2>4
<1>4. QED
  BY <1>2, <1>3

\* Every step of the device preserves what is said of the receiver.
LEMMA CoveredStep ==
  ASSUME IInv, [Next]_vars
  PROVE  /\ ring' \in Seq(Nat) /\ queue' \in Seq(Events)
         /\ rx' \in {"off", "receive", "query", "read", "flush", "reset"}
         /\ remaining' \in Nat /\ arrived' \in Nat
         /\ CoveredInv'
<1>1. CASE UNCHANGED uartVars
  BY <1>1 DEF uartVars, IInv, TypeOK, CoveredInv, Watched
<1> USE UartBounds DEF IInv, TypeOK, CoveredInv
<1>2. CASE UartStarts
  BY <1>2 DEF UartStarts
<1>3. CASE UartBoots
  BY <1>3 DEF UartBoots
<1>4. CASE Arrives
  <2>1. /\ ring' = Append(ring, arrived') /\ arrived' = arrived + 1 /\ PostEvent("DATA")
        /\ rx' = rx /\ remaining' = remaining /\ rx # "off"
        /\ unannounced' = IF InWindow \/ (~HasRoom /\ OnlyLineEvents)
                          THEN unannounced \union {arrived'} ELSE unannounced
    BY <1>4 DEF Arrives
  <2>2. /\ ring' \in Seq(Nat) /\ Len(ring) \in Nat /\ Len(ring') = Len(ring) + 1
        /\ ring'[Len(ring) + 1] = arrived'
        /\ \A i \in 1..Len(ring) : ring'[i] = ring[i]
    BY <2>1
  <2>3. /\ queue' \in Seq(Events)
        /\ Watched => Watched'
        /\ Watched' \/ (~HasRoom /\ OnlyLineEvents)
    BY <2>1, PostFacts DEF Events
  <2>4. ASSUME rx \in {"receive", "read"}, NEW i \in 1..Len(ring'), i > remaining
        PROVE  ring'[i] \in unannounced' \/ Watched'
    <3>1. CASE i \in 1..Len(ring)
      <4>1. ring[i] \in unannounced \/ Watched
        BY <2>4, <3>1
      <4>2. ring'[i] = ring[i] /\ unannounced \subseteq unannounced'
        BY <2>1, <2>2, <3>1
      <4>3. QED
        BY <2>3, <4>1, <4>2
    <3>2. CASE i = Len(ring) + 1
      BY <2>1, <2>2, <2>3, <3>2
    <3>3. QED
      BY <2>2, <3>1, <3>2
  <2>5. ASSUME rx = "reset", NEW i \in 1..Len(ring') PROVE ring'[i] \in unannounced'
    <3>1. unannounced' = unannounced \cup {arrived'}
      BY <2>1, <2>5 DEF InWindow
    <3>2. CASE i \in 1..Len(ring)
      BY <2>2, <2>5, <3>1, <3>2
    <3>3. CASE i = Len(ring) + 1
      BY <2>2, <3>1, <3>3
    <3>4. QED
      BY <2>2, <3>2, <3>3
  <2>6. QED
    <3>1. CoveredInv'
      BY <2>1, <2>2, <2>3, <2>4, <2>5
    <3>2. QED
      BY <2>1, <2>2, <2>3, <3>1
<1>5. CASE Overflows
  <2>1. /\ PostEvent("OVERFLOW") /\ arrived' = arrived + 1
        /\ UNCHANGED <<ring, unannounced, rx, remaining>>
    BY <1>5 DEF Overflows
  <2>2. queue' \in Seq(Events) /\ (Watched => Watched')
    BY <2>1, PostFacts DEF Events
  <2>3. QED
    BY <2>1, <2>2
<1>6. CASE LineEvent
  <2>1. PostEvent("LINE") /\ UNCHANGED <<ring, rx, remaining, unannounced, arrived>>
    BY <1>6 DEF LineEvent
  <2>2. queue' \in Seq(Events) /\ (Watched => Watched')
    BY <2>1, PostFacts DEF Events
  <2>3. QED
    BY <2>1, <2>2
<1>7. CASE ReceiveEvent
  <2>1. /\ queue # <<>> /\ queue' = Tail(queue) /\ rx = "receive"
        /\ UNCHANGED <<ring, remaining, unannounced, arrived>>
    BY <1>7 DEF ReceiveEvent
  <2>2. /\ queue' \in Seq(Events) /\ Len(queue) \in Nat \ {0} /\ Len(queue') = Len(queue) - 1
        /\ Head(queue) = queue[1] /\ queue[1] \in Events
        /\ \A i \in 1..Len(queue') : queue'[i] = queue[i + 1]
    BY <2>1
  <2>3. CASE Head(queue) = "LINE"
    <3>1. rx' = "receive"
      BY <1>7, <2>3, Zenon DEF ReceiveEvent
    <3>2. ASSUME Watched PROVE Watched'
      <4>1. PICK i \in 1..Len(queue) : queue[i] # "LINE"
        BY <3>2 DEF Watched
      <4>2. i - 1 \in 1..Len(queue') /\ queue'[i - 1] = queue[i]
        BY <2>2, <2>3, <4>1
      <4>3. QED
        BY <4>1, <4>2 DEF Watched
    <3>3. QED
      BY <2>1, <2>2, <3>1, <3>2
  <2>4. CASE Head(queue) \in {"DATA", "OVERFLOW"}
    <3>1. rx' \in {"query", "flush"}
      BY <1>7, <2>4, Zenon DEF ReceiveEvent
    <3>2. QED
      BY <2>1, <2>2, <3>1
  <2>5. QED
    BY <2>2, <2>3, <2>4 DEF Events
<1>8. CASE QueryLength
  BY <1>8 DEF QueryLength, InRing
<1>9. CASE ReadChunk
  <2> DEFINE length == IF remaining < ChunkSize THEN remaining ELSE ChunkSize
  <2>1. /\ ring' = SubSeq(ring, length + 1, Len(ring)) /\ remaining' = remaining - length
        /\ unannounced' = unannounced \intersect {ring'[i] : i \in DOMAIN ring'}
        /\ rx = "read" /\ UNCHANGED <<queue, rx, arrived>>
    BY <1>9 DEF ReadChunk
  <2>2. length \in Nat /\ length <= remaining /\ length <= Len(ring) /\ Len(ring) \in Nat
    OBVIOUS
  <2> HIDE DEF length
  <2>3. /\ ring' \in Seq(Nat) /\ Len(ring') = Len(ring) - length
        /\ \A i \in 1..Len(ring') : i + length \in 1..Len(ring) /\ ring'[i] = ring[i + length]
    <3>1. ring \in Seq(Nat) /\ ring' = SubSeq(ring, length + 1, Len(ring))
      BY <2>1
    <3> HIDE UartBounds DEF IInv, TypeOK, CoveredInv
    <3>2. QED
      BY <2>2, <3>1, ReadFacts, Zenon
  <2>4. ASSUME NEW i \in 1..Len(ring'), i > remaining'
        PROVE  ring'[i] \in unannounced' \/ Watched'
    <3>1. i + length \in 1..Len(ring) /\ ring'[i] = ring[i + length]
      BY <2>3
    <3>2. i + length > remaining
      BY <2>1, <2>2, <2>3, <2>4
    <3>3. ring[i + length] \in unannounced \/ Watched
      BY <2>1, <3>1, <3>2
    <3>4. ring'[i] \in {ring'[j] : j \in DOMAIN ring'} /\ (Watched => Watched')
      <4>1. DOMAIN ring' = 1..Len(ring')
        BY <2>3
      <4>2. QED
        BY <2>1, <2>4, <4>1 DEF Watched
    <3>5. QED
      BY <2>1, <3>1, <3>3, <3>4
  <2>5. remaining' \in Nat /\ remaining' <= Len(ring')
    BY <2>1, <2>2, <2>3
  <2>6. QED
    BY <2>1, <2>3, <2>4, <2>5
<1>10. CASE ReadFails
  BY <1>10 DEF ReadFails, InRing
<1>11. CASE ReadEnds
  BY <1>11 DEF ReadEnds, Watched
<1>12. CASE uart_flush_input
  BY <1>12 DEF uart_flush_input
<1>13. CASE xQueueReset
  BY <1>13 DEF xQueueReset
<1> HIDE DEF IInv, TypeOK, CoveredInv
<1>14. QED
  BY <1>1, <1>2, <1>3, <1>4, <1>5, <1>6, <1>7, <1>8, <1>9, <1>10, <1>11, <1>12, <1>13
     DEF Next, app_main, Zigbee, Rpc, Uart, UartStep, uart_receive_task, Reboot, vars

-----------------------------------------------------------------------------
\* The invariant holds at power on.
LEMMA IInvInit == Init => IInv
<1> SUFFICES ASSUME Init PROVE IInv
  OBVIOUS
<1>1. steer_failed \in BOOLEAN
  BY Zenon DEF Init, ZigbeeInit
<1>2. QED
  BY <1>1 DEF Init, ZigbeeInit, UartInit, IInv, TypeOK, RetryInv, CoveredInv

\* Every step of the device preserves it.
LEMMA IInvNext == IInv /\ [Next]_vars => IInv'
BY RetryStep, CoveredStep DEF IInv, TypeOK

\* The invariant holds throughout every behaviour of the device, restarts included.
THEOREM Invariance == Spec => []IInv
BY IInvInit, IInvNext, PTL DEF Spec

\* uart_receive_task leaves data in the ring with no event to announce it only for the
\* reasons StrandedOnlyByReset lists.
THEOREM DataIsStrandedOnlyByReset == Spec => []StrandedOnlyByReset
<1>1. IInv => StrandedOnlyByReset
  <2> SUFFICES ASSUME IInv, Unwatched, NEW i \in DOMAIN ring
               PROVE  ring[i] \in unannounced
    BY DEF StrandedOnlyByReset, InRing
  <2>1. DOMAIN ring = 1..Len(ring) /\ DOMAIN queue = 1..Len(queue) /\ Len(ring) \in Nat
    BY DEF IInv, TypeOK
  <2>2. ~Watched /\ rx = "receive" /\ remaining = 0
    BY <2>1 DEF IInv, CoveredInv, Unwatched, OnlyLineEvents, Watched
  <2>3. QED
    BY <2>1, <2>2 DEF IInv, CoveredInv
<1>2. QED
  BY <1>1, Invariance, PTL

\* The coordinator replaces a network it has only after a steering has failed since the
\* boot, whenever restarts and failed procedures come.
THEOREM NetworksAreKept == Spec => ReformsOnlyAfterFailedSteering
<1>1. IInv /\ [Next]_vars => [network # 0 /\ network' # network => steer_failed]_vars
  <2> SUFFICES ASSUME IInv, Next, network # 0, network' # network PROVE steer_failed
    BY DEF vars
  <2>1. Formation
    BY DEF Next, app_main, Zigbee, ZigbeeStep, Rpc, Uart, Reboot, ZigbeeBoots, zigbeeVars,
       zigbee_main_task, SkipStartup, DeviceStart, Steering, CommissioningFails,
       zigbee_alarm_bdb_commissioning, zigbee_open_network
  <2>2. QED
    BY <2>1 DEF Formation, IInv, RetryInv
<1>2. QED
  BY <1>1, Invariance, PTL DEF Spec, ReformsOnlyAfterFailedSteering
=============================================================================
