---------------------------- MODULE UartReceive -----------------------------
(***************************************************************************)
(* uart_receive_task of zb_rpc_server/main/ppp_uart.c, which moves what    *)
(* the UART receives to PPP.                                               *)
(*                                                                         *)
(* External: the UART driver.  Its interrupt puts what arrives into a ring *)
(* buffer and an event into a queue; an event for which the queue has no   *)
(* room is dropped, its data stays.  Data for which the ring has no room   *)
(* is lost and reported as an overflow; so is data that the hardware FIFO  *)
(* could not hold, whatever room the ring has.                             *)
(***************************************************************************)
EXTENDS Naturals, Sequences

CONSTANTS RingSize,    \* PPP_RX_RING_SIZE, in pieces of data
          ChunkSize,   \* PPP_RX_CHUNK_SIZE, in pieces of data
          QueueSize,   \* the 20 events of uart_driver_install
          MaxArrivals, \* bound: pieces of data that arrive
          MaxLineEvents \* bound: breaks, parity and frame errors

ASSUME UartBounds ==
  /\ RingSize \in Nat \ {0} /\ ChunkSize \in Nat \ {0} /\ QueueSize \in Nat \ {0}
  /\ MaxArrivals \in Nat /\ MaxLineEvents \in Nat

VARIABLES
  ring,        \* data received and not yet read
  queue,       \* s_uart_events
  rx,          \* where uart_receive_task is
  remaining,   \* its local variable
  unannounced, \* data in the ring for which no event is left (history)
  arrived, lineEvents

uartVars == <<ring, queue, rx, remaining, unannounced, arrived, lineEvents>>

UartInit ==
  /\ ring = <<>> /\ queue = <<>> /\ rx = "off" /\ remaining = 0
  /\ unannounced = {} /\ arrived = 0 /\ lineEvents = 0

UartBoots ==
  /\ ring' = <<>> /\ queue' = <<>> /\ rx' = "off" /\ remaining' = 0 /\ unannounced' = {}
  /\ UNCHANGED <<arrived, lineEvents>>

\* ppp_uart_start installs the driver and creates the task.
UartStarts ==
  /\ rx = "off"
  /\ rx' = "receive"
  /\ UNCHANGED <<ring, queue, remaining, unannounced, arrived, lineEvents>>

(***************************************************************************)
(* The driver's interrupt.                                                 *)
(***************************************************************************)
HasRoom == Len(queue) < QueueSize
PostEvent(type) == queue' = IF HasRoom THEN Append(queue, type) ELSE queue

\* xQueueReset is still to come: the event of what arrives now will go with the others.
InWindow == rx = "reset"

OnlyLineEvents == \A i \in DOMAIN queue : queue[i] = "LINE"

Arrives ==
  /\ rx # "off" /\ arrived < MaxArrivals /\ Len(ring) < RingSize
  /\ arrived' = arrived + 1
  /\ ring' = Append(ring, arrived')
  /\ PostEvent("DATA")
  /\ unannounced' = IF InWindow \/ (~HasRoom /\ OnlyLineEvents)
                    THEN unannounced \union {arrived'} ELSE unannounced
  /\ UNCHANGED <<rx, remaining, lineEvents>>

\* UART_BUFFER_FULL, which needs a full ring, or UART_FIFO_OVF, which does not.
Overflows ==
  /\ rx # "off" /\ arrived < MaxArrivals
  /\ arrived' = arrived + 1
  /\ PostEvent("OVERFLOW")
  /\ UNCHANGED <<ring, rx, remaining, unannounced, lineEvents>>

LineEvent ==
  /\ rx # "off" /\ lineEvents < MaxLineEvents
  /\ lineEvents' = lineEvents + 1
  /\ PostEvent("LINE")
  /\ UNCHANGED <<ring, rx, remaining, unannounced, arrived>>

(***************************************************************************)
(* uart_receive_task.                                                      *)
(***************************************************************************)
InRing == {ring[i] : i \in DOMAIN ring}

ReceiveEvent ==
  /\ rx = "receive" /\ queue # <<>>
  /\ queue' = Tail(queue)
  /\ rx' = CASE Head(queue) = "DATA"     -> "query"
             [] Head(queue) = "OVERFLOW" -> "flush"
             [] Head(queue) = "LINE"     -> "receive"
  /\ UNCHANGED <<ring, remaining, unannounced, arrived, lineEvents>>

\* uart_get_buffered_data_len, which may fail.
QueryLength ==
  /\ rx = "query"
  /\ \/ remaining' = Len(ring) /\ rx' = "read" /\ UNCHANGED unannounced
     \/ /\ rx' = "receive" /\ remaining' = 0
        /\ unannounced' = unannounced \union InRing
  /\ UNCHANGED <<ring, queue, arrived, lineEvents>>

\* Mutation: one chunk is read for each event.
ReadOneChunk ==
  /\ rx = "read" /\ remaining > 0
  /\ LET length == IF remaining < ChunkSize THEN remaining ELSE ChunkSize IN
       ring' = SubSeq(ring, length + 1, Len(ring))
  /\ rx' = "receive" /\ remaining' = 0
  /\ unannounced' = unannounced \intersect {ring'[i] : i \in DOMAIN ring'}
  /\ UNCHANGED <<queue, arrived, lineEvents>>

\* A chunk is read and given to PPP, whether PPP takes it or not.
ReadChunk ==
  /\ rx = "read" /\ remaining > 0
  /\ LET length == IF remaining < ChunkSize THEN remaining ELSE ChunkSize IN
       /\ ring' = SubSeq(ring, length + 1, Len(ring))
       /\ remaining' = remaining - length
  /\ unannounced' = unannounced \intersect {ring'[i] : i \in DOMAIN ring'}
  /\ UNCHANGED <<queue, rx, arrived, lineEvents>>

ReadFails ==
  /\ rx = "read" /\ remaining > 0
  /\ rx' = "receive" /\ remaining' = 0
  /\ unannounced' = unannounced \union InRing
  /\ UNCHANGED <<ring, queue, arrived, lineEvents>>

ReadEnds ==
  /\ rx = "read" /\ remaining = 0
  /\ rx' = "receive"
  /\ UNCHANGED <<ring, queue, remaining, unannounced, arrived, lineEvents>>

uart_flush_input ==
  /\ rx = "flush"
  /\ ring' = <<>> /\ unannounced' = {}
  /\ rx' = "reset"
  /\ UNCHANGED <<queue, remaining, arrived, lineEvents>>

xQueueReset ==
  /\ rx = "reset"
  /\ queue' = <<>>
  /\ rx' = "receive"
  /\ UNCHANGED <<ring, remaining, unannounced, arrived, lineEvents>>

uart_receive_task ==
  \/ ReceiveEvent \/ QueryLength \/ ReadChunk \/ ReadFails \/ ReadEnds
  \/ uart_flush_input \/ xQueueReset

UartStep == Arrives \/ Overflows \/ LineEvent \/ uart_receive_task

\* Nothing will make the task look at the ring before more data arrives.
Unwatched == rx = "receive" /\ OnlyLineEvents

\* Data is left behind in the ring, with no event that announces it, only when it arrived
\* between uart_flush_input and xQueueReset, when a call to the driver failed, or when the
\* queue was full of line errors alone.  With one data event in a full queue nothing is
\* left behind, as it has the task read all that is there by then.
StrandedOnlyByReset == Unwatched => InRing \subseteq unannounced
=============================================================================
