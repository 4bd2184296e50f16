-------------------------- MODULE ThermostatClient --------------------------
(***************************************************************************)
(* zb_rpc_client: main.cpp, the thermostat sequence of thermostat_app.hpp  *)
(* and the RPC stubs of zigbee_api.h it calls.                             *)
(*                                                                         *)
(* The main thread brings the PPP link up, connects, makes its RPC calls   *)
(* one after the other and, when the server turns out to be an old one,    *)
(* reconnects once.  SIGINT or SIGTERM may arrive at any time.  Its        *)
(* handler runs on whichever thread the kernel picks, so it interleaves    *)
(* with the main thread between its read of g_rpc_socket and its shutdown. *)
(*                                                                         *)
(* External, as these files use them: the link (serial_io, ppp_link), the  *)
(* server, and TCP: a write to a socket that was shut down, or after its   *)
(* reset was reported, raises SIGPIPE, which the program does not handle.  *)
(***************************************************************************)
EXTENDS Naturals

CONSTANTS MaxAttempts,  \* attempts of connect_rpc (50 in the code)
          MaxPolls,     \* polls of wait_for_link (ten per second)
          LastReads,    \* readings of the last temperature (5 in the code)
          MaxSignals    \* bound: signals delivered

ASSUME LimitsAssumption ==
  /\ MaxAttempts \in Nat \ {0} /\ MaxPolls \in Nat \ {0} /\ LastReads \in Nat \ {0}
  /\ MaxSignals \in Nat

VARIABLES
  pc,                \* where the main thread is
  attempt,           \* the loop counter of wait_for_link, connect_rpc or the readings
  round,             \* the connection being made or used: the first or the second
  g_stop_requested,
  g_rpc_socket,      \* whether it holds a descriptor
  socket,            \* the state of the socket behind that descriptor
  opened, closed,    \* sockets opened and closed so far (history)
  handler,           \* where the signal handler is
  captured,          \* the socket whose descriptor the handler has read, 0: -1 (history)
  signals,
  op,                \* the call being made
  panid,             \* whether get_panid returned one
  result,            \* what thermostat_app::run returned
  link               \* what has become of the PPP link

mainVars   == <<pc, attempt, round, op, panid, result, link>>
socketVars == <<g_rpc_socket, socket, opened, closed>>
signalVars == <<g_stop_requested, handler, captured, signals>>
vars       == <<mainVars, socketVars, signalVars>>

Init ==
  /\ pc = "link" /\ attempt = 0 /\ round = 1
  /\ g_stop_requested = FALSE
  /\ g_rpc_socket = FALSE /\ socket = "none" /\ opened = 0 /\ closed = 0
  /\ handler = "idle" /\ captured = 0 /\ signals = 0
  /\ op = "panid" /\ panid = FALSE /\ result = "failure"
  /\ link = "none"

Goto(next) ==
  /\ pc' = next
  /\ UNCHANGED <<attempt, round, op, panid, result, link>>

(***************************************************************************)
(* main: the link.                                                         *)
(***************************************************************************)
\* The serial port or the link cannot be opened: main returns at once.
OpenFails ==
  /\ pc = "link"
  /\ Goto("done")
  /\ UNCHANGED <<socketVars, signalVars>>

StartLink ==
  /\ pc = "link"
  /\ link' = "running"
  /\ pc' = "wait_link"
  /\ UNCHANGED <<attempt, round, op, panid, result, socketVars, signalVars>>

\* ppp_link_start fails, and main stops the link all the same.
StartLinkFails ==
  /\ pc = "link"
  /\ link' = "stopped"
  /\ pc' = "done"
  /\ UNCHANGED <<attempt, round, op, panid, result, socketVars, signalVars>>

\* wait_for_link, and the look at g_stop_requested before it.
wait_for_link(up) ==
  /\ pc = "wait_link"
  /\ IF g_stop_requested \/ attempt = MaxPolls THEN pc' = "stop_link" /\ attempt' = 0
     ELSE IF up THEN pc' = "attempt" /\ attempt' = 0
     ELSE attempt' = attempt + 1 /\ UNCHANGED pc
  /\ UNCHANGED <<round, op, panid, result, link, socketVars, signalVars>>

(***************************************************************************)
(* connect_rpc.                                                            *)
(***************************************************************************)
\* The second failure leaves main with no socket, the first with no client.
ConnectFailed == IF round = 1 THEN "stop_link" ELSE "finish"

\* Mutation: the loop does not look at g_stop_requested.
AttemptUnchecked ==
  /\ pc = "attempt"
  /\ Goto(IF attempt = MaxAttempts THEN ConnectFailed ELSE "socket")
  /\ UNCHANGED <<socketVars, signalVars>>

\* Mutation: the loop runs once too often.
AttemptOnceMore ==
  /\ pc = "attempt"
  /\ Goto(IF g_stop_requested \/ attempt > MaxAttempts THEN ConnectFailed ELSE "socket")
  /\ UNCHANGED <<socketVars, signalVars>>

Attempt ==
  /\ pc = "attempt"
  /\ Goto(IF g_stop_requested \/ attempt = MaxAttempts THEN ConnectFailed ELSE "socket")
  /\ UNCHANGED <<socketVars, signalVars>>

\* socket or fcntl fails, the latter after the socket was opened and with its close.
SocketFails(wasOpened) ==
  /\ pc = "socket"
  /\ Goto(ConnectFailed)
  /\ opened' = IF wasOpened THEN opened + 1 ELSE opened
  /\ closed' = IF wasOpened THEN closed + 1 ELSE closed
  /\ UNCHANGED <<g_rpc_socket, socket, signalVars>>

BeginConnect ==
  /\ pc = "socket"
  /\ socket' = "connecting"
  /\ opened' = opened + 1
  /\ Goto("connecting")
  /\ UNCHANGED <<g_rpc_socket, closed, signalVars>>

Connected ==
  /\ pc = "connecting"
  /\ socket' = "open"
  /\ Goto("publish")
  /\ UNCHANGED <<g_rpc_socket, opened, closed, signalVars>>

\* Refused, not ready within 200 ms, or interrupted: close, sleep and count.
ConnectAttemptFails ==
  /\ pc = "connecting"
  /\ socket' = "none" /\ closed' = closed + 1
  /\ attempt' = attempt + 1
  /\ pc' = "attempt"
  /\ UNCHANGED <<round, op, panid, result, link, g_rpc_socket, opened, signalVars>>

(***************************************************************************)
(* main: the one or two runs.                                              *)
(***************************************************************************)
\* g_rpc_socket is set and the stubs are attached.  Only the first run is preceded by a
\* look at g_stop_requested.
Publish ==
  /\ pc = "publish"
  /\ g_rpc_socket' = TRUE
  /\ pc' = IF round = 1 THEN "check" ELSE "call"
  /\ attempt' = 0 /\ op' = "panid"
  /\ UNCHANGED <<round, panid, result, link, socket, opened, closed, signalVars>>

\* Mutation: the first run is not preceded by it either.
CheckOmitted ==
  /\ pc = "check"
  /\ Goto("call")
  /\ UNCHANGED <<socketVars, signalVars>>

CheckStop ==
  /\ pc = "check"
  /\ Goto(IF g_stop_requested THEN "finish" ELSE "call")
  /\ UNCHANGED <<socketVars, signalVars>>

Returned ==
  /\ pc = "returned"
  /\ Goto(IF result = "retry" /\ round = 1 /\ ~g_stop_requested THEN "release" ELSE "finish")
  /\ UNCHANGED <<socketVars, signalVars>>

CloseSocket ==
  /\ g_rpc_socket' = FALSE
  /\ socket' = "none"
  /\ closed' = IF socket = "none" THEN closed ELSE closed + 1
  /\ UNCHANGED opened

\* Mutation: the socket of the first run is not closed before the second.
ReleaseWithoutClose ==
  /\ pc = "release"
  /\ g_rpc_socket' = FALSE
  /\ pc' = "attempt" /\ attempt' = 0 /\ round' = 2
  /\ UNCHANGED <<op, panid, result, link, socket, opened, closed, signalVars>>

\* g_rpc_socket is cleared, and then the socket closed.
ClearRpcSocket ==
  /\ pc \in {"release", "finish"} /\ g_rpc_socket
  /\ g_rpc_socket' = FALSE
  /\ UNCHANGED <<mainVars, socket, opened, closed, signalVars>>

Release ==
  /\ pc = "release" /\ ~g_rpc_socket
  /\ CloseSocket
  /\ pc' = "attempt" /\ attempt' = 0 /\ round' = 2
  /\ UNCHANGED <<op, panid, result, link, signalVars>>

Finish ==
  /\ pc = "finish" /\ ~g_rpc_socket
  /\ CloseSocket
  /\ Goto("stop_link")
  /\ UNCHANGED signalVars

StopLink ==
  /\ pc = "stop_link"
  /\ link' = "stopped"
  /\ pc' = "done"
  /\ UNCHANGED <<attempt, round, op, panid, result, socketVars, signalVars>>

(***************************************************************************)
(* thermostat_app::run: what follows a call, given how it ended.           *)
(***************************************************************************)
Answers == {"good", "bad"}     \* a value, or zero or an error status

\* The calls that only follow each other while all goes well.
Commissioning ==
  [open |-> "annce", annce |-> "find", find |-> "basic", basic |-> "bind",
   bind |-> "subscribe", subscribe |-> "report", report |-> "last"]

Calls == DOMAIN Commissioning
           \cup {"panid", "channel", "sensor_addr", "find_known", "last", "temp"}

Return(r) == pc' = "returned" /\ result' = r /\ UNCHANGED <<op, attempt, panid>>
Call(o)   == pc' = "call" /\ op' = o /\ UNCHANGED <<result, attempt>>

run(ended) ==
  /\ \/ /\ op = "panid"
        /\ panid' = (ended = "good")
        /\ Call("channel")
     \/ /\ op = "channel"
        /\ Call(IF round = 1 /\ panid THEN "sensor_addr" ELSE "open")
        /\ UNCHANGED panid
     \/ /\ op = "sensor_addr"
        /\ IF ended = "failed" THEN Return("retry")
           ELSE Call(IF ended = "good" THEN "find_known" ELSE "open") /\ UNCHANGED panid
     \/ /\ op = "find_known"
        /\ Call(IF ended = "good" THEN "temp" ELSE "open") /\ UNCHANGED panid
     \/ /\ op \in DOMAIN Commissioning
        /\ IF ended = "good" THEN Call(Commissioning[op]) /\ UNCHANGED panid
           ELSE Return("failure")
     \/ /\ op = "last"      \* five times, with a sleep after each, whatever is read
        /\ pc' = "sleep" /\ attempt' = attempt + 1
        /\ UNCHANGED <<op, result, panid>>
     \/ /\ op = "temp"
        /\ Return(IF ended = "good" THEN "success" ELSE "failure")
  /\ UNCHANGED <<round, link>>

\* Mutation: the counter is declared in the body of the loop.
SleepRestarts ==
  /\ pc = "sleep"
  /\ pc' = "call"
  /\ op' = IF attempt = LastReads THEN "temp" ELSE "last"
  /\ attempt' = 0
  /\ UNCHANGED <<round, panid, result, link, socketVars, signalVars>>

Sleep ==
  /\ pc = "sleep"
  /\ pc' = "call"
  /\ op' = IF attempt = LastReads THEN "temp" ELSE "last"
  /\ UNCHANGED <<attempt, round, panid, result, link, socketVars, signalVars>>

(***************************************************************************)
(* zb_rpc::call behind every stub: the request is written, then the        *)
(* response is read, without a timeout.                                    *)
(***************************************************************************)
Write ==
  /\ pc = "call" /\ socket \in {"open", "eof"}
  /\ socket' = IF socket = "eof" THEN "reset" ELSE "open"
  /\ Goto("read")
  /\ UNCHANGED <<g_rpc_socket, opened, closed, signalVars>>

\* The error of a reset is reported once, to whichever of write and read comes first.
Reported == IF socket = "reset" THEN "broken" ELSE socket

WriteFails ==
  /\ pc = "call" /\ socket = "reset"
  /\ run("failed")
  /\ socket' = Reported
  /\ UNCHANGED <<g_rpc_socket, opened, closed, signalVars>>

WriteRaisesSigpipe ==
  /\ pc = "call" /\ socket \in {"shut", "broken"}
  /\ Goto("killed")
  /\ UNCHANGED <<socketVars, signalVars>>

\* A response that came before the shutdown or the end of the stream can still be read.
ReadAnswer(a) ==
  /\ pc = "read" /\ socket \in {"open", "shut", "eof"}
  /\ run(a)
  /\ UNCHANGED <<socketVars, signalVars>>

\* An error frame, an unexpected one, or no more data.
ReadFails ==
  /\ pc = "read"
  /\ run("failed")
  /\ socket' = Reported
  /\ UNCHANGED <<g_rpc_socket, opened, closed, signalVars>>

\* The server closes the connection or the link resets it.
ServerCloses(how) ==
  /\ socket = "open"
  /\ socket' = how
  /\ UNCHANGED <<mainVars, g_rpc_socket, opened, closed, signalVars>>

(***************************************************************************)
(* on_signal.                                                              *)
(***************************************************************************)
Ended == pc \in {"done", "killed"}

SignalArrives ==
  /\ handler = "idle" /\ signals < MaxSignals /\ ~Ended
  /\ signals' = signals + 1
  /\ g_stop_requested' = TRUE
  /\ handler' = "entered"
  /\ UNCHANGED <<mainVars, socketVars, captured>>

HandlerReads ==
  /\ handler = "entered"
  /\ handler' = IF g_rpc_socket THEN "captured" ELSE "idle"
  /\ captured' = IF g_rpc_socket THEN opened ELSE 0
  /\ UNCHANGED <<mainVars, socketVars, g_stop_requested, signals>>

\* Mutation: the flag is all that the handler sets.
HandlerOnlySetsFlag ==
  /\ handler = "captured"
  /\ handler' = "idle" /\ captured' = 0
  /\ UNCHANGED <<mainVars, socketVars, g_stop_requested, signals>>

HandlerShutsDown ==
  /\ handler = "captured"
  /\ socket' = IF socket \in {"open", "eof"} THEN "shut" ELSE socket
  /\ handler' = "idle" /\ captured' = 0
  /\ UNCHANGED <<mainVars, g_rpc_socket, opened, closed, g_stop_requested, signals>>

-----------------------------------------------------------------------------
MainStep ==
  \/ OpenFails \/ StartLink \/ StartLinkFails \/ (\E up \in BOOLEAN : wait_for_link(up))
  \/ Attempt \/ (\E b \in BOOLEAN : SocketFails(b)) \/ BeginConnect
  \/ Connected \/ ConnectAttemptFails
  \/ Publish \/ CheckStop \/ Returned \/ ClearRpcSocket \/ Release \/ Finish \/ StopLink
  \/ Sleep \/ Write \/ WriteFails \/ WriteRaisesSigpipe

ReadReturns == ReadFails \/ \E a \in Answers : ReadAnswer(a)

HandlerStep == HandlerReads \/ HandlerShutsDown

Terminated == Ended /\ handler = "idle" /\ UNCHANGED vars

Next == MainStep \/ ReadReturns \/ (\E how \in {"eof", "reset"} : ServerCloses(how))
          \/ SignalArrives \/ HandlerStep \/ Terminated

\* Both threads are scheduled, and a read returns on a socket that was shut down, has
\* come to its end or was reset.  Nothing is assumed of a read on an open one: the TUN
\* device stays when the link is lost, and with neither keepalive nor a time-out the
\* kernel never resets a connection on which nothing is left to send.
Fairness ==
  /\ WF_vars(MainStep) /\ WF_vars(HandlerStep)
  /\ WF_vars(ReadReturns /\ socket # "open")

Spec == Init /\ [][Next]_vars /\ Fairness

-----------------------------------------------------------------------------
(***************************************************************************)
(* Properties.                                                             *)
(***************************************************************************)
\* The loop counters stay within their loops and every other variable has its type.
TypeOK ==
  /\ pc \in {"link", "wait_link", "attempt", "socket", "connecting", "publish", "check",
             "call", "read", "sleep", "returned", "release", "finish", "stop_link",
             "done", "killed"}
  /\ attempt \in Nat
  /\ pc = "wait_link" => attempt <= MaxPolls
  /\ pc \in {"attempt", "socket", "connecting"} => attempt <= MaxAttempts
  /\ pc \in {"call", "read", "sleep"} => attempt <= LastReads
  /\ round \in 1..2
  /\ g_stop_requested \in BOOLEAN /\ g_rpc_socket \in BOOLEAN /\ panid \in BOOLEAN
  /\ socket \in {"none", "connecting", "open", "eof", "reset", "broken", "shut"}
  /\ opened \in Nat /\ closed \in Nat /\ captured \in Nat /\ signals \in 0..MaxSignals
  /\ handler \in {"idle", "entered", "captured"}
  /\ op \in Calls
  /\ result \in {"failure", "success", "retry"}
  /\ link \in {"none", "running", "stopped"}

\* Every socket of connect_rpc is closed exactly once, at the latest when main returns:
\* no attempt, no reconnect and no interrupt leaks one or closes one twice.
SocketsBalanced ==
  /\ opened = closed + (IF socket = "none" THEN 0 ELSE 1)
  /\ pc = "done" => opened = closed

\* The descriptor that on_signal has read still names the socket it was read for when it
\* is shut down, or no socket at all: main may close it in between, but never opens
\* another one that could get its number.
HandlerShutsItsSocket ==
  handler = "captured" => socket = "none" \/ opened = captured

\* "Shut the RPC socket down so a blocking read returns": after an interrupt the first run
\* is not left waiting for the server.
InterruptUnblocksFirstRun ==
  g_stop_requested /\ handler = "idle" /\ pc = "read" /\ round = 1 => socket # "open"

\* The same of both runs.
InterruptUnblocks ==
  g_stop_requested /\ handler = "idle" /\ pc = "read" => socket # "open"

\* The peer is always told that the link goes down: "Best-effort LCP terminate so the peer
\* can restart immediately instead of waiting for echo timeouts".
LinkIsStopped == Ended => link # "running"

\* Whatever the server, the link and the user do, the client comes to its end, or is left
\* waiting for one answer on a connection that neither brings it nor fails: no loop, no
\* reconnect and no failing call keeps it from ending.  An interrupt during the first run
\* ends it wherever it finds it, in a read on a silent connection too.
ClientEnds ==
  /\ <>Ended \/ <>[](pc = "read" /\ socket = "open")
  /\ g_stop_requested /\ round = 1 ~> Ended
=============================================================================
