----------------------- MODULE ThermostatClientProofs -----------------------
(***************************************************************************)
(* Proofs of the safety properties of ThermostatClient, for loops of any   *)
(* length and any number of signals.                                       *)
(*                                                                         *)
(* The inductive invariant says how far each loop has come (CounterInv),   *)
(* what main's place tells of the socket and of g_rpc_socket (SocketInv),  *)
(* and why the handler cannot hold a descriptor that main reuses: it holds *)
(* one only after it has asked main to stop, and connect_rpc opens no      *)
(* socket after that (SignalInv).                                          *)
(***************************************************************************)
EXTENDS ThermostatClient, TLAPS

CounterInv ==
  /\ pc = "link" => attempt = 0
  /\ pc \in {"socket", "connecting"} => attempt < MaxAttempts
  /\ pc = "check" => attempt = 0 /\ op = "panid"
  /\ pc \in {"call", "read"} /\ op \notin {"last", "temp"} => attempt = 0
  /\ pc \in {"call", "read"} /\ op = "last" => attempt < LastReads

\* The places of main at which it has no socket, one being connected, and one in use.
Without == {"link", "wait_link", "attempt", "socket", "stop_link", "done"}
Using   == {"check", "call", "read", "sleep", "returned"}

SocketInv ==
  /\ pc \in Without => socket = "none"
  /\ pc = "connecting" => socket = "connecting"
  /\ pc \in Using \cup {"publish", "release"} => socket \notin {"none", "connecting"}
  /\ pc \in Using => g_rpc_socket
  /\ pc \in Without \cup {"connecting", "publish"} => ~g_rpc_socket

SignalInv ==
  /\ handler # "idle" => g_stop_requested
  /\ pc \in {"socket", "connecting", "publish"} => handler # "captured"
  /\ round = 1 /\ pc \in {"call", "read", "sleep"} /\ g_stop_requested
       => handler # "idle" \/ socket # "open"

IInv == TypeOK /\ CounterInv /\ SocketInv /\ SignalInv
          /\ SocketsBalanced /\ HandlerShutsItsSocket

-----------------------------------------------------------------------------
(***************************************************************************)
(* thermostat_app::run.                                                    *)
(***************************************************************************)
\* The order of the commissioning calls: each is followed by a call, and only the last of
\* them by the readings.
LEMMA CommissioningFacts ==
  /\ DOMAIN Commissioning =
       {"open", "annce", "find", "basic", "bind", "subscribe", "report"}
  /\ \A o \in DOMAIN Commissioning :
       Commissioning[o] \in (DOMAIN Commissioning) \cup {"last"}
BY DEF Commissioning

\* What follows a call: the next one, a sleep or the return, with the counter within the
\* loop that it counts.
LEMMA RunFacts ==
  ASSUME TypeOK, CounterInv, pc \in {"call", "read"},
         NEW ended \in Answers \cup {"failed"}, run(ended)
  PROVE  /\ pc' \in {"call", "sleep", "returned"}
         /\ op' \in Calls /\ attempt' \in Nat /\ panid' \in BOOLEAN
         /\ result' \in {"failure", "success", "retry"}
         /\ round' = round /\ link' = link
         /\ pc' \in {"call", "sleep"} => attempt' <= LastReads
         /\ pc' = "call" /\ op' \notin {"last", "temp"} => attempt' = 0
         /\ pc' = "call" /\ op' = "last" => attempt' < LastReads
<1> USE LimitsAssumption, CommissioningFacts
        DEF TypeOK, CounterInv, run, Return, Call, Calls, Answers
<1>1. CASE op = "panid"
  BY <1>1
<1>2. CASE op = "channel"
  BY <1>2
<1>3. CASE op = "sensor_addr"
  BY <1>3
<1>4. CASE op = "find_known"
  BY <1>4
<1>5. CASE op \in DOMAIN Commissioning
  BY <1>5
<1>6. CASE op = "last"
  BY <1>6
<1>7. CASE op = "temp"
  BY <1>7
<1>8. QED
  BY <1>1, <1>2, <1>3, <1>4, <1>5, <1>6, <1>7

-----------------------------------------------------------------------------
\* The invariant holds when main begins.
LEMMA IInvInit == Init => IInv
<1> SUFFICES ASSUME Init PROVE IInv
  OBVIOUS
<1>1. /\ g_rpc_socket \in BOOLEAN /\ g_stop_requested \in BOOLEAN /\ panid \in BOOLEAN
      /\ ~g_rpc_socket
  BY Zenon DEF Init
<1>2. TypeOK /\ CounterInv
  BY <1>1, LimitsAssumption DEF Init, TypeOK, CounterInv, Calls
<1>3. SocketInv /\ SignalInv /\ SocketsBalanced /\ HandlerShutsItsSocket
  BY <1>1 DEF Init, SocketInv, SignalInv, SocketsBalanced, HandlerShutsItsSocket, Without, Using
<1>4. QED
  BY <1>2, <1>3 DEF IInv

\* Every step of main, of the handler and of the server preserves it.
LEMMA IInvNext == IInv /\ [Next]_vars => IInv'
<1> SUFFICES ASSUME IInv, [Next]_vars PROVE IInv'
  OBVIOUS
<1> USE LimitsAssumption
    DEF IInv, TypeOK, CounterInv, SocketInv, SignalInv, SocketsBalanced,
        HandlerShutsItsSocket, Without, Using, mainVars, socketVars, signalVars
<1>1. CASE OpenFails
  BY <1>1 DEF OpenFails, Goto
<1>2. CASE StartLink
  BY <1>2 DEF StartLink
<1>3. CASE StartLinkFails
  BY <1>3 DEF StartLinkFails
<1>4. ASSUME NEW up \in BOOLEAN, wait_for_link(up) PROVE IInv'
  BY <1>4 DEF wait_for_link
<1>5. CASE Attempt
  BY <1>5 DEF Attempt, Goto, ConnectFailed
<1>6. ASSUME NEW b \in BOOLEAN, SocketFails(b) PROVE IInv'
  BY <1>6 DEF SocketFails, Goto, ConnectFailed
<1>7. CASE BeginConnect
  BY <1>7 DEF BeginConnect, Goto
<1>8. CASE Connected
  BY <1>8 DEF Connected, Goto
<1>9. CASE ConnectAttemptFails
  BY <1>9 DEF ConnectAttemptFails
<1>10. CASE Publish
  BY <1>10 DEF Publish, Calls
<1>11. CASE CheckStop
  BY <1>11 DEF CheckStop, Goto
<1>12. CASE Returned
  BY <1>12 DEF Returned, Goto
<1>13. CASE ClearRpcSocket
  <2>1. g_rpc_socket' \in BOOLEAN /\ ~g_rpc_socket'
    BY <1>13, Zenon DEF ClearRpcSocket
  <2>2. QED
    BY <1>13, <2>1 DEF ClearRpcSocket
<1>14. CASE Release
  <2>1. g_rpc_socket' \in BOOLEAN /\ ~g_rpc_socket'
    BY <1>14, Zenon DEF Release, CloseSocket
  <2>2. QED
    BY <1>14, <2>1 DEF Release, CloseSocket
<1>15. CASE Finish
  <2>1. g_rpc_socket' \in BOOLEAN /\ ~g_rpc_socket'
    BY <1>15, Zenon DEF Finish, CloseSocket
  <2>2. QED
    BY <1>15, <2>1 DEF Finish, CloseSocket, Goto
<1>16. CASE StopLink
  BY <1>16 DEF StopLink
<1>17. CASE Sleep
  BY <1>17 DEF Sleep, Calls
<1>18. CASE Write
  BY <1>18 DEF Write, Goto
<1>19. CASE WriteFails
  BY <1>19, RunFacts DEF WriteFails, Reported
<1>20. CASE WriteRaisesSigpipe
  BY <1>20 DEF WriteRaisesSigpipe, Goto
<1>21. CASE ReadFails
  BY <1>21, RunFacts DEF ReadFails, Reported
<1>22. ASSUME NEW a \in Answers, ReadAnswer(a) PROVE IInv'
  BY <1>22, RunFacts DEF ReadAnswer
<1>23. ASSUME NEW how \in {"eof", "reset"}, ServerCloses(how) PROVE IInv'
  BY <1>23 DEF ServerCloses
<1>24. CASE SignalArrives
  BY <1>24 DEF SignalArrives, Ended
<1>25. CASE HandlerReads
  BY <1>25 DEF HandlerReads
<1>26. CASE HandlerShutsDown
  BY <1>26 DEF HandlerShutsDown
<1>27. CASE Terminated \/ UNCHANGED vars
  BY <1>27 DEF Terminated, vars
<1>28. QED
  BY <1>1, <1>2, <1>3, <1>4, <1>5, <1>6, <1>7, <1>8, <1>9, <1>10, <1>11, <1>12, <1>13, <1>14,
     <1>15, <1>16, <1>17, <1>18, <1>19, <1>20, <1>21, <1>22, <1>23, <1>24, <1>25, <1>26, <1>27
  DEF Next, MainStep, ReadReturns, HandlerStep

\* The invariant holds throughout every behaviour of the program.
THEOREM Invariance == Spec => []IInv
BY IInvInit, IInvNext, PTL DEF Spec

\* The loop counters stay within their loops and every variable keeps its type.
THEOREM TypeCorrect == Spec => []TypeOK
<1>1. IInv => TypeOK
  BY DEF IInv
<1>2. QED
  BY <1>1, Invariance, PTL

\* connect_rpc, the reconnect and main close every socket exactly once.
THEOREM SocketsAreBalanced == Spec => []SocketsBalanced
<1>1. IInv => SocketsBalanced
  BY DEF IInv
<1>2. QED
  BY <1>1, Invariance, PTL

\* on_signal shuts down the socket whose descriptor it has read, or none.
THEOREM HandlerShutsOnlyItsSocket == Spec => []HandlerShutsItsSocket
<1>1. IInv => HandlerShutsItsSocket
  BY DEF IInv
<1>2. QED
  BY <1>1, Invariance, PTL

\* After an interrupt the first run does not wait on a socket that is still open.
THEOREM InterruptReachesFirstRun == Spec => []InterruptUnblocksFirstRun
<1>1. IInv => InterruptUnblocksFirstRun
  BY DEF IInv, SignalInv, InterruptUnblocksFirstRun
<1>2. QED
  BY <1>1, Invariance, PTL
=============================================================================
