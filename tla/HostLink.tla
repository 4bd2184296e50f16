------------------------------ MODULE HostLink ------------------------------
(***************************************************************************)
(* The PPP link of zb_rpc_client: serial_io.c, ppp_link.c and ppp_lwip.c,  *)
(* in the order in which main.cpp calls them.                              *)
(*                                                                         *)
(* Three threads work on one PPP control block and on two structs that     *)
(* point at each other, without a lock.  The main thread builds and tears  *)
(* everything down; the serial thread feeds PPP with what it reads; the    *)
(* TUN thread sends packets through PPP and runs its timers.  Both of them *)
(* loop on a volatile flag, and PPP writes through the serial_io behind    *)
(* io.output whichever thread it runs on.  main never sets netdev, so the  *)
(* branches for lwIP's own thread (s_use_tcpip) are not taken.             *)
(*                                                                         *)
(* External, as these files use it: the PPP of lwIP.  It changes state on  *)
(* input, on a timer or when it is closed, writes at any such time, and    *)
(* calls back when a session is up or has ended, in the same thread.  What *)
(* two threads inside it at once do to its own memory is not modelled.     *)
(***************************************************************************)

VARIABLES
  pc,          \* where main is
  thread,      \* where the serial and the TUN thread are
  running,     \* serial->running and link->running
  serial,      \* the struct serial_io and its descriptor: "none", "live" or "freed"
  link,        \* the struct ppp_link
  serial_link, \* whether serial->link is set
  output,      \* whether io.output is set
  ppp,         \* the PPP control block
  s_link_up,
  dropped      \* PPP has written while io.output was not set (history)

structs == <<serial, link, serial_link, output>>
pppVars == <<ppp, s_link_up, dropped>>
vars    == <<pc, thread, running, structs, pppVars>>

Threads == {"serial", "tun"}

Init ==
  /\ pc = "open"
  /\ thread = [t \in Threads |-> "none"]
  /\ running = [t \in Threads |-> FALSE]
  /\ serial = "none" /\ link = "none"
  /\ serial_link = FALSE /\ output = FALSE
  /\ ppp = "none" /\ s_link_up = FALSE /\ dropped = FALSE

Spawn(t) == /\ thread' = [thread EXCEPT ![t] = "check"]
            /\ running' = [running EXCEPT ![t] = TRUE]

free(struct) == IF struct = "live" THEN "freed" ELSE "double"

Joined(t) == thread[t] \in {"none", "exited"}

(***************************************************************************)
(* main: bringing the link up.                                             *)
(***************************************************************************)
serial_io_open ==
  /\ pc = "open"
  /\ serial' = "live"
  /\ Spawn("serial")
  /\ pc' = "create"
  /\ UNCHANGED <<link, serial_link, output, pppVars>>

\* calloc, open, the terminal settings or pthread_create fails; all of it is undone.
SerialOpenFails ==
  /\ pc = "open"
  /\ serial' \in {"none", "freed"}
  /\ pc' = "done"
  /\ UNCHANGED <<thread, running, link, serial_link, output, pppVars>>

ppp_link_create ==
  /\ pc = "create"
  /\ link' = "live"
  /\ pc' = "attach"
  /\ UNCHANGED <<thread, running, serial, serial_link, output, pppVars>>

\* Mutation: main returns without closing the serial port.
LinkCreateFailsReturns ==
  /\ pc = "create"
  /\ link' \in {"none", "freed"}
  /\ pc' = "done"
  /\ UNCHANGED <<thread, running, serial, serial_link, output, pppVars>>

\* calloc fails, or the TUN device cannot be opened or set up.
LinkCreateFails ==
  /\ pc = "create"
  /\ link' \in {"none", "freed"}
  /\ pc' = "close_serial"
  /\ UNCHANGED <<thread, running, serial, serial_link, output, pppVars>>

\* serial_io_attach: first the one pointer, then the other.
AttachLink ==
  /\ pc = "attach"
  /\ serial_link' = TRUE
  /\ pc' = "set_output"
  /\ UNCHANGED <<thread, running, serial, link, output, pppVars>>

\* Mutation: the pointer from the serial port to the link is the only one.
SetOutputForgotten ==
  /\ pc = "set_output"
  /\ pc' = "init"
  /\ UNCHANGED <<thread, running, structs, pppVars>>

SetOutput ==
  /\ pc = "set_output"
  /\ output' = TRUE
  /\ pc' = "init"
  /\ UNCHANGED <<thread, running, serial, link, serial_link, pppVars>>

\* ppp_link_lwip_init.  PPP is created before it is configured and before it listens; ppp
\* is set from here on, so the serial thread may be inside already.
CreatePpp ==
  /\ pc = "init"
  /\ ppp' = "created"
  /\ pc' = "configure"
  /\ UNCHANGED <<thread, running, structs, s_link_up, dropped>>

CreatePppFails ==
  /\ pc = "init"
  /\ pc' = "stop_tun"
  /\ UNCHANGED <<thread, running, structs, pppVars>>

\* An address that cannot be parsed fails it; PPP is left as it was created.
configure_ppp_server ==
  /\ pc = "configure"
  /\ pc' \in {"listen", "stop_tun"}
  /\ UNCHANGED <<thread, running, structs, pppVars>>

\* ppp_listen: the first Configure-Request is written.
Listen ==
  /\ pc = "listen"
  /\ ppp' = "open"
  /\ dropped' = (dropped \/ ~output)
  /\ pc' = "spawn"
  /\ UNCHANGED <<thread, running, structs, s_link_up>>

ListenFails ==
  /\ pc = "listen"
  /\ pc' = "stop_tun"
  /\ UNCHANGED <<thread, running, structs, pppVars>>

SpawnTun ==
  /\ pc = "spawn"
  /\ Spawn("tun")
  /\ pc' = "use"
  /\ UNCHANGED <<structs, pppVars>>

SpawnTunFails ==
  /\ pc = "spawn"
  /\ pc' = "stop_tun"
  /\ UNCHANGED <<thread, running, structs, pppVars>>

(***************************************************************************)
(* main: taking it down.  The thread of the client ends its run at any     *)
(* time, with the link up or not.                                          *)
(***************************************************************************)
EndUse ==
  /\ pc = "use"
  /\ pc' = "stop_tun"
  /\ UNCHANGED <<thread, running, structs, pppVars>>

StopTunThread ==
  /\ pc = "stop_tun"
  /\ running' = [running EXCEPT !["tun"] = FALSE]
  /\ pc' = "join_tun"
  /\ UNCHANGED <<thread, structs, pppVars>>

JoinTunThread ==
  /\ pc = "join_tun" /\ Joined("tun")
  /\ pc' = "close_ppp"
  /\ UNCHANGED <<thread, running, structs, pppVars>>

\* ppp_link_lwip_stop.  A session is terminated with a request to the peer, and ends at
\* once or with the answer; one that never began, or is over, only calls back.
ClosePpp ==
  /\ pc = "close_ppp"
  /\ ppp' \in CASE ppp \in {"open", "running"} -> {"closing", "dead"}
                [] ppp = "created"             -> {"dead"}
                [] OTHER                       -> {ppp}
  /\ dropped' = (dropped \/ (ppp \in {"open", "running"} /\ ~output))
  /\ s_link_up' = IF ppp' = "dead" THEN FALSE ELSE s_link_up
  /\ pc' = "close_serial"
  /\ UNCHANGED <<thread, running, structs>>

\* serial_io_close, in four steps.
StopSerialThread ==
  /\ pc = "close_serial"
  /\ running' = [running EXCEPT !["serial"] = FALSE]
  /\ pc' = "join_serial"
  /\ UNCHANGED <<thread, structs, pppVars>>

\* Mutation: the thread is told to stop and not waited for.
JoinSerialOmitted ==
  /\ pc = "join_serial"
  /\ pc' = "detach"
  /\ UNCHANGED <<thread, running, structs, pppVars>>

JoinSerialThread ==
  /\ pc = "join_serial" /\ Joined("serial")
  /\ pc' = "detach"
  /\ UNCHANGED <<thread, running, structs, pppVars>>

Detach ==
  /\ pc = "detach"
  /\ output' = IF serial_link THEN FALSE ELSE output
  /\ serial_link' = FALSE
  /\ pc' = "free_serial"
  /\ UNCHANGED <<thread, running, serial, link, pppVars>>

\* Mutation: the path of a failed start closes the port and goes on to the end of main.
FreeSerialTwice ==
  /\ pc = "free_serial"
  /\ serial' = free(serial)
  /\ pc' = IF running["tun"] \/ thread["tun"] # "none" THEN "destroy" ELSE "close_serial"
  /\ UNCHANGED <<thread, running, link, serial_link, output, pppVars>>

FreeSerial ==
  /\ pc = "free_serial"
  /\ serial' = free(serial)
  /\ pc' = IF link = "live" THEN "destroy" ELSE "done"
  /\ UNCHANGED <<thread, running, link, serial_link, output, pppVars>>

\* ppp_link_destroy; its own join finds the thread joined.
ppp_link_destroy ==
  /\ pc = "destroy"
  /\ link' = free(link)
  /\ pc' = "done"
  /\ UNCHANGED <<thread, running, serial, serial_link, output, pppVars>>

(***************************************************************************)
(* The two loops.                                                          *)
(***************************************************************************)
Move(t, to) ==
  /\ thread' = [thread EXCEPT ![t] = to]
  /\ UNCHANGED <<pc, running, structs>>

CheckRunning(t) ==
  /\ thread[t] = "check"
  /\ Move(t, IF running[t] THEN "wait" ELSE "exited")
  /\ UNCHANGED pppVars

\* Mutation: the loop has no end but an error.
NothingReadPollsOn(t) ==
  /\ thread[t] = "wait"
  /\ UNCHANGED vars

\* Nothing to read within the time-out of poll, an interrupt, a short or unknown packet,
\* or an error of the TUN device, which its thread ignores.
NothingRead(t) ==
  /\ thread[t] = "wait"
  /\ Move(t, "check")
  /\ UNCHANGED pppVars

\* An error of the serial device ends its thread.
SerialFails ==
  /\ thread["serial"] = "wait"
  /\ Move("serial", "exited")
  /\ UNCHANGED pppVars

\* Bytes have come in: they are for PPP, if there is a link and a PPP.
SerialInput ==
  /\ thread["serial"] = "wait"
  /\ Move("serial", IF serial_link /\ ppp # "none" THEN "ppp" ELSE "check")
  /\ UNCHANGED pppVars

\* A packet to send; or, when select times out, the timers.
TunPacket ==
  /\ thread["tun"] = "wait"
  /\ Move("tun", "ppp")
  /\ UNCHANGED pppVars

TunTimers ==
  /\ thread["tun"] = "wait"
  /\ Move("tun", "timers")
  /\ UNCHANGED pppVars

(***************************************************************************)
(* PPP (external), in the thread that has called it.                       *)
(***************************************************************************)
Active == ppp \in {"open", "running", "closing"}

\* It writes or does not; a control block that is not open never does.
Writes == \/ Active /\ dropped' = (dropped \/ ~output)
          \/ UNCHANGED dropped

PppStays(t) ==
  /\ thread[t] \in {"ppp", "timers"}
  /\ Writes
  /\ Move(t, "check")
  /\ UNCHANGED <<ppp, s_link_up>>

Negotiated ==
  /\ thread["serial"] = "ppp" /\ ppp = "open"
  /\ ppp' = "running"
  /\ Writes
  /\ Move("serial", "cb_up")
  /\ UNCHANGED s_link_up

\* The peer starts over: no callback is made.
Renegotiates ==
  /\ thread["serial"] = "ppp" /\ ppp = "running"
  /\ ppp' = "open"
  /\ Writes
  /\ Move("serial", "check")
  /\ UNCHANGED s_link_up

\* The peer's terminate request or acknowledgement, or the last retransmission.
SessionEnds(t) ==
  /\ \/ t = "serial" /\ thread[t] = "ppp" /\ Active
     \/ t = "tun" /\ thread[t] = "timers" /\ ppp \in {"open", "closing"}
  /\ ppp' = "dead"
  /\ Writes
  /\ Move(t, "cb_error")
  /\ UNCHANGED s_link_up

(***************************************************************************)
(* ppp_link_status_cb.                                                     *)
(***************************************************************************)
StatusUp(t) ==
  /\ thread[t] = "cb_up"
  /\ s_link_up' = TRUE
  /\ Move(t, "check")
  /\ UNCHANGED <<ppp, dropped>>

\* Mutation: only some of the errors clear the flag.
StatusErrorKeepsFlag(t) ==
  /\ thread[t] = "cb_error"
  /\ Move(t, "check")
  /\ s_link_up' \in {s_link_up, FALSE}
  /\ UNCHANGED <<ppp, dropped>>

StatusError(t) ==
  /\ thread[t] = "cb_error"
  /\ s_link_up' = FALSE
  /\ Move(t, "check")
  /\ UNCHANGED <<ppp, dropped>>

-----------------------------------------------------------------------------
MainStep ==
  \/ serial_io_open \/ SerialOpenFails \/ ppp_link_create \/ LinkCreateFails
  \/ AttachLink \/ SetOutput \/ CreatePpp \/ CreatePppFails
  \/ configure_ppp_server \/ Listen \/ ListenFails
  \/ SpawnTun \/ SpawnTunFails
  \/ StopTunThread \/ JoinTunThread \/ ClosePpp
  \/ StopSerialThread \/ JoinSerialThread \/ Detach \/ FreeSerial \/ ppp_link_destroy

\* What a thread does of itself, and what the devices and the peer make it do.
LoopStep(t) ==
  CheckRunning(t) \/ NothingRead(t) \/ PppStays(t) \/ StatusUp(t) \/ StatusError(t)

Event == SerialFails \/ SerialInput \/ Negotiated \/ Renegotiates \/ TunPacket \/ TunTimers

Terminated == pc = "done" /\ (\A t \in Threads : Joined(t)) /\ UNCHANGED vars

Next == MainStep \/ EndUse \/ Event \/ Terminated
          \/ \E t \in Threads : LoopStep(t) \/ SessionEnds(t)

\* The three threads are scheduled, and poll and select have time-outs.  Nothing is
\* assumed of the end of the client's run, of the peer or of traffic.
Fairness == WF_vars(MainStep) /\ \A t \in Threads : WF_vars(LoopStep(t))

Spec == Init /\ [][Next]_vars /\ Fairness

-----------------------------------------------------------------------------
(***************************************************************************)
(* Properties.                                                             *)
(***************************************************************************)
\* The structs, the flags, the threads and PPP have their types.
TypeOK ==
  /\ pc \in {"open", "create", "attach", "set_output", "init", "configure", "listen",
             "spawn", "use", "stop_tun", "join_tun", "close_ppp", "close_serial",
             "join_serial", "detach", "free_serial", "destroy", "done"}
  /\ thread \in [Threads -> {"none", "check", "wait", "ppp", "timers", "cb_up", "cb_error",
                             "exited"}]
  /\ running \in [Threads -> BOOLEAN]
  /\ serial \in {"none", "live", "freed"} /\ link \in {"none", "live", "freed"}
  /\ serial_link \in BOOLEAN /\ output \in BOOLEAN
  /\ ppp \in {"none", "created", "open", "running", "closing", "dead"}
  /\ s_link_up \in BOOLEAN /\ dropped \in BOOLEAN

InPpp(t) == thread[t] \in {"ppp", "timers", "cb_up", "cb_error"}

\* No thread uses what main has freed: each loop has its own struct, and PPP, whichever
\* thread it runs on, has both (it writes through the one and delivers to the other).
NoUseAfterFree ==
  /\ ~Joined("serial") => serial = "live"
  /\ ~Joined("tun") => link = "live"
  /\ \A t \in Threads : InPpp(t) => serial = "live" /\ link = "live"

\* "Start lwIP only after the transport callbacks are in place", and detach them only when
\* nobody writes any more: no frame of PPP is ever dropped for want of an output.
NoFrameDropped == ~dropped

\* Whichever step of the start fails, main leaves no thread, struct or descriptor behind.
EverythingReleased ==
  pc = "done" => serial # "live" /\ link # "live" /\ \A t \in Threads : Joined(t)

\* "Clear observable link state on every failure": while main looks at it, the link is not
\* up once a session has ended and its callbacks have returned, whichever threads they ran
\* on and in whichever order.
DeadLinkIsNotUp ==
  pc = "use" /\ ppp = "dead" /\ (\A t \in Threads : ~InPpp(t)) => ~s_link_up

\* Once the client's run has ended the program comes to its end, whatever arrives on the
\* serial port and the TUN device: each join returns.
StopReturns == pc = "stop_tun" ~> pc = "done"
=============================================================================
