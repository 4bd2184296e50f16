------------------------------ MODULE PppUart ------------------------------
(***************************************************************************)
(* The link supervisor of zb_rpc_server/main/ppp_uart.c: the event         *)
(* handlers, which run one at a time in the default event loop, and        *)
(* reconnect_task, which tears a failed PPP session down and starts the    *)
(* next one.  The two share an event group of two bits and a task          *)
(* notification, and neither sees the state of PPP itself.                 *)
(*                                                                         *)
(* External, as this file uses them: the PPP session of lwIP behind        *)
(* esp_netif_action_*, which posts PHASE_DEAD and then an error event when *)
(* a session ends, for whatever reason, the one the file itself asks for   *)
(* included; and the peer.                                                 *)
(***************************************************************************)
EXTENDS Naturals, Sequences

CONSTANTS MaxFaults,    \* bound: sessions that fail, are lost or are renegotiated
          MaxPeerDowns, \* bound: times the peer goes away
          MaxEvents     \* bound: events posted to the loop and not yet handled

ASSUME BoundsAssumption == MaxFaults \in Nat /\ MaxPeerDowns \in Nat /\ MaxEvents \in Nat

VARIABLES
  ppp,        \* the session: "dead", "starting", "running" or "closing"
  peer,       \* whether the host answers
  faults, downs,
  events,     \* events posted to the loop and not yet handled
  LINK_UP, PHASE_DEAD,   \* the bits of s_link_events
  notified,   \* the notification value of reconnect_task is not zero
  task        \* where reconnect_task is

bits == <<LINK_UP, PHASE_DEAD>>
env  == <<peer, faults, downs>>
vars == <<ppp, env, events, bits, notified, task>>

\* ppp_uart_start has registered the handlers, created the tasks and started a session.
Init ==
  /\ ppp = "starting"
  /\ peer \in BOOLEAN
  /\ faults = 0 /\ downs = 0
  /\ events = <<>>
  /\ LINK_UP = FALSE /\ PHASE_DEAD = FALSE
  /\ notified = FALSE
  /\ task = "take"

Post(es) ==
  /\ Len(events) + Len(es) <= MaxEvents
  /\ events' = events \o es

(***************************************************************************)
(* The event handlers.                                                     *)
(***************************************************************************)
\* Mutation: the link is still taken to be up.
RequestReconnectKeepsBit ==
  /\ UNCHANGED LINK_UP
  /\ notified' = TRUE

\* Mutation: only the loss of a link that was up starts a reconnect.
RequestReconnectIfUp ==
  /\ LINK_UP' = FALSE
  /\ notified' = (notified \/ LINK_UP)

request_reconnect ==
  /\ LINK_UP' = FALSE
  /\ notified' = TRUE

GotIp ==
  /\ PHASE_DEAD' = FALSE
  /\ LINK_UP' = TRUE
  /\ UNCHANGED notified

LostIp ==
  /\ request_reconnect
  /\ UNCHANGED PHASE_DEAD

PhaseDead ==
  /\ PHASE_DEAD' = TRUE
  /\ UNCHANGED <<LINK_UP, notified>>

\* Every status but ERRORNONE and the phases, NETIF_PPP_ERRORUSER included.
StatusError ==
  /\ request_reconnect
  /\ UNCHANGED PHASE_DEAD

HandleEvent ==
  /\ events # <<>>
  /\ events' = Tail(events)
  /\ \/ Head(events) = "GOT_IP"     /\ GotIp
     \/ Head(events) = "LOST_IP"    /\ LostIp
     \/ Head(events) = "PHASE_DEAD" /\ PhaseDead
     \/ Head(events) = "ERROR"      /\ StatusError
  /\ UNCHANGED <<ppp, env, task>>

(***************************************************************************)
(* reconnect_task.                                                         *)
(***************************************************************************)
NotifyTake ==
  /\ task = "take" /\ notified
  /\ notified' = FALSE
  /\ task' = "delay"
  /\ UNCHANGED <<ppp, env, events, bits>>

\* PPP_RECONNECT_DELAY_MS is over; nothing is known of what else happened in that second.
DelayOver ==
  /\ task = "delay"
  /\ task' = IF LINK_UP THEN "take" ELSE "disconnect"
  /\ UNCHANGED <<ppp, env, events, bits, notified>>

\* esp_netif_action_disconnected and _stop.  Which of them closes the PPP session is left
\* open: each does or does not.  Closing a dead session only calls back with the error.
CloseSession ==
  \/ ppp = "dead" /\ Post(<<"ERROR">>) /\ UNCHANGED ppp
  \/ ppp # "dead" /\ ppp' = "closing" /\ UNCHANGED events
  \/ UNCHANGED <<ppp, events>>

Disconnect ==
  /\ task = "disconnect"
  /\ CloseSession
  /\ task' = "wait_dead"
  /\ UNCHANGED <<env, bits, notified>>

\* xEventGroupWaitBits sees PHASE_DEAD, without clearing it, and the netif is stopped.
SawDead ==
  /\ task = "wait_dead" /\ PHASE_DEAD
  /\ CloseSession
  /\ task' = "clear"
  /\ UNCHANGED <<env, bits, notified>>

\* Mutation: the task function returns, which FreeRTOS does not allow.
StopTimeoutReturns ==
  /\ task = "wait_dead" /\ ~PHASE_DEAD
  /\ notified' = TRUE
  /\ task' = "returned"
  /\ UNCHANGED <<ppp, env, events, bits>>

\* PPP_STOP_TIMEOUT_MS is over without a dead phase.
StopTimeout ==
  /\ task = "wait_dead" /\ ~PHASE_DEAD
  /\ notified' = TRUE
  /\ task' = "take"
  /\ UNCHANGED <<ppp, env, events, bits>>

\* Mutation: the bit of the last session stays set.
ClearDeadOmitted ==
  /\ task = "clear"
  /\ task' = "start"
  /\ UNCHANGED <<ppp, env, events, bits, notified>>

ClearDead ==
  /\ task = "clear"
  /\ PHASE_DEAD' = FALSE
  /\ task' = "start"
  /\ UNCHANGED <<ppp, env, events, LINK_UP, notified>>

\* esp_netif_action_start and _connected; PPP refuses to start unless it is dead.
StartSession ==
  /\ task = "start"
  /\ ppp' = IF ppp = "dead" THEN "starting" ELSE ppp
  /\ task' = "take"
  /\ UNCHANGED <<env, events, bits, notified>>

(***************************************************************************)
(* PPP and the peer (external).                                            *)
(***************************************************************************)
Negotiated ==
  /\ ppp = "starting" /\ peer
  /\ ppp' = "running"
  /\ Post(<<"GOT_IP">>)
  /\ UNCHANGED <<env, bits, notified, task>>

\* A session ends: no answer, echo failure, the peer's terminate request.  The loss of
\* the address is reported with it or not.
Ended(lost) == Post(IF lost THEN <<"PHASE_DEAD", "ERROR", "LOST_IP">> ELSE <<"PHASE_DEAD", "ERROR">>)

SessionFails ==
  /\ ppp \in {"starting", "running"}
  /\ \/ ~peer /\ UNCHANGED faults
     \/ peer /\ faults < MaxFaults /\ faults' = faults + 1
  /\ ppp' = "dead"
  /\ Ended(ppp = "running")
  /\ UNCHANGED <<peer, downs, bits, notified, task>>

\* A peer that restarts renegotiates the running session.
Renegotiate ==
  /\ ppp = "running" /\ peer /\ faults < MaxFaults
  /\ faults' = faults + 1
  /\ ppp' = "starting"
  /\ UNCHANGED events \/ Post(<<"LOST_IP">>)
  /\ UNCHANGED <<peer, downs, bits, notified, task>>

Closed ==
  /\ ppp = "closing"
  /\ ppp' = "dead"
  /\ Ended(FALSE)
  /\ UNCHANGED <<env, bits, notified, task>>

PeerChanges ==
  /\ peer => downs < MaxPeerDowns
  /\ downs' = IF peer THEN downs + 1 ELSE downs
  /\ peer' = ~peer
  /\ UNCHANGED <<ppp, faults, events, bits, notified, task>>

-----------------------------------------------------------------------------
TaskStep == \/ NotifyTake \/ DelayOver \/ Disconnect \/ SawDead \/ StopTimeout
            \/ ClearDead \/ StartSession

Next == HandleEvent \/ TaskStep \/ Negotiated \/ SessionFails \/ Renegotiate \/ Closed
          \/ PeerChanges

\* The event loop and the task are scheduled, a negotiation with a peer that answers
\* succeeds, one without fails, and a close ends.
Fairness == /\ WF_vars(HandleEvent) /\ WF_vars(TaskStep)
            /\ WF_vars(Negotiated) /\ WF_vars(Closed)
            /\ WF_vars(SessionFails /\ ~peer)

Spec == Init /\ [][Next]_vars /\ Fairness

-----------------------------------------------------------------------------
(***************************************************************************)
(* Properties.                                                             *)
(***************************************************************************)
EventTypes == {"GOT_IP", "LOST_IP", "PHASE_DEAD", "ERROR"}

\* The bits, the notification, the task and the session have their types.
TypeOK ==
  /\ ppp \in {"dead", "starting", "running", "closing"}
  /\ peer \in BOOLEAN /\ faults \in 0..MaxFaults /\ downs \in 0..MaxPeerDowns
  /\ events \in Seq(EventTypes) /\ Len(events) <= MaxEvents
  /\ LINK_UP \in BOOLEAN /\ PHASE_DEAD \in BOOLEAN /\ notified \in BOOLEAN
  /\ task \in {"take", "delay", "disconnect", "wait_dead", "clear", "start"}

\* "Restarting PPP negotiation from dead phase": when reconnect_task starts a session the
\* last one has ended, although the PHASE_DEAD bit it waited for may have been set by any
\* earlier event.
RestartsFromDead == task \in {"clear", "start"} => ppp = "dead"

\* The recovery is never lost: while there is no session, an event is still to be
\* handled, the task is at work or it has a notification to act on.
SomeoneRecovers ==
  ppp = "dead" => events # <<>> \/ notified \/ task # "take"

\* When all events are handled, the bit the RPC server waits on and polls is right: a dead
\* link is not up, and a running one is, whatever errors the task's own disconnects have
\* posted in between.
LinkBitHonest ==
  events = <<>> => /\ LINK_UP => ppp # "dead"
                   /\ ppp = "running" => LINK_UP

\* A negotiation with a peer that answers is over, and so are the handlers of the events
\* already posted.
Settled == ~(ppp = "starting" /\ peer) /\ events = <<>>

\* From some time on the delay of reconnect_task outlasts negotiation and handlers.
DelaysOutlast == <>[][DelayOver => Settled]_vars

\* When the peer answers for good, the link comes up and stays up, whatever spurious
\* notifications the task's own disconnects have left behind: the one-second delay only
\* has to outlast a negotiation, since a slower one is torn down by such a notification.
LinkRecovers == DelaysOutlast /\ <>[]peer => <>[](LINK_UP /\ ppp = "running")
=============================================================================
