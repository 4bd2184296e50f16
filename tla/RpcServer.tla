----------------------------- MODULE RpcServer -----------------------------
(***************************************************************************)
(* zb_rpc_server/main/rpc_server.cpp: the one task that accepts, serves    *)
(* and closes the clients of the ESP32, one at a time, and the queue of    *)
(* device announcements that its longest handler waits on.                 *)
(*                                                                         *)
(* External, as this file uses them: the TCP sockets of lwIP (a listener   *)
(* with a backlog of one, orderly shutdown, reset when the interface loses *)
(* its address), the PPP_LINK_UP bit of ppp_uart.c, which follows the loss *)
(* of the address with a delay, and the clients, which keep at most one    *)
(* request in flight.                                                      *)
(***************************************************************************)
EXTENDS Naturals, Sequences, FiniteSets

CONSTANTS Conns,        \* the connections clients make
          NoConn,       \* no connection: the fd -1
          Slices,       \* k_annce_timeout_ms / k_annce_slice_ms
          AnnceQLen,    \* length of s_annce_q
          MaxRequests,  \* bound: requests per connection
          MaxAnnce,     \* bound: device announcements
          MaxLosses     \* bound: times the address is lost for no reason of the host's

ASSUME ConnsAssumption  == NoConn \notin Conns
ASSUME SlicesAssumption == Slices \in Nat \ {0} /\ AnnceQLen \in Nat \ {0}
ASSUME BoundsAssumption == MaxRequests \in Nat /\ MaxAnnce \in Nat /\ MaxLosses \in Nat

\* The requests the server tells apart: one it answers from the stack, one that waits
\* for an announcement, and one it refuses (bad magic, oversized, unknown API or a
\* payload of the wrong size).
Kinds == {"stack", "annce", "refused"}

VARIABLES
  pc,           \* where server_task is
  s_client_fd,  \* the connection being served, NoConn for -1
  remaining,    \* slices left to handle_wait_annce
  response,     \* what the handler returned and is to be sent
  listener,     \* whether the listening socket exists
  link,         \* the PPP_LINK_UP bit
  ip,           \* whether the interface has its address
  host,         \* the machine at the other end: "up" or "dead"
  losses,
  conn,         \* the state of each connection on the server
  peer,         \* whether its client is there, has closed, or is gone with its host
  inbox,        \* the request that has arrived and is not yet read
  sent,         \* the requests a client has made (history)
  replies,      \* what it has been answered (history)
  s_annce_q,    \* announcements queued for zigbee_wait_annce
  announced,    \* number of announcements so far
  fate,         \* what became of each announcement (history)
  wasted        \* slices waited through for a client known to be gone (history)

serverVars == <<pc, s_client_fd, remaining, response, listener>>
linkVars   == <<link, ip, host, losses>>
tcpVars    == <<conn, peer, inbox, sent, replies>>
annceVars  == <<s_annce_q, announced, fate>>
vars       == <<serverVars, linkVars, tcpVars, annceVars, wasted>>

NoResponse == [kind |-> "none", annce |-> 0]

Init ==
  /\ pc = "wait_link"
  /\ s_client_fd = NoConn
  /\ remaining = 0
  /\ response = NoResponse
  /\ listener = FALSE
  /\ link = FALSE /\ ip = FALSE /\ host = "up" /\ losses = 0
  /\ conn = [c \in Conns |-> "none"]
  /\ peer = [c \in Conns |-> "up"]
  /\ inbox = [c \in Conns |-> "none"]
  /\ sent = [c \in Conns |-> <<>>]
  /\ replies = [c \in Conns |-> <<>>]
  /\ s_annce_q = <<>>
  /\ announced = 0
  /\ fate = [n \in 1..MaxAnnce |-> "none"]
  /\ wasted = 0

(***************************************************************************)
(* server_task.                                                            *)
(***************************************************************************)
CreateListener ==
  /\ pc = "wait_link" /\ link
  /\ listener' = TRUE
  /\ pc' = "accept"
  /\ UNCHANGED <<s_client_fd, remaining, response, linkVars, tcpVars, annceVars, wasted>>

\* socket, bind or listen fails: one second later the task starts over.
CreateListenerFails ==
  /\ pc = "wait_link" /\ link
  /\ UNCHANGED vars

Accept(c) ==
  /\ pc = "accept" /\ link
  /\ conn[c] = "backlog"
  /\ conn' = [conn EXCEPT ![c] = "open"]
  /\ s_client_fd' = c
  /\ pc' = "loop"
  /\ UNCHANGED <<remaining, response, listener, linkVars, peer, inbox, sent, replies,
                 annceVars, wasted>>

LeaveAccept ==
  /\ pc = "accept"
  /\ pc' = "close_listener"
  /\ UNCHANGED <<s_client_fd, remaining, response, listener, linkVars, tcpVars,
                 annceVars, wasted>>

\* accept reports a connection that was reset before it was accepted; the task then
\* leaves its accept loop, as it does when the link is down.
AcceptFails ==
  /\ ~link \/ \E c \in Conns : conn[c] = "aborted"
  /\ LeaveAccept

\* accept fails for want of memory or sockets: what waits in the backlog is lost.
AcceptRunsOut == link /\ LeaveAccept

CloseListener ==
  /\ pc = "close_listener"
  /\ listener' = FALSE
  /\ conn' = [c \in Conns |-> IF conn[c] \in {"backlog", "aborted"} THEN "closed" ELSE conn[c]]
  /\ pc' = "wait_link"
  /\ UNCHANGED <<s_client_fd, remaining, response, linkVars, peer, inbox, sent, replies,
                 annceVars, wasted>>

\* Mutation: s_client_fd keeps its value after the close.
CloseClientKeepsFd ==
  /\ pc = "close"
  /\ conn' = [conn EXCEPT ![s_client_fd] = "closed"]
  /\ response' = NoResponse
  /\ pc' = "accept"
  /\ UNCHANGED <<s_client_fd, remaining, listener, linkVars, peer, inbox, sent, replies,
                 annceVars, wasted>>

\* The end of serve_client, then shutdown and close.
CloseClient ==
  /\ pc = "close"
  /\ conn' = [conn EXCEPT ![s_client_fd] = "closed"]
  /\ s_client_fd' = NoConn
  /\ response' = NoResponse
  /\ pc' = "accept"
  /\ UNCHANGED <<remaining, listener, linkVars, peer, inbox, sent, replies, annceVars, wasted>>

(***************************************************************************)
(* serve_client and dispatch.                                              *)
(***************************************************************************)
LinkDownLeavesLoop ==
  /\ pc = "loop" /\ ~link
  /\ pc' = "close"
  /\ UNCHANGED <<s_client_fd, remaining, response, listener, linkVars, tcpVars,
                 annceVars, wasted>>

\* From here the task is in a read, and does not look at the link until that returns.
BeginRead ==
  /\ pc = "loop" /\ link
  /\ pc' = "header"
  /\ UNCHANGED <<s_client_fd, remaining, response, listener, linkVars, tcpVars,
                 annceVars, wasted>>

\* Mutation: only the end of the stream ends a read, and an error repeats it.
ReadFailsAtEnd(c) == peer[c] = "closed" /\ inbox[c] = "none"

\* Data that has arrived is read before the end of the stream is seen; a reset
\* discards it.  The read has no timeout.
ReadFails(c)  == conn[c] = "reset" \/ (peer[c] = "closed" /\ inbox[c] = "none")
ReadsFrame(c) == conn[c] = "open" /\ inbox[c] # "none"

\* Mutation: a failed read does not end the serve_client loop.
ReceiveHeaderRetries ==
  /\ pc = "header"
  /\ ReadFails(s_client_fd)
  /\ UNCHANGED vars

ReceiveHeaderFails ==
  /\ pc = "header"
  /\ ReadFails(s_client_fd)
  /\ pc' = "close"
  /\ UNCHANGED <<s_client_fd, remaining, response, listener, linkVars, tcpVars,
                 annceVars, wasted>>

\* A whole request is read and its handler entered, or it is refused.
ReceiveRequest ==
  /\ pc = "header"
  /\ ReadsFrame(s_client_fd)
  /\ LET kind == inbox[s_client_fd] IN
     /\ pc' = CASE kind = "stack"   -> "handle"
                [] kind = "annce"   -> "annce"
                [] kind = "refused" -> "refuse"
     /\ remaining' = IF kind = "annce" THEN Slices ELSE remaining
  /\ inbox' = [inbox EXCEPT ![s_client_fd] = "none"]
  /\ wasted' = 0
  /\ UNCHANGED <<s_client_fd, response, listener, linkVars, conn, peer, sent, replies,
                 annceVars>>

\* The handlers that only call into the Zigbee stack; every such call returns.
HandleStackCall ==
  /\ pc = "handle"
  /\ response' = [kind |-> "stack", annce |-> 0]
  /\ pc' = "reply"
  /\ UNCHANGED <<s_client_fd, remaining, listener, linkVars, tcpVars, annceVars, wasted>>

\* What a client receives: nothing once the connection is reset or its host is dead.
Receives(c, frame) ==
  replies' = IF conn[c] = "open" /\ peer[c] = "up"
             THEN [replies EXCEPT ![c] = Append(@, frame)] ELSE replies

\* Mutation: dispatch reports a refused request as handled.
RefuseAndGoOn ==
  /\ pc = "refuse"
  /\ Receives(s_client_fd, "error")
  /\ pc' = "loop"
  /\ UNCHANGED <<s_client_fd, remaining, response, listener, linkVars, conn, peer, inbox,
                 sent, annceVars, wasted>>

\* An error frame is sent, whether or not that succeeds, and the client is dropped.
Refuse ==
  /\ pc = "refuse"
  /\ Receives(s_client_fd, "error")
  /\ pc' = "close"
  /\ UNCHANGED <<s_client_fd, remaining, response, listener, linkVars, conn, peer, inbox,
                 sent, annceVars, wasted>>

\* A send fails on a reset connection only: after an orderly shutdown by the client, or
\* towards a dead host, the data is just queued.
Reply ==
  /\ pc = "reply"
  /\ Receives(s_client_fd, response.kind)
  /\ pc' = IF conn[s_client_fd] = "reset" THEN "close" ELSE "loop"
  /\ response' = NoResponse
  /\ fate' = IF response.annce = 0 THEN fate
             ELSE [fate EXCEPT ![response.annce] =
                     IF replies' # replies THEN "delivered" ELSE "lost"]
  /\ UNCHANGED <<s_client_fd, remaining, listener, linkVars, conn, peer, inbox, sent,
                 s_annce_q, announced, wasted>>

(***************************************************************************)
(* handle_wait_annce: short waits on the queue, and before each of them a  *)
(* look at the link and a peek at the socket.                              *)
(***************************************************************************)
client_connected(c) == conn[c] = "open" /\ (inbox[c] # "none" \/ peer[c] # "closed")

Respond(n) ==
  /\ response' = [kind |-> "annce", annce |-> n]
  /\ pc' = "reply"

ClientWentAway ==
  /\ pc = "annce" /\ remaining > 0
  /\ ~link \/ ~client_connected(s_client_fd)
  /\ Respond(0)
  /\ UNCHANGED <<s_client_fd, remaining, listener, linkVars, tcpVars, annceVars, wasted>>

\* Mutation: the slices are waited through without looking at the client.
BeginSliceUnchecked ==
  /\ pc = "annce" /\ remaining > 0
  /\ pc' = "slice"
  /\ UNCHANGED <<s_client_fd, remaining, response, listener, linkVars, tcpVars,
                 annceVars, wasted>>

BeginSlice ==
  /\ pc = "annce" /\ remaining > 0
  /\ link /\ client_connected(s_client_fd)
  /\ pc' = "slice"
  /\ UNCHANGED <<s_client_fd, remaining, response, listener, linkVars, tcpVars,
                 annceVars, wasted>>

\* Mutation: the announcement is taken out, and the loop goes on.
TakeAnnceIgnored ==
  /\ pc = "slice" /\ s_annce_q # <<>>
  /\ s_annce_q' = Tail(s_annce_q)
  /\ fate' = [fate EXCEPT ![Head(s_annce_q)] = "lost"]
  /\ remaining' = remaining - 1
  /\ pc' = "annce"
  /\ UNCHANGED <<s_client_fd, response, listener, linkVars, tcpVars, announced, wasted>>

TakeAnnce ==
  /\ pc = "slice" /\ s_annce_q # <<>>
  /\ Respond(Head(s_annce_q))
  /\ s_annce_q' = Tail(s_annce_q)
  /\ fate' = [fate EXCEPT ![Head(s_annce_q)] = "held"]
  /\ UNCHANGED <<s_client_fd, remaining, listener, linkVars, tcpVars, announced, wasted>>

SliceTimeout ==
  /\ pc = "slice" /\ s_annce_q = <<>>
  /\ remaining' = remaining - 1
  /\ wasted' = IF client_connected(s_client_fd) THEN wasted ELSE wasted + 1
  /\ pc' = "annce"
  /\ UNCHANGED <<s_client_fd, response, listener, linkVars, tcpVars, annceVars>>

AnnceTimeout ==
  /\ pc = "annce" /\ remaining = 0
  /\ Respond(0)
  /\ UNCHANGED <<s_client_fd, remaining, listener, linkVars, tcpVars, annceVars, wasted>>

\* Mutation: xQueueSendToFront.
AnnounceToFront ==
  /\ announced < MaxAnnce
  /\ announced' = announced + 1
  /\ s_annce_q' = IF Len(s_annce_q) < AnnceQLen THEN <<announced + 1>> \o s_annce_q
                  ELSE s_annce_q
  /\ fate' = [fate EXCEPT ![announced + 1] =
                IF Len(s_annce_q) < AnnceQLen THEN "queued" ELSE "dropped"]
  /\ UNCHANGED <<serverVars, linkVars, tcpVars, wasted>>

\* Mutation: the queue has no limit.
AnnounceUnbounded ==
  /\ announced < MaxAnnce
  /\ announced' = announced + 1
  /\ s_annce_q' = Append(s_annce_q, announced + 1)
  /\ fate' = [fate EXCEPT ![announced + 1] = "queued"]
  /\ UNCHANGED <<serverVars, linkVars, tcpVars, wasted>>

\* The Zigbee task: xQueueSend without waiting, so a full queue drops the newest.
Announce ==
  /\ announced < MaxAnnce
  /\ announced' = announced + 1
  /\ s_annce_q' = IF Len(s_annce_q) < AnnceQLen THEN Append(s_annce_q, announced + 1)
                  ELSE s_annce_q
  /\ fate' = [fate EXCEPT ![announced + 1] =
                IF Len(s_annce_q) < AnnceQLen THEN "queued" ELSE "dropped"]
  /\ UNCHANGED <<serverVars, linkVars, tcpVars, wasted>>

(***************************************************************************)
(* The clients (external).                                                 *)
(***************************************************************************)
Backlog == {c \in Conns : conn[c] \in {"backlog", "aborted"}}

Connect(c) ==
  /\ conn[c] = "none"
  /\ ip /\ host = "up" /\ listener /\ Backlog = {}
  /\ conn' = [conn EXCEPT ![c] = "backlog"]
  /\ UNCHANGED <<serverVars, linkVars, peer, inbox, sent, replies, annceVars, wasted>>

\* A request is in flight, or its answer will never come.
Unanswered(c) == Len(replies[c]) < Len(sent[c])

Send(c, kind) ==
  /\ conn[c] \in {"backlog", "open"} /\ peer[c] = "up" /\ ip
  /\ Len(sent[c]) < MaxRequests
  /\ ~Unanswered(c)
  /\ inbox' = [inbox EXCEPT ![c] = kind]
  /\ sent' = [sent EXCEPT ![c] = Append(@, kind)]
  /\ UNCHANGED <<serverVars, linkVars, conn, peer, replies, annceVars, wasted>>

\* The client program ends its run, or is interrupted, and shuts the socket down.
Disconnect(c) ==
  /\ conn[c] \in {"backlog", "open"} /\ peer[c] = "up" /\ ip
  /\ peer' = [peer EXCEPT ![c] = "closed"]
  /\ UNCHANGED <<serverVars, linkVars, conn, inbox, sent, replies, annceVars, wasted>>

(***************************************************************************)
(* The link (external).                                                    *)
(***************************************************************************)
\* The host dies with its clients and says nothing.
HostDies ==
  /\ host = "up" /\ ip
  /\ host' = "dead"
  /\ peer' = [c \in Conns |-> IF conn[c] # "none" /\ peer[c] = "up" THEN "gone" ELSE peer[c]]
  /\ UNCHANGED <<serverVars, link, ip, losses, conn, inbox, sent, replies, annceVars, wasted>>

\* The interface loses its address: lwIP resets what was connected through it.
LoseAddress ==
  /\ ip
  /\ \/ host = "dead" /\ UNCHANGED losses
     \/ host = "up" /\ losses < MaxLosses /\ losses' = losses + 1
  /\ ip' = FALSE
  /\ conn' = [c \in Conns |-> CASE conn[c] = "open"    -> "reset"
                                [] conn[c] = "backlog" -> "aborted"
                                [] OTHER               -> conn[c]]
  /\ UNCHANGED <<serverVars, link, host, peer, inbox, sent, replies, annceVars, wasted>>

\* The event handler of ppp_uart.c clears PPP_LINK_UP afterwards.
NoticeLoss ==
  /\ link /\ ~ip
  /\ link' = FALSE
  /\ UNCHANGED <<serverVars, ip, host, losses, tcpVars, annceVars, wasted>>

LinkComesUp ==
  /\ ~link /\ ~ip
  /\ link' = TRUE /\ ip' = TRUE /\ host' = "up"
  /\ UNCHANGED <<serverVars, losses, tcpVars, annceVars, wasted>>

-----------------------------------------------------------------------------
ServerStep ==
  \/ CreateListener \/ AcceptFails \/ CloseListener \/ CloseClient
  \/ LinkDownLeavesLoop \/ BeginRead \/ ReceiveHeaderFails \/ ReceiveRequest \/ HandleStackCall
  \/ Refuse \/ Reply
  \/ ClientWentAway \/ BeginSlice \/ TakeAnnce \/ SliceTimeout \/ AnnceTimeout
  \/ \E c \in Conns : Accept(c)

Next ==
  \/ ServerStep \/ CreateListenerFails \/ AcceptRunsOut
  \/ Announce
  \/ \E c \in Conns : Connect(c) \/ Disconnect(c) \/ \E kind \in Kinds : Send(c, kind)
  \/ HostDies \/ LoseAddress \/ NoticeLoss \/ LinkComesUp

(***************************************************************************)
(* The task is scheduled; creating a socket does not fail for ever; the    *)
(* event handler runs; LCP echo finds a dead host; and a client program    *)
(* ends its run, which is a fixed number of calls, but not while it waits  *)
(* for an answer: its read has no timeout.  Nothing is assumed of          *)
(* announcements, or of the link coming up.                                *)
(***************************************************************************)
Fairness ==
  /\ WF_vars(ServerStep)
  /\ WF_vars(NoticeLoss)
  /\ WF_vars(LoseAddress /\ host = "dead")
  /\ \A c \in Conns : WF_vars(Disconnect(c) /\ ~Unanswered(c))

Spec == Init /\ [][Next]_vars /\ Fairness

-----------------------------------------------------------------------------
(***************************************************************************)
(* Properties.                                                             *)
(***************************************************************************)
\* Every variable of the server, the connections and the queue has its type.
TypeOK ==
  /\ pc \in {"wait_link", "accept", "close_listener", "loop", "header", "handle", "annce",
             "slice", "refuse", "reply", "close"}
  /\ s_client_fd \in Conns \cup {NoConn}
  /\ remaining \in 0..Slices
  /\ response \in [kind : {"none", "stack", "annce"}, annce : 0..MaxAnnce]
  /\ listener \in BOOLEAN /\ link \in BOOLEAN /\ ip \in BOOLEAN
  /\ host \in {"up", "dead"}
  /\ losses \in 0..MaxLosses
  /\ conn \in [Conns -> {"none", "backlog", "aborted", "open", "reset", "closed"}]
  /\ peer \in [Conns -> {"up", "closed", "gone"}]
  /\ inbox \in [Conns -> Kinds \cup {"none"}]
  /\ sent \in [Conns -> Seq(Kinds)]
  /\ replies \in [Conns -> Seq({"stack", "annce", "error"})]
  /\ s_annce_q \in Seq(1..MaxAnnce) /\ Len(s_annce_q) <= AnnceQLen
  /\ announced \in 0..MaxAnnce
  /\ fate \in [1..MaxAnnce -> {"none", "queued", "dropped", "held", "delivered", "lost"}]
  /\ wasted \in 0..Slices

\* "Only one client is served at a time, so the accepted fd can live here": s_client_fd
\* names the one accepted connection, from accept to close, and nothing else.
OneClientAtATime ==
  {c \in Conns : conn[c] \in {"open", "reset"}} =
    IF s_client_fd = NoConn THEN {} ELSE {s_client_fd}

Answer(kind) == IF kind = "refused" THEN "error" ELSE kind

\* A client is answered its own requests, in order and at most once each, and nothing is
\* answered on a connection after a request on it has been refused.
AnswersInOrder ==
  \A c \in Conns :
    /\ Len(replies[c]) <= Len(sent[c])
    /\ \A i \in 1..Len(replies[c]) :
         /\ replies[c][i] = Answer(sent[c][i])
         /\ replies[c][i] = "error" => i = Len(replies[c])

\* An announcement that was accepted is in the queue, in the response under way, or was
\* taken out exactly once and in the order of arrival: none vanishes, none is delivered
\* to two clients, and none overtakes another.
AnnceAccounting ==
  LET at(f) == {n \in 1..MaxAnnce : fate[n] = f} IN
  /\ at("queued") = {s_annce_q[i] : i \in 1..Len(s_annce_q)}
  /\ at("held") = {response.annce} \ {0}
  /\ \A n \in at("queued"), m \in at("held") \cup at("delivered") \cup at("lost") : m < n

\* "Wait in short slices so a vanished client cannot leave the single RPC task blocked
\* for the whole commissioning window": once a client has closed or was reset, at most
\* the slice under way is waited to its end.
AtMostOneSliceWasted == wasted <= 1

\* "This lets a re-run connect and be served without restarting the ESP": a connection
\* that waits in the backlog is accepted or dropped, whatever the client before it did.
NextClientServed ==
  \A c \in Conns : conn[c] = "backlog" ~> conn[c] # "backlog"

\* PPP_LINK_UP is looked at before a read that has no time-out: a connection that the
\* loss of the address has reset is closed all the same, wherever the loss found the
\* server (blocked in that read, in a handler, in the wait for an announcement) and
\* whether or not the link is up again by the time it looks.
LossFreesServer ==
  \A c \in Conns : conn[c] = "reset" ~> conn[c] = "closed"

\* The oldest announcement in the queue while a client waits for one is delivered to that
\* client, unless the client or its connection is gone before it is answered at all.
AnnceReachesWaiter ==
  \A c \in Conns, n \in 1..MaxAnnce :
    (/\ pc \in {"annce", "slice"} /\ s_client_fd = c /\ remaining > 0
     /\ s_annce_q # <<>> /\ Head(s_annce_q) = n)
      ~> \/ fate[n] = "delivered"
         \/ Unanswered(c) /\ (conn[c] # "open" \/ peer[c] # "up")
=============================================================================
