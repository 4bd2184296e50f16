-------------------------- MODULE RpcServerProofs ---------------------------
(***************************************************************************)
(* Proofs of the safety properties of RpcServer, for any number of         *)
(* clients, requests, announcements and link losses, any number of slices  *)
(* and a queue of any length.                                              *)
(*                                                                         *)
(* The inductive invariant ties the server's place to what it is doing:    *)
(* it has a client exactly between accept and close, and a response only   *)
(* in between handler and send (PlaceInv).  A client has at most one       *)
(* request under way: it lies in the inbox, or the server's place says     *)
(* which kind it is (RequestInv), and a client that was sent an error is   *)
(* about to be closed or is closed (ErrorInv).  Announcements are numbered *)
(* in the order of arrival, and the queue holds them in that order         *)
(* (QueueInv).  A slice begins only for a client that is there; one that   *)
(* was found gone stays gone (WasteInv).                                   *)
(***************************************************************************)
EXTENDS RpcServer, TLAPS

Unoccupied == {"wait_link", "accept", "close_listener"}

PlaceInv ==
  /\ s_client_fd = NoConn <=> pc \in Unoccupied
  /\ pc = "slice" => remaining > 0
  /\ pc # "reply" => response = NoResponse
  /\ pc = "reply" => response.kind # "none"

\* The last request of c has no answer and is of this kind.
InFlight(c, kind) ==
  Len(sent[c]) = Len(replies[c]) + 1 /\ sent[c][Len(sent[c])] = kind

\* The kind of the request the server has read and not yet answered.
Underway(kind) ==
  \/ pc = "handle" /\ kind = "stack"
  \/ pc \in {"annce", "slice"} /\ kind = "annce"
  \/ pc = "refuse" /\ kind = "refused"
  \/ pc = "reply" /\ kind = response.kind

RequestInv ==
  /\ \A c \in Conns : inbox[c] # "none" => InFlight(c, inbox[c])
  /\ \A kind \in Kinds : Underway(kind) =>
       inbox[s_client_fd] = "none" /\ InFlight(s_client_fd, kind)

ErrorInv ==
  \A c \in Conns : \A i \in 1..Len(replies[c]) :
    replies[c][i] = "error" => \/ conn[c] = "closed"
                               \/ s_client_fd = c /\ pc = "close"

QueueInv ==
  /\ \A n \in 1..MaxAnnce : n > announced <=> fate[n] = "none"
  /\ \A i, j \in 1..Len(s_annce_q) : i < j => s_annce_q[i] < s_annce_q[j]

WasteInv ==
  /\ wasted <= 1
  /\ pc = "slice" => wasted = 0
  /\ pc = "annce" /\ wasted = 1 => ~client_connected(s_client_fd)

IInv ==
  /\ TypeOK /\ PlaceInv /\ OneClientAtATime
  /\ RequestInv /\ ErrorInv /\ AnswersInOrder
  /\ QueueInv /\ AnnceAccounting
  /\ WasteInv

-----------------------------------------------------------------------------
(***************************************************************************)
(* Sequences.                                                              *)
(***************************************************************************)
\* A sequence that grows by one element.
LEMMA AppendFacts ==
  ASSUME NEW S, NEW s \in Seq(S), NEW x \in S
  PROVE  /\ Append(s, x) \in Seq(S)
         /\ Len(s) \in Nat
         /\ Len(Append(s, x)) = Len(s) + 1
         /\ Append(s, x)[Len(s) + 1] = x
         /\ \A i \in 1..Len(s) : Append(s, x)[i] = s[i]
         /\ Append(s, x) # s
OBVIOUS

\* A queue whose first element is taken.
LEMMA TailFacts ==
  ASSUME NEW S, NEW s \in Seq(S), s # <<>>
  PROVE  /\ Tail(s) \in Seq(S)
         /\ Len(s) \in Nat \ {0}
         /\ Len(Tail(s)) = Len(s) - 1
         /\ Head(s) = s[1] /\ s[1] \in S
         /\ \A i \in 1..Len(Tail(s)) : Tail(s)[i] = s[i + 1]
OBVIOUS

\* What a send adds to what the client has received.
LEMMA ReceivesFacts ==
  ASSUME TypeOK, NEW c \in Conns, NEW frame \in {"stack", "annce", "error"},
         Receives(c, frame)
  PROVE  /\ replies' \in [Conns -> Seq({"stack", "annce", "error"})]
         /\ \A d \in Conns : d # c => replies'[d] = replies[d]
         /\ Len(replies[c]) \in Nat
         /\ \/ replies' = replies
            \/ /\ Len(replies'[c]) = Len(replies[c]) + 1
               /\ replies'[c][Len(replies[c]) + 1] = frame
               /\ \A i \in 1..Len(replies[c]) : replies'[c][i] = replies[c][i]
<1>1. replies[c] \in Seq({"stack", "annce", "error"})
  BY DEF TypeOK
<1>2. /\ Append(replies[c], frame) \in Seq({"stack", "annce", "error"})
      /\ Len(replies[c]) \in Nat
      /\ Len(Append(replies[c], frame)) = Len(replies[c]) + 1
      /\ Append(replies[c], frame)[Len(replies[c]) + 1] = frame
      /\ \A i \in 1..Len(replies[c]) : Append(replies[c], frame)[i] = replies[c][i]
  BY <1>1, AppendFacts
<1>3. CASE replies' = replies
  BY <1>2, <1>3 DEF TypeOK
<1>4. CASE replies' = [replies EXCEPT ![c] = Append(@, frame)]
  BY <1>2, <1>4 DEF TypeOK
<1>5. QED
  BY <1>3, <1>4 DEF Receives

-----------------------------------------------------------------------------
(***************************************************************************)
(* The server's place and its client.                                      *)
(***************************************************************************)
\* Every variable keeps its type.
LEMMA TypeOKStep ==
  ASSUME IInv, [Next]_vars
  PROVE  TypeOK'
<1> USE ConnsAssumption, SlicesAssumption, BoundsAssumption
    DEF IInv, TypeOK, PlaceInv, serverVars, linkVars, tcpVars, annceVars
<1>1. CASE CreateListener
  BY <1>1 DEF CreateListener
<1>2. CASE LeaveAccept
  BY <1>2 DEF LeaveAccept
<1>3. CASE CloseListener
  BY <1>3 DEF CloseListener
<1>4. CASE CloseClient
  BY <1>4 DEF CloseClient, Unoccupied, NoResponse
<1>5. CASE LinkDownLeavesLoop \/ BeginRead
  BY <1>5 DEF LinkDownLeavesLoop, BeginRead
<1>6. CASE ReceiveHeaderFails
  BY <1>6 DEF ReceiveHeaderFails
<1>7. CASE ReceiveRequest
  BY <1>7 DEF ReceiveRequest, Kinds, ReadsFrame, Unoccupied
<1>8. CASE HandleStackCall
  BY <1>8 DEF HandleStackCall
<1>9. CASE Refuse
  BY <1>9, ReceivesFacts DEF Refuse, Unoccupied
<1>10. CASE Reply
  <2>1. s_client_fd \in Conns /\ response.kind \in {"stack", "annce", "error"}
    BY <1>10 DEF Reply, Unoccupied
  <2>2. replies' \in [Conns -> Seq({"stack", "annce", "error"})]
    BY <1>10, <2>1, ReceivesFacts DEF Reply
  <2>3. fate' \in [1..MaxAnnce -> {"none", "queued", "dropped", "held", "delivered", "lost"}]
    BY <1>10 DEF Reply
  <2>4. /\ pc' \in {"loop", "close"} /\ response' = NoResponse
        /\ UNCHANGED <<s_client_fd, remaining, listener, linkVars, conn, peer, inbox, sent,
                       s_annce_q, announced, wasted>>
    BY <1>10 DEF Reply
  <2>5. response' \in [kind : {"none", "stack", "annce"}, annce : 0..MaxAnnce]
    BY <2>4 DEF NoResponse
  <2>6. QED
    BY <2>2, <2>3, <2>4, <2>5
<1>11. CASE ClientWentAway
  BY <1>11 DEF ClientWentAway, Respond
<1>12. CASE BeginSlice
  BY <1>12 DEF BeginSlice
<1>13. CASE TakeAnnce
  BY <1>13, TailFacts DEF TakeAnnce, Respond
<1>14. CASE SliceTimeout
  BY <1>14 DEF SliceTimeout, WasteInv
<1>15. CASE AnnceTimeout
  BY <1>15 DEF AnnceTimeout, Respond
<1>16. ASSUME NEW c \in Conns, Accept(c) PROVE TypeOK'
  BY <1>16 DEF Accept
<1>17. CASE CreateListenerFails \/ UNCHANGED vars
  <2>1. UNCHANGED vars
    BY <1>17 DEF CreateListenerFails, vars
  <2>2. TypeOK
    OBVIOUS
  <2> HIDE DEF IInv
  <2>3. QED
    BY <2>1, <2>2 DEF vars
<1>18. CASE Announce
  <2>1. announced + 1 \in 1..MaxAnnce
    BY <1>18 DEF Announce
  <2>2. /\ Append(s_annce_q, announced + 1) \in Seq(1..MaxAnnce)
        /\ Len(Append(s_annce_q, announced + 1)) = Len(s_annce_q) + 1
        /\ Len(s_annce_q) \in Nat
    BY <2>1, AppendFacts
  <2>3. fate' \in [1..MaxAnnce -> {"none", "queued", "dropped", "held", "delivered", "lost"}]
    BY <1>18 DEF Announce
  <2>4. CASE Len(s_annce_q) < AnnceQLen
    <3>1. s_annce_q' = Append(s_annce_q, announced + 1)
      BY <1>18, <2>4 DEF Announce
    <3>2. s_annce_q' \in Seq(1..MaxAnnce) /\ Len(s_annce_q') <= AnnceQLen
      BY <2>2, <2>4, <3>1
    <3>3. announced' \in 0..MaxAnnce
      BY <1>18, <2>1 DEF Announce
    <3>4. QED
      BY <1>18, <2>3, <3>2, <3>3 DEF Announce
  <2>5. CASE ~(Len(s_annce_q) < AnnceQLen)
    BY <1>18, <2>1, <2>3, <2>5 DEF Announce
  <2>6. QED
    BY <2>4, <2>5
<1>19. ASSUME NEW c \in Conns, Connect(c) PROVE TypeOK'
  BY <1>19 DEF Connect
<1>20. ASSUME NEW c \in Conns, Disconnect(c) PROVE TypeOK'
  BY <1>20 DEF Disconnect
<1>21. ASSUME NEW c \in Conns, NEW kind \in Kinds, Send(c, kind) PROVE TypeOK'
  BY <1>21, AppendFacts DEF Send, Kinds
<1>22. CASE HostDies
  BY <1>22 DEF HostDies
<1>23. CASE LoseAddress
  <2>1. conn' \in [Conns -> {"none", "backlog", "aborted", "open", "reset", "closed"}]
    BY <1>23, Zenon DEF LoseAddress
  <2>2. losses' \in 0..MaxLosses
    BY <1>23 DEF LoseAddress
  <2>3. QED
    BY <1>23, <2>1, <2>2 DEF LoseAddress
<1>24. CASE NoticeLoss
  BY <1>24 DEF NoticeLoss
<1>25. CASE LinkComesUp
  BY <1>25 DEF LinkComesUp
<1>26. QED
  BY <1>1, <1>2, <1>3, <1>4, <1>5, <1>6, <1>7, <1>8, <1>9, <1>10, <1>11, <1>12, <1>13,
    <1>14, <1>15, <1>16, <1>17, <1>18, <1>19, <1>20, <1>21, <1>22, <1>23, <1>24, <1>25
    DEF Next, ServerStep, AcceptFails, AcceptRunsOut

\* What the server's place says.
LEMMA PlaceStep ==
  ASSUME IInv, [Next]_vars
  PROVE  PlaceInv'
<1> USE ConnsAssumption, SlicesAssumption
    DEF IInv, TypeOK, PlaceInv, Unoccupied, NoResponse, serverVars, linkVars, tcpVars,
        annceVars
<1>1. CASE CreateListener
  BY <1>1 DEF CreateListener
<1>2. CASE LeaveAccept
  BY <1>2 DEF LeaveAccept
<1>3. CASE CloseListener
  BY <1>3 DEF CloseListener
<1>4. CASE CloseClient
  BY <1>4 DEF CloseClient
<1>5. CASE LinkDownLeavesLoop \/ BeginRead
  BY <1>5 DEF LinkDownLeavesLoop, BeginRead
<1>6. CASE ReceiveHeaderFails
  BY <1>6 DEF ReceiveHeaderFails
<1>7. CASE ReceiveRequest
  BY <1>7 DEF ReceiveRequest, Kinds, ReadsFrame
<1>8. CASE HandleStackCall
  BY <1>8 DEF HandleStackCall
<1>9. CASE Refuse
  BY <1>9 DEF Refuse
<1>10. CASE Reply
  BY <1>10 DEF Reply
<1>11. CASE ClientWentAway
  BY <1>11 DEF ClientWentAway, Respond
<1>12. CASE BeginSlice
  BY <1>12 DEF BeginSlice
<1>13. CASE TakeAnnce
  BY <1>13 DEF TakeAnnce, Respond
<1>14. CASE SliceTimeout
  BY <1>14 DEF SliceTimeout
<1>15. CASE AnnceTimeout
  BY <1>15 DEF AnnceTimeout, Respond
<1>16. ASSUME NEW c \in Conns, Accept(c) PROVE PlaceInv'
  BY <1>16 DEF Accept
<1>17. CASE CreateListenerFails \/ UNCHANGED vars
  BY <1>17 DEF CreateListenerFails, vars
<1>18. CASE Announce
  BY <1>18 DEF Announce
<1>19. ASSUME NEW c \in Conns, Connect(c) PROVE PlaceInv'
  BY <1>19 DEF Connect
<1>20. ASSUME NEW c \in Conns, Disconnect(c) PROVE PlaceInv'
  BY <1>20 DEF Disconnect
<1>21. ASSUME NEW c \in Conns, NEW kind \in Kinds, Send(c, kind) PROVE PlaceInv'
  BY <1>21 DEF Send
<1>22. CASE HostDies
  BY <1>22 DEF HostDies
<1>23. CASE LoseAddress
  BY <1>23 DEF LoseAddress
<1>24. CASE NoticeLoss
  BY <1>24 DEF NoticeLoss
<1>25. CASE LinkComesUp
  BY <1>25 DEF LinkComesUp
<1>26. QED
  BY <1>1, <1>2, <1>3, <1>4, <1>5, <1>6, <1>7, <1>8, <1>9, <1>10, <1>11, <1>12, <1>13,
    <1>14, <1>15, <1>16, <1>17, <1>18, <1>19, <1>20, <1>21, <1>22, <1>23, <1>24, <1>25
    DEF Next, ServerStep, AcceptFails, AcceptRunsOut

\* One accepted connection at a time.
LEMMA OneClientStep ==
  ASSUME IInv, [Next]_vars
  PROVE  OneClientAtATime'
<1> USE ConnsAssumption
    DEF IInv, TypeOK, PlaceInv, Unoccupied, OneClientAtATime, serverVars, linkVars, tcpVars,
        annceVars
<1>1. CASE CreateListener
  BY <1>1 DEF CreateListener
<1>2. CASE LeaveAccept
  BY <1>2 DEF LeaveAccept
<1>3. CASE CloseListener
  BY <1>3 DEF CloseListener
<1>4. CASE CloseClient
  BY <1>4 DEF CloseClient
<1>5. CASE LinkDownLeavesLoop \/ BeginRead
  BY <1>5 DEF LinkDownLeavesLoop, BeginRead
<1>6. CASE ReceiveHeaderFails
  BY <1>6 DEF ReceiveHeaderFails
<1>7. CASE ReceiveRequest
  BY <1>7 DEF ReceiveRequest
<1>8. CASE HandleStackCall
  BY <1>8 DEF HandleStackCall
<1>9. CASE Refuse
  BY <1>9 DEF Refuse
<1>10. CASE Reply
  BY <1>10 DEF Reply
<1>11. CASE ClientWentAway
  BY <1>11 DEF ClientWentAway
<1>12. CASE BeginSlice
  BY <1>12 DEF BeginSlice
<1>13. CASE TakeAnnce
  BY <1>13 DEF TakeAnnce
<1>14. CASE SliceTimeout
  BY <1>14 DEF SliceTimeout
<1>15. CASE AnnceTimeout
  BY <1>15 DEF AnnceTimeout
<1>16. ASSUME NEW c \in Conns, Accept(c) PROVE OneClientAtATime'
  BY <1>16 DEF Accept
<1>17. CASE CreateListenerFails \/ UNCHANGED vars
  BY <1>17 DEF CreateListenerFails, vars
<1>18. CASE Announce
  BY <1>18 DEF Announce
<1>19. ASSUME NEW c \in Conns, Connect(c) PROVE OneClientAtATime'
  BY <1>19 DEF Connect
<1>20. ASSUME NEW c \in Conns, Disconnect(c) PROVE OneClientAtATime'
  BY <1>20 DEF Disconnect
<1>21. ASSUME NEW c \in Conns, NEW kind \in Kinds, Send(c, kind) PROVE OneClientAtATime'
  BY <1>21 DEF Send
<1>22. CASE HostDies
  BY <1>22 DEF HostDies
<1>23. CASE LoseAddress
  <2>1. \A c \in Conns : conn'[c] \in {"open", "reset"} <=> conn[c] \in {"open", "reset"}
    BY <1>23, Zenon DEF LoseAddress
  <2>2. QED
    BY <1>23, <2>1 DEF LoseAddress
<1>24. CASE NoticeLoss
  BY <1>24 DEF NoticeLoss
<1>25. CASE LinkComesUp
  BY <1>25 DEF LinkComesUp
<1>26. QED
  BY <1>1, <1>2, <1>3, <1>4, <1>5, <1>6, <1>7, <1>8, <1>9, <1>10, <1>11, <1>12, <1>13,
    <1>14, <1>15, <1>16, <1>17, <1>18, <1>19, <1>20, <1>21, <1>22, <1>23, <1>24, <1>25
    DEF Next, ServerStep, AcceptFails, AcceptRunsOut

\* A client that has gone wastes one slice.
LEMMA WasteStep ==
  ASSUME IInv, [Next]_vars
  PROVE  WasteInv'
<1> USE ConnsAssumption, SlicesAssumption
    DEF IInv, TypeOK, PlaceInv, Unoccupied, WasteInv, client_connected, serverVars,
        linkVars, tcpVars, annceVars
<1>1. CASE CreateListener
  BY <1>1 DEF CreateListener
<1>2. CASE LeaveAccept
  BY <1>2 DEF LeaveAccept
<1>3. CASE CloseListener
  BY <1>3 DEF CloseListener
<1>4. CASE CloseClient
  BY <1>4 DEF CloseClient
<1>5. CASE LinkDownLeavesLoop \/ BeginRead
  BY <1>5 DEF LinkDownLeavesLoop, BeginRead
<1>6. CASE ReceiveHeaderFails
  BY <1>6 DEF ReceiveHeaderFails
<1>7. CASE ReceiveRequest
  BY <1>7 DEF ReceiveRequest, Kinds, ReadsFrame
<1>8. CASE HandleStackCall
  BY <1>8 DEF HandleStackCall
<1>9. CASE Refuse
  BY <1>9 DEF Refuse
<1>10. CASE Reply
  BY <1>10 DEF Reply
<1>11. CASE ClientWentAway
  BY <1>11 DEF ClientWentAway, Respond
<1>12. CASE BeginSlice
  BY <1>12 DEF BeginSlice
<1>13. CASE TakeAnnce
  BY <1>13 DEF TakeAnnce, Respond
<1>14. CASE SliceTimeout
  BY <1>14 DEF SliceTimeout
<1>15. CASE AnnceTimeout
  BY <1>15 DEF AnnceTimeout, Respond
<1>16. ASSUME NEW c \in Conns, Accept(c) PROVE WasteInv'
  BY <1>16 DEF Accept
<1>17. CASE CreateListenerFails \/ UNCHANGED vars
  BY <1>17 DEF CreateListenerFails, vars
<1>18. CASE Announce
  BY <1>18 DEF Announce
<1>19. ASSUME NEW c \in Conns, Connect(c) PROVE WasteInv'
  BY <1>19 DEF Connect
<1>20. ASSUME NEW c \in Conns, Disconnect(c) PROVE WasteInv'
  BY <1>20 DEF Disconnect
<1>21. ASSUME NEW c \in Conns, NEW kind \in Kinds, Send(c, kind) PROVE WasteInv'
  BY <1>21 DEF Send
<1>22. CASE HostDies
  BY <1>22 DEF HostDies
<1>23. CASE LoseAddress
  <2>1. \A c \in Conns : conn[c] # "open" => conn'[c] # "open"
    BY <1>23, Zenon DEF LoseAddress
  <2>2. QED
    BY <1>23, <2>1 DEF LoseAddress
<1>24. CASE NoticeLoss
  BY <1>24 DEF NoticeLoss
<1>25. CASE LinkComesUp
  BY <1>25 DEF LinkComesUp
<1>26. QED
  BY <1>1, <1>2, <1>3, <1>4, <1>5, <1>6, <1>7, <1>8, <1>9, <1>10, <1>11, <1>12, <1>13,
    <1>14, <1>15, <1>16, <1>17, <1>18, <1>19, <1>20, <1>21, <1>22, <1>23, <1>24, <1>25
    DEF Next, ServerStep, AcceptFails, AcceptRunsOut

-----------------------------------------------------------------------------
(***************************************************************************)
(* Requests and answers.                                                   *)
(***************************************************************************)
\* Every client has at most one request under way, and the server knows its kind.
LEMMA RequestStep ==
  ASSUME IInv, [Next]_vars
  PROVE  RequestInv'
<1> USE ConnsAssumption
    DEF IInv, TypeOK, PlaceInv, Unoccupied, RequestInv, InFlight, Underway, Kinds,
        serverVars, linkVars, tcpVars, annceVars
<1>1. CASE CreateListener
  BY <1>1 DEF CreateListener
<1>2. CASE LeaveAccept
  BY <1>2 DEF LeaveAccept
<1>3. CASE CloseListener
  BY <1>3 DEF CloseListener
<1>4. CASE CloseClient
  BY <1>4 DEF CloseClient
<1>5. CASE LinkDownLeavesLoop \/ BeginRead
  BY <1>5 DEF LinkDownLeavesLoop, BeginRead
<1>6. CASE ReceiveHeaderFails
  BY <1>6 DEF ReceiveHeaderFails
<1>7. CASE ReceiveRequest
  BY <1>7 DEF ReceiveRequest, ReadsFrame
<1>8. CASE HandleStackCall
  BY <1>8 DEF HandleStackCall
<1>9. CASE Refuse
  <2>1. /\ s_client_fd \in Conns /\ inbox[s_client_fd] = "none"
        /\ "error" \in {"stack", "annce", "error"}
    BY <1>9 DEF Refuse
  <2>2. \A d \in Conns : d # s_client_fd => replies'[d] = replies[d]
    BY <1>9, <2>1, ReceivesFacts DEF Refuse
  <2>3. QED
    BY <1>9, <2>1, <2>2 DEF Refuse
<1>10. CASE Reply
  <2>1. /\ s_client_fd \in Conns /\ inbox[s_client_fd] = "none"
        /\ response.kind \in {"stack", "annce", "error"}
    BY <1>10 DEF Reply
  <2>2. \A d \in Conns : d # s_client_fd => replies'[d] = replies[d]
    BY <1>10, <2>1, ReceivesFacts DEF Reply
  <2>3. QED
    BY <1>10, <2>1, <2>2 DEF Reply
<1>11. CASE ClientWentAway
  BY <1>11 DEF ClientWentAway, Respond
<1>12. CASE BeginSlice
  BY <1>12 DEF BeginSlice
<1>13. CASE TakeAnnce
  BY <1>13 DEF TakeAnnce, Respond
<1>14. CASE SliceTimeout
  BY <1>14 DEF SliceTimeout
<1>15. CASE AnnceTimeout
  BY <1>15 DEF AnnceTimeout, Respond
<1>16. ASSUME NEW c \in Conns, Accept(c) PROVE RequestInv'
  BY <1>16 DEF Accept
<1>17. CASE CreateListenerFails \/ UNCHANGED vars
  BY <1>17 DEF CreateListenerFails, vars
<1>18. CASE Announce
  BY <1>18 DEF Announce
<1>19. ASSUME NEW c \in Conns, Connect(c) PROVE RequestInv'
  BY <1>19 DEF Connect
<1>20. ASSUME NEW c \in Conns, Disconnect(c) PROVE RequestInv'
  BY <1>20 DEF Disconnect
<1>21. ASSUME NEW c \in Conns, NEW kind \in Kinds, Send(c, kind) PROVE RequestInv'
  <2>1. /\ sent[c] \in Seq(Kinds) /\ sent' = [sent EXCEPT ![c] = Append(sent[c], kind)]
        /\ inbox' = [inbox EXCEPT ![c] = kind] /\ replies' = replies
        /\ pc' = pc /\ s_client_fd' = s_client_fd /\ response' = response
    BY <1>21 DEF Send
  <2>2. Len(replies[c]) = Len(sent[c]) /\ Len(sent[c]) \in Nat
    BY <1>21 DEF Send, Unanswered, AnswersInOrder
  <2>3. Len(sent'[c]) = Len(sent[c]) + 1 /\ sent'[c][Len(sent[c]) + 1] = kind
    BY <2>1, AppendFacts
  <2>4. \A d \in Conns : d # c => sent'[d] = sent[d] /\ inbox'[d] = inbox[d]
    BY <2>1
  <2>5. InFlight(c, kind)' /\ inbox'[c] = kind
    BY <2>1, <2>2, <2>3
  <2>6. \A k \in Kinds : ~InFlight(c, k)
    BY <2>2
  <2>7. ASSUME NEW k \in Kinds, Underway(k)'
        PROVE  inbox'[s_client_fd'] = "none" /\ InFlight(s_client_fd, k)'
    <3>1. Underway(k) /\ s_client_fd \in Conns
      BY <2>1, <2>7
    <3>2. inbox[s_client_fd] = "none" /\ InFlight(s_client_fd, k) /\ s_client_fd # c
      BY <2>6, <3>1
    <3>3. QED
      BY <2>1, <2>4, <3>1, <3>2
  <2>8. ASSUME NEW d \in Conns, inbox'[d] # "none" PROVE InFlight(d, inbox[d])'
    <3>1. CASE d = c
      BY <2>5, <3>1
    <3>2. CASE d # c
      BY <2>1, <2>4, <2>8, <3>2
    <3>3. QED
      BY <3>1, <3>2
  <2> HIDE DEF IInv, TypeOK, InFlight, Underway
  <2>9. QED
    BY <2>1, <2>7, <2>8
<1>22. CASE HostDies
  BY <1>22 DEF HostDies
<1>23. CASE LoseAddress
  BY <1>23 DEF LoseAddress
<1>24. CASE NoticeLoss
  BY <1>24 DEF NoticeLoss
<1>25. CASE LinkComesUp
  BY <1>25 DEF LinkComesUp
<1>26. QED
  BY <1>1, <1>2, <1>3, <1>4, <1>5, <1>6, <1>7, <1>8, <1>9, <1>10, <1>11, <1>12, <1>13,
    <1>14, <1>15, <1>16, <1>17, <1>18, <1>19, <1>20, <1>21, <1>22, <1>23, <1>24, <1>25
    DEF Next, ServerStep, AcceptFails, AcceptRunsOut

\* A client that was sent an error is dropped.
LEMMA ErrorStep ==
  ASSUME IInv, [Next]_vars
  PROVE  ErrorInv'
<1> USE ConnsAssumption
    DEF IInv, TypeOK, PlaceInv, Unoccupied, ErrorInv, OneClientAtATime, serverVars,
        linkVars, tcpVars, annceVars
<1>1. CASE CreateListener
  BY <1>1 DEF CreateListener
<1>2. CASE LeaveAccept
  BY <1>2 DEF LeaveAccept
<1>3. CASE CloseListener
  BY <1>3 DEF CloseListener
<1>4. CASE CloseClient
  BY <1>4 DEF CloseClient
<1>5. CASE LinkDownLeavesLoop \/ BeginRead
  BY <1>5 DEF LinkDownLeavesLoop, BeginRead
<1>6. CASE ReceiveHeaderFails
  BY <1>6 DEF ReceiveHeaderFails
<1>7. CASE ReceiveRequest
  BY <1>7 DEF ReceiveRequest, ReadsFrame
<1>8. CASE HandleStackCall
  BY <1>8 DEF HandleStackCall
<1>9. CASE Refuse
  <2>1. /\ s_client_fd \in Conns /\ Receives(s_client_fd, "error")
        /\ pc = "refuse" /\ pc' = "close" /\ conn' = conn /\ s_client_fd' = s_client_fd
    BY <1>9 DEF Refuse
  <2>2. \A d \in Conns : d # s_client_fd => replies'[d] = replies[d]
    BY <2>1, ReceivesFacts
  <2>3. ErrorInv
    OBVIOUS
  <2> HIDE DEF IInv, TypeOK
  <2>4. QED
    BY <2>1, <2>2, <2>3
<1>10. CASE Reply
  <2>1. s_client_fd \in Conns /\ response.kind \in {"stack", "annce", "error"} \ {"error"}
    BY <1>10 DEF Reply
  <2>2. /\ pc = "reply" /\ Receives(s_client_fd, response.kind)
        /\ conn' = conn /\ s_client_fd' = s_client_fd
    BY <1>10 DEF Reply
  <2>3. /\ \A d \in Conns : d # s_client_fd => replies'[d] = replies[d]
        /\ Len(replies[s_client_fd]) \in Nat
        /\ \/ replies' = replies
           \/ /\ Len(replies'[s_client_fd]) = Len(replies[s_client_fd]) + 1
              /\ replies'[s_client_fd][Len(replies[s_client_fd]) + 1] = response.kind
              /\ \A i \in 1..Len(replies[s_client_fd]) :
                   replies'[s_client_fd][i] = replies[s_client_fd][i]
    BY <2>1, <2>2, ReceivesFacts
  <2>4. \A i \in 1..Len(replies[s_client_fd]) : replies[s_client_fd][i] # "error"
    <3>1. conn[s_client_fd] # "closed"
      BY <2>1
    <3>2. QED
      BY <2>1, <2>2, <3>1
  <2>5. ErrorInv
    OBVIOUS
  <2> HIDE DEF IInv, TypeOK, PlaceInv, OneClientAtATime
  <2>6. ASSUME NEW i \in 1..Len(replies'[s_client_fd])
        PROVE  replies'[s_client_fd][i] # "error"
    <3>1. CASE replies' = replies
      BY <2>4, <3>1
    <3>2. CASE /\ Len(replies'[s_client_fd]) = Len(replies[s_client_fd]) + 1
               /\ replies'[s_client_fd][Len(replies[s_client_fd]) + 1] = response.kind
               /\ \A j \in 1..Len(replies[s_client_fd]) :
                    replies'[s_client_fd][j] = replies[s_client_fd][j]
      <4>1. i \in 1..Len(replies[s_client_fd]) \/ i = Len(replies[s_client_fd]) + 1
        BY <2>3, <3>2
      <4>2. QED
        BY <2>1, <2>4, <3>2, <4>1
    <3>3. QED
      BY <2>3, <3>1, <3>2
  <2>7. QED
    BY <2>2, <2>3, <2>5, <2>6
<1>11. CASE ClientWentAway
  BY <1>11 DEF ClientWentAway, Respond
<1>12. CASE BeginSlice
  BY <1>12 DEF BeginSlice
<1>13. CASE TakeAnnce
  BY <1>13 DEF TakeAnnce, Respond
<1>14. CASE SliceTimeout
  BY <1>14 DEF SliceTimeout
<1>15. CASE AnnceTimeout
  BY <1>15 DEF AnnceTimeout, Respond
<1>16. ASSUME NEW c \in Conns, Accept(c) PROVE ErrorInv'
  BY <1>16 DEF Accept
<1>17. CASE CreateListenerFails \/ UNCHANGED vars
  BY <1>17 DEF CreateListenerFails, vars
<1>18. CASE Announce
  BY <1>18 DEF Announce
<1>19. ASSUME NEW c \in Conns, Connect(c) PROVE ErrorInv'
  BY <1>19 DEF Connect
<1>20. ASSUME NEW c \in Conns, Disconnect(c) PROVE ErrorInv'
  BY <1>20 DEF Disconnect
<1>21. ASSUME NEW c \in Conns, NEW kind \in Kinds, Send(c, kind) PROVE ErrorInv'
  BY <1>21 DEF Send
<1>22. CASE HostDies
  BY <1>22 DEF HostDies
<1>23. CASE LoseAddress
  BY <1>23 DEF LoseAddress
<1>24. CASE NoticeLoss
  BY <1>24 DEF NoticeLoss
<1>25. CASE LinkComesUp
  BY <1>25 DEF LinkComesUp
<1>26. QED
  BY <1>1, <1>2, <1>3, <1>4, <1>5, <1>6, <1>7, <1>8, <1>9, <1>10, <1>11, <1>12, <1>13,
    <1>14, <1>15, <1>16, <1>17, <1>18, <1>19, <1>20, <1>21, <1>22, <1>23, <1>24, <1>25
    DEF Next, ServerStep, AcceptFails, AcceptRunsOut

\* The answer to the request under way keeps a client's answers in order.
LEMMA AnswerFacts ==
  ASSUME TypeOK, AnswersInOrder, NEW c \in Conns, NEW kind \in Kinds, InFlight(c, kind),
         \A i \in 1..Len(replies[c]) : replies[c][i] # "error",
         Receives(c, Answer(kind)), sent' = sent
  PROVE  AnswersInOrder'
<1>1. Answer(kind) \in {"stack", "annce", "error"}
  BY DEF Answer, Kinds
<1>2. /\ \A d \in Conns : d # c => replies'[d] = replies[d]
      /\ Len(replies[c]) \in Nat
      /\ \/ replies' = replies
         \/ /\ Len(replies'[c]) = Len(replies[c]) + 1
            /\ replies'[c][Len(replies[c]) + 1] = Answer(kind)
            /\ \A i \in 1..Len(replies[c]) : replies'[c][i] = replies[c][i]
  BY <1>1, ReceivesFacts
<1> HIDE DEF Answer
<1>3. ASSUME NEW d \in Conns, d # c
      PROVE  /\ Len(replies'[d]) <= Len(sent'[d])
             /\ \A i \in 1..Len(replies'[d]) :
                  /\ replies'[d][i] = Answer(sent'[d][i])
                  /\ replies'[d][i] = "error" => i = Len(replies'[d])
  <2>1. replies'[d] = replies[d] /\ sent'[d] = sent[d]
    BY <1>2, <1>3
  <2>2. QED
    BY <2>1 DEF AnswersInOrder
<1>4. /\ Len(replies'[c]) <= Len(sent'[c])
      /\ \A i \in 1..Len(replies'[c]) :
           /\ replies'[c][i] = Answer(sent'[c][i])
           /\ replies'[c][i] = "error" => i = Len(replies'[c])
  <2>1. CASE replies' = replies
    BY <2>1 DEF AnswersInOrder
  <2>2. CASE /\ Len(replies'[c]) = Len(replies[c]) + 1
             /\ replies'[c][Len(replies[c]) + 1] = Answer(kind)
             /\ \A i \in 1..Len(replies[c]) : replies'[c][i] = replies[c][i]
    <3>1. Len(sent[c]) = Len(replies[c]) + 1 /\ sent[c][Len(replies[c]) + 1] = kind
      BY <1>2 DEF InFlight
    <3>2. ASSUME NEW i \in 1..Len(replies'[c])
          PROVE  /\ replies'[c][i] = Answer(sent'[c][i])
                 /\ replies'[c][i] = "error" => i = Len(replies'[c])
      <4>1. CASE i \in 1..Len(replies[c])
        BY <2>2, <4>1 DEF AnswersInOrder
      <4>2. CASE i = Len(replies[c]) + 1
        BY <2>2, <3>1, <4>2
      <4>3. QED
        BY <1>2, <2>2, <4>1, <4>2
    <3>3. QED
      BY <1>2, <2>2, <3>1, <3>2
  <2>3. QED
    BY <1>2, <2>1, <2>2
<1>5. QED
  BY <1>3, <1>4 DEF AnswersInOrder

\* Answers follow the requests.
LEMMA AnswersStep ==
  ASSUME IInv, [Next]_vars
  PROVE  AnswersInOrder'
<1>0. TypeOK /\ AnswersInOrder
  BY DEF IInv
<1> USE ConnsAssumption
    DEF IInv, TypeOK, PlaceInv, Unoccupied, RequestInv, InFlight, Underway, Kinds, Answer,
        serverVars, linkVars, tcpVars, annceVars
<1>1. ASSUME NEW kind \in Kinds, Underway(kind), s_client_fd \in Conns,
             Receives(s_client_fd, Answer(kind)), UNCHANGED sent
      PROVE  AnswersInOrder'
  <2>1. InFlight(s_client_fd, kind)
    BY <1>1
  <2>2. \A i \in 1..Len(replies[s_client_fd]) : replies[s_client_fd][i] # "error"
    <3>1. conn[s_client_fd] # "closed" /\ pc # "close"
      BY <1>1 DEF OneClientAtATime
    <3>2. ErrorInv
      OBVIOUS
    <3> HIDE DEF IInv
    <3>3. QED
      BY <1>1, <3>1, <3>2 DEF ErrorInv
  <2> HIDE DEF IInv, TypeOK, InFlight, Underway, Kinds, Answer
  <2>3. QED
    BY <1>0, <1>1, <2>1, <2>2, AnswerFacts
<1>2. CASE Refuse
  <2>1. s_client_fd \in Conns /\ Underway("refused") /\ Answer("refused") = "error"
    BY <1>2 DEF Refuse
  <2>2. QED
    BY <1>1, <1>2, <2>1 DEF Refuse
<1>3. CASE Reply
  <2>1. /\ s_client_fd \in Conns /\ response.kind \in Kinds /\ Underway(response.kind)
        /\ Answer(response.kind) = response.kind
    BY <1>3 DEF Reply
  <2>2. QED
    BY <1>1, <1>3, <2>1 DEF Reply
<1>4. ASSUME NEW c \in Conns, NEW kind \in Kinds, Send(c, kind) PROVE AnswersInOrder'
  <2>1. sent[c] \in Seq(Kinds) /\ sent' = [sent EXCEPT ![c] = Append(sent[c], kind)]
    BY <1>4 DEF Send
  <2>2. /\ Len(sent[c]) \in Nat /\ Len(sent'[c]) = Len(sent[c]) + 1
        /\ \A i \in 1..Len(sent[c]) : sent'[c][i] = sent[c][i]
    BY <2>1, AppendFacts
  <2>3. \A d \in Conns : d # c => sent'[d] = sent[d]
    BY <2>1
  <2>4. replies' = replies
    BY <1>4 DEF Send
  <2>5. Len(replies[c]) \in Nat /\ Len(replies[c]) <= Len(sent[c])
    BY DEF AnswersInOrder
  <2>6. \A i \in 1..Len(replies[c]) : sent'[c][i] = sent[c][i]
    BY <2>2, <2>5
  <2>7. ASSUME NEW d \in Conns
        PROVE  /\ Len(replies'[d]) <= Len(sent'[d])
               /\ \A i \in 1..Len(replies'[d]) :
                    /\ replies'[d][i] = Answer(sent'[d][i])
                    /\ replies'[d][i] = "error" => i = Len(replies'[d])
    <3>1. CASE d = c
      <4>1. Len(replies'[c]) <= Len(sent'[c])
        BY <2>2, <2>4, <2>5
      <4>2. ASSUME NEW i \in 1..Len(replies[c])
            PROVE  /\ replies[c][i] = Answer(sent'[c][i])
                   /\ replies[c][i] = "error" => i = Len(replies[c])
        <5>1. sent'[c][i] = sent[c][i]
          BY <2>6
        <5>2. QED
          BY <5>1 DEF AnswersInOrder
      <4>3. QED
        BY <2>4, <3>1, <4>1, <4>2
    <3>2. CASE d # c
      <4>1. replies'[d] = replies[d] /\ sent'[d] = sent[d]
        BY <2>3, <2>4, <3>2
      <4> HIDE DEF IInv, TypeOK, Answer
      <4>2. QED
        BY <1>0, <4>1 DEF AnswersInOrder
    <3>3. QED
      BY <3>1, <3>2
  <2>8. QED
    BY <2>7 DEF AnswersInOrder
<1>5. CASE UNCHANGED <<sent, replies>>
  BY <1>5 DEF AnswersInOrder
<1>6. QED
  BY <1>2, <1>3, <1>4, <1>5 DEF Next, ServerStep, vars, CreateListener, AcceptFails,
     AcceptRunsOut, LeaveAccept, BeginRead,
     CloseListener, CloseClient, LinkDownLeavesLoop, ReceiveHeaderFails, ReceiveRequest,
     HandleStackCall, ClientWentAway, BeginSlice, TakeAnnce, SliceTimeout, AnnceTimeout,
     Accept, CreateListenerFails, Announce, Connect, Disconnect, HostDies, LoseAddress,
     NoticeLoss, LinkComesUp

-----------------------------------------------------------------------------
(***************************************************************************)
(* Announcements.                                                          *)
(***************************************************************************)
\* What the invariant says of each announcement.
LEMMA AnnceFacts ==
  ASSUME TypeOK, QueueInv, AnnceAccounting
  PROVE  /\ Len(s_annce_q) \in Nat /\ announced \in 0..MaxAnnce
         /\ fate \in [1..MaxAnnce -> {"none", "queued", "dropped", "held", "delivered", "lost"}]
         /\ \A n \in 1..MaxAnnce : n > announced <=> fate[n] = "none"
         /\ \A n \in 1..MaxAnnce :
              fate[n] = "queued" => \E i \in 1..Len(s_annce_q) : n = s_annce_q[i]
         /\ \A i \in 1..Len(s_annce_q) :
              s_annce_q[i] \in 1..MaxAnnce /\ fate[s_annce_q[i]] = "queued"
         /\ \A i, j \in 1..Len(s_annce_q) : i < j => s_annce_q[i] < s_annce_q[j]
         /\ \A n \in 1..MaxAnnce : fate[n] = "held" <=> n = response.annce
         /\ \A n, m \in 1..MaxAnnce :
              fate[n] = "queued" /\ fate[m] \in {"held", "delivered", "lost"} => m < n
<1>1. {n \in 1..MaxAnnce : fate[n] = "queued"} = {s_annce_q[i] : i \in 1..Len(s_annce_q)}
  BY DEF AnnceAccounting
<1>2. {n \in 1..MaxAnnce : fate[n] = "held"} = {response.annce} \ {0}
  BY DEF AnnceAccounting
<1>3. \A n \in 1..MaxAnnce :
        fate[n] = "queued" => \E i \in 1..Len(s_annce_q) : n = s_annce_q[i]
  BY <1>1
<1>4. \A i \in 1..Len(s_annce_q) :
        s_annce_q[i] \in 1..MaxAnnce /\ fate[s_annce_q[i]] = "queued"
  BY <1>1
<1>5. \A n \in 1..MaxAnnce : fate[n] = "held" <=> n = response.annce
  <2> SUFFICES ASSUME NEW n \in 1..MaxAnnce PROVE fate[n] = "held" <=> n = response.annce
    OBVIOUS
  <2>1. n # 0
    BY BoundsAssumption
  <2>2. fate[n] = "held" <=> n \in {response.annce} \ {0}
    BY <1>2
  <2>3. QED
    BY <2>1, <2>2
<1>6. \A n, m \in 1..MaxAnnce :
        fate[n] = "queued" /\ fate[m] \in {"held", "delivered", "lost"} => m < n
  BY DEF AnnceAccounting
<1>7. QED
  BY <1>3, <1>4, <1>5, <1>6, BoundsAssumption DEF TypeOK, QueueInv

\* The announcements are numbered, queued and taken in the order of arrival.
LEMMA AnnceStep ==
  ASSUME IInv, [Next]_vars
  PROVE  QueueInv' /\ AnnceAccounting'
<1> USE SlicesAssumption, BoundsAssumption
<1>0. /\ TypeOK /\ QueueInv /\ AnnceAccounting
      /\ pc # "reply" => response.annce = 0
  BY DEF IInv, PlaceInv, NoResponse
<1>1. CASE TakeAnnce
  <2> DEFINE h == Head(s_annce_q)
  <2>1. /\ s_annce_q' = Tail(s_annce_q) /\ fate' = [fate EXCEPT ![h] = "held"]
        /\ response'.annce = h /\ response.annce = 0 /\ announced' = announced
    BY <1>0, <1>1 DEF TakeAnnce, Respond, annceVars
  <2>2. /\ Len(s_annce_q) \in Nat \ {0} /\ Len(s_annce_q') = Len(s_annce_q) - 1
        /\ h = s_annce_q[1] /\ h \in 1..MaxAnnce
        /\ \A i \in 1..Len(s_annce_q') : s_annce_q'[i] = s_annce_q[i + 1]
    BY <1>0, <1>1, <2>1, TailFacts DEF TakeAnnce, TypeOK
  <2>3. \A i \in 1..Len(s_annce_q) :
          i > 1 => i - 1 \in 1..Len(s_annce_q') /\ s_annce_q'[i - 1] = s_annce_q[i]
    BY <2>2
  <2>4. \A i \in 1..Len(s_annce_q) :
          s_annce_q[i] \in 1..MaxAnnce /\ (i > 1 => h < s_annce_q[i])
    BY <1>0, <2>2, AnnceFacts
  <2> HIDE DEF h
  <2>5. QueueInv'
    <3>1. \A n \in 1..MaxAnnce : n > announced' <=> fate'[n] = "none"
      BY <1>0, <2>1, <2>2, AnnceFacts
    <3>2. ASSUME NEW i \in 1..Len(s_annce_q'), NEW j \in 1..Len(s_annce_q'), i < j
          PROVE  s_annce_q'[i] < s_annce_q'[j]
      <4>1. i + 1 \in 1..Len(s_annce_q) /\ j + 1 \in 1..Len(s_annce_q) /\ i + 1 < j + 1
        BY <2>2, <3>2
      <4>2. s_annce_q[i + 1] < s_annce_q[j + 1]
        BY <1>0, <4>1 DEF QueueInv
      <4>3. QED
        BY <2>2, <4>2
    <3>3. QED
      BY <3>1, <3>2 DEF QueueInv
  <2>6. {n \in 1..MaxAnnce : fate'[n] = "queued"} = {s_annce_q'[i] : i \in 1..Len(s_annce_q')}
    <3>1. ASSUME NEW n \in 1..MaxAnnce, fate'[n] = "queued"
          PROVE  \E i \in 1..Len(s_annce_q') : n = s_annce_q'[i]
      <4>1. n # h /\ fate[n] = "queued"
        BY <1>0, <2>1, <2>2, <3>1, AnnceFacts
      <4>2. PICK i \in 1..Len(s_annce_q) : n = s_annce_q[i]
        BY <1>0, <4>1, AnnceFacts
      <4>3. i > 1
        BY <2>2, <4>1, <4>2
      <4>4. QED
        BY <2>3, <4>2, <4>3
    <3>2. ASSUME NEW i \in 1..Len(s_annce_q')
          PROVE  s_annce_q'[i] \in 1..MaxAnnce /\ fate'[s_annce_q'[i]] = "queued"
      <4>1. i + 1 \in 1..Len(s_annce_q) /\ s_annce_q'[i] = s_annce_q[i + 1] /\ i + 1 > 1
        BY <2>2
      <4>2. /\ s_annce_q'[i] \in 1..MaxAnnce /\ s_annce_q'[i] # h
            /\ fate[s_annce_q'[i]] = "queued"
        BY <1>0, <2>2, <2>4, <4>1, AnnceFacts
      <4>3. QED
        BY <1>0, <2>1, <4>2, AnnceFacts
    <3>3. QED
      BY <3>1, <3>2
  <2>7. {n \in 1..MaxAnnce : fate'[n] = "held"} = {response'.annce} \ {0}
    BY <1>0, <2>1, <2>2, AnnceFacts
  <2>8. ASSUME NEW n \in 1..MaxAnnce, fate'[n] = "queued",
               NEW m \in 1..MaxAnnce, fate'[m] \in {"held", "delivered", "lost"}
        PROVE  m < n
    <3>1. n # h /\ fate[n] = "queued"
      BY <1>0, <2>1, <2>2, <2>8, AnnceFacts
    <3>2. PICK i \in 1..Len(s_annce_q) : n = s_annce_q[i]
      BY <1>0, <3>1, AnnceFacts
    <3>3. h < n
      BY <2>2, <2>4, <3>1, <3>2
    <3>4. m = h \/ fate[m] \in {"held", "delivered", "lost"}
      BY <1>0, <2>1, <2>2, <2>8, AnnceFacts
    <3>5. QED
      BY <1>0, <3>1, <3>3, <3>4, AnnceFacts
  <2>9. QED
    BY <2>5, <2>6, <2>7, <2>8 DEF AnnceAccounting
<1>2. CASE Announce
  <2> DEFINE k == announced + 1
  <2>1. /\ k \in 1..MaxAnnce /\ announced' = k /\ response' = response
        /\ fate[k] = "none" /\ fate'[k] \in {"queued", "dropped"}
        /\ \A n \in 1..MaxAnnce : n # k => fate'[n] = fate[n]
    BY <1>0, <1>2, AnnceFacts DEF Announce, serverVars
  <2>2. \A n \in 1..MaxAnnce : fate[n] # "none" => n < k
    BY <1>0, AnnceFacts
  <2>3. \A n \in 1..MaxAnnce : n > announced' <=> fate'[n] = "none"
    BY <1>0, <2>1, AnnceFacts
  <2>4. CASE Len(s_annce_q) < AnnceQLen
    <3>1. s_annce_q' = Append(s_annce_q, k) /\ fate'[k] = "queued"
      BY <1>0, <1>2, <2>1, <2>4 DEF Announce, TypeOK
    <3>2. /\ Len(s_annce_q) \in Nat /\ Len(s_annce_q') = Len(s_annce_q) + 1
          /\ s_annce_q'[Len(s_annce_q) + 1] = k
          /\ \A i \in 1..Len(s_annce_q) : s_annce_q'[i] = s_annce_q[i]
      BY <1>0, <2>1, <3>1, AppendFacts DEF TypeOK
    <3> HIDE DEF k
    <3>3. \A i \in 1..Len(s_annce_q) :
            /\ s_annce_q[i] \in 1..MaxAnnce /\ s_annce_q[i] < k
            /\ fate[s_annce_q[i]] = "queued"
      BY <1>0, <2>2, AnnceFacts
    <3>4. ASSUME NEW i \in 1..Len(s_annce_q'), NEW j \in 1..Len(s_annce_q'), i < j
          PROVE  s_annce_q'[i] < s_annce_q'[j]
      <4>1. i \in 1..Len(s_annce_q)
        BY <3>2, <3>4
      <4>2. CASE j \in 1..Len(s_annce_q)
        BY <1>0, <3>2, <3>4, <4>1, <4>2, AnnceFacts
      <4>3. CASE j = Len(s_annce_q) + 1
        BY <3>2, <3>3, <4>1, <4>3
      <4>4. QED
        BY <3>2, <4>2, <4>3
    <3>5. {n \in 1..MaxAnnce : fate'[n] = "queued"} = {s_annce_q'[i] : i \in 1..Len(s_annce_q')}
      <4>1. ASSUME NEW n \in 1..MaxAnnce, fate'[n] = "queued"
            PROVE  \E i \in 1..Len(s_annce_q') : n = s_annce_q'[i]
        <5>1. CASE n = k
          BY <3>2, <5>1
        <5>2. CASE n # k
          <6>1. PICK i \in 1..Len(s_annce_q) : n = s_annce_q[i]
            BY <1>0, <2>1, <4>1, <5>2, AnnceFacts
          <6>2. QED
            BY <3>2, <6>1
        <5>3. QED
          BY <5>1, <5>2
      <4>2. ASSUME NEW i \in 1..Len(s_annce_q')
            PROVE  s_annce_q'[i] \in 1..MaxAnnce /\ fate'[s_annce_q'[i]] = "queued"
        <5>1. CASE i = Len(s_annce_q) + 1
          BY <2>1, <3>1, <3>2, <5>1
        <5>2. CASE i \in 1..Len(s_annce_q)
          BY <2>1, <3>2, <3>3, <5>2
        <5>3. QED
          BY <3>2, <5>1, <5>2
      <4>3. QED
        BY <4>1, <4>2
    <3>6. {n \in 1..MaxAnnce : fate'[n] = "held"} = {response'.annce} \ {0}
      <4>1. \A n \in 1..MaxAnnce : fate'[n] = "held" <=> fate[n] = "held"
        BY <2>1, <3>1
      <4>2. QED
        BY <1>0, <2>1, <4>1 DEF AnnceAccounting
    <3>7. ASSUME NEW n \in 1..MaxAnnce, fate'[n] = "queued",
                 NEW m \in 1..MaxAnnce, fate'[m] \in {"held", "delivered", "lost"}
          PROVE  m < n
      <4>1. m # k /\ fate[m] \in {"held", "delivered", "lost"} /\ m < k
        BY <2>1, <2>2, <3>1, <3>7
      <4>2. QED
        BY <1>0, <2>1, <3>7, <4>1, AnnceFacts
    <3>8. QED
      BY <2>3, <3>4, <3>5, <3>6, <3>7 DEF QueueInv, AnnceAccounting
  <2>5. CASE ~(Len(s_annce_q) < AnnceQLen)
    <3>1. s_annce_q' = s_annce_q /\ fate'[k] = "dropped"
      BY <1>0, <1>2, <2>1, <2>5 DEF Announce, TypeOK
    <3> HIDE DEF k
    <3>2. \A n \in 1..MaxAnnce : \A f \in {"queued", "held", "delivered", "lost"} :
            fate'[n] = f <=> fate[n] = f
      BY <2>1, <3>1
    <3>3. QueueInv'
      BY <1>0, <2>3, <3>1 DEF QueueInv
    <3>4. {n \in 1..MaxAnnce : fate'[n] = "queued"}
            = {s_annce_q'[i] : i \in 1..Len(s_annce_q')}
      <4>1. {n \in 1..MaxAnnce : fate'[n] = "queued"} = {n \in 1..MaxAnnce : fate[n] = "queued"}
        BY <3>2
      <4>2. QED
        BY <1>0, <3>1, <4>1 DEF AnnceAccounting
    <3>5. {n \in 1..MaxAnnce : fate'[n] = "held"} = {response'.annce} \ {0}
      <4>1. {n \in 1..MaxAnnce : fate'[n] = "held"} = {n \in 1..MaxAnnce : fate[n] = "held"}
        BY <3>2
      <4>2. QED
        BY <1>0, <2>1, <4>1 DEF AnnceAccounting
    <3>6. ASSUME NEW n \in 1..MaxAnnce, fate'[n] = "queued",
                 NEW m \in 1..MaxAnnce, fate'[m] \in {"held", "delivered", "lost"}
          PROVE  m < n
      <4>1. fate[n] = "queued" /\ fate[m] \in {"held", "delivered", "lost"}
        BY <3>2, <3>6
      <4>2. QED
        BY <1>0, <4>1, AnnceFacts
    <3>7. QED
      BY <3>3, <3>4, <3>5, <3>6 DEF AnnceAccounting
  <2>6. QED
    BY <2>4, <2>5
<1>3. CASE Reply
  BY <1>0, <1>3 DEF Reply, TypeOK, QueueInv, AnnceAccounting, NoResponse
<1>4. CASE UNCHANGED annceVars /\ response'.annce = 0 /\ response.annce = 0
  BY <1>0, <1>4 DEF QueueInv, AnnceAccounting, annceVars
<1>5. CASE HandleStackCall \/ ClientWentAway \/ AnnceTimeout \/ CloseClient
  BY <1>0, <1>4, <1>5 DEF HandleStackCall, ClientWentAway, AnnceTimeout, CloseClient,
     Respond, NoResponse
<1>6. CASE UNCHANGED <<annceVars, response>>
  BY <1>0, <1>6 DEF QueueInv, AnnceAccounting, annceVars
<1>7. QED
  BY <1>1, <1>2, <1>3, <1>5, <1>6 DEF Next, ServerStep, vars, serverVars,
     CreateListener, AcceptFails, AcceptRunsOut, LeaveAccept, CloseListener,
     LinkDownLeavesLoop, BeginRead, ReceiveHeaderFails,
     ReceiveRequest, Refuse, BeginSlice, SliceTimeout, Accept, CreateListenerFails,
     Connect, Disconnect, Send, HostDies, LoseAddress, NoticeLoss, LinkComesUp

-----------------------------------------------------------------------------
\* The invariant holds when the task starts.
LEMMA IInvInit == Init => IInv
<1> SUFFICES ASSUME Init PROVE IInv
  OBVIOUS
<1> USE ConnsAssumption, SlicesAssumption, BoundsAssumption DEF Init
<1>1. TypeOK
  <2>1. listener \in BOOLEAN /\ link \in BOOLEAN /\ ip \in BOOLEAN
    BY Zenon
  <2>2. sent \in [Conns -> Seq(Kinds)] /\ replies \in [Conns -> Seq({"stack", "annce", "error"})]
    OBVIOUS
  <2>3. s_annce_q \in Seq(1..MaxAnnce) /\ Len(s_annce_q) <= AnnceQLen
    OBVIOUS
  <2>4. response \in [kind : {"none", "stack", "annce"}, annce : 0..MaxAnnce]
    BY DEF NoResponse
  <2>5. QED
    BY <2>1, <2>2, <2>3, <2>4 DEF TypeOK
<1>2. PlaceInv /\ OneClientAtATime /\ WasteInv
  BY DEF PlaceInv, OneClientAtATime, WasteInv, Unoccupied
<1>3. RequestInv /\ ErrorInv /\ AnswersInOrder
  BY DEF RequestInv, Underway, ErrorInv, AnswersInOrder
<1>4. QueueInv /\ AnnceAccounting
  BY DEF QueueInv, AnnceAccounting, NoResponse
<1>5. QED
  BY <1>1, <1>2, <1>3, <1>4 DEF IInv

\* Every step preserves it.
LEMMA IInvNext == IInv /\ [Next]_vars => IInv'
BY TypeOKStep, PlaceStep, OneClientStep, RequestStep, ErrorStep, AnswersStep, AnnceStep,
   WasteStep DEF IInv

\* The invariant holds throughout every behaviour of the server and its clients.
THEOREM Invariance == Spec => []IInv
BY IInvInit, IInvNext, PTL DEF Spec

\* Every variable of the server, the connections and the queue keeps its type.
THEOREM TypeCorrect == Spec => []TypeOK
<1>1. IInv => TypeOK
  BY DEF IInv
<1>2. QED
  BY <1>1, Invariance, PTL

\* s_client_fd names the one accepted connection, from accept to close.
THEOREM ServesOneClient == Spec => []OneClientAtATime
<1>1. IInv => OneClientAtATime
  BY DEF IInv
<1>2. QED
  BY <1>1, Invariance, PTL

\* A client is answered its own requests, in order, at most once each, and nothing after a
\* request that was refused.
THEOREM AnswersFollowRequests == Spec => []AnswersInOrder
<1>1. IInv => AnswersInOrder
  BY DEF IInv
<1>2. QED
  BY <1>1, Invariance, PTL

\* No announcement that s_annce_q has taken vanishes, is delivered twice or overtakes
\* another.
THEOREM AnnouncementsAreAccountedFor == Spec => []AnnceAccounting
<1>1. IInv => AnnceAccounting
  BY DEF IInv
<1>2. QED
  BY <1>1, Invariance, PTL

\* handle_wait_annce waits at most one slice for a client that has gone.
THEOREM GoneClientsWasteOneSlice == Spec => []AtMostOneSliceWasted
<1>1. IInv => AtMostOneSliceWasted
  BY DEF IInv, WasteInv, AtMostOneSliceWasted
<1>2. QED
  BY <1>1, Invariance, PTL
=============================================================================
