--------------------------- MODULE PppUartProofs ---------------------------
(***************************************************************************)
(* Proofs of the safety properties of PppUart, for any bounds and for an   *)
(* event loop and a negotiation of any speed.                              *)
(*                                                                         *)
(* The properties speak of moments at which all events are handled; the    *)
(* inductive invariant says what the events still in the queue are going   *)
(* to do.  At most one dead phase is pending or recorded, and none while   *)
(* there is a session (PhaseInv).  A dead session still has an error to    *)
(* come after whatever would set the link bit (DownInv), and either that   *)
(* error, a notification or a task at work (RecoverInv).  A running one    *)
(* has the bit, or the event that sets it, and nothing behind it that      *)
(* clears it (UpInv).                                                      *)
(***************************************************************************)
EXTENDS PppUart, TLAPS

Queued == 1..Len(events)

PhaseInv ==
  /\ ppp # "dead" => ~PHASE_DEAD
  /\ ppp # "dead" \/ PHASE_DEAD \/ task \in {"clear", "start"}
       => \A i \in Queued : events[i] # "PHASE_DEAD"
  /\ \A i, j \in Queued : events[i] = "PHASE_DEAD" /\ events[j] = "PHASE_DEAD" => i = j
  /\ task = "start" => ~PHASE_DEAD

DownInv ==
  ppp = "dead" =>
    /\ LINK_UP => \E j \in Queued : events[j] = "ERROR"
    /\ \A i \in Queued : events[i] = "GOT_IP" => \E j \in Queued : j > i /\ events[j] = "ERROR"

RecoverInv ==
  ppp = "dead" => notified \/ task # "take" \/ \E j \in Queued : events[j] = "ERROR"

UpInv ==
  ppp = "running" =>
    \/ LINK_UP /\ \A j \in Queued : events[j] \notin {"ERROR", "LOST_IP"}
    \/ \E i \in Queued : /\ events[i] = "GOT_IP"
                         /\ \A j \in Queued : j > i => events[j] \notin {"ERROR", "LOST_IP"}

IInv == TypeOK /\ RestartsFromDead /\ PhaseInv /\ DownInv /\ RecoverInv /\ UpInv


-----------------------------------------------------------------------------
(***************************************************************************)
(* The queue.                                                              *)
(***************************************************************************)
\* What is left when the first event has been handled.
LEMMA TailFacts ==
  ASSUME NEW s \in Seq(EventTypes), s # <<>>
  PROVE  /\ Tail(s) \in Seq(EventTypes)
         /\ Len(Tail(s)) = Len(s) - 1
         /\ Len(s) \in Nat \ {0}
         /\ Head(s) = s[1]
         /\ \A i \in 1..Len(Tail(s)) : Tail(s)[i] = s[i + 1]
OBVIOUS

\* What the queue holds when events have been posted.
LEMMA PostFacts ==
  ASSUME NEW s \in Seq(EventTypes), NEW es \in Seq(EventTypes)
  PROVE  /\ s \o es \in Seq(EventTypes)
         /\ Len(s \o es) = Len(s) + Len(es)
         /\ Len(s) \in Nat
         /\ \A i \in 1..Len(s) : (s \o es)[i] = s[i]
         /\ \A k \in 1..Len(es) : (s \o es)[Len(s) + k] = es[k]
<1>1. \A i \in (Len(s) + 1)..(Len(s) + Len(es)) : (s \o es)[i] = es[i - Len(s)]
  OBVIOUS
<1>2. ASSUME NEW k \in 1..Len(es) PROVE (s \o es)[Len(s) + k] = es[k]
  <2>1. Len(s) \in Nat /\ Len(es) \in Nat /\ (Len(s) + k) - Len(s) = k
    OBVIOUS
  <2>2. Len(s) + k \in (Len(s) + 1)..(Len(s) + Len(es))
    BY <2>1
  <2>3. QED
    BY <1>1, <2>1, <2>2
<1>3. QED
  BY <1>2

\* One event is posted: the queue grows by it.
LEMMA PostOne ==
  ASSUME TypeOK, NEW e \in EventTypes, Post(<<e>>)
  PROVE  /\ events' \in Seq(EventTypes)
         /\ Len(events') = Len(events) + 1
         /\ Len(events) \in Nat
         /\ Len(events') <= MaxEvents
         /\ \A i \in Queued : events'[i] = events[i]
         /\ events'[Len(events) + 1] = e
<1> DEFINE es == <<e>>
<1>1. es \in Seq(EventTypes) /\ Len(es) = 1 /\ es[1] = e
  OBVIOUS
<1>2. events \in Seq(EventTypes) /\ events' = events \o es /\ Len(events) + Len(es) <= MaxEvents
  BY DEF TypeOK, Post
<1> HIDE DEF es
<1>3. /\ events' \in Seq(EventTypes)
      /\ Len(events') = Len(events) + Len(es)
      /\ Len(events) \in Nat
      /\ \A i \in 1..Len(events) : events'[i] = events[i]
      /\ \A k \in 1..Len(es) : events'[Len(events) + k] = es[k]
  BY <1>1, <1>2, PostFacts
<1>4. events'[Len(events) + 1] = e
  BY <1>1, <1>3
<1>5. QED
  BY <1>1, <1>2, <1>3, <1>4 DEF Queued

\* A session ends: a dead phase and an error are posted, and perhaps the loss of the address.
LEMMA PostEnd ==
  ASSUME TypeOK, NEW lost \in BOOLEAN, Ended(lost)
  PROVE  /\ events' \in Seq(EventTypes)
         /\ Len(events) \in Nat
         /\ Len(events') \in Nat
         /\ Len(events') >= Len(events) + 2
         /\ Len(events') <= MaxEvents
         /\ \A i \in Queued : events'[i] = events[i]
         /\ events'[Len(events) + 1] = "PHASE_DEAD"
         /\ events'[Len(events) + 2] = "ERROR"
         /\ \A i \in Queued' : i > Len(events) + 2 => events'[i] = "LOST_IP"
<1> DEFINE es == IF lost THEN <<"PHASE_DEAD", "ERROR", "LOST_IP">> ELSE <<"PHASE_DEAD", "ERROR">>
<1>1. /\ es \in Seq(EventTypes) /\ Len(es) \in {2, 3}
      /\ es[1] = "PHASE_DEAD" /\ es[2] = "ERROR" /\ (Len(es) = 3 => es[3] = "LOST_IP")
  <2>1. CASE lost
    <3> DEFINE t == <<"PHASE_DEAD", "ERROR", "LOST_IP">>
    <3>1. t \in Seq(EventTypes) /\ Len(t) = 3
      BY DEF EventTypes
    <3>2. t[1] = "PHASE_DEAD" /\ t[2] = "ERROR" /\ t[3] = "LOST_IP"
      OBVIOUS
    <3>3. es = t
      BY <2>1
    <3> HIDE DEF es, t
    <3>4. QED
      BY <3>1, <3>2, <3>3
  <2>2. CASE ~lost
    <3> DEFINE t == <<"PHASE_DEAD", "ERROR">>
    <3>1. t \in Seq(EventTypes) /\ Len(t) = 2
      BY DEF EventTypes
    <3>2. t[1] = "PHASE_DEAD" /\ t[2] = "ERROR"
      OBVIOUS
    <3>3. es = t
      BY <2>2
    <3> HIDE DEF es, t
    <3>4. QED
      BY <3>1, <3>2, <3>3
  <2>3. QED
    BY <2>1, <2>2
<1>2. events \in Seq(EventTypes) /\ events' = events \o es /\ Len(events) + Len(es) <= MaxEvents
  BY DEF TypeOK, Ended, Post
<1> HIDE DEF es
<1>3. /\ events' \in Seq(EventTypes)
      /\ Len(events') = Len(events) + Len(es)
      /\ Len(events) \in Nat
      /\ \A i \in 1..Len(events) : events'[i] = events[i]
      /\ \A k \in 1..Len(es) : events'[Len(events) + k] = es[k]
  BY <1>1, <1>2, PostFacts
<1>4. events'[Len(events) + 1] = es[1] /\ events'[Len(events) + 2] = es[2]
  BY <1>1, <1>3
<1>5. ASSUME NEW i \in Queued', i > Len(events) + 2 PROVE events'[i] = "LOST_IP"
  <2>0. i \in 1..Len(events')
    BY DEF Queued
  <2>1. i = Len(events) + 3 /\ Len(es) = 3
    BY <1>1, <1>3, <1>5, <2>0
  <2>2. QED
    BY <1>1, <1>3, <2>1
<1>6. QED
  BY <1>1, <1>2, <1>3, <1>4, <1>5 DEF Queued

\* The first event is handled: the others move up.
LEMMA HandleTail ==
  ASSUME TypeOK, events # <<>>, events' = Tail(events)
  PROVE  /\ events' \in Seq(EventTypes)
         /\ Len(events) \in Nat \ {0}
         /\ Len(events') = Len(events) - 1
         /\ Len(events') <= MaxEvents
         /\ Head(events) = events[1]
         /\ \A i \in Queued' : i + 1 \in Queued /\ events'[i] = events[i + 1]
         /\ \A i \in Queued : i > 1 => i - 1 \in Queued' /\ events'[i - 1] = events[i]
<1>1. /\ events' \in Seq(EventTypes)
      /\ Len(events) \in Nat \ {0}
      /\ Len(events') = Len(events) - 1
      /\ Head(events) = events[1]
      /\ \A i \in 1..Len(events') : events'[i] = events[i + 1]
  BY TailFacts DEF TypeOK
<1>2. MaxEvents \in Nat /\ Len(events) <= MaxEvents
  BY BoundsAssumption DEF TypeOK
<1>3. ASSUME NEW i \in Queued' PROVE i + 1 \in Queued /\ events'[i] = events[i + 1]
  BY <1>1 DEF Queued
<1>4. ASSUME NEW i \in Queued, i > 1 PROVE i - 1 \in Queued' /\ events'[i - 1] = events[i]
  <2>1. i \in 1..Len(events)
    BY DEF Queued
  <2>2. i - 1 \in 1..Len(events') /\ (i - 1) + 1 = i
    BY <1>1, <1>4, <2>1
  <2>3. QED
    BY <1>1, <2>2 DEF Queued
<1>5. Len(events') <= MaxEvents
  BY <1>1, <1>2
<1>6. QED
  BY <1>1, <1>3, <1>4, <1>5

-----------------------------------------------------------------------------
(***************************************************************************)
(* The steps that touch the queue.                                         *)
(***************************************************************************)
\* Handling an event preserves the invariant.
LEMMA HandleEventStep ==
  ASSUME IInv, HandleEvent
  PROVE  IInv'
<1> USE DEF IInv
<1>1. /\ events' \in Seq(EventTypes)
      /\ Len(events) \in Nat \ {0}
      /\ Len(events') = Len(events) - 1
      /\ Len(events') <= MaxEvents
      /\ Head(events) = events[1]
      /\ \A i \in Queued' : i + 1 \in Queued /\ events'[i] = events[i + 1]
      /\ \A i \in Queued : i > 1 => i - 1 \in Queued' /\ events'[i - 1] = events[i]
  <2>1. TypeOK /\ events # <<>> /\ events' = Tail(events)
    BY DEF HandleEvent
  <2>2. QED
    BY <2>1, HandleTail
<1>2. 1 \in Queued /\ Queued \subseteq Nat /\ Queued' \subseteq Nat
  BY <1>1 DEF Queued
<1>3. UNCHANGED <<ppp, peer, faults, downs, task>>
  BY DEF HandleEvent, env
<1>4. \/ /\ events[1] = "GOT_IP" /\ PHASE_DEAD' = FALSE /\ LINK_UP' = TRUE
         /\ UNCHANGED notified
      \/ /\ events[1] \in {"LOST_IP", "ERROR"} /\ LINK_UP' = FALSE /\ notified' = TRUE
         /\ UNCHANGED PHASE_DEAD
      \/ /\ events[1] = "PHASE_DEAD" /\ PHASE_DEAD' = TRUE /\ UNCHANGED <<LINK_UP, notified>>
  BY <1>1 DEF HandleEvent, GotIp, LostIp, PhaseDead, StatusError, request_reconnect
<1>5. TypeOK'
  BY <1>1, <1>3, <1>4 DEF TypeOK
<1>6. RestartsFromDead'
  BY <1>3 DEF RestartsFromDead
<1>7. PhaseInv'
  <2>1. ppp # "dead" \/ PHASE_DEAD \/ task \in {"clear", "start"} => events[1] # "PHASE_DEAD"
    BY <1>2 DEF PhaseInv
  <2>2. (ppp # "dead" => ~PHASE_DEAD)' /\ (task = "start" => ~PHASE_DEAD)'
    BY <1>3, <1>4, <2>1 DEF PhaseInv
  <2>3. ASSUME NEW i \in Queued', events'[i] = "PHASE_DEAD"
        PROVE  ~(ppp # "dead" \/ PHASE_DEAD \/ task \in {"clear", "start"})'
    <3>1. i + 1 \in Queued /\ events[i + 1] = "PHASE_DEAD" /\ i + 1 # 1
      BY <1>1, <2>3 DEF Queued
    <3>2. events[1] # "PHASE_DEAD"
      BY <1>2, <3>1 DEF PhaseInv
    <3>3. QED
      BY <1>3, <1>4, <3>1, <3>2 DEF PhaseInv
  <2>4. ASSUME NEW i \in Queued', NEW j \in Queued',
               events'[i] = "PHASE_DEAD", events'[j] = "PHASE_DEAD"
        PROVE  i = j
    <3>1. i + 1 = j + 1
      BY <1>1, <2>4 DEF PhaseInv
    <3>2. QED
      BY <1>2, <3>1
  <2>5. QED
    BY <2>2, <2>3, <2>4 DEF PhaseInv
<1>8. DownInv'
  <2> SUFFICES ASSUME ppp = "dead"
               PROVE  /\ LINK_UP' => \E j \in Queued' : events'[j] = "ERROR"
                      /\ \A i \in Queued' : events'[i] = "GOT_IP"
                            => \E j \in Queued' : j > i /\ events'[j] = "ERROR"
    BY <1>3 DEF DownInv
  <2>1. ASSUME LINK_UP' PROVE \E j \in Queued' : events'[j] = "ERROR"
    <3>1. PICK j \in Queued : events[j] = "ERROR" /\ j > 1
      <4>1. CASE events[1] = "GOT_IP"
        BY <1>2, <4>1 DEF DownInv
      <4>2. CASE events[1] = "PHASE_DEAD"
        <5>1. LINK_UP
          BY <1>4, <2>1, <4>2
        <5>2. PICK j \in Queued : events[j] = "ERROR"
          BY <5>1 DEF DownInv
        <5>3. j > 1
          BY <1>2, <4>2, <5>2 DEF Queued
        <5>4. QED
          BY <5>2, <5>3
      <4>3. QED
        BY <1>4, <2>1, <4>1, <4>2
    <3>2. QED
      BY <1>1, <3>1
  <2>2. ASSUME NEW i \in Queued', events'[i] = "GOT_IP"
        PROVE  \E j \in Queued' : j > i /\ events'[j] = "ERROR"
    <3>1. i + 1 \in Queued /\ events[i + 1] = "GOT_IP"
      BY <1>1, <2>2
    <3>2. PICK j \in Queued : j > i + 1 /\ events[j] = "ERROR"
      BY <3>1 DEF DownInv
    <3>3. j > 1 /\ j - 1 > i
      BY <1>2, <3>2
    <3>4. j - 1 \in Queued' /\ events'[j - 1] = "ERROR"
      BY <1>1, <3>2, <3>3
    <3>5. QED
      BY <3>3, <3>4
  <2>3. QED
    BY <2>1, <2>2
<1>9. RecoverInv'
  <2> SUFFICES ASSUME ppp = "dead", ~notified', task = "take"
               PROVE  \E j \in Queued' : events'[j] = "ERROR"
    BY <1>3 DEF RecoverInv
  <2>1. ~notified /\ events[1] # "ERROR"
    BY <1>4
  <2>2. PICK j \in Queued : events[j] = "ERROR"
    BY <2>1 DEF RecoverInv
  <2>3. j > 1
    BY <1>2, <2>1, <2>2 DEF Queued
  <2>4. QED
    BY <1>1, <2>2, <2>3
<1>10. UpInv'
  <2> SUFFICES ASSUME ppp = "running"
               PROVE  \/ LINK_UP' /\ \A j \in Queued' : events'[j] \notin {"ERROR", "LOST_IP"}
                      \/ \E i \in Queued' :
                            /\ events'[i] = "GOT_IP"
                            /\ \A j \in Queued' : j > i => events'[j] \notin {"ERROR", "LOST_IP"}
    BY <1>3 DEF UpInv
  <2>1. CASE LINK_UP /\ \A j \in Queued : events[j] \notin {"ERROR", "LOST_IP"}
    <3>1. LINK_UP'
      BY <1>2, <1>4, <2>1
    <3>2. QED
      BY <1>1, <2>1, <3>1
  <2>2. ASSUME NEW i \in Queued, events[i] = "GOT_IP",
               \A j \in Queued : j > i => events[j] \notin {"ERROR", "LOST_IP"}
        PROVE  \/ LINK_UP' /\ \A j \in Queued' : events'[j] \notin {"ERROR", "LOST_IP"}
               \/ \E k \in Queued' :
                     /\ events'[k] = "GOT_IP"
                     /\ \A j \in Queued' : j > k => events'[j] \notin {"ERROR", "LOST_IP"}
    <3>1. CASE i = 1
      <4>1. LINK_UP'
        BY <1>4, <2>2, <3>1
      <4>2. ASSUME NEW j \in Queued' PROVE events'[j] \notin {"ERROR", "LOST_IP"}
        <5>1. j + 1 \in Queued /\ events'[j] = events[j + 1] /\ j + 1 > i
          BY <1>1, <3>1 DEF Queued
        <5>2. QED
          BY <2>2, <5>1
      <4>3. QED
        BY <4>1, <4>2
    <3>2. CASE i # 1
      <4>1. i - 1 \in Queued' /\ events'[i - 1] = "GOT_IP"
        BY <1>1, <2>2, <3>2 DEF Queued
      <4>2. ASSUME NEW j \in Queued', j > i - 1 PROVE events'[j] \notin {"ERROR", "LOST_IP"}
        <5>1. j + 1 \in Queued /\ events'[j] = events[j + 1] /\ j + 1 > i
          BY <1>1, <1>2, <4>2
        <5>2. QED
          BY <2>2, <5>1
      <4>3. QED
        BY <4>1, <4>2
    <3>3. QED
      BY <3>1, <3>2
  <2>3. QED
    BY <2>1, <2>2 DEF UpInv
<1>11. QED
  BY <1>5, <1>6, <1>7, <1>8, <1>9, <1>10

\* An error posted on a dead session preserves the invariant's view of the queue.
LEMMA PostErrorStep ==
  ASSUME IInv, ppp = "dead", Post(<<"ERROR">>), UNCHANGED <<ppp, env, bits, notified>>,
         task' \in {"wait_dead", "clear"},
         task' = "clear" => PHASE_DEAD
  PROVE  IInv'
<1>1. /\ events' \in Seq(EventTypes)
      /\ Len(events') = Len(events) + 1
      /\ Len(events) \in Nat
      /\ Len(events') <= MaxEvents
      /\ \A i \in Queued : events'[i] = events[i]
      /\ events'[Len(events) + 1] = "ERROR"
  BY PostOne DEF IInv, EventTypes
<1>2. Len(events) + 1 \in Queued' /\ \A i \in Queued' : i \in Queued \/ i = Len(events) + 1
  BY <1>1 DEF Queued
<1>3. UNCHANGED <<peer, faults, downs, LINK_UP, PHASE_DEAD>>
  BY DEF env, bits
<1>4. TypeOK'
  BY <1>1, <1>3 DEF IInv, TypeOK
<1>5. RestartsFromDead'
  BY DEF RestartsFromDead
<1>6. PhaseInv'
  <2>1. \A i \in Queued' : events'[i] = "PHASE_DEAD" => i \in Queued /\ events[i] = "PHASE_DEAD"
    BY <1>1, <1>2
  <2>2. QED
    BY <1>3, <2>1 DEF IInv, PhaseInv
<1>7. DownInv'
  <2>1. ASSUME NEW i \in Queued', events'[i] = "GOT_IP" PROVE Len(events) + 1 > i
    BY <1>1, <1>2, <2>1 DEF Queued
  <2>2. QED
    BY <1>1, <1>2, <2>1 DEF DownInv
<1>8. RecoverInv' /\ UpInv'
  BY <1>1, <1>2 DEF RecoverInv, UpInv
<1>9. QED
  BY <1>4, <1>5, <1>6, <1>7, <1>8 DEF IInv

\* The end of a session, of its own accord or because it was closed.
LEMMA EndStep ==
  ASSUME IInv, ppp # "dead", ppp' = "dead", NEW lost \in BOOLEAN, Ended(lost),
         UNCHANGED <<peer, downs, bits, notified, task>>, faults' \in 0..MaxFaults
  PROVE  IInv'
<1>1. /\ events' \in Seq(EventTypes)
      /\ Len(events) \in Nat
      /\ Len(events') \in Nat
      /\ Len(events') >= Len(events) + 2
      /\ Len(events') <= MaxEvents
      /\ \A i \in Queued : events'[i] = events[i]
      /\ events'[Len(events) + 1] = "PHASE_DEAD"
      /\ events'[Len(events) + 2] = "ERROR"
      /\ \A i \in Queued' : i > Len(events) + 2 => events'[i] = "LOST_IP"
  BY PostEnd DEF IInv
<1>2. /\ Len(events) + 1 \in Queued' /\ Len(events) + 2 \in Queued'
      /\ \A i \in Queued' : \/ i \in Queued
                            \/ i = Len(events) + 1
                            \/ i = Len(events) + 2
                            \/ i > Len(events) + 2
  BY <1>1 DEF Queued
<1>3. UNCHANGED <<LINK_UP, PHASE_DEAD>>
  BY DEF bits
<1>4. TypeOK'
  BY <1>1, <1>3 DEF IInv, TypeOK
<1>5. task \notin {"clear", "start"} /\ ~PHASE_DEAD
  BY DEF IInv, RestartsFromDead, PhaseInv
<1>6. \A i \in Queued : events[i] # "PHASE_DEAD"
  BY DEF IInv, PhaseInv
<1>7. RestartsFromDead'
  BY DEF RestartsFromDead
<1>8. PhaseInv'
  <2>1. \A i \in Queued' : events'[i] = "PHASE_DEAD" => i = Len(events) + 1
    BY <1>1, <1>2, <1>6
  <2>2. QED
    BY <1>3, <1>5, <2>1 DEF PhaseInv
<1>9. DownInv'
  <2>1. ASSUME NEW i \in Queued', events'[i] = "GOT_IP" PROVE Len(events) + 2 > i
    BY <1>1, <1>2, <2>1 DEF Queued
  <2>2. QED
    BY <1>1, <1>2, <2>1 DEF DownInv
<1>10. RecoverInv' /\ UpInv'
  BY <1>1, <1>2 DEF RecoverInv, UpInv
<1>11. QED
  BY <1>4, <1>7, <1>8, <1>9, <1>10 DEF IInv

\* A negotiation succeeds.
LEMMA NegotiatedStep ==
  ASSUME IInv, Negotiated
  PROVE  IInv'
<1>1. /\ events' \in Seq(EventTypes)
      /\ Len(events') = Len(events) + 1
      /\ Len(events) \in Nat
      /\ Len(events') <= MaxEvents
      /\ \A i \in Queued : events'[i] = events[i]
      /\ events'[Len(events) + 1] = "GOT_IP"
  BY PostOne DEF IInv, EventTypes, Negotiated
<1>2. Len(events) + 1 \in Queued' /\ \A i \in Queued' : i \in Queued \/ i = Len(events) + 1
  BY <1>1 DEF Queued
<1>3. /\ UNCHANGED <<peer, faults, downs, LINK_UP, PHASE_DEAD, notified, task>>
      /\ ppp = "starting" /\ ppp' = "running"
  BY DEF Negotiated, env, bits
<1>4. TypeOK'
  BY <1>1, <1>3 DEF IInv, TypeOK
<1>5. PhaseInv' /\ RestartsFromDead'
  <2>1. \A i \in Queued' : events'[i] # "PHASE_DEAD"
    BY <1>1, <1>2, <1>3 DEF IInv, PhaseInv
  <2>2. QED
    BY <1>3, <2>1 DEF IInv, PhaseInv, RestartsFromDead
<1>6. DownInv' /\ RecoverInv'
  BY <1>3 DEF DownInv, RecoverInv
<1>7. UpInv'
  <2>1. \A j \in Queued' : ~(j > Len(events) + 1)
    BY <1>1 DEF Queued
  <2>2. QED
    BY <1>1, <1>2, <2>1 DEF UpInv
<1>8. QED
  BY <1>4, <1>5, <1>6, <1>7 DEF IInv

\* The peer renegotiates, and the loss of the address is reported or not.
LEMMA RenegotiateStep ==
  ASSUME IInv, Renegotiate
  PROVE  IInv'
<1>1. /\ UNCHANGED <<peer, downs, LINK_UP, PHASE_DEAD, notified, task>>
      /\ ppp = "running" /\ ppp' = "starting"
      /\ faults' \in 0..MaxFaults
  BY BoundsAssumption DEF IInv, TypeOK, Renegotiate, bits
<1>2. /\ events' \in Seq(EventTypes) /\ Len(events') <= MaxEvents
      /\ \A i \in Queued' : events'[i] # "PHASE_DEAD"
  <2>1. CASE UNCHANGED events
    BY <1>1, <2>1 DEF IInv, TypeOK, PhaseInv, Queued
  <2>2. CASE Post(<<"LOST_IP">>)
    <3>1. /\ events' \in Seq(EventTypes)
          /\ Len(events') = Len(events) + 1
          /\ Len(events) \in Nat
          /\ Len(events') <= MaxEvents
          /\ \A i \in Queued : events'[i] = events[i]
          /\ events'[Len(events) + 1] = "LOST_IP"
      BY <2>2, PostOne DEF IInv, EventTypes
    <3>2. \A i \in Queued' : i \in Queued \/ i = Len(events) + 1
      BY <3>1 DEF Queued
    <3>3. QED
      BY <1>1, <3>1, <3>2 DEF IInv, PhaseInv
  <2>3. QED
    BY <2>1, <2>2 DEF Renegotiate
<1>3. TypeOK'
  BY <1>1, <1>2 DEF IInv, TypeOK
<1>4. QED
  BY <1>1, <1>2, <1>3
     DEF IInv, PhaseInv, RestartsFromDead, DownInv, RecoverInv, UpInv

-----------------------------------------------------------------------------
(***************************************************************************)
(* The invariant.                                                          *)
(***************************************************************************)
\* What is left of a step that closes a session: nothing, or its state alone.
LEMMA CloseSessionStep ==
  ASSUME IInv, CloseSession, UNCHANGED <<env, bits, notified>>,
         task' \in {"wait_dead", "clear"},
         task' = "clear" => PHASE_DEAD
  PROVE  IInv'
<1>1. CASE ppp = "dead" /\ Post(<<"ERROR">>) /\ UNCHANGED ppp
  BY <1>1, PostErrorStep DEF bits, env
<1>2. CASE UNCHANGED events /\ ((ppp # "dead" /\ ppp' = "closing") \/ UNCHANGED ppp)
  <2>1. UNCHANGED <<peer, faults, downs, LINK_UP, PHASE_DEAD, notified, events>>
    BY <1>2 DEF env, bits
  <2>2. TypeOK'
    BY <1>2, <2>1 DEF IInv, TypeOK
  <2>3. PhaseInv' /\ RestartsFromDead'
    BY <1>2, <2>1 DEF IInv, PhaseInv, RestartsFromDead, Queued
  <2>4. DownInv' /\ RecoverInv' /\ UpInv'
    BY <1>2, <2>1 DEF IInv, DownInv, RecoverInv, UpInv, Queued
  <2>5. QED
    BY <2>2, <2>3, <2>4 DEF IInv
<1>3. QED
  BY <1>1, <1>2 DEF CloseSession

\* The steps of the task that leave PPP and the queue alone.
LEMMA TaskStepKeeps ==
  ASSUME IInv, NotifyTake \/ DelayOver \/ StopTimeout \/ ClearDead
  PROVE  IInv'
<1>1. UNCHANGED <<ppp, peer, faults, downs, events, LINK_UP>>
  BY DEF NotifyTake, DelayOver, StopTimeout, ClearDead, env, bits
<1>2. TypeOK'
  BY <1>1 DEF IInv, TypeOK, NotifyTake, DelayOver, StopTimeout, ClearDead, bits
<1>3. PhaseInv' /\ RestartsFromDead'
  BY <1>1 DEF IInv, PhaseInv, RestartsFromDead, Queued, NotifyTake, DelayOver, StopTimeout,
              ClearDead, bits
<1>4. DownInv' /\ UpInv'
  BY <1>1 DEF IInv, DownInv, UpInv, Queued
<1>5. RecoverInv'
  BY <1>1 DEF IInv, DownInv, RecoverInv, Queued, NotifyTake, DelayOver, StopTimeout, ClearDead,
              bits
<1>6. QED
  BY <1>2, <1>3, <1>4, <1>5 DEF IInv

\* A session is started, or the peer comes or goes.
LEMMA StartStep ==
  ASSUME IInv, StartSession \/ PeerChanges
  PROVE  IInv'
<1>1. UNCHANGED <<faults, events, LINK_UP, PHASE_DEAD, notified>>
  BY DEF StartSession, PeerChanges, env, bits
<1>2. TypeOK'
  <2>1. peer' \in BOOLEAN
    <3>1. peer \in BOOLEAN
      BY DEF IInv, TypeOK
    <3>2. peer' = peer \/ peer' = ~peer
      BY DEF StartSession, PeerChanges, env
    <3>3. QED
      BY <3>1, <3>2
  <2>2. downs' \in 0..MaxPeerDowns
    <3>1. CASE StartSession
      BY <3>1 DEF IInv, TypeOK, StartSession, env
    <3>2. CASE PeerChanges
      BY <3>2, BoundsAssumption DEF IInv, TypeOK, PeerChanges
    <3>3. QED
      BY <3>1, <3>2
  <2>3. ppp' \in {"dead", "starting", "running", "closing"}
    BY DEF IInv, TypeOK, StartSession, PeerChanges
  <2>4. task' \in {"take", "delay", "disconnect", "wait_dead", "clear", "start"}
    BY DEF IInv, TypeOK, StartSession, PeerChanges
  <2>5. QED
    BY <1>1, <2>1, <2>2, <2>3, <2>4 DEF IInv, TypeOK
<1>3. PhaseInv' /\ RestartsFromDead'
  BY <1>1 DEF IInv, PhaseInv, RestartsFromDead, Queued, StartSession, PeerChanges
<1>4. DownInv' /\ UpInv' /\ RecoverInv'
  BY <1>1 DEF IInv, DownInv, UpInv, RecoverInv, RestartsFromDead, Queued, StartSession,
     PeerChanges
<1>5. QED
  BY <1>2, <1>3, <1>4 DEF IInv

\* The invariant holds when ppp_uart_start has returned.
LEMMA IInvInit == Init => IInv
<1> SUFFICES ASSUME Init PROVE IInv
  OBVIOUS
<1>1. events = <<>> /\ Len(events) = 0 /\ Queued = {}
  BY DEF Init, Queued
<1>2. TypeOK
  <2>1. events \in Seq(EventTypes)
    BY <1>1
  <2>2. faults \in 0..MaxFaults /\ downs \in 0..MaxPeerDowns /\ Len(events) <= MaxEvents
    BY <1>1, BoundsAssumption DEF Init
  <2>3. QED
    BY <2>1, <2>2 DEF Init, TypeOK
<1>3. QED
  BY <1>1, <1>2 DEF Init, IInv, RestartsFromDead, PhaseInv, DownInv, RecoverInv, UpInv

\* Every step preserves it.
LEMMA IInvNext == IInv /\ [Next]_vars => IInv'
<1> SUFFICES ASSUME IInv, [Next]_vars PROVE IInv'
  OBVIOUS
<1>1. CASE HandleEvent
  BY <1>1, HandleEventStep
<1>2. CASE NotifyTake \/ DelayOver \/ StopTimeout \/ ClearDead
  BY <1>2, TaskStepKeeps
<1>3. CASE Disconnect
  BY <1>3, CloseSessionStep DEF Disconnect
<1>4. CASE SawDead
  BY <1>4, CloseSessionStep DEF SawDead
<1>5. CASE StartSession \/ PeerChanges
  BY <1>5, StartStep
<1>6. CASE Negotiated
  BY <1>6, NegotiatedStep
<1>7. CASE Renegotiate
  BY <1>7, RenegotiateStep
<1>8. CASE SessionFails
  <2>1. faults' \in 0..MaxFaults
    BY <1>8, BoundsAssumption DEF SessionFails, IInv, TypeOK
  <2>2. Ended(ppp = "running") /\ (ppp = "running") \in BOOLEAN
    BY <1>8 DEF SessionFails
  <2>3. ppp # "dead" /\ ppp' = "dead" /\ UNCHANGED <<peer, downs, bits, notified, task>>
    BY <1>8 DEF SessionFails
  <2>4. QED
    BY <2>1, <2>2, <2>3, EndStep
<1>9. CASE Closed
  <2>1. faults' \in 0..MaxFaults /\ UNCHANGED <<peer, downs>>
    BY <1>9 DEF Closed, IInv, TypeOK, env
  <2>2. Ended(FALSE)
    BY <1>9 DEF Closed
  <2>3. ppp # "dead" /\ ppp' = "dead" /\ UNCHANGED <<bits, notified, task>>
    BY <1>9 DEF Closed
  <2>4. QED
    BY <2>1, <2>2, <2>3, EndStep
<1>10. CASE UNCHANGED vars
  BY <1>10 DEF vars, env, bits, IInv, TypeOK, RestartsFromDead, PhaseInv, DownInv, RecoverInv,
              UpInv, Queued
<1>11. QED
  BY <1>1, <1>2, <1>3, <1>4, <1>5, <1>6, <1>7, <1>8, <1>9, <1>10 DEF Next, TaskStep

\* The invariant holds throughout every behaviour of the handlers and the task.
THEOREM Invariance == Spec => []IInv
  BY IInvInit, IInvNext, PTL DEF Spec

\* The bits, the notification, the queue and the task of ppp_uart.c keep their types.
THEOREM TypeCorrect == Spec => []TypeOK
<1>1. IInv => TypeOK
  BY DEF IInv
<1>2. QED
  BY <1>1, Invariance, PTL

\* reconnect_task never starts a session on a live one, although the PHASE_DEAD bit it
\* relies on is left set by its wait.
THEOREM AlwaysRestartsFromDead == Spec => []RestartsFromDead
<1>1. IInv => RestartsFromDead
  BY DEF IInv
<1>2. QED
  BY <1>1, Invariance, PTL

\* While there is no session, someone is about to recover it: no notification is lost
\* between the task's look at the link and its wait.
THEOREM RecoveryIsNeverLost == Spec => []SomeoneRecovers
<1>1. IInv => SomeoneRecovers
  <2> SUFFICES ASSUME IInv, ppp = "dead", events = <<>> PROVE notified \/ task # "take"
    BY DEF SomeoneRecovers
  <2>1. Queued = {}
    BY DEF Queued
  <2>2. QED
    BY <2>1 DEF IInv, RecoverInv
<1>2. QED
  BY <1>1, Invariance, PTL

\* With all events handled, PPP_LINK_UP is clear on a dead link and set on a running one.
THEOREM LinkBitIsHonest == Spec => []LinkBitHonest
<1>1. IInv => LinkBitHonest
  <2> SUFFICES ASSUME IInv, events = <<>>
               PROVE  (LINK_UP => ppp # "dead") /\ (ppp = "running" => LINK_UP)
    BY DEF LinkBitHonest
  <2>1. Queued = {}
    BY DEF Queued
  <2>2. QED
    BY <2>1 DEF IInv, DownInv, UpInv
<1>2. QED
  BY <1>1, Invariance, PTL
=============================================================================
