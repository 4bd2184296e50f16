--------------------------- MODULE HostLinkProofs ---------------------------
(***************************************************************************)
(* Proofs of the safety properties of HostLink.                            *)
(*                                                                         *)
(* main has no lock, so what it may do to a struct depends on where it is: *)
(* the inductive invariant says which structs, pointers and threads there  *)
(* are at each place of main (PlaceInv), that a thread inside PPP is there *)
(* with its struct live and the transport attached (InsideInv), that PPP   *)
(* is only active once the transport is attached and until no thread is    *)
(* left to drive it (TransportInv), and that the flag is set only while a  *)
(* session or the callback of its end is under way (FlagInv).              *)
(***************************************************************************)
EXTENDS HostLink, TLAPS

\* The places of main, in the order in which it goes through them.
Starting    == {"create", "attach", "set_output", "init", "configure", "listen", "spawn"}
BeforeTun   == {"open"} \cup Starting
TunStopped  == {"close_ppp", "close_serial", "join_serial", "detach", "free_serial",
                "destroy", "done"}
SerialEnded == {"detach", "free_serial", "destroy", "done"}

PlaceInv ==
  /\ pc = "open" => thread["serial"] = "none" /\ serial = "none"
  /\ pc \in SerialEnded => Joined("serial")
  /\ pc \in BeforeTun \cup TunStopped => Joined("tun")
  /\ pc \notin {"open", "destroy", "done"} => serial = "live"
  /\ pc \in {"destroy", "done"} => serial # "live"
  /\ pc \in {"open", "create"} => link = "none"
  /\ pc \notin {"open", "create", "close_serial", "join_serial", "detach", "free_serial",
                "done"} => link = "live"
  /\ pc = "done" => link # "live"
  /\ thread["tun"] # "cb_up"

\* PPP exists only while there is a link that main has attached to the serial port.
TransportInv ==
  /\ ppp # "none" => link = "live" \/ pc = "done"
  /\ ppp # "none" => pc \notin {"open", "create", "attach", "set_output", "init"}
  /\ pc \in {"init", "configure", "listen", "spawn", "use", "stop_tun", "join_tun",
             "close_ppp"} => output
  /\ pc \in {"close_serial", "join_serial"} /\ ppp # "none" => output

InsideInv ==
  /\ \A t \in Threads : InPpp(t) => ppp # "none"
  /\ pc \in {"spawn", "use"} \/ ~Joined("tun") => ppp # "none"
  /\ thread["serial"] = "cb_up" => ppp = "running" \/ pc \in {"close_serial", "join_serial"}
  /\ pc \in {"configure", "listen"} => ppp = "created"

FlagInv ==
  pc \in {"spawn", "use"} /\ ppp = "dead" /\ s_link_up
    => \E t \in Threads : thread[t] = "cb_error"

IInv == TypeOK /\ PlaceInv /\ TransportInv /\ InsideInv /\ FlagInv /\ NoFrameDropped

-----------------------------------------------------------------------------
\* The invariant holds before main has opened anything.
LEMMA IInvInit == Init => IInv
BY DEF Init, IInv, TypeOK, PlaceInv, TransportInv, InsideInv, FlagInv, NoFrameDropped,
   Joined, InPpp, Threads, BeforeTun, Starting, TunStopped, SerialEnded

\* Every step of main, of the two threads and of PPP preserves it.
LEMMA IInvNext == IInv /\ [Next]_vars => IInv'
<1> SUFFICES ASSUME IInv, [Next]_vars PROVE IInv'
  OBVIOUS
<1> USE DEF IInv, TypeOK, PlaceInv, TransportInv, InsideInv, FlagInv, NoFrameDropped,
            Joined, InPpp, Threads, BeforeTun, Starting, TunStopped, SerialEnded,
            structs, pppVars
<1>1. CASE serial_io_open
  BY <1>1 DEF serial_io_open, Spawn
<1>2. CASE SerialOpenFails
  BY <1>2 DEF SerialOpenFails
<1>3. CASE ppp_link_create
  BY <1>3 DEF ppp_link_create
<1>4. CASE LinkCreateFails
  BY <1>4 DEF LinkCreateFails
<1>5. CASE AttachLink
  BY <1>5 DEF AttachLink
<1>6. CASE SetOutput
  BY <1>6 DEF SetOutput
<1>7. CASE CreatePpp
  BY <1>7 DEF CreatePpp
<1>8. CASE CreatePppFails
  BY <1>8 DEF CreatePppFails
<1>9. CASE Listen
  BY <1>9 DEF Listen
<1>10. CASE ListenFails
  BY <1>10 DEF ListenFails
<1>11. CASE SpawnTun
  BY <1>11 DEF SpawnTun, Spawn
<1>12. CASE SpawnTunFails
  BY <1>12 DEF SpawnTunFails
<1>13. CASE StopTunThread
  BY <1>13 DEF StopTunThread
<1>14. CASE JoinTunThread
  BY <1>14 DEF JoinTunThread
<1>15. CASE ClosePpp
  BY <1>15 DEF ClosePpp
<1>16. CASE StopSerialThread
  BY <1>16 DEF StopSerialThread
<1>17. CASE JoinSerialThread
  BY <1>17 DEF JoinSerialThread
<1>18. CASE Detach
  BY <1>18 DEF Detach
<1>19. CASE FreeSerial
  BY <1>19 DEF FreeSerial, free
<1>20. CASE ppp_link_destroy
  BY <1>20 DEF ppp_link_destroy, free
<1>21. CASE EndUse
  BY <1>21 DEF EndUse
<1>22. CASE SerialFails
  BY <1>22 DEF SerialFails, Move
<1>23. CASE SerialInput
  BY <1>23 DEF SerialInput, Move
<1>24. CASE Negotiated
  BY <1>24 DEF Negotiated, Move, Writes, Active
<1>25. CASE Renegotiates
  BY <1>25 DEF Renegotiates, Move, Writes, Active
<1>26. CASE TunPacket
  BY <1>26 DEF TunPacket, Move
<1>27. CASE TunTimers
  BY <1>27 DEF TunTimers, Move
<1>28. ASSUME NEW t \in Threads, CheckRunning(t) PROVE IInv'
  BY <1>28 DEF CheckRunning, Move
<1>29. ASSUME NEW t \in Threads, NothingRead(t) PROVE IInv'
  BY <1>29 DEF NothingRead, Move
<1>30. ASSUME NEW t \in Threads, PppStays(t) PROVE IInv'
  BY <1>30 DEF PppStays, Move, Writes, Active
<1>31. ASSUME NEW t \in Threads, StatusUp(t) PROVE IInv'
  BY <1>31 DEF StatusUp, Move
<1>32. ASSUME NEW t \in Threads, StatusError(t) PROVE IInv'
  <2>0. /\ thread' = [thread EXCEPT ![t] = "check"] /\ s_link_up' = FALSE
        /\ UNCHANGED <<pc, running, structs, ppp, dropped>>
    BY <1>32 DEF StatusError, Move
  <2>1. TypeOK' /\ NoFrameDropped'
    <3>1. s_link_up' \in BOOLEAN
      BY <2>0, Zenon
    <3>2. QED
      BY <2>0, <3>1
  <2>2. PlaceInv'
    BY <1>32 DEF StatusError, Move
  <2>3. TransportInv' /\ FlagInv'
    BY <1>32 DEF StatusError, Move
  <2>4. InsideInv'
    BY <1>32 DEF StatusError, Move
  <2>5. QED
    BY <2>1, <2>2, <2>3, <2>4
<1>33. ASSUME NEW t \in Threads, SessionEnds(t) PROVE IInv'
  <2>1. CASE t = "serial"
    BY <1>33, <2>1 DEF SessionEnds, Move, Writes, Active
  <2>2. CASE t = "tun"
    BY <1>33, <2>2 DEF SessionEnds, Move, Writes, Active
  <2>3. QED
    BY <2>1, <2>2
<1>34. CASE configure_ppp_server
  BY <1>34 DEF configure_ppp_server
<1>35. CASE Terminated \/ UNCHANGED vars
  BY <1>35 DEF Terminated, vars
<1>36. QED
  BY <1>1, <1>2, <1>3, <1>4, <1>5, <1>6, <1>7, <1>8, <1>9, <1>10, <1>11, <1>12, <1>13, <1>14,
     <1>15, <1>16, <1>17, <1>18, <1>19, <1>20, <1>21, <1>22, <1>23, <1>24, <1>25, <1>26,
     <1>27, <1>28, <1>29, <1>30, <1>31, <1>32, <1>33, <1>34, <1>35
  DEF Next, MainStep, Event, LoopStep

\* The invariant holds throughout every behaviour of the three threads.
THEOREM Invariance == Spec => []IInv
BY IInvInit, IInvNext, PTL DEF Spec

\* The structs, the flags, the threads and PPP keep their types.
THEOREM TypeCorrect == Spec => []TypeOK
<1>1. IInv => TypeOK
  BY DEF IInv
<1>2. QED
  BY <1>1, Invariance, PTL

\* Neither serial_io_close nor ppp_link_destroy frees a struct that the serial thread, the
\* TUN thread or PPP on one of them still uses.
THEOREM StructsOutliveTheirUsers == Spec => []NoUseAfterFree
<1>1. IInv => NoUseAfterFree
  <2> SUFFICES ASSUME IInv PROVE NoUseAfterFree
    OBVIOUS
  <2>1. ~Joined("serial") => serial = "live"
    BY DEF IInv, TypeOK, PlaceInv, Joined, SerialEnded
  <2>2. ~Joined("tun") => link = "live"
    BY DEF IInv, PlaceInv, TransportInv, InsideInv, TunStopped
  <2>3. ASSUME NEW t \in Threads, InPpp(t) PROVE serial = "live" /\ link = "live"
    <3>1. ~Joined(t) /\ ppp # "none"
      BY <2>3 DEF IInv, InsideInv, InPpp, Joined
    <3>2. pc \notin {"done", "destroy", "open"}
      BY <2>3, <3>1 DEF IInv, PlaceInv, TransportInv, SerialEnded, TunStopped, Threads
    <3>3. QED
      BY <3>1, <3>2 DEF IInv, PlaceInv, TransportInv
  <2>4. QED
    BY <2>1, <2>2, <2>3 DEF NoUseAfterFree
<1>2. QED
  BY <1>1, Invariance, PTL

\* PPP never writes while io.output is not set.
THEOREM FramesHaveAnOutput == Spec => []NoFrameDropped
<1>1. IInv => NoFrameDropped
  BY DEF IInv
<1>2. QED
  BY <1>1, Invariance, PTL

\* main comes to its end with both threads joined and both structs freed, whichever step
\* of the start has failed.
THEOREM MainReleasesEverything == Spec => []EverythingReleased
<1>1. IInv => EverythingReleased
  BY DEF IInv, PlaceInv, EverythingReleased, SerialEnded, TunStopped, Threads
<1>2. QED
  BY <1>1, Invariance, PTL

\* While the client runs, s_link_up is not set once the session and its callbacks are over.
THEOREM DeadLinksAreDown == Spec => []DeadLinkIsNotUp
<1>1. IInv => DeadLinkIsNotUp
  BY DEF IInv, FlagInv, DeadLinkIsNotUp, InPpp
<1>2. QED
  BY <1>1, Invariance, PTL
=============================================================================
