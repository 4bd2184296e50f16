----------------------------- MODULE NetdevFwd ------------------------------
(***************************************************************************)
(* zb_rpc_client/netdev_fwd.c: connections of the ESP that end in lwIP on  *)
(* the host are spliced to host sockets.  The callbacks of a connection    *)
(* and the jobs posted for it run in the tcpip thread, one at a time; the  *)
(* other direction is a detached thread per connection.  The two share a   *)
(* struct netdev_conn without a lock, and the thread frees it.             *)
(*                                                                         *)
(* A use of a freed struct, of a freed or null pcb, or of the number of a  *)
(* descriptor that was closed and may be another's by now, is undefined    *)
(* and nothing is said of what follows: fate becomes "undefined" and the   *)
(* behaviour ends.  A write to a socket whose peer has closed may raise    *)
(* SIGPIPE, which nobody ignores: fate becomes "killed".                   *)
(* External: lwIP, the sockets, the heap, the programs at the two ends.    *)
(***************************************************************************)
EXTENDS Naturals, Sequences

CONSTANTS Conns,     \* the connections the ESP makes
          Blocks,    \* heap blocks of the size of a struct netdev_conn
          None,      \* no connection, no block
          Busy,      \* bound: the connections that carry data
          MaxUp,     \* bound: segments the ESP sends on one of them
          MaxDown    \* bound: segments the host sends on one of them

ASSUME NoneAssumption   == None \notin Conns /\ None \notin Blocks
ASSUME BoundsAssumption == Busy \subseteq Conns /\ MaxUp \in Nat /\ MaxDown \in Nat

VARIABLES
  s_enabled,
  s_listening,
  mbox,      \* jobs posted to the tcpip thread: [job, conn]
  tcpip,     \* what the tcpip thread is doing: [at, conn, left]
  pcb,       \* the connection in lwIP: "none", "open", "closing" or "freed"
  arg,       \* tcp_arg: the block the callbacks of a connection get
  up,        \* segments the ESP has sent, and whether it has closed
  mem,       \* the blocks: [own, pcb, fd, alive]
  thread,    \* where host_to_pcb_thread is
  block,     \* its struct
  buf,       \* segments it has read and not yet written
  sock,      \* the host socket: "none", "open" or "closed"
  shut,      \* whether it was shut down: "no", "wr" or "rdwr"
  down,      \* segments the host program has sent and the thread has read
  eof,       \* whether the host program has closed
  hostGot,   \* what the host socket was given
  espGot,    \* what the pcb was given
  lost,      \* whether the connection's close_pcb_cb could not be posted
  fate       \* "running", "undefined" or "killed"

listen == <<s_enabled, s_listening>>
lwip   == <<mbox, tcpip, pcb, arg, up>>
worker == <<thread, block, buf>>
host   == <<sock, shut, down, eof>>
given  == <<hostGot, espGot>>
vars   == <<listen, lwip, mem, worker, host, given, lost, fate>>

Idle  == [at |-> "idle", conn |-> None, left |-> 0]
Freed == [own |-> None, pcb |-> FALSE, fd |-> FALSE, alive |-> FALSE]

Init ==
  /\ s_enabled = FALSE /\ s_listening = FALSE
  /\ mbox = <<>> /\ tcpip = Idle
  /\ pcb = [k \in Conns |-> "none"]
  /\ arg = [k \in Conns |-> None]
  /\ up = [k \in Conns |-> [sent |-> 0, fin |-> FALSE]]
  /\ mem = [b \in Blocks |-> Freed]
  /\ thread = [k \in Conns |-> "none"]
  /\ block = [k \in Conns |-> None]
  /\ buf = [k \in Conns |-> <<>>]
  /\ sock = [k \in Conns |-> "none"]
  /\ shut = [k \in Conns |-> "no"]
  /\ down = [k \in Conns |-> [sent |-> 0, read |-> 0]]
  /\ eof = [k \in Conns |-> FALSE]
  /\ hostGot = [k \in Conns |-> <<>>]
  /\ espGot = [k \in Conns |-> <<>>]
  /\ lost = [k \in Conns |-> FALSE]
  /\ fate = "running"

Runs == fate = "running"
Free == Runs /\ tcpip.at = "idle"     \* the tcpip thread takes its next job or event
At(k, place) == Runs /\ tcpip.at = place /\ tcpip.conn = k

Go(k, place) == tcpip' = [at |-> place, conn |-> k, left |-> 0]
Post(name, k) == mbox' = Append(mbox, [job |-> name, conn |-> k])

\* The struct a callback of connection k was given is still that of k.
Valid(k) == mem[arg[k]].own = k
Put(b, field, value) == [mem EXCEPT ![b][field] = value]

\* A callback of k, or the rest of one, uses a struct that was freed.
UseAfterFree(k) ==
  /\ tcpip.at \in {"detach", "recv", "write", "fin", "shut_wr", "err", "shut_rdwr"}
  /\ At(k, tcpip.at) /\ ~Valid(k)
  /\ tcpip.at = "recv" => tcpip.left > 0
  /\ fate' = "undefined"
  /\ UNCHANGED <<listen, lwip, mem, worker, host, given, lost>>

(***************************************************************************)
(* Listening.                                                              *)
(***************************************************************************)
\* port # 0; called before the link is started.
netdev_fwd_configure(port) ==
  /\ Runs /\ ~s_listening /\ mbox = <<>>
  /\ s_enabled' = (port # 0)
  /\ UNCHANGED <<s_listening, lwip, mem, worker, host, given, lost, fate>>

netdev_fwd_on_link_up ==
  /\ Runs /\ s_enabled /\ ~s_listening
  /\ ~\E i \in DOMAIN mbox : mbox[i].job = "listen"     \* bound: one at a time
  /\ Post("listen", None)
  /\ UNCHANGED <<listen, tcpip, pcb, arg, up, mem, worker, host, given, lost, fate>>

Job(name, k) == Free /\ mbox # <<>> /\ Head(mbox) = [job |-> name, conn |-> k]

\* tcp_new, tcp_bind or tcp_listen may fail; the next link up tries again.
netdev_start_listen ==
  /\ Job("listen", None)
  /\ mbox' = Tail(mbox)
  /\ s_listening' \in {s_listening, s_enabled}
  /\ UNCHANGED <<s_enabled, tcpip, pcb, arg, up, mem, worker, host, given, lost, fate>>

(***************************************************************************)
(* netdev_accept: linux_connect_host, then the struct and the thread.      *)
(***************************************************************************)
netdev_accept(k) ==
  /\ Free /\ s_listening /\ pcb[k] = "none"
  /\ pcb' = [pcb EXCEPT ![k] = "open"]
  /\ Go(k, "connect")
  /\ UNCHANGED <<listen, mbox, arg, up, mem, worker, host, given, lost, fate>>

\* The host refuses: tcp_abort and ERR_ABRT.
AcceptAborts(k) ==
  /\ At(k, "connect")
  /\ pcb' = [pcb EXCEPT ![k] = "freed"]
  /\ tcpip' = Idle
  /\ UNCHANGED <<listen, mbox, arg, up, mem, worker, host, given, lost, fate>>

\* calloc fails: ERR_MEM after tcp_abort has lwIP abort the pcb that is freed already.
CallocFails(k) ==
  /\ At(k, "connect")
  /\ pcb' = [pcb EXCEPT ![k] = "freed"]
  /\ fate' = "undefined"
  /\ UNCHANGED <<listen, mbox, tcpip, arg, up, mem, worker, host, given, lost>>

AcceptSplices(k, b) ==
  /\ At(k, "connect") /\ mem[b].own = None
  /\ mem' = [mem EXCEPT ![b] = [own |-> k, pcb |-> TRUE, fd |-> TRUE, alive |-> TRUE]]
  /\ arg' = [arg EXCEPT ![k] = b]
  /\ sock' = [sock EXCEPT ![k] = "open"]
  /\ block' = [block EXCEPT ![k] = b]
  /\ thread' = [thread EXCEPT ![k] = "check"]
  /\ Go(k, "detach")
  /\ UNCHANGED <<listen, mbox, pcb, up, buf, shut, down, eof, given, lost, fate>>

\* pthread_detach(c->thread).
Detach(k) ==
  /\ At(k, "detach") /\ Valid(k)
  /\ tcpip' = Idle
  /\ UNCHANGED <<listen, mbox, pcb, arg, up, mem, worker, host, given, lost, fate>>

\* pthread_create fails: c is freed, and tcp_abort calls netdev_err with it.
ThreadFails(k) ==
  /\ At(k, "connect") /\ \E b \in Blocks : mem[b].own = None
  /\ pcb' = [pcb EXCEPT ![k] = "freed"]
  /\ fate' = "undefined"
  /\ UNCHANGED <<listen, mbox, tcpip, arg, up, mem, worker, host, given, lost>>

(***************************************************************************)
(* netdev_recv.  The ESP's segments come in a chain of pbufs; once         *)
(* close_pcb_cb has run there is no callback.                              *)
(***************************************************************************)
Hooked(k) == pcb[k] = "open" /\ arg[k] # None

netdev_recv(k) ==
  /\ Free /\ Hooked(k) /\ ~up[k].fin /\ k \in Busy
  /\ \E n \in 1..(MaxUp - up[k].sent) :
       /\ up' = [up EXCEPT ![k].sent = @ + n]
       /\ tcpip' = [at |-> "recv", conn |-> k, left |-> n]
  /\ UNCHANGED <<listen, mbox, pcb, arg, mem, worker, host, given, lost, fate>>

MoreToPass(k) == tcpip.left > 0 /\ mem[arg[k]].fd /\ mem[arg[k]].alive

\* The condition of the loop; the thread may act before the write itself.
BeginWrite(k) ==
  /\ At(k, "recv") /\ Valid(k) /\ MoreToPass(k)
  /\ tcpip' = [at |-> "write", conn |-> k, left |-> tcpip.left]
  /\ UNCHANGED <<listen, mbox, pcb, arg, up, mem, worker, host, given, lost, fate>>

Writing(k) == At(k, "write") /\ Valid(k)
Written(k) == tcpip' = [at |-> "recv", conn |-> k, left |-> tcpip.left - 1]

WriteOk(k) ==
  /\ Writing(k) /\ mem[arg[k]].fd /\ sock[k] = "open" /\ shut[k] = "no"
  /\ hostGot' = [hostGot EXCEPT ![k] = Append(@, up[k].sent - tcpip.left + 1)]
  /\ Written(k)
  /\ UNCHANGED <<listen, mbox, pcb, arg, up, mem, worker, host, espGot, lost, fate>>

WriteFails(k) ==
  /\ Writing(k) /\ (sock[k] = "closed" \/ eof[k])
  /\ mem' = Put(arg[k], "alive", FALSE)
  /\ Written(k)
  /\ UNCHANGED <<listen, mbox, pcb, arg, up, worker, host, given, lost, fate>>

Sigpipe(k) ==
  /\ Writing(k) /\ sock[k] = "open" /\ eof[k]
  /\ fate' = "killed"
  /\ UNCHANGED <<listen, lwip, mem, worker, host, given, lost>>

\* close(c->host_fd) has run and c->host_fd = -1 has not: the write or the shutdown goes
\* to whatever has the number now.
StaleFd(k) ==
  /\ tcpip.at \in {"write", "shut_wr", "shut_rdwr"} /\ At(k, tcpip.at)
  /\ Valid(k) /\ mem[arg[k]].fd /\ sock[k] = "closed"
  /\ fate' = "undefined"
  /\ UNCHANGED <<listen, lwip, mem, worker, host, given, lost>>

\* The rest is dropped when c is not alive; all of it is acknowledged either way.
RecvDone(k) ==
  /\ At(k, "recv")
  /\ tcpip.left = 0 \/ (Valid(k) /\ ~MoreToPass(k))
  /\ tcpip' = Idle
  /\ UNCHANGED <<listen, mbox, pcb, arg, up, mem, worker, host, given, lost, fate>>

(***************************************************************************)
(* netdev_recv without a pbuf (the ESP has closed its direction) and       *)
(* netdev_err (lwIP has freed the pcb): two steps each, since the thread   *)
(* acts on the first before the second.                                    *)
(***************************************************************************)
RecvFin(k) ==
  /\ Free /\ Hooked(k) /\ ~up[k].fin
  /\ up' = [up EXCEPT ![k].fin = TRUE]
  /\ Go(k, "fin")
  /\ UNCHANGED <<listen, mbox, pcb, arg, mem, worker, host, given, lost, fate>>

PcbError(k) ==
  /\ Free /\ Hooked(k)
  /\ pcb' = [pcb EXCEPT ![k] = "freed"]
  /\ Go(k, "err")
  /\ UNCHANGED <<listen, mbox, arg, up, mem, worker, host, given, lost, fate>>

FinClearsAlive(k) ==
  /\ At(k, "fin") /\ Valid(k)
  /\ mem' = Put(arg[k], "alive", FALSE)
  /\ Go(k, "shut_wr")
  /\ UNCHANGED <<listen, mbox, pcb, arg, up, worker, host, given, lost, fate>>

netdev_err(k) ==
  /\ At(k, "err") /\ Valid(k)
  /\ mem' = [mem EXCEPT ![arg[k]].pcb = FALSE, ![arg[k]].alive = FALSE]
  /\ Go(k, "shut_rdwr")
  /\ UNCHANGED <<listen, mbox, pcb, arg, up, worker, host, given, lost, fate>>

\* Mutation: netdev_err leaves the host socket alone.
ShutdownLeft(k, place, how) ==
  /\ At(k, place) /\ Valid(k)
  /\ tcpip' = Idle
  /\ UNCHANGED <<listen, mbox, pcb, arg, up, mem, worker, host, given, lost, fate>>

\* if (c->host_fd >= 0) shutdown(c->host_fd, how)
Shutdown(k, place, how) ==
  /\ At(k, place) /\ Valid(k)
  /\ shut' = IF mem[arg[k]].fd /\ sock[k] = "open" THEN [shut EXCEPT ![k] = how] ELSE shut
  /\ tcpip' = Idle
  /\ UNCHANGED <<listen, mbox, pcb, arg, up, mem, worker, sock, down, eof, given, lost, fate>>

(***************************************************************************)
(* The jobs a thread posts to the tcpip thread.                            *)
(***************************************************************************)
\* The pcb was freed after the thread had read it, or the thread read NULL.
StalePcb(k) ==
  /\ Job("write", k) \/ Job("close", k)
  /\ pcb[k] = "freed"
  /\ fate' = "undefined"
  /\ UNCHANGED <<listen, lwip, mem, worker, host, given, lost>>

\* tcp_write takes the data, has no room, or fails; the semaphore is signalled.
do_tcp_write(k, e) ==
  /\ Job("write", k) /\ pcb[k] # "freed"
  /\ mbox' = Tail(mbox)
  /\ espGot' = IF e = "ok" THEN [espGot EXCEPT ![k] = @ \o buf[k]] ELSE espGot
  /\ thread' = [thread EXCEPT ![k] = e]
  /\ UNCHANGED <<listen, tcpip, pcb, arg, up, mem, block, buf, host, hostGot, lost, fate>>

\* Mutation: the callbacks are left in place.
close_pcb_cb_hooked(k) ==
  /\ Job("close", k) /\ pcb[k] # "freed"
  /\ mbox' = Tail(mbox)
  /\ UNCHANGED <<listen, tcpip, pcb, arg, up, mem, worker, host, given, lost, fate>>

close_pcb_cb(k) ==
  /\ Job("close", k) /\ pcb[k] # "freed"
  /\ mbox' = Tail(mbox)
  /\ arg' = [arg EXCEPT ![k] = None]
  /\ pcb' = [pcb EXCEPT ![k] = "closing"]
  /\ UNCHANGED <<listen, tcpip, up, mem, worker, host, given, lost, fate>>

(***************************************************************************)
(* host_to_pcb_thread.  Its struct c stays its own until it frees it.      *)
(***************************************************************************)
c(k) == mem[block[k]]
Thread(k, place) == Runs /\ thread[k] = place
Jump(k, place)   == thread' = [thread EXCEPT ![k] = place]

Loop(k) ==
  /\ Thread(k, "check")
  /\ Jump(k, IF c(k).alive /\ c(k).fd /\ c(k).pcb THEN "read" ELSE "end")
  /\ UNCHANGED <<listen, lwip, mem, block, buf, host, given, lost, fate>>

ReadData(k) ==
  /\ Thread(k, "read") /\ shut[k] # "rdwr"
  /\ \E n \in 1..(down[k].sent - down[k].read) :
       /\ buf' = [buf EXCEPT ![k] = [i \in 1..n |-> down[k].read + i]]
       /\ down' = [down EXCEPT ![k].read = @ + n]
  /\ Jump(k, "inner")
  /\ UNCHANGED <<listen, lwip, mem, block, sock, shut, eof, given, lost, fate>>

\* read returns 0, or an error.
ReadEnds(k) ==
  /\ Thread(k, "read")
  /\ shut[k] = "rdwr" \/ (eof[k] /\ down[k].read = down[k].sent)
  /\ Jump(k, "end")
  /\ UNCHANGED <<listen, lwip, mem, block, buf, host, given, lost, fate>>

MoreToWrite(k) == buf[k] # <<>> /\ c(k).alive /\ c(k).pcb

\* tcp_write_sync: the job is posted, or there is no semaphore (ERR_MEM), or it cannot
\* be posted (ERR_VAL).
tcp_write_sync(k) ==
  /\ Thread(k, "inner") /\ MoreToWrite(k)
  /\ \/ Post("write", k) /\ Jump(k, "wait")
     \/ (\E e \in {"mem", "err"} : Jump(k, e)) /\ UNCHANGED mbox
  /\ UNCHANGED <<listen, tcpip, pcb, arg, up, mem, block, buf, host, given, lost, fate>>

InnerEnds(k) ==
  /\ Thread(k, "inner") /\ ~MoreToWrite(k)
  /\ buf' = [buf EXCEPT ![k] = <<>>]
  /\ Jump(k, "check")
  /\ UNCHANGED <<listen, lwip, mem, block, host, given, lost, fate>>

\* Mutation: off is advanced when there was no room too.
WriteResultSkips(k) ==
  /\ Runs /\ thread[k] \in {"ok", "mem", "err"}
  /\ mem' = IF thread[k] = "err" THEN Put(block[k], "alive", FALSE) ELSE mem
  /\ buf' = IF thread[k] # "err" THEN [buf EXCEPT ![k] = <<>>] ELSE buf
  /\ Jump(k, "inner")
  /\ UNCHANGED <<listen, lwip, block, host, given, lost, fate>>

\* ERR_OK advances off, ERR_MEM tries again, anything else ends the connection.
WriteResult(k) ==
  /\ Runs /\ thread[k] \in {"ok", "mem", "err"}
  /\ mem' = IF thread[k] = "err" THEN Put(block[k], "alive", FALSE) ELSE mem
  /\ buf' = IF thread[k] = "ok" THEN [buf EXCEPT ![k] = <<>>] ELSE buf
  /\ Jump(k, "inner")
  /\ UNCHANGED <<listen, lwip, block, host, given, lost, fate>>

EndClearsAlive(k) ==
  /\ Thread(k, "end")
  /\ mem' = Put(block[k], "alive", FALSE)
  /\ Jump(k, "unhook")
  /\ UNCHANGED <<listen, lwip, block, buf, host, given, lost, fate>>

\* if (c->pcb != NULL)
Unhook(k) ==
  /\ Thread(k, "unhook")
  /\ Jump(k, IF c(k).pcb THEN "post" ELSE "close")
  /\ UNCHANGED <<listen, lwip, mem, block, buf, host, given, lost, fate>>

\* The pcb is read again, which netdev_err may have cleared since: then NULL is posted.
\* A failure of tcpip_callback goes unnoticed.
PostClose(k) ==
  /\ Thread(k, "post")
  /\ mem' = Put(block[k], "pcb", FALSE)
  /\ \/ Post("close", k) /\ UNCHANGED lost
     \/ lost' = [lost EXCEPT ![k] = TRUE] /\ UNCHANGED mbox
  /\ Jump(k, "close")
  /\ UNCHANGED <<listen, tcpip, pcb, arg, up, block, buf, host, given, fate>>

\* Mutation: the socket is left open.
CloseFdForgotten(k) ==
  /\ Thread(k, "close")
  /\ Jump(k, "forget")
  /\ UNCHANGED <<listen, lwip, mem, block, buf, host, given, lost, fate>>

\* close: the socket goes, with what it held.
CloseFd(k) ==
  /\ Thread(k, "close")
  /\ sock' = [sock EXCEPT ![k] = "closed"]
  /\ shut' = [shut EXCEPT ![k] = "no"]
  /\ down' = [down EXCEPT ![k] = [sent |-> 0, read |-> 0]]
  /\ eof' = [eof EXCEPT ![k] = FALSE]
  /\ Jump(k, "forget")
  /\ UNCHANGED <<listen, lwip, mem, block, buf, given, lost, fate>>

ForgetFd(k) ==
  /\ Thread(k, "forget")
  /\ mem' = Put(block[k], "fd", FALSE)
  /\ Jump(k, "free")
  /\ UNCHANGED <<listen, lwip, block, buf, host, given, lost, fate>>

FreeConn(k) ==
  /\ Thread(k, "free")
  /\ mem' = [mem EXCEPT ![block[k]] = Freed]
  /\ Jump(k, "gone")
  /\ UNCHANGED <<listen, lwip, block, buf, host, given, lost, fate>>

(***************************************************************************)
(* The host program.                                                       *)
(***************************************************************************)
HostSends(k) ==
  /\ Runs /\ sock[k] = "open" /\ ~eof[k]
  /\ k \in Busy /\ down[k].sent < MaxDown
  /\ down' = [down EXCEPT ![k].sent = @ + 1]
  /\ UNCHANGED <<listen, lwip, mem, worker, sock, shut, eof, given, lost, fate>>

HostCloses(k) ==
  /\ Runs /\ sock[k] = "open" /\ ~eof[k]
  /\ eof' = [eof EXCEPT ![k] = TRUE]
  /\ UNCHANGED <<listen, lwip, mem, worker, sock, shut, down, given, lost, fate>>

\* What the tcpip thread goes on to do by itself.
TcpipStep(k) ==
  \/ AcceptAborts(k) \/ CallocFails(k) \/ (\E b \in Blocks : AcceptSplices(k, b))
  \/ ThreadFails(k) \/ Detach(k)
  \/ BeginWrite(k) \/ WriteOk(k) \/ WriteFails(k) \/ Sigpipe(k) \/ StaleFd(k) \/ RecvDone(k)
  \/ FinClearsAlive(k) \/ netdev_err(k)
  \/ Shutdown(k, "shut_wr", "wr") \/ Shutdown(k, "shut_rdwr", "rdwr")
  \/ StalePcb(k) \/ (\E e \in {"ok", "mem", "err"} : do_tcp_write(k, e))
  \/ close_pcb_cb(k) \/ UseAfterFree(k)

\* What happens to a connection from outside.
Event(k) == netdev_accept(k) \/ netdev_recv(k) \/ RecvFin(k) \/ PcbError(k)
            \/ HostSends(k) \/ HostCloses(k)

host_to_pcb_thread(k) ==
  \/ Loop(k) \/ ReadData(k) \/ ReadEnds(k)
  \/ tcp_write_sync(k) \/ InnerEnds(k) \/ WriteResult(k)
  \/ EndClearsAlive(k) \/ Unhook(k) \/ PostClose(k)
  \/ CloseFd(k) \/ ForgetFd(k) \/ FreeConn(k)

Listening == netdev_fwd_on_link_up \/ netdev_start_listen
             \/ \E port \in {0, 1} : netdev_fwd_configure(port)

Next ==
  \/ Listening
  \/ \E k \in Conns : TcpipStep(k) \/ Event(k) \/ host_to_pcb_thread(k)

\* connect and write, to the host, block the tcpip thread for as long as they like.
Blocking == tcpip.at \in {"connect", "write"}

\* Both kinds of thread are scheduled.
Fairness ==
  /\ WF_vars(netdev_start_listen)
  /\ \A k \in Conns : WF_vars(~Blocking /\ TcpipStep(k)) /\ WF_vars(host_to_pcb_thread(k))

Spec == Init /\ [][Next]_vars /\ Fairness

(***************************************************************************)
(* Properties.                                                             *)
(***************************************************************************)
Queued(name, k) == \E i \in DOMAIN mbox : mbox[i] = [job |-> name, conn |-> k]

\* The callbacks of a connection that is still open in lwIP hold a pointer to a
\* freed struct only from the thread's free(c) to its close_pcb_cb, which is then
\* already posted; for good only if it could not be posted.
DanglesOnlyUntilClose ==
  \A k \in Conns : Runs /\ Hooked(k) /\ ~Valid(k) => Queued("close", k) \/ lost[k]

\* In each direction the other end gets the segments in order, each once and
\* without a gap: after the first segment that is dropped (c->alive is cleared by
\* the other thread, a write fails) nothing more is passed on, and a write that
\* found no room is repeated with the same data.
NoGaps ==
  \A k \in Conns :
    /\ \A i \in DOMAIN hostGot[k] : hostGot[k][i] = i
    /\ \A i \in DOMAIN espGot[k] : espGot[k][i] = i

\* Once the thread of a connection has ended and the tcpip thread has nothing
\* left to do, nothing of the connection is left: its socket is closed, its struct
\* is no longer used, and lwIP no longer calls back for it.
NothingLeftBehind ==
  \A k \in Conns :
    Free /\ mbox = <<>> /\ thread[k] = "gone"
      => /\ sock[k] = "closed"
         /\ \A b \in Blocks : mem[b].own # k
         /\ Hooked(k) => lost[k]

\* The tcpip thread does not stay for ever in connect or write.
NotStuck == []<>~Blocking

\* When lwIP reports that a connection has failed its thread ends, wherever it is:
\* the shutdown of the host socket reaches a blocked read, and no check of c->alive
\* or c->pcb is missed.
ErrorEndsThread ==
  NotStuck => \A k \in Conns : pcb[k] = "freed" /\ thread[k] # "none"
                                 ~> thread[k] = "gone" \/ fate # "running"
=============================================================================
