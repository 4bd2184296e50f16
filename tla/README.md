# Verification of zigbee-remote

TLA+ models of the run-time logic of zigbee-remote, checked with TLC on small
instances, and TLAPS proofs of its safety properties for every value of the
constants.

## The system

An ESP32 coordinates a Zigbee network and offers its operations over RPC. A
Linux host is its only client. The two are joined by a serial line that carries
PPP, and over PPP a TCP connection.

| Part | State | Operations | Interacts with |
|---|---|---|---|
| `zigbee_stack.c`, request/response | one result slot per operation (queue of one, or binary semaphore and static cache), last sensor and temperature | find, read basic, bind, subscribe, configure reporting, read temperature; callbacks; reports | called by the RPC task; callbacks run in the Zigbee task under the Zigbee lock |
| `zigbee_stack.c`, commissioning | the stack's own | BDB signals, retry alarm, DEVICE_ANNCE into a queue of four | announcement queue is read by the RPC task |
| `rpc_server.cpp` | listener, the one client, the remaining wait | accept, dispatch, sliced announcement wait, reply, refuse, close | polls the link bit of `ppp_uart.c`; calls `zigbee_stack.c` |
| `ppp_uart.c` | two event bits, a task notification | event handlers, `reconnect_task`, `uart_receive_task` | PPP of lwIP through esp-netif; the RPC server |
| `main.cpp`, `thermostat_app.hpp`, `zigbee_api.h` | stop flag, RPC socket, step of the sequence | link up, connect, run, reconnect, signal handler | the RPC server over TCP; the host link |
| `engine.hpp`, `protocol.hpp` | none between calls | frame, send, receive, call, invoke | both ends |
| `ppp_link.c`, `ppp_lwip.c`, `serial_io.c` | PPP control block, two threads, two descriptors | start, stop, serial input, TUN poll | the client program; the serial line |
| `netdev_fwd.c` | forwarded connections | accept, copy in both directions, close | lwIP callbacks and one host thread each |
| `zb_rpc/` | simulated network | the same RPC on a desktop: one server, one client, one session | the two over TCP |
| `app_main.c` | what has been started | start of every task; any failure restarts the chip | flash, where the Zigbee stack keeps its network |

What is hard here: requests and answers are matched by slot and not by number,
so a late answer meets a later call; caches are copied without the lock; a
`malloc`ed request changes owner on success only; one task serves everyone and
waits up to three minutes for an announcement; the link fails under it at any
time; the reconnect task sees PPP only through events that arrive late, its own
disconnects among them; a signal may stop the client at any instruction; and the
host's three threads share PPP and two structs without a lock, so that only the
order of the shutdown keeps them apart; a forwarded connection is shared by lwIP's
thread and its own, and freed by the latter; both RPC programs read a stream that
may be cut at any byte; and the chip may restart at any step, with only the
stored network to go on.
`PROJECT.json` lists these hazards line by line with the properties that would
show them going wrong.

## Modules

| Module | Models | Run on |
|---|---|---|
| `ZigbeeStack` | request/response half of `zigbee_stack.c` | itself |
| `ZigbeeStackProofs` | proofs about it | - |
| `RpcServer` | `rpc_server.cpp` and the announcement queue | `MCRpcServer` |
| `RpcServerProofs` | proofs about it | - |
| `PppUart` | event handlers and `reconnect_task` of `ppp_uart.c` | itself |
| `PppUartProofs` | proofs about it | - |
| `ThermostatClient` | `main.cpp`, `thermostat_app.hpp`, the stubs | itself |
| `ThermostatClientProofs` | proofs about it | - |
| `HostLink` | `serial_io.c`, `ppp_link.c`, `ppp_lwip.c` | itself |
| `HostLinkProofs` | proofs about it | - |
| `Wire` | structs, conversions and catalogue of `protocol.hpp` (both copies), `wire_safe` | through `RpcSession` |
| `SimZigbee` | `sim_zigbee.cpp` | through `RpcSession` |
| `RpcCall` | what a session promises its caller (abstract) | - |
| `RpcSession` | `client.cpp`, `server.cpp`, `engine.hpp`, `auto_rpc.hpp`, `sock.hpp` | itself |
| `RpcSessionProofs` | proofs about the conversions, the structs and the session | - |
| `NetdevFwd` | `netdev_fwd.c` | itself |
| `NetdevFwdProofs` | proofs about it | - |
| `Commissioning` | start of the stack, BDB signals, retry alarm, `zigbee_open_network` | through `EspDevice` |
| `UartReceive` | `uart_receive_task` | through `EspDevice` |
| `EspDevice` | `app_main.c`, composing the last two, with restarts | itself |
| `EspDeviceProofs` | proofs about the three | - |

Operators called "Mutation" in the comments are not part of a specification.
Each is a plausible wrong version of the definition that follows it; replacing
the one by the other must break the property `PROJECT.json` names.

### ZigbeeStack

The RPC task is `pc`, `call` and `result`; its steps are split where the code
gives up the processor with something half done: after the drain, after the
request under the lock, after the permit, and between the error and the body of
a struct copied without the lock. A callback is split into reset, fill and give
and holds the lock throughout (`LockFree` guards the requests). The operations
differ in their slot and in how the answer is read, so one action per *phase*
with the operation as data stands for the six functions. `outstanding` counts
the answers the network may still deliver: one per request, and one per bound
device for `config_report`, which is sent through the binding table. Requests
are numbered and every cell remembers whose answer wrote it; the code has
neither, and no guard reads them. `data = "blank"` is a cache between the
`memset` (or the -1) and the values. Abstracted: attribute values, strings,
endpoints. A temperature answer with status success is taken to carry the
measured value. A bind result without error and without a response, on which
the code would dereference a null pointer, is not among the answers.

### RpcServer

`server_task` is `pc`. A request is a whole frame of one of three kinds:
answered from the stack, the announcement wait, or refused (bad magic,
oversized, unknown, wrong size). `ReceiveRequest` and `Refuse` stand for
`dispatch`, which drops the client on every refusal. The wait is `BeginSlice`
(the look at the link and the peek), then `TakeAnnce` or `SliceTimeout`.
The serving loop looks at the link at its top only (`LinkDownLeavesLoop` or
`BeginRead`) and then reads: a loss that comes later is seen through the read.
An `accept` fails because the address is gone or the connection was aborted
(`AcceptFails`), or for any other reason (`AcceptRunsOut`).
`fate` and `wasted` are history. The environment: TCP with orderly shutdown and
reset, a backlog of one, hosts that die silently, an address that is lost and
regained, and `PPP_LINK_UP`, which follows the address with a delay.

### PppUart

Handlers take events from a FIFO, one at a time. The task is split at every
call that waits or acts: take, delay, disconnect, wait for the dead phase, stop
and clear, start. PPP is external: a session is dead, starting, running or
closing; its end posts PHASE_DEAD and an error. Which of
`esp_netif_action_disconnected` and `_stop` closes the session is left open:
each may or may not. The bits and the notification are exactly the code's.

### ThermostatClient

`main` step by step, the sequence as the table `Commissioning` and the action
`run`, every stub as a write and a read. A signal sets the flag, then reads
`g_rpc_socket`, then shuts the socket down, in three steps that interleave with
`main`, because no thread of the process blocks the signals. A socket is open,
at its end, reset, reset and reported, or shut down; writing in the last two
states raises SIGPIPE, which nothing in the program handles. A read on an open
socket may never return: the TUN device outlives the link, and the socket has
neither keepalive nor a time-out.

### HostLink

`main` from `serial_io_open` to `ppp_link_destroy`, split wherever another
thread could see the difference: each flag, join, pointer and free is a step of
its own, and each step of the start may fail: PPP is created, configured and then
told to listen. The serial and the TUN thread are
one loop each (`check`, `wait`, then inside PPP or in its status callback).
`serial` and `link` say whether the structs are allocated. PPP is external: it
moves on input, timers and close, and may write each time. The race of two
threads inside lwIP is not modelled beyond that: its outcomes are lwIP's. The
branches for lwIP's own thread are left out, because `main` passes
`netdev = 0` and nothing calls `netdev_fwd_configure`.

### Wire, SimZigbee, RpcCall, RpcSession

`Wire` describes a struct by the kinds of its fields and encodes it byte by
byte: the conversions are the code's shifts and casts, signs included. The sizes
and checks the headers state in `static_assert`s are ASSUMEs that TLC evaluates.
`RpcSession` has the two programs and between them two byte streams. `write_all`
and `read_all` move any part of what is there, so every fragmentation occurs;
`call` is split into `Call`, `Sent`, `ClientHeader` and one action per way it
ends; `handle_commands` with `dispatch_ns` into `ServerHeader`, `ServerInvokes`
and the refusals. Either process may be killed between any two steps, a socket
closed with unread data resets the connection, and a write to a reset connection
fails or raises SIGPIPE. Besides `client.cpp`, with its sixteen calls and its own
reaction to each failure, the callers are one with a newer catalogue, one whose
request struct has another size, one with another magic and one that sends too
much. They go on after a failed call, as `zb_rpc_client` does.

`RpcCall` knows nothing of bytes: a call is made, executed at most once, returns
what was computed or fails; after a failure nothing more is executed. `Implements`
says that every behaviour of `RpcSession` is one of `RpcCall`, with the globals of
`sim_zigbee.cpp` as the service and `asked`, `executed` and `results` recorded
where the code makes a call, invokes a function and leaves `call`. It holds
because a server that has refused anything closes, and because a mismatch of
sizes or ids is found before a function is called.

### NetdevFwd

The tcpip thread runs one callback or job at a time (`tcpip`, `mbox`); a callback
that blocks, or that the connection's thread can overtake, has several steps. The
thread is split at each look at the shared struct, so that a check of `c->alive`,
`c->pcb` or `c->host_fd` and the use that follows it are two steps. `mem` holds the
structs, `arg` the pointer lwIP passes to the callbacks; `Valid` compares the two.
The behaviour ends as undefined where the code permits a use of a freed struct
(`UseAfterFree`, `ThreadFails`) or pcb (`StalePcb`), or of a descriptor number that
has been closed (`StaleFd`), and where `netdev_accept` aborts a pcb and returns an
error on which lwIP aborts it again (`CallocFails`). The properties hold up to that
point, and `DanglesOnlyUntilClose` bounds the window of the first.

### Commissioning, UartReceive, EspDevice

A BDB procedure ends with one signal, whose handler runs before anything else in
the stack's loop, so each signal is one action; the alarm fires from a task of
its own. The network is all that survives a restart. `uart_receive_task` is split
at every call to the driver, whose interrupt fills the ring and the queue in
between; an overflow is the ring's (`Arrives` finds it full) or the hardware
FIFO's, which may come with room in the ring (`Overflows`). `unannounced` is history. `EspDevice` extends both, lets each run once
`app_main` has started it, and restarts them together.

## Runs

| Run | Shows | Bounds |
|---|---|---|
| `zigbee_stack` | replies have the provenance and completeness the drains are for, `bind_req` has one owner, only sensors are remembered, every call returns | two calls (one late answer and the call it meets), a sensor and another device, two bound devices |
| `sensor_forgotten` | *violated*: a match without error and without a match forgets the sensor | two finds |
| `rpc_server` | one client, answers in order, each announcement accounted for, at most one slice wasted | two connections, two requests each, queue of two and three announcements (their order, and overflow), three slices |
| `rpc_server_live` | the next client is served, a loss frees the server, announcements reach the waiter | two connections, one request each, one spurious loss of the address |
| `ppp_uart` | restarts from dead only, recovery is never lost, the link bit is right when all events are handled, the link recovers | two faults, two absences of the peer, six events queued |
| `thermostat_client` | sockets balanced, the handler shuts down its own socket only, an interrupt unblocks the first run and ends it, the client ends unless a silent connection holds it | two attempts, two polls, two readings, two signals |
| `interrupt_lost` | *violated*: an interrupt during the second connect is swallowed | the same |
| `link_left_running` | *violated*: SIGPIPE ends the client without `ppp_link_stop` | the same |
| `host_link` | no use after free, no frame without an output, everything released, a dead link is not up, the shutdown returns | none: the state space is finite and complete |
| `rpc_session` | the engine implements `RpcCall`, streams stay in step, exit code 0 means that every call was answered | none on the session: one client, its whole script, any fragmentation |
| `netdev_fwd` | a dangling callback argument lasts until the posted close, no gaps in either direction, nothing left behind, an error ends the thread | two connections that get the same block of memory one after the other, two segments each way on one of them |
| `esp_device` | data is stranded in the UART ring in three ways only, the coordinator comes online, a network is replaced only after a failed steering | one restart, two failures, two networks; a ring of two, chunks of one, a queue of two, five arrivals, two line errors |

The bounds are the smallest at which the cases above occur: a stale answer
needs two calls of a slot, overtaking two announcements in the queue and an
overflow one more than it holds, a lost client and its successor two connections, a stale dead phase two
sessions. Five arrivals fill the ring of two, overflow it, and leave two for the
time between `uart_flush_input` and `xQueueReset` and after it. Loop limits of the code (50 attempts, 720 slices, 5 readings, a queue
of 4) are constants, and small because only their last round differs.
In `netdev_fwd` one block suffices for the case two connections are there for, a
struct that is reused while its first owner's close is queued, and a second
connection is accepted and refused while the first is live.
`CHECK_DEADLOCK FALSE` is set for `PppUart`, where a link that is up with no
fault left to happen is a proper end, and for `NetdevFwd`, where connections end
and undefined behaviour ends everything.

## Findings

1. `zdo_match_result` (`zigbee_stack.c:154`) reports error 0 for a completed
   match request with no match; `find_sensor` then stores address 0 as the
   remembered sensor.
2. `main.cpp:244` starts the second run without a look at the stop flag.
3. A call after a failed one may raise SIGPIPE (`engine.hpp:19`) and end the
   client without the LCP terminate.

## Fairness

- ZigbeeStack: the RPC task and a callback that has begun are scheduled
  (FreeRTOS, equal priorities, finite waits). No answer is assumed.
- RpcServer: the task and the event handler are scheduled, LCP echo finds a
  dead host, and a client that is owed no answer ends its run some time: nothing
  in `main.cpp` holds it but a read (see `ClientEnds`). A socket that
  cannot be created may fail any number of times, but not for ever, and `accept`
  may fail for reasons of its own at any time or never.
  Neither announcements nor the return of the link are assumed.
- PppUart: loop and task are scheduled; a negotiation with a peer that answers
  ends, one without fails, a close ends. `LinkRecovers` has a premise of its own,
  `DelaysOutlast`: from some point on negotiation and event loop beat the
  reconnect delay of one second. Without it
  the notification left by the task's own disconnect tears a slow negotiation
  down again, possibly for ever; the other properties make no such assumption.
- ThermostatClient: both threads are scheduled, and a read returns on a socket that
  was shut down, has come to its end or was reset. Nothing is assumed of a read on
  an open socket: when the link is lost after the request was acknowledged, nothing
  on the host resets the connection. `ClientEnds` therefore has that exception, and
  says that an interrupt ends the first run even then.
- HostLink: `main` and both loops are scheduled, and `poll` and `select` return
  by their time-outs. Input, errors and the end of the run are not assumed.
- RpcSession: both processes are scheduled and TCP moves bytes, or reports that
  the other end has closed. No process is assumed to live.
- NetdevFwd: the tcpip thread goes on with what it has begun and the connection
  threads are scheduled. Nothing is assumed of the ends, nor that `connect` and
  `write`, which block the tcpip thread, return; `ErrorEndsThread` has the
  premise `NotStuck` that they do.
- EspDevice: `app_main` and the Zigbee task are scheduled, the alarm fires, and a
  BDB procedure ends, in failure as often as the bound allows.

## Proofs

Every invariant the runs check is a theorem for all values of the constants. The
proofs use the assumptions that the modules
state beside their constants and no others: bounds are natural numbers, loops and
queues have a positive length, `None` and `NoConn` are no members of the sets they
stand beside. Each module defines an inductive invariant `IInv`, which
was model-checked as an invariant of the component's run first, and proves
`Init => IInv`, `IInv /\ [Next]_vars => IInv'` with a case for each action, and
that `IInv` implies the properties. Few of the properties are
inductive by themselves; what each invariant adds is said below.

**ZigbeeStackProofs**: `TypeOK`, `ReplyProvenance`, `ReplyComplete`,
`BindReqOwnership` and `SensorProvenance`, for all devices, operations, numbers
of bound devices and numbers of calls. The properties speak of finished calls; the
invariant adds what holds during one. `NumberingInv`: requests are
numbered in order, and each but `config_report` has at most one answer to come,
the running callback's included. `CallbackInv`: the slot of a running callback
holds its data. `SlotInv`: whatever is in the slot of the current call, or can
still reach it, is its own or was in flight at the drain; this is the step at
which the drain matters. `CompleteInv`: with nothing in flight at the drain, a
permit means one complete answer and no callback that could clear it again.
`SourceInv`: addresses on their way to `s_last_sensor_addr` are sensors'. There
is one lemma per conjunct, with one case per action.

**PppUartProofs**: `TypeOK`, `RestartsFromDead`, `SomeoneRecovers` and
`LinkBitHonest`, for all bounds; see its header for the invariant.

**RpcServerProofs**: `TypeOK`, `OneClientAtATime`, `AnswersInOrder`,
`AnnceAccounting` and `AtMostOneSliceWasted`, for any number of clients, requests,
announcements, losses and slices and a queue of any length. `AnswersInOrder` needs
to know where a request is between its arrival and its answer: in the inbox, or in
the server's place, which says of what kind it is (`RequestInv`), and that a client
that was sent an error gets nothing more (`ErrorInv`). `AnnceAccounting` needs the
order within the queue (`QueueInv`), and `AtMostOneSliceWasted` that a slice begins
only for a client that is there and that a client found gone stays gone
(`WasteInv`).

**ThermostatClientProofs**: `TypeOK`, `SocketsBalanced`, `HandlerShutsItsSocket` and
`InterruptUnblocksFirstRun`, for loops of any length and any number of signals. The
argument is that the handler holds a descriptor only after it has set the stop
flag, and that `connect_rpc` opens no socket once it is set (`SignalInv`), so that
a descriptor it holds is never one that was closed and opened again.

**HostLinkProofs**: `TypeOK`, `NoUseAfterFree`, `NoFrameDropped`,
`EverythingReleased` and `DeadLinkIsNotUp`. The module has no parameters and its
run is complete; the proof says why it holds. There is no lock, so the
invariant lists what exists at each place of `main` (`PlaceInv`), and a thread is
inside PPP only with its struct live and the transport attached (`InsideInv`): the
joins before `detach` and before the frees are what preserves it.

**NetdevFwdProofs**: `DanglesOnlyUntilClose`, `NoGaps` and `NothingLeftBehind`, for
any number of connections, blocks and segments. `ConnInv(k)` is said of one
connection: who owns its struct and who may still hold a pointer to it (`Owns`,
`Called`), what `c->pcb`, `c->alive` and `c->host_fd` mean to the other thread
(`Flags`), that the close is in the mailbox once the thread is past posting it
(`Closes`), that a thread waits while its write is there (`Waits`), and how much of
each direction is on its way (`Uplink`, where a write begun while `alive` was set
may end after it is cleared, and `Downlink`). A step of one connection
leaves every other one alone (`SameInv`), although the blocks are shared: a
callback goes on only while its pointer leads to a struct that is still its own
connection's, and with any other the behaviour ends as undefined.

**EspDeviceProofs**: `StrandedOnlyByReset`, for ring, chunk and queue of any size,
and the action property `ReformsOnlyAfterFailedSteering`, for any number of
restarts, failures and networks. The first speaks of an idle task; the invariant
says it of every moment: what lies in the ring behind the chunk being read is
listed as unannounced or an event that makes the task look is queued
(`CoveredInv`). The second needs that formation runs or is scheduled with a
network in flash only after a failed steering (`RetryInv`).

**RpcSessionProofs** goes from the bytes up.

- Fields: for every value of every field type, decoding gives back what was encoded
  (`FieldsRoundTrip`) and the encoding has the size of the type
  (`FieldsFillTheirBytes`).
- Structs: the same for a struct of any fields and all values that fit them
  (`StructsRoundTrip`). `Encode` folds over the fields and `Decode` adds up
  offsets, so this is an induction over the number of fields. The library's
  induction rules take the formula as a parameter, which the provers cannot
  instantiate; the lemma `Induction` takes the set of numbers for which the
  formula holds instead, and follows from the well-foundedness of `<`.
- Streams: what a reader takes and a writer adds leaves a prefix of the same frame
  a prefix of it.
- The session: `IInv` relates the octets in flight to the places of both
  processes. `Links` says which ends of the connection are open at which place;
  `Counts` that calls, executions and results are apart by at most one;
  `Failures` that after a failed call the server takes no more requests, unless the
  call failed with the client itself, and then there is no later one; `CallValues` that what the current call passes, and what was
  computed for it, fits its struct; `Requests` and `Answers` that each stream holds
  a prefix of what is left of the one request, and of the one answer or error,
  that is due; `Progress` where `client.cpp` is in its script and which addresses
  it has learnt. The properties speak of headers that have been read and of exit
  codes: without `Requests` and `Answers` nothing would exclude a stale answer, and
  without `Failures` a later call could be executed after a refused one.
- The theorems: `InStep`, `ExitZeroMeansAllAnswered`, and `ImplementsSafely`, which
  is `Implements` without its fairness: the initial states are initial in
  `RpcCall`, and each step is one of its steps or a stutter.

`RpcSession` has no parameters and its run is complete; as with HostLink, the
proof says why it holds. Its `IInv` was model-checked with the 32-bit
types cut to the integers TLC has, which end before 2^31.

Left to TLC is everything under fairness (`EveryCallReturns`, `NextClientServed`,
`LossFreesServer`, `AnnceReachesWaiter`, `LinkRecovers`, `ClientEnds`, `StopReturns`,
`ErrorEndsThread`, `ComesOnline` and the fairness of `Implements`), which the proof
system does not handle.

## Not modelled, and the plan

Left to model: the whole of client, server and stack in one specification, which
is too large for TLC at the level of detail of the parts; the parts meet in the
assumptions listed under Fairness instead.

Left out of the modelled parts: `uart_transmit`, a loop over a blocking write; the
signals and events that are only logged; the fold of `dispatch.hpp`, which no
program uses; what two threads do inside lwIP; the branches of `ppp_lwip.c` for
lwIP's own thread, which run only with the forwarder. Data that a half-closed
forwarded connection drops (`netdev_fwd.c:82` stops both directions) is part of
the model, and no property says it should arrive.

Out of scope: the vendored headers in `tools/`, the lwIP configuration and
stubs, the build scripts, and the printing half of the reflection helpers, none of
which has run-time state of the program's own.
