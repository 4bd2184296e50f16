----------------------------- MODULE RpcSession -----------------------------
(***************************************************************************)
(* One session of the host simulation in zb_rpc/: the client program       *)
(* client.cpp, the server program server.cpp with the functions of         *)
(* sim_zigbee.cpp behind dispatch_ns, and between them two copies of       *)
(* engine.hpp on the two ends of a TCP connection, byte by byte.           *)
(*                                                                         *)
(* External: TCP, which accepts and delivers any part of what is written   *)
(* or there to be read, and resets a connection that is closed with unread *)
(* data; SIGPIPE; a process that is killed; and the programs other than    *)
(* client.cpp that may call the server.                                    *)
(***************************************************************************)
EXTENDS Wire, SimZigbee

Ends == {"client", "server"}
Other(e) == IF e = "client" THEN "server" ELSE "client"

VARIABLES
  program,   \* which program calls the server
  pc,        \* where each program is
  fd,        \* each end of the connection: "none", "open" or "closed"
  reset,     \* whether the end has seen a reset
  chan,      \* bytes on their way to the end, or there and not yet read
  tx,        \* bytes write_all has still to write
  rx,        \* bytes read_all has read so far
  hdr,       \* the FrameHeader received
  step,      \* the client's place in its script
  peer,      \* the address wait_annce returned
  sensor,    \* what find_sensor returned
  exit,      \* the client's exit code, 255 before
  asked, executed, results, \* calls made, values computed, outcomes (history)
  sim        \* the globals of sim_zigbee.cpp

engineVars == <<fd, reset, chan, tx, rx, hdr>>
clientVars == <<step, peer, sensor, exit>>
vars == <<program, pc, engineVars, clientVars, asked, executed, results, sim>>

Failed == <<>>   \* no function of the catalogue returns an empty struct

(***************************************************************************)
(* The callers.  client.cpp makes sixteen calls; the others are a client   *)
(* with a newer catalogue, one whose OpenNetworkReq is wider, one that is  *)
(* no client of this protocol, and one whose request is too large.  They   *)
(* go on after a failed call, as zb_rpc_client does.                       *)
(***************************************************************************)
Script ==
  [client |-> <<"get_short_addr", "get_panid", "get_channel", "open_network", "wait_annce",
                "find_sensor", "read_basic", "bind_sensor", "subscribe_sensor",
                "config_report", "get_last_temp", "get_last_temp", "get_last_temp",
                "get_last_temp", "get_last_temp", "read_temp">>,
   newer  |-> <<"get_panid", "get_sensor_addr", "get_last_temp">>,
   skewed |-> <<"open_network", "get_last_temp">>,
   alien  |-> <<"get_panid", "get_last_temp">>,
   large  |-> <<"open_network", "get_last_temp">>]

ReqStruct(api) ==
  CASE program = "skewed" /\ api = "open_network" -> <<"u16">>
    [] program = "large" /\ api = "open_network"  -> [i \in 1..65 |-> "u8"]
    [] OTHER                                      -> desc[api].req

Magic == IF program = "alien" THEN k_magic + 1 ELSE k_magic

Argument(api) ==
  CASE api = "open_network" -> IF program = "large" THEN [i \in 1..65 |-> 0] ELSE <<180>>
    [] api = "find_sensor"  -> <<peer>>
    [] desc[api].req = zb_addr_t -> sensor
    [] OTHER                -> <<>>

Init ==
  /\ program \in DOMAIN Script
  /\ pc = [e \in Ends |-> "start"]
  /\ fd = [e \in Ends |-> "none"]
  /\ reset = [e \in Ends |-> FALSE]
  /\ chan = [e \in Ends |-> <<>>]
  /\ tx = [e \in Ends |-> <<>>]
  /\ rx = [e \in Ends |-> <<>>]
  /\ hdr = [e \in Ends |-> [id |-> 0, size |-> 0]]
  /\ step = 1 /\ peer = 0 /\ sensor = <<0, 0, 0>> /\ exit = 255
  /\ asked = <<>> /\ executed = <<>> /\ results = <<>>
  /\ sim = FreshSim

(***************************************************************************)
(* TCP (external).                                                         *)
(***************************************************************************)
\* close(), or the end of the process.  Unread data makes it a reset, on which the other
\* end may lose what it has not read.
CloseFd(e) ==
  /\ fd' = [fd EXCEPT ![e] = "closed"]
  /\ \/ chan[e] = <<>> /\ UNCHANGED <<chan, reset>>
     \/ /\ chan[e] # <<>>
        /\ reset' = [reset EXCEPT ![Other(e)] = TRUE]
        /\ \/ chan' = [chan EXCEPT ![e] = <<>>]
           \/ chan' = [x \in Ends |-> <<>>]

\* A write is killed by SIGPIPE, or the process is killed from outside, at any time.  A
\* caller that dies has its call fail.
Dies(e) ==
  /\ pc' = [pc EXCEPT ![e] = "killed"]
  /\ CloseFd(e)
  /\ tx' = [tx EXCEPT ![e] = <<>>]
  /\ results' = IF e = "client" /\ Len(results) < Len(asked) THEN Append(results, Failed)
                ELSE results
  /\ UNCHANGED <<program, rx, hdr, clientVars, asked, executed, sim>>

Sigpipe(e) ==
  /\ tx[e] # <<>> /\ reset[e] /\ fd[e] = "open"
  /\ Dies(e)

Killed(e) ==
  /\ fd[e] = "open"
  /\ Dies(e)

(***************************************************************************)
(* Engine: write_all and read_all move any number of bytes at a time.      *)
(***************************************************************************)
write_all(e) ==
  /\ tx[e] # <<>> /\ fd[e] = "open" /\ ~reset[e]
  /\ \E n \in 1..Len(tx[e]) :
       /\ tx' = [tx EXCEPT ![e] = SubSeq(@, n + 1, Len(@))]
       /\ IF fd[Other(e)] = "closed"
          THEN /\ reset' \in {reset, [reset EXCEPT ![e] = TRUE]}
               /\ UNCHANGED chan
          ELSE /\ chan' = [chan EXCEPT ![Other(e)] = @ \o SubSeq(tx[e], 1, n)]
               /\ UNCHANGED reset
  /\ UNCHANGED <<program, pc, fd, rx, hdr, clientVars, asked, executed, results, sim>>

Reading == {"header", "payload", "discard", "error"}

HeaderSize == sizeof(WireHeader)
Wanted(e) == IF pc[e] = "header" THEN HeaderSize ELSE hdr[e].size

read_all(e) ==
  /\ pc[e] \in Reading /\ Len(rx[e]) < Wanted(e)
  /\ chan[e] # <<>>
  /\ \E n \in 1..Len(chan[e]) :
       /\ Len(rx[e]) + n <= Wanted(e)
       /\ rx' = [rx EXCEPT ![e] = @ \o SubSeq(chan[e], 1, n)]
       /\ chan' = [chan EXCEPT ![e] = SubSeq(@, n + 1, Len(@))]
  /\ UNCHANGED <<program, pc, fd, reset, tx, hdr, clientVars, asked, executed, results, sim>>

\* A read that is complete, and one that ends early: end of the stream, or a reset.
HasRead(e)   == pc[e] \in Reading /\ Len(rx[e]) = Wanted(e)
ReadFails(e) == /\ pc[e] \in Reading /\ Len(rx[e]) < Wanted(e)
                /\ chan[e] = <<>> /\ fd[Other(e)] = "closed"

Frame(magic, id, struct, value) ==
  Encode(WireHeader, <<magic, id, sizeof(struct)>>) \o Encode(struct, value)

ErrorFrame(code) == Frame(k_magic, api_id.error, ErrorResp, <<code>>)

\* receive_header: a header that was read is refused with one of two errors or accepted.
Received(e)    == Decode(WireHeader, rx[e])
HeaderError(e) == IF Received(e)[1] # k_magic THEN error_code.bad_magic
                  ELSE IF Received(e)[3] > k_max_payload THEN error_code.oversized_payload
                  ELSE error_code.none

Goto(e, place) == pc' = [pc EXCEPT ![e] = place]
StartRead(e)   == rx' = [rx EXCEPT ![e] = <<>>]

(***************************************************************************)
(* client.cpp.                                                             *)
(***************************************************************************)
rpc_connect ==
  /\ pc["client"] = "start"
  /\ pc["server"] = "accept" /\ fd["client"] = "none"
  /\ fd' = [fd EXCEPT !["client"] = "open"]
  /\ Goto("client", "ready")
  /\ UNCHANGED <<program, reset, chan, tx, rx, hdr, clientVars, asked, executed, results, sim>>

\* Nobody listens: not yet, or no more.
ConnectFails ==
  /\ pc["client"] = "start"
  /\ pc["server"] # "accept"
  /\ exit' = 1
  /\ Goto("client", "done")
  /\ UNCHANGED <<program, engineVars, step, peer, sensor, asked, executed, results, sim>>

\* The first half of call<>: the request is encoded and sent.
Call ==
  /\ pc["client"] = "ready"
  /\ step <= Len(Script[program])
  /\ LET api == Script[program][step] IN
       /\ tx' = [tx EXCEPT !["client"] =
                   Frame(Magic, api_id[api], ReqStruct(api), Argument(api))]
       /\ asked' = Append(asked, [api |-> api, req |-> Argument(api)])
  /\ Goto("client", "send")
  /\ UNCHANGED <<program, fd, reset, chan, rx, hdr, clientVars, executed, results, sim>>

Sent ==
  /\ pc["client"] = "send" /\ tx["client"] = <<>>
  /\ Goto("client", "header") /\ StartRead("client")
  /\ UNCHANGED <<program, fd, reset, chan, tx, hdr, clientVars, asked, executed, results, sim>>

Leave(code) == exit' = code /\ Goto("client", "leave") /\ UNCHANGED step
Proceed(n)  == step' = n /\ Goto("client", "ready") /\ UNCHANGED exit

\* Mutation: the result of read_temp is not looked at either.
OnFailureGoesOn(api) == Proceed(step + 1)

\* The bind, subscribe and configure results are not looked at; the loop over
\* get_last_temp is left; after any other failure the program ends.
OnFailure(api) ==
  CASE program # "client" \/ api \in {"bind_sensor", "subscribe_sensor", "config_report"}
                              -> Proceed(step + 1)
    [] program = "client" /\ api = "get_last_temp" -> Proceed(Len(Script[program]))
    [] OTHER                  -> Leave(1)

OnSuccess(api, value) ==
  IF program = "client" /\ api \in {"open_network", "find_sensor"} /\ value[1] # 0
  THEN Leave(1) ELSE Proceed(step + 1)

Current == Script[program][step]

Fails ==
  /\ results' = Append(results, Failed)
  /\ OnFailure(Current)
  /\ UNCHANGED <<peer, sensor>>

Succeeds(value) ==
  /\ results' = Append(results, value)
  /\ OnSuccess(Current, value)
  /\ peer' = IF Current = "wait_annce" THEN value[1] ELSE peer
  /\ sensor' = IF Current = "find_sensor" THEN value ELSE sensor

\* Mutation: the error frame's payload is left on the stream.
ClientHeaderLeavesError ==
  /\ pc["client"] = "header" /\ HasRead("client")
  /\ LET id == Received("client")[2]
         size == Received("client")[3]
     IN
     /\ hdr' = [hdr EXCEPT !["client"] = [id |-> id, size |-> size]]
     /\ IF id = api_id[Current]
        THEN Goto("client", "payload") /\ UNCHANGED <<clientVars, results>>
        ELSE Fails
  /\ StartRead("client")
  /\ UNCHANGED <<program, fd, reset, chan, tx, asked, executed, sim>>

\* The second half of call<>: the header of the answer is looked at.
ClientHeader ==
  /\ pc["client"] = "header" /\ HasRead("client")
  /\ LET id == Received("client")[2]
         size == Received("client")[3]
         Then(place) == Goto("client", place) /\ UNCHANGED <<clientVars, results>>
     IN
     /\ hdr' = [hdr EXCEPT !["client"] = [id |-> id, size |-> size]]
     /\ IF HeaderError("client") # error_code.none THEN Fails
        ELSE IF id = api_id.error
             THEN IF size = sizeof(ErrorResp) THEN Then("error") ELSE Fails
        ELSE IF id # api_id[Current] THEN Then("discard")
        ELSE IF size = sizeof(desc[Current].resp) THEN Then("payload")
        ELSE Fails
  /\ StartRead("client")
  /\ UNCHANGED <<program, fd, reset, chan, tx, asked, executed, sim>>

ClientPayload ==
  /\ pc["client"] = "payload" /\ HasRead("client")
  /\ Succeeds(Decode(desc[Current].resp, rx["client"]))
  /\ UNCHANGED <<program, engineVars, asked, executed, sim>>

\* The server's error, or an answer to something else, has been read.
ClientDropped ==
  /\ pc["client"] \in {"error", "discard"} /\ HasRead("client")
  /\ Fails
  /\ UNCHANGED <<program, engineVars, asked, executed, sim>>

ClientReadFails ==
  /\ ReadFails("client")
  /\ Fails
  /\ UNCHANGED <<program, engineVars, asked, executed, sim>>

\* write_all fails on a connection that was reset, when it is not SIGPIPE.
ClientWriteFails ==
  /\ pc["client"] = "send" /\ tx["client"] # <<>> /\ reset["client"]
  /\ tx' = [tx EXCEPT !["client"] = <<>>]
  /\ Fails
  /\ UNCHANGED <<program, fd, reset, chan, rx, hdr, asked, executed, sim>>

\* The end of the script.
ClientEnds ==
  /\ pc["client"] = "ready"
  /\ step > Len(Script[program])
  /\ Leave(0)
  /\ UNCHANGED <<program, engineVars, peer, sensor, asked, executed, results, sim>>

ClientCloses ==
  /\ pc["client"] = "leave"
  /\ CloseFd("client")
  /\ Goto("client", "done")
  /\ UNCHANGED <<program, tx, rx, hdr, clientVars, asked, executed, results, sim>>

(***************************************************************************)
(* server.cpp.                                                             *)
(***************************************************************************)
rpc_listen ==
  /\ pc["server"] = "start"
  /\ Goto("server", "accept")
  /\ UNCHANGED <<program, engineVars, clientVars, asked, executed, results, sim>>

ListenFails ==
  /\ pc["server"] = "start"
  /\ Goto("server", "done")
  /\ UNCHANGED <<program, engineVars, clientVars, asked, executed, results, sim>>

\* rpc_accept; the listener is closed, so this is the only session.
rpc_accept ==
  /\ pc["server"] = "accept" /\ fd["client"] # "none"
  /\ fd' = [fd EXCEPT !["server"] = "open"]
  /\ Goto("server", "header") /\ StartRead("server")
  /\ UNCHANGED <<program, reset, chan, tx, hdr, clientVars, asked, executed, results, sim>>

AcceptFails ==
  /\ pc["server"] = "accept" /\ fd["client"] # "none"
  /\ CloseFd("server")
  /\ Goto("server", "done")
  /\ UNCHANGED <<program, tx, rx, hdr, clientVars, asked, executed, results, sim>>

Refuse(code) ==
  /\ tx' = [tx EXCEPT !["server"] = ErrorFrame(code)]
  /\ Goto("server", "refuse")

\* The handler id_for_name finds for an id, or none.
HandlerOf(id) == {api \in Handlers : api_id[api] = id}

\* handle_commands: receive_header, then dispatch_ns up to receive_payload.
ServerHeader ==
  /\ pc["server"] = "header" /\ HasRead("server")
  /\ LET id == Received("server")[2]
         size == Received("server")[3]
         Then(place) == Goto("server", place) /\ UNCHANGED tx
     IN
     /\ hdr' = [hdr EXCEPT !["server"] = [id |-> id, size |-> size]]
     /\ IF HeaderError("server") # error_code.none THEN Refuse(HeaderError("server"))
        ELSE IF id = api_id.error THEN Then("close")
        ELSE IF HandlerOf(id) = {} THEN Then("discard")
        ELSE IF \A api \in HandlerOf(id) : size = sizeof(desc[api].req) THEN Then("payload")
        ELSE Refuse(error_code.payload_mismatch)
  /\ StartRead("server")
  /\ UNCHANGED <<program, fd, reset, chan, clientVars, asked, executed, results, sim>>

\* The request is decoded, the function called, and its response sent.
ServerInvokes ==
  /\ pc["server"] = "payload" /\ HasRead("server")
  /\ \E api \in HandlerOf(hdr["server"].id) :
       LET served == Serve(sim, [api |-> api, req |-> Decode(desc[api].req, rx["server"])])
       IN /\ executed' = Append(executed, served.value)
          /\ sim' = served.service
          /\ tx' = [tx EXCEPT !["server"] =
                      Frame(k_magic, api_id[api], desc[api].resp, served.value)]
  /\ Goto("server", "respond")
  /\ UNCHANGED <<program, fd, reset, chan, rx, hdr, clientVars, asked, results>>

ServerDiscarded ==
  /\ pc["server"] = "discard" /\ HasRead("server")
  /\ Refuse(error_code.unknown_api)
  /\ UNCHANGED <<program, fd, reset, chan, rx, hdr, clientVars, asked, executed, results, sim>>

Responded ==
  /\ pc["server"] = "respond" /\ tx["server"] = <<>>
  /\ Goto("server", "header") /\ StartRead("server")
  /\ UNCHANGED <<program, fd, reset, chan, tx, hdr, clientVars, asked, executed, results, sim>>

\* handle_commands returns false after every error it has sent.
Refused ==
  /\ pc["server"] = "refuse" /\ tx["server"] = <<>>
  /\ Goto("server", "close")
  /\ UNCHANGED <<program, engineVars, clientVars, asked, executed, results, sim>>

ServerWriteFails ==
  /\ pc["server"] \in {"respond", "refuse"} /\ tx["server"] # <<>> /\ reset["server"]
  /\ tx' = [tx EXCEPT !["server"] = <<>>]
  /\ Goto("server", "close")
  /\ UNCHANGED <<program, fd, reset, chan, rx, hdr, clientVars, asked, executed, results, sim>>

ServerReadFails ==
  /\ ReadFails("server")
  /\ Goto("server", "close")
  /\ UNCHANGED <<program, engineVars, clientVars, asked, executed, results, sim>>

ServerCloses ==
  /\ pc["server"] = "close"
  /\ CloseFd("server")
  /\ Goto("server", "done")
  /\ UNCHANGED <<program, tx, rx, hdr, clientVars, asked, executed, results, sim>>

-----------------------------------------------------------------------------
ClientStep ==
  \/ rpc_connect \/ ConnectFails \/ Call \/ Sent \/ ClientHeader \/ ClientPayload
  \/ ClientDropped \/ ClientReadFails \/ ClientWriteFails \/ ClientEnds \/ ClientCloses

ServerStep ==
  \/ rpc_listen \/ ListenFails \/ rpc_accept \/ AcceptFails \/ ServerHeader \/ ServerInvokes
  \/ ServerDiscarded \/ Responded \/ Refused \/ ServerReadFails \/ ServerWriteFails
  \/ ServerCloses

EngineStep(e) == write_all(e) \/ read_all(e) \/ Sigpipe(e)

\* Both programs have ended, or the server waits for a client that has given up.
Ended ==
  /\ pc["client"] \in {"done", "killed"}
  /\ \/ pc["server"] \in {"done", "killed"}
     \/ pc["server"] = "accept" /\ fd["client"] = "none"
  /\ UNCHANGED vars

Next == ClientStep \/ ServerStep \/ (\E e \in Ends : EngineStep(e) \/ Killed(e)) \/ Ended

\* Both processes are scheduled, and TCP moves bytes.
Spec ==
  /\ Init /\ [][Next]_vars
  /\ WF_vars(ClientStep \/ EngineStep("client"))
  /\ WF_vars(ServerStep \/ EngineStep("server"))

-----------------------------------------------------------------------------
(***************************************************************************)
(* Properties.                                                             *)
(***************************************************************************)
AllCalls ==
  [api : DOMAIN desc,
   req : {<<>>, <<180>>, <<g_sensor_short>>, <<0, g_sensor_short, g_sensor_ep>>,
          [i \in 1..65 |-> 0]}]

Remote == INSTANCE RpcCall WITH Calls <- AllCalls, FreshService <- FreshSim, service <- sim

\* The engine implements the remote call of RpcCall: short reads and writes, unknown and
\* ill-sized requests and the death of either side at any byte notwithstanding, a call
\* returns exactly what the function computed, negative numbers included, or it fails and
\* no call after it is executed; and every call ends.
Implements == Remote!Spec

\* Between two calls on a connection that was not reset, which takes no more requests,
\* nothing of an earlier answer is unread or on its way, and no answer
\* is ever met by another call: the branches of call<> for an unexpected response, a bad
\* header or a wrong size are not reached with this server, although client.cpp goes on
\* using the connection after a call has failed.
InStep ==
  /\ pc["client"] = "ready" =>
       reset["client"] \/ (chan["client"] = <<>> /\ tx["server"] = <<>>)
  /\ pc["client"] # "discard"
  /\ pc["client"] = "header" /\ HasRead("client") =>
       Received("client") \in
         {<<k_magic, api_id.error, sizeof(ErrorResp)>>,
          <<k_magic, api_id[Current], sizeof(desc[Current].resp)>>}

\* client.cpp ends with 0 only if every one of its calls was answered, those whose failure
\* it ignores included.
ExitZeroMeansAllAnswered ==
  program = "client" /\ exit = 0 =>
    /\ Len(results) = Len(Script[program])
    /\ \A i \in DOMAIN results : results[i] # Failed
=============================================================================
