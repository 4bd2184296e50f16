---------------------------- MODULE ZigbeeStack ----------------------------
(***************************************************************************)
(* The request/response half of zb_rpc_server/main/zigbee_stack.c.         *)
(*                                                                         *)
(* Two FreeRTOS tasks of equal priority share the file's static variables: *)
(* the RPC task calls one zigbee_* function at a time, which drains the    *)
(* slot of the operation, issues the request under the Zigbee lock and     *)
(* then waits, without the lock, for a permit with a timeout; the Zigbee   *)
(* task runs the callbacks, with the lock, whenever an answer comes in.    *)
(* Neither the answers nor the slots carry a request number, so an answer  *)
(* that arrives after its caller has timed out is left for a later call.   *)
(* The model numbers the requests, tags every value with the request whose *)
(* answer wrote it, and asks which values a call can return.               *)
(***************************************************************************)
EXTENDS Integers

CONSTANTS Addr,          \* short addresses on the network (none of them 0)
          Sensors,       \* the devices that have a temperature cluster
          Ops,           \* the operations the clients call
          BoundDevices,  \* devices a config_report is sent to (the binding table)
          MaxCalls       \* bound on the number of calls

AllOps == {"find", "basic", "bind", "subscribe", "report", "temp"}

ASSUME AddrAssumption  == Addr \subseteq Nat \ {0} /\ Sensors \subseteq Addr
ASSUME OpsAssumption   == Ops \subseteq AllOps
ASSUME BoundAssumption == BoundDevices \in Nat /\ MaxCalls \in Nat

NoAddr == 0
Ids    == 1..MaxCalls

(***************************************************************************)
(* Error values.  EzbErr and ZdpStatus stand for any nonzero stack error   *)
(* and any nonzero ZDP status.                                             *)
(***************************************************************************)
Failed    == -1
TimedOut  == -2
EzbErr    == 1
ZdpStatus == 2
Errors    == {0, Failed, TimedOut, EzbErr, ZdpStatus}

\* bind and subscribe share s_bind_done and s_bind_err.
Slot(op) == IF op = "find" THEN "match"
            ELSE IF op \in {"bind", "subscribe"} THEN "bind"
            ELSE op
Slots == {"match", "basic", "bind", "report", "temp"}

IsBind(op)   == op \in {"bind", "subscribe"}
IsStruct(op) == op \in {"basic", "temp"}     \* returns a struct, copied field by field

\* config_report is addressed through the binding table, everything else to one device.
Responses(op) == IF op = "report" THEN BoundDevices ELSE 1

VARIABLES
  pc,                 \* where the RPC task is in the call
  call,               \* the call it is making: number, operation, address
  req, target,        \* operation and address of every call made so far
  suspects,           \* earlier requests whose answer could still reach the slot
                      \* when the current call drained it (history)
  outstanding,        \* answers the Zigbee stack may still deliver, per request
  cb,                 \* the callback the Zigbee task is running; id 0: none
  s_match_q,          \* queue of length 1; src 0: empty
  done,               \* the binary semaphores s_basic/temp/bind/report_done
  cache,              \* s_basic_cache, s_temp_cache, s_bind_err, s_report_err
  heap,               \* the bind_req each call allocated
  s_last_sensor_addr,
  s_last_temp,        \* the device whose reading it is
  result              \* what the last call returned

rpcVars   == <<pc, call, req, target, suspects, result>>
slotVars  == <<s_match_q, done, cache>>
stackVars == <<outstanding, cb>>
lastVars  == <<s_last_sensor_addr, s_last_temp>>
vars      == <<rpcVars, slotVars, stackVars, heap, lastVars>>

Outcomes == {"ok", "refused", "error", "null"}

NoItem == [src |-> 0, err |-> Failed, addr |-> NoAddr]
NoCb   == [id |-> 0, step |-> "none", outcome |-> "ok"]

MatchItems == [src : 0..MaxCalls, err : Errors, addr : Addr \cup {NoAddr}]
Cells      == [err : Errors, by : 0..MaxCalls, data : {"blank", "full"}]
Callbacks  == [id : 0..MaxCalls, step : {"none", "fill", "give"}, outcome : Outcomes]
Results    == [id : 0..MaxCalls, err : Errors, errBy : 0..MaxCalls,
               bodyBy : 0..MaxCalls, data : {"blank", "full"}, addr : Addr \cup {NoAddr}]

Init ==
  /\ pc = "idle"
  /\ call = [id |-> 0, op |-> "find", addr |-> NoAddr]
  /\ req = [i \in Ids |-> "none"]
  /\ target = [i \in Ids |-> NoAddr]
  /\ suspects = {}
  /\ outstanding = [i \in Ids |-> 0]
  /\ cb = NoCb
  /\ s_match_q = NoItem
  /\ done = [s \in Slots |-> FALSE]
  /\ cache = [s \in Slots |-> [err |-> 0, by |-> 0, data |-> "blank"]]
  /\ heap = [i \in Ids |-> "none"]
  /\ s_last_sensor_addr = NoAddr
  /\ s_last_temp = NoAddr
  /\ result = [id |-> 0, err |-> 0, errBy |-> 0, bodyBy |-> 0,
               data |-> "full", addr |-> NoAddr]

LockFree == cb.id = 0

(***************************************************************************)
(* The RPC task.                                                           *)
(***************************************************************************)
\* Requests that can still put an answer into slot s.
InFlight(s) == {i \in Ids : /\ req[i] # "none"
                            /\ Slot(req[i]) = s
                            /\ outstanding[i] > 0 \/ cb.id = i}

\* Mutation: the call does not drain its slot.
DrainNothing(s) == UNCHANGED <<s_match_q, done>>

\* xQueueReset(s_match_q), or xSemaphoreTake(s_..._done, 0).
Drain(s) ==
  /\ s_match_q' = IF s = "match" THEN NoItem ELSE s_match_q
  /\ done' = IF s = "match" THEN done ELSE [done EXCEPT ![s] = FALSE]

Start(op, addr) ==
  /\ pc = "idle"
  /\ call.id < MaxCalls
  /\ call' = [id |-> call.id + 1, op |-> op, addr |-> addr]
  /\ req' = [req EXCEPT ![call.id + 1] = op]
  /\ target' = [target EXCEPT ![call.id + 1] = addr]

\* The call returns an error of its own making.
ReturnError(id, err) ==
  result' = [id |-> id, err |-> err, errBy |-> id, bodyBy |-> id,
             data |-> "full", addr |-> NoAddr]

free(id) == heap' = [heap EXCEPT ![id] = IF @ = "live" THEN "freed" ELSE "double"]

\* A call up to and including the drain of its slot; a bind also has its bind_req.
Begin(op, addr) ==
  /\ Start(op, addr)
  /\ Drain(Slot(op))
  /\ suspects' = InFlight(Slot(op))
  /\ heap' = IF IsBind(op) THEN [heap EXCEPT ![call.id + 1] = "live"] ELSE heap
  /\ pc' = "issue"
  /\ UNCHANGED <<cache, stackVars, lastVars, result>>

CallocFails(op, addr) ==
  /\ IsBind(op)
  /\ Start(op, addr)
  /\ suspects' = {}
  /\ ReturnError(call.id + 1, Failed)
  /\ UNCHANGED <<pc, slotVars, stackVars, heap, lastVars>>

\* The three ways the part under the lock ends.
IssueAccepted ==
  /\ pc = "issue" /\ LockFree
  /\ outstanding' = [outstanding EXCEPT ![call.id] = Responses(call.op)]
  /\ pc' = "wait"
  /\ UNCHANGED <<call, req, target, suspects, result, slotVars, cb, heap, lastVars>>

IssueLookupFails ==
  /\ pc = "issue" /\ LockFree
  /\ IsBind(call.op)
  /\ free(call.id)
  /\ ReturnError(call.id, Failed)
  /\ pc' = "idle"
  /\ UNCHANGED <<call, req, target, suspects, slotVars, stackVars, lastVars>>

IssueRejected ==
  /\ pc = "issue" /\ LockFree
  /\ IF IsBind(call.op) THEN free(call.id) ELSE UNCHANGED heap
  /\ ReturnError(call.id, EzbErr)
  /\ pc' = "idle"
  /\ UNCHANGED <<call, req, target, suspects, slotVars, stackVars, lastVars>>

\* find_sensor receives from the queue, which hands over a private copy.
ReceiveMatch ==
  /\ pc = "wait" /\ call.op = "find"
  /\ s_match_q # NoItem
  /\ s_match_q' = NoItem
  /\ s_last_sensor_addr' = IF s_match_q.err = 0 THEN s_match_q.addr
                           ELSE s_last_sensor_addr
  /\ result' = [id |-> call.id, err |-> s_match_q.err, errBy |-> s_match_q.src,
                bodyBy |-> s_match_q.src, data |-> "full", addr |-> s_match_q.addr]
  /\ pc' = "idle"
  /\ UNCHANGED <<call, req, target, suspects, done, cache, stackVars, heap, s_last_temp>>

\* The other calls take a permit, then read the shared variable without the lock.
TakePermit ==
  /\ pc = "wait" /\ call.op # "find"
  /\ done[Slot(call.op)]
  /\ done' = [done EXCEPT ![Slot(call.op)] = FALSE]
  /\ pc' = "copy"
  /\ UNCHANGED <<call, req, target, suspects, result, s_match_q, cache, stackVars,
                 heap, lastVars>>

CopyErr ==
  /\ pc = "copy"
  /\ LET cell == cache[Slot(call.op)] IN
     result' = [id |-> call.id, err |-> cell.err, errBy |-> cell.by,
                bodyBy |-> cell.by, data |-> cell.data, addr |-> NoAddr]
  /\ pc' = IF IsStruct(call.op) THEN "copy_body" ELSE "idle"
  /\ UNCHANGED <<call, req, target, suspects, slotVars, stackVars, heap, lastVars>>

CopyBody ==
  /\ pc = "copy_body"
  /\ LET cell == cache[Slot(call.op)] IN
     result' = [id |-> call.id, err |-> result.err, errBy |-> result.errBy,
                bodyBy |-> cell.by, addr |-> NoAddr,
                data |-> IF result.data = "full" THEN cell.data ELSE "blank"]
  /\ pc' = "idle"
  /\ UNCHANGED <<call, req, target, suspects, slotVars, stackVars, heap, lastVars>>

SlotEmpty(s) == IF s = "match" THEN s_match_q = NoItem ELSE ~done[s]

\* Mutation: the time-out path frees the bind_req, as the other error paths do.
TimeoutFrees ==
  /\ pc = "wait"
  /\ SlotEmpty(Slot(call.op))
  /\ IF IsBind(call.op) THEN free(call.id) ELSE UNCHANGED heap
  /\ ReturnError(call.id, TimedOut)
  /\ pc' = "idle"
  /\ UNCHANGED <<call, req, target, suspects, slotVars, stackVars, lastVars>>

\* Mutation: the call waits with portMAX_DELAY.
TimeoutNever == FALSE /\ UNCHANGED vars

\* xQueueReceive/xSemaphoreTake gives up only while there is nothing to take.
Timeout ==
  /\ pc = "wait"
  /\ SlotEmpty(Slot(call.op))
  /\ ReturnError(call.id, TimedOut)
  /\ pc' = "idle"
  /\ UNCHANGED <<call, req, target, suspects, slotVars, stackVars, heap, lastVars>>

(***************************************************************************)
(* The Zigbee task.  A request gets at most Responses(op) answers, at any  *)
(* time or never.                                                          *)
(***************************************************************************)
Deliver(i) ==
  /\ LockFree
  /\ outstanding[i] > 0
  /\ outstanding' = [outstanding EXCEPT ![i] = @ - 1]

\* Mutation: the address is taken from a response that carries none.
MatchItemUnchecked(i, outcome) ==
  [src  |-> i,
   err  |-> IF outcome = "null" THEN Failed ELSE 0,
   addr |-> IF outcome = "ok" THEN target[i] ELSE 65535]

\* Only a device with the temperature cluster has an endpoint in its match list.
\* When the stack reports no error but there is no usable match, err is that
\* error, EZB_ERR_NONE, and the address stays 0.
MatchItem(i, outcome) ==
  [src  |-> i,
   err  |-> IF outcome \in {"ok", "refused"} THEN 0
            ELSE IF outcome = "error" THEN EzbErr ELSE Failed,
   addr |-> IF outcome = "ok" THEN target[i] ELSE NoAddr]

zdo_match_result(i, outcome) ==
  /\ req[i] = "find"
  /\ outcome = "ok" => target[i] \in Sensors
  /\ Deliver(i)
  /\ s_match_q' = IF s_match_q = NoItem THEN MatchItem(i, outcome) ELSE s_match_q
  /\ UNCHANGED <<rpcVars, done, cache, cb, heap, lastVars>>

\* A callback first resets the variable it reports in: memset for the structs, -1
\* for the two error variables.
BlankErr(op) == IF IsStruct(op) THEN 0 ELSE Failed

\* Mutation: the permit is given before the variable is filled in.
CbResetGives(i, outcome) ==
  /\ req[i] \notin {"none", "find"}
  /\ Deliver(i)
  /\ cache' = [cache EXCEPT ![Slot(req[i])] =
                 [err |-> BlankErr(req[i]), by |-> i, data |-> "blank"]]
  /\ cb' = [id |-> i, step |-> "fill", outcome |-> outcome]
  /\ done' = [done EXCEPT ![Slot(req[i])] = TRUE]
  /\ UNCHANGED <<rpcVars, s_match_q, heap, lastVars>>

CbReset(i, outcome) ==
  /\ req[i] \notin {"none", "find"}
  /\ outcome = "ok" /\ req[i] = "temp" => target[i] \in Sensors
  /\ outcome \in {"error", "null"} => IsBind(req[i])
  /\ Deliver(i)
  /\ cache' = [cache EXCEPT ![Slot(req[i])] =
                 [err |-> BlankErr(req[i]), by |-> i, data |-> "blank"]]
  /\ cb' = [id |-> i, step |-> "fill", outcome |-> outcome]
  /\ UNCHANGED <<rpcVars, s_match_q, done, heap, lastVars>>

CbErrOf(op, outcome) ==
  IF outcome = "ok" THEN 0
  ELSE IF outcome = "refused" /\ IsBind(op) THEN ZdpStatus
  ELSE IF outcome = "error" THEN EzbErr
  ELSE Failed

\* Then it fills it in; a temperature answer also updates s_last_temp.
CbFill ==
  /\ cb.step = "fill"
  /\ cache' = [cache EXCEPT ![Slot(req[cb.id])] =
                 [err |-> CbErrOf(req[cb.id], cb.outcome), by |-> cb.id, data |-> "full"]]
  /\ s_last_temp' = IF req[cb.id] = "temp" /\ cb.outcome = "ok" THEN target[cb.id]
                    ELSE s_last_temp
  /\ cb' = [id |-> cb.id, step |-> "give", outcome |-> cb.outcome]
  /\ UNCHANGED <<rpcVars, s_match_q, done, outstanding, heap, s_last_sensor_addr>>

\* Last it gives the permit; zdo_bind_result frees the bind_req it was given.
CbGive ==
  /\ cb.step = "give"
  /\ done' = [done EXCEPT ![Slot(req[cb.id])] = TRUE]
  /\ IF IsBind(req[cb.id]) THEN free(cb.id) ELSE UNCHANGED heap
  /\ cb' = NoCb
  /\ UNCHANGED <<rpcVars, s_match_q, cache, outstanding, lastVars>>

\* Any device may report attributes of any cluster it has; the header may lack a
\* short source address and the report the measured value.
Clusters(a) == IF a \in Sensors THEN {"temperature", "other"} ELSE {"other"}

\* Mutation: the cluster is not looked at.
ReportAnyCluster(a, cluster, short, measured) ==
  /\ LockFree
  /\ cluster \in Clusters(a)
  /\ s_last_sensor_addr' = IF short THEN a ELSE s_last_sensor_addr
  /\ s_last_temp' = IF measured THEN a ELSE s_last_temp
  /\ UNCHANGED <<rpcVars, slotVars, stackVars, heap>>

zcl_report_attr(a, cluster, short, measured) ==
  /\ LockFree
  /\ cluster \in Clusters(a)
  /\ cluster = "temperature"
  /\ s_last_sensor_addr' = IF short THEN a ELSE s_last_sensor_addr
  /\ s_last_temp' = IF measured THEN a ELSE s_last_temp
  /\ UNCHANGED <<rpcVars, slotVars, stackVars, heap>>

-----------------------------------------------------------------------------
RpcStep == \/ IssueAccepted \/ IssueLookupFails \/ IssueRejected
           \/ ReceiveMatch \/ TakePermit \/ CopyErr \/ CopyBody \/ Timeout

CbStep == CbFill \/ CbGive

Next ==
  \/ \E op \in Ops, a \in Addr : Begin(op, a) \/ CallocFails(op, a)
  \/ RpcStep
  \/ \E i \in Ids, outcome \in Outcomes :
        zdo_match_result(i, outcome) \/ CbReset(i, outcome)
  \/ CbStep
  \/ \E a \in Addr, cluster \in {"temperature", "other"}, short, measured \in BOOLEAN :
        zcl_report_attr(a, cluster, short, measured)

\* The RPC task and a callback that has begun are scheduled; whether and when an
\* answer arrives is up to the network.
Spec == Init /\ [][Next]_vars /\ WF_vars(RpcStep) /\ WF_vars(CbStep)

-----------------------------------------------------------------------------
(***************************************************************************)
(* Properties.                                                             *)
(***************************************************************************)
\* Every static variable of the file holds a value of its type.
TypeOK ==
  /\ pc \in {"idle", "issue", "wait", "copy", "copy_body"}
  /\ call \in [id : 0..MaxCalls, op : AllOps, addr : Addr \cup {NoAddr}]
  /\ req \in [Ids -> AllOps \cup {"none"}]
  /\ target \in [Ids -> Addr \cup {NoAddr}]
  /\ suspects \subseteq Ids
  /\ outstanding \in [Ids -> Nat]
  /\ cb \in Callbacks
  /\ s_match_q \in MatchItems
  /\ done \in [Slots -> BOOLEAN]
  /\ cache \in [Slots -> Cells]
  /\ heap \in [Ids -> {"none", "live", "freed", "double"}]
  /\ s_last_sensor_addr \in Addr \cup {NoAddr}
  /\ s_last_temp \in Addr \cup {NoAddr}
  /\ result \in Results

Returned == pc = "idle" /\ result.id # 0

\* Every field a call returns was written by the answer to that very call, or by an
\* answer that was still on its way to the same slot when the call drained it (the
\* drains at the start of find_sensor, read_basic, bind_common, config_report and
\* read_temp discard everything older).
ReplyProvenance ==
  Returned => {result.errBy, result.bodyBy} \subseteq {result.id} \cup suspects

\* A call that found no earlier request of its slot in flight returns one complete
\* answer, never a variable that a callback has reset and not yet filled in.
\* config_report is left out: several bound devices answer it.
ReplyComplete ==
  Returned /\ suspects = {} /\ req[result.id] # "report" => result.data = "full"

\* A bind_req is never freed twice and never freed while the stack may still call
\* back with it; and it is never leaked: a live one has an owner that will free it,
\* either bind_common before the stack accepts it or the callback afterwards.
BindReqOwnership ==
  \A i \in Ids :
    /\ heap[i] # "double"
    /\ heap[i] = "live" <=> /\ req[i] # "none" /\ IsBind(req[i])
                            /\ \/ pc = "issue" /\ call.id = i
                               \/ outstanding[i] > 0
                               \/ cb.id = i

\* What get_sensor_addr and get_last_temp return stems from a temperature sensor,
\* whatever else reports to the coordinator and whichever answers come late.
SensorProvenance ==
  {s_last_sensor_addr, s_last_temp} \subseteq Sensors \cup {NoAddr}

\* A sensor once remembered is not forgotten: find_sensor stores the address "so a
\* later client run can skip commissioning".
SensorStaysRemembered ==
  [][s_last_sensor_addr # NoAddr => s_last_sensor_addr' # NoAddr]_vars

\* Every call into the stack returns, whether or not an answer ever arrives: the RPC
\* task is never blocked for good by the radio.
EveryCallReturns == pc # "idle" ~> pc = "idle"

=============================================================================
