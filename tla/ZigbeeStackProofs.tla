------------------------- MODULE ZigbeeStackProofs -------------------------
(***************************************************************************)
(* Proofs of the safety properties of ZigbeeStack, for any set of devices, *)
(* any number of bound devices and any number of calls.                    *)
(***************************************************************************)
EXTENDS ZigbeeStack, TLAPS

(***************************************************************************)
(* The inductive invariant.  The properties speak of finished calls; what  *)
(* carries them is what holds while a call is under way.                   *)
(***************************************************************************)
\* Requests are numbered in order, and only a request that was issued has answers
\* to come.  Every operation but config_report has at most one, counting the one a
\* callback is working on.
NumberingInv ==
  /\ \A i \in Ids : i > call.id => req[i] = "none"
  /\ \A i \in Ids : req[i] = "none" => outstanding[i] = 0 /\ heap[i] = "none"
  /\ \A i \in Ids : req[i] # "report" => /\ outstanding[i] <= 1
                                         /\ cb.id = i => outstanding[i] = 0
  /\ pc # "idle" => call.id \in Ids /\ req[call.id] = call.op
  /\ pc = "issue" => outstanding[call.id] = 0 /\ cb.id # call.id
  /\ pc \in {"copy", "copy_body"} => call.op # "find"

\* While a callback runs, the variable of its slot is the callback's.
CallbackInv ==
  /\ cb.id = 0 <=> cb.step = "none"
  /\ cb.id # 0 => /\ req[cb.id] \notin {"none", "find"}
                  /\ cache[Slot(req[cb.id])].by = cb.id
                  /\ cb.step = "give" => cache[Slot(req[cb.id])].data = "full"

\* The requests whose answers the current call may return.
Allowed == {call.id} \cup suspects
Here    == Slot(call.op)

\* Whatever is in the slot of the current call, or can still reach it, belongs to an
\* allowed request.
SlotInv ==
  pc # "idle" =>
    /\ \A i \in Ids : req[i] # "none" /\ Slot(req[i]) = Here
                        /\ (outstanding[i] > 0 \/ cb.id = i) => i \in Allowed
    /\ Here = "match" /\ s_match_q # NoItem => s_match_q.src \in Allowed
    /\ Here # "match" /\ (done[Here] \/ pc \in {"copy", "copy_body"})
         => cache[Here].by \in Allowed
    /\ pc = "copy_body" => result.id = call.id /\ result.errBy \in Allowed

\* With nothing else in flight, the permit of the slot is there only once the one
\* answer has been filled in completely.
CompleteInv ==
  pc # "idle" /\ suspects = {} /\ call.op \notin {"find", "report"} =>
    /\ pc = "issue" => ~done[Here]
    /\ done[Here] \/ pc \in {"copy", "copy_body"} => /\ cache[Here].data = "full"
                                                     /\ outstanding[call.id] = 0
                                                     /\ cb.id # call.id
    /\ pc = "copy_body" => result.data = "full"

\* Where the sensor addresses come from before they are stored.
SourceInv ==
  /\ s_match_q.err = 0 => s_match_q.addr \in Sensors \cup {NoAddr}
  /\ cb.id # 0 /\ req[cb.id] = "temp" /\ cb.outcome = "ok" => target[cb.id] \in Sensors

IInv == /\ TypeOK
        /\ NumberingInv
        /\ CallbackInv
        /\ SlotInv
        /\ CompleteInv
        /\ SourceInv
        /\ ReplyProvenance
        /\ ReplyComplete
        /\ BindReqOwnership
        /\ SensorProvenance


\* What the helpers return.
LEMMA HelperTypes ==
  /\ \A op \in AllOps : /\ Slot(op) \in Slots
                        /\ Responses(op) \in Nat
                        /\ BlankErr(op) \in Errors
                        /\ \A o \in Outcomes : CbErrOf(op, o) \in Errors
  /\ {0, Failed, TimedOut, EzbErr, ZdpStatus} \subseteq Errors
  /\ NoItem \in MatchItems
  /\ NoCb \in Callbacks
BY BoundAssumption
   DEF AllOps, Slots, Slot, Responses, BlankErr, CbErrOf, Outcomes, Errors, NoItem, NoCb,
       MatchItems, Callbacks, NoAddr, Failed, TimedOut, EzbErr, ZdpStatus, IsBind, IsStruct

\* A match item built by the callback.
LEMMA MatchItemType ==
  ASSUME TypeOK, NEW i \in Ids, NEW outcome \in Outcomes
  PROVE  MatchItem(i, outcome) \in MatchItems
BY HelperTypes DEF TypeOK, MatchItem, MatchItems, Ids

\* Every step keeps every variable in its type.
LEMMA TypeOKStep ==
  ASSUME TypeOK, CallbackInv, [Next]_vars
  PROVE  TypeOK'
<1>1. ASSUME NEW op \in Ops, NEW a \in Addr, Begin(op, a) PROVE TypeOK'
  <2>1. call.id + 1 \in Ids /\ call.id + 1 \in 0..MaxCalls /\ op \in AllOps /\ Slot(op) \in Slots
    BY <1>1, OpsAssumption, BoundAssumption, HelperTypes DEF Begin, Start, TypeOK, Ids
  <2>2. /\ call' \in [id : 0..MaxCalls, op : AllOps, addr : Addr \cup {NoAddr}]
        /\ req' \in [Ids -> AllOps \cup {"none"}]
        /\ target' \in [Ids -> Addr \cup {NoAddr}]
    BY <1>1, <2>1 DEF Begin, Start, TypeOK
  <2>3. s_match_q' \in MatchItems /\ done' \in [Slots -> BOOLEAN]
    BY <1>1, <2>1, HelperTypes DEF Begin, Drain, TypeOK
  <2>4. suspects' \subseteq Ids /\ heap' \in [Ids -> {"none", "live", "freed", "double"}]
    BY <1>1, <2>1 DEF Begin, InFlight, TypeOK
  <2>5. QED
    BY <1>1, <2>2, <2>3, <2>4 DEF Begin, TypeOK, stackVars, lastVars
<1>2. ASSUME NEW op \in Ops, NEW a \in Addr, CallocFails(op, a) PROVE TypeOK'
  <2>1. call.id + 1 \in Ids /\ call.id + 1 \in 0..MaxCalls /\ op \in AllOps
    BY <1>2, OpsAssumption, BoundAssumption DEF CallocFails, Start, TypeOK, Ids
  <2>2. /\ call' \in [id : 0..MaxCalls, op : AllOps, addr : Addr \cup {NoAddr}]
        /\ req' \in [Ids -> AllOps \cup {"none"}]
        /\ target' \in [Ids -> Addr \cup {NoAddr}]
    BY <1>2, <2>1 DEF CallocFails, Start, TypeOK
  <2>3. result' \in Results
    BY <1>2, <2>1, HelperTypes DEF CallocFails, ReturnError, Results
  <2>4. QED
    BY <1>2, <2>2, <2>3 DEF CallocFails, TypeOK, slotVars, stackVars, lastVars
<1>3. CASE IssueAccepted
  <2>1. call.id \in 0..MaxCalls /\ Responses(call.op) \in Nat
    BY HelperTypes DEF TypeOK
  <2>2. outstanding' \in [Ids -> Nat]
    BY <1>3, <2>1 DEF IssueAccepted, TypeOK
  <2>3. QED
    BY <1>3, <2>2 DEF IssueAccepted, TypeOK, slotVars, lastVars
<1>4. CASE IssueLookupFails
  <2>1. result' \in Results
    BY <1>4, HelperTypes DEF IssueLookupFails, ReturnError, TypeOK, Results
  <2>2. heap' \in [Ids -> {"none", "live", "freed", "double"}]
    BY <1>4 DEF IssueLookupFails, free, TypeOK
  <2>3. QED
    BY <1>4, <2>1, <2>2 DEF IssueLookupFails, TypeOK, slotVars, stackVars, lastVars
<1>5. CASE IssueRejected
  <2>1. result' \in Results
    BY <1>5, HelperTypes DEF IssueRejected, ReturnError, TypeOK, Results
  <2>2. heap' \in [Ids -> {"none", "live", "freed", "double"}]
    BY <1>5 DEF IssueRejected, free, TypeOK
  <2>3. QED
    BY <1>5, <2>1, <2>2 DEF IssueRejected, TypeOK, slotVars, stackVars, lastVars
<1>6. CASE ReceiveMatch
  <2>1. s_match_q' \in MatchItems /\ s_last_sensor_addr' \in Addr \cup {NoAddr}
    BY <1>6, HelperTypes DEF ReceiveMatch, TypeOK, MatchItems
  <2>2. result' \in Results
    BY <1>6 DEF ReceiveMatch, TypeOK, MatchItems, Results
  <2>3. QED
    BY <1>6, <2>1, <2>2 DEF ReceiveMatch, TypeOK, stackVars
<1>7. CASE TakePermit
  BY <1>7 DEF TakePermit, TypeOK, stackVars, lastVars
<1>8. CASE CopyErr
  <2>1. cache[Slot(call.op)] \in Cells /\ call.id \in 0..MaxCalls
    BY HelperTypes DEF TypeOK
  <2>2. result' \in Results
    BY <1>8, <2>1 DEF CopyErr, Cells, Results
  <2>3. QED
    BY <1>8, <2>2 DEF CopyErr, TypeOK, slotVars, stackVars, lastVars
<1>9. CASE CopyBody
  <2>1. cache[Slot(call.op)] \in Cells /\ call.id \in 0..MaxCalls /\ result \in Results
    BY HelperTypes DEF TypeOK
  <2>2. result' \in Results
    BY <1>9, <2>1 DEF CopyBody, Cells, Results
  <2>3. QED
    BY <1>9, <2>2 DEF CopyBody, TypeOK, slotVars, stackVars, lastVars
<1>10. CASE Timeout
  <2>1. result' \in Results
    BY <1>10, HelperTypes DEF Timeout, ReturnError, TypeOK, Results
  <2>2. QED
    BY <1>10, <2>1 DEF Timeout, TypeOK, slotVars, stackVars, lastVars
<1>11. CASE CbFill
  <2>1. cb.id \in Ids /\ req[cb.id] \in AllOps
    BY <1>11, BoundAssumption DEF CbFill, CallbackInv, TypeOK, Callbacks, Ids
  <2>2. Slot(req[cb.id]) \in Slots /\ CbErrOf(req[cb.id], cb.outcome) \in Errors
    BY <2>1, HelperTypes DEF TypeOK, Callbacks
  <2>3. cache' \in [Slots -> Cells]
    BY <1>11, <2>1, <2>2 DEF CbFill, TypeOK, Cells, Ids
  <2>4. cb' \in Callbacks /\ s_last_temp' \in Addr \cup {NoAddr}
    BY <1>11, <2>1 DEF CbFill, TypeOK, Callbacks
  <2>5. QED
    BY <1>11, <2>3, <2>4 DEF CbFill, TypeOK, rpcVars
<1>12. CASE CbGive
  <2>1. cb.id \in Ids /\ req[cb.id] \in AllOps
    BY <1>12, BoundAssumption DEF CbGive, CallbackInv, TypeOK, Callbacks, Ids
  <2>2. done' \in [Slots -> BOOLEAN] /\ cb' \in Callbacks
    BY <1>12, <2>1, HelperTypes DEF CbGive, TypeOK
  <2>3. heap' \in [Ids -> {"none", "live", "freed", "double"}]
    BY <1>12, <2>1 DEF CbGive, free, TypeOK
  <2>4. QED
    BY <1>12, <2>2, <2>3 DEF CbGive, TypeOK, rpcVars, lastVars
<1>13. ASSUME NEW i \in Ids, NEW outcome \in Outcomes, zdo_match_result(i, outcome)
      PROVE  TypeOK'
  <2>1. MatchItem(i, outcome) \in MatchItems
    BY MatchItemType
  <2>2. s_match_q' \in MatchItems /\ outstanding' \in [Ids -> Nat]
    BY <1>13, <2>1 DEF zdo_match_result, Deliver, TypeOK
  <2>3. QED
    BY <1>13, <2>2 DEF zdo_match_result, TypeOK, rpcVars, lastVars
<1>14. ASSUME NEW i \in Ids, NEW outcome \in Outcomes, CbReset(i, outcome)
      PROVE  TypeOK'
  <2>1. req[i] \in AllOps
    BY <1>14 DEF CbReset, TypeOK
  <2>2. Slot(req[i]) \in Slots /\ BlankErr(req[i]) \in Errors
    BY <2>1, HelperTypes
  <2>3. cache' \in [Slots -> Cells] /\ cb' \in Callbacks
    BY <1>14, <2>2, BoundAssumption DEF CbReset, TypeOK, Cells, Callbacks, Ids
  <2>4. outstanding' \in [Ids -> Nat]
    BY <1>14 DEF CbReset, Deliver, TypeOK
  <2>5. QED
    BY <1>14, <2>3, <2>4 DEF CbReset, TypeOK, rpcVars, lastVars
<1>15. ASSUME NEW a \in Addr, NEW cluster \in {"temperature", "other"},
             NEW short \in BOOLEAN, NEW measured \in BOOLEAN,
             zcl_report_attr(a, cluster, short, measured)
      PROVE  TypeOK'
  <2>1. s_last_sensor_addr' \in Addr \cup {NoAddr} /\ s_last_temp' \in Addr \cup {NoAddr}
    BY <1>15 DEF zcl_report_attr, TypeOK
  <2>2. QED
    BY <1>15, <2>1 DEF zcl_report_attr, TypeOK, rpcVars, slotVars, stackVars
<1>16. CASE UNCHANGED vars
  BY <1>16 DEF vars, TypeOK, rpcVars, slotVars, stackVars, lastVars
<1>17. QED
  BY <1>1, <1>2, <1>3, <1>4, <1>5, <1>6, <1>7, <1>8, <1>9, <1>10, <1>11, <1>12, <1>13,
     <1>14, <1>15, <1>16 DEF Next, RpcStep, CbStep

\* The numbering of the requests and of their answers.
LEMMA NumberingStep ==
  ASSUME IInv, [Next]_vars
  PROVE  NumberingInv'
<1>1. ASSUME NEW op \in Ops, NEW a \in Addr, Begin(op, a) PROVE NumberingInv'
  BY <1>1, BoundAssumption, OpsAssumption DEF Begin, Start, Drain, InFlight, AllOps, IInv,
     NumberingInv, CallbackInv, TypeOK, rpcVars, slotVars, stackVars, lastVars, Ids,
     Callbacks, NoCb, Responses, LockFree
<1>2. ASSUME NEW op \in Ops, NEW a \in Addr, CallocFails(op, a) PROVE NumberingInv'
  BY <1>2, BoundAssumption, OpsAssumption DEF CallocFails, Start, ReturnError, AllOps,
     IInv, NumberingInv, CallbackInv, TypeOK, rpcVars, slotVars, stackVars, lastVars, Ids,
     Callbacks, NoCb, Responses, LockFree
<1>3. CASE IssueAccepted
  BY <1>3, BoundAssumption, OpsAssumption DEF IssueAccepted, AllOps, IInv, NumberingInv,
     CallbackInv, TypeOK, rpcVars, slotVars, stackVars, lastVars, Ids, Callbacks, NoCb,
     Responses, LockFree
<1>4. CASE IssueLookupFails
  BY <1>4, BoundAssumption, OpsAssumption DEF IssueLookupFails, ReturnError, free, AllOps,
     IInv, NumberingInv, CallbackInv, TypeOK, rpcVars, slotVars, stackVars, lastVars, Ids,
     Callbacks, NoCb, Responses, LockFree
<1>5. CASE IssueRejected
  BY <1>5, BoundAssumption, OpsAssumption DEF IssueRejected, ReturnError, free, AllOps,
     IInv, NumberingInv, CallbackInv, TypeOK, rpcVars, slotVars, stackVars, lastVars, Ids,
     Callbacks, NoCb, Responses, LockFree
<1>6. CASE ReceiveMatch
  BY <1>6, BoundAssumption, OpsAssumption DEF ReceiveMatch, IInv, NumberingInv,
     CallbackInv, TypeOK, rpcVars, slotVars, stackVars, lastVars, Ids, Callbacks, NoCb,
     Responses, LockFree
<1>7. CASE TakePermit
  BY <1>7, BoundAssumption, OpsAssumption DEF TakePermit, IInv, NumberingInv, CallbackInv,
     TypeOK, rpcVars, slotVars, stackVars, lastVars, Ids, Callbacks, NoCb, Responses,
     LockFree
<1>8. CASE CopyErr
  BY <1>8, BoundAssumption, OpsAssumption DEF CopyErr, IInv, NumberingInv, CallbackInv,
     TypeOK, rpcVars, slotVars, stackVars, lastVars, Ids, Callbacks, NoCb, Responses,
     LockFree
<1>9. CASE CopyBody
  BY <1>9, BoundAssumption, OpsAssumption DEF CopyBody, IInv, NumberingInv, CallbackInv,
     TypeOK, rpcVars, slotVars, stackVars, lastVars, Ids, Callbacks, NoCb, Responses,
     LockFree
<1>10. CASE Timeout
  BY <1>10, BoundAssumption, OpsAssumption DEF Timeout, ReturnError, IInv, NumberingInv,
     CallbackInv, TypeOK, rpcVars, slotVars, stackVars, lastVars, Ids, Callbacks, NoCb,
     Responses, LockFree
<1>11. CASE CbFill
  BY <1>11, BoundAssumption, OpsAssumption DEF CbFill, IInv, NumberingInv, CallbackInv,
     TypeOK, rpcVars, slotVars, stackVars, lastVars, Ids, Callbacks, NoCb, Responses,
     LockFree
<1>12. CASE CbGive
  BY <1>12, BoundAssumption, OpsAssumption DEF CbGive, free, IInv, NumberingInv,
     CallbackInv, TypeOK, rpcVars, slotVars, stackVars, lastVars, Ids, Callbacks, NoCb,
     Responses, LockFree
<1>13. ASSUME NEW i \in Ids, NEW outcome \in Outcomes, zdo_match_result(i, outcome)
      PROVE  NumberingInv'
  BY <1>13, BoundAssumption, OpsAssumption DEF zdo_match_result, Deliver, IInv,
     NumberingInv, CallbackInv, TypeOK, rpcVars, slotVars, stackVars, lastVars, Ids,
     Callbacks, NoCb, Responses, LockFree
<1>14. ASSUME NEW i \in Ids, NEW outcome \in Outcomes, CbReset(i, outcome)
      PROVE  NumberingInv'
  BY <1>14, BoundAssumption, OpsAssumption DEF CbReset, Deliver, IInv, NumberingInv,
     CallbackInv, TypeOK, rpcVars, slotVars, stackVars, lastVars, Ids, Callbacks, NoCb,
     Responses, LockFree
<1>15. ASSUME NEW a \in Addr, NEW cluster \in {"temperature", "other"},
             NEW short \in BOOLEAN, NEW measured \in BOOLEAN,
             zcl_report_attr(a, cluster, short, measured)
      PROVE  NumberingInv'
  BY <1>15, BoundAssumption, OpsAssumption DEF zcl_report_attr, Clusters, IInv,
     NumberingInv, CallbackInv, TypeOK, rpcVars, slotVars, stackVars, lastVars, Ids,
     Callbacks, NoCb, Responses, LockFree
<1>16. CASE UNCHANGED vars
  BY <1>16, BoundAssumption, OpsAssumption DEF vars, IInv, NumberingInv, CallbackInv,
     TypeOK, rpcVars, slotVars, stackVars, lastVars, Ids, Callbacks, NoCb, Responses,
     LockFree
<1>17. QED
  BY <1>1, <1>2, <1>3, <1>4, <1>5, <1>6, <1>7, <1>8, <1>9, <1>10, <1>11, <1>12, <1>13,
     <1>14, <1>15, <1>16 DEF Next, RpcStep, CbStep

\* The variable a running callback is working on.
LEMMA CallbackStep ==
  ASSUME IInv, [Next]_vars
  PROVE  CallbackInv'
<1>1. ASSUME NEW op \in Ops, NEW a \in Addr, Begin(op, a) PROVE CallbackInv'
  BY <1>1, BoundAssumption, OpsAssumption, HelperTypes DEF Begin, Start, Drain, InFlight,
     IInv, NumberingInv, CallbackInv, TypeOK, rpcVars, slotVars, stackVars, lastVars, Ids,
     Callbacks, NoCb, LockFree
<1>2. ASSUME NEW op \in Ops, NEW a \in Addr, CallocFails(op, a) PROVE CallbackInv'
  BY <1>2, BoundAssumption, OpsAssumption, HelperTypes DEF CallocFails, Start, ReturnError,
     IInv, NumberingInv, CallbackInv, TypeOK, rpcVars, slotVars, stackVars, lastVars, Ids,
     Callbacks, NoCb, LockFree
<1>3. CASE IssueAccepted
  BY <1>3, BoundAssumption, OpsAssumption, HelperTypes DEF IssueAccepted, IInv,
     NumberingInv, CallbackInv, TypeOK, rpcVars, slotVars, stackVars, lastVars, Ids,
     Callbacks, NoCb, LockFree
<1>4. CASE IssueLookupFails
  BY <1>4, BoundAssumption, OpsAssumption, HelperTypes DEF IssueLookupFails, ReturnError,
     free, IInv, NumberingInv, CallbackInv, TypeOK, rpcVars, slotVars, stackVars, lastVars,
     Ids, Callbacks, NoCb, LockFree
<1>5. CASE IssueRejected
  BY <1>5, BoundAssumption, OpsAssumption, HelperTypes DEF IssueRejected, ReturnError,
     free, IInv, NumberingInv, CallbackInv, TypeOK, rpcVars, slotVars, stackVars, lastVars,
     Ids, Callbacks, NoCb, LockFree
<1>6. CASE ReceiveMatch
  BY <1>6, BoundAssumption, OpsAssumption, HelperTypes DEF ReceiveMatch, IInv,
     NumberingInv, CallbackInv, TypeOK, rpcVars, slotVars, stackVars, lastVars, Ids,
     Callbacks, NoCb, LockFree
<1>7. CASE TakePermit
  BY <1>7, BoundAssumption, OpsAssumption, HelperTypes DEF TakePermit, IInv, NumberingInv,
     CallbackInv, TypeOK, rpcVars, slotVars, stackVars, lastVars, Ids, Callbacks, NoCb,
     LockFree
<1>8. CASE CopyErr
  BY <1>8, BoundAssumption, OpsAssumption, HelperTypes DEF CopyErr, IInv, NumberingInv,
     CallbackInv, TypeOK, rpcVars, slotVars, stackVars, lastVars, Ids, Callbacks, NoCb,
     LockFree
<1>9. CASE CopyBody
  BY <1>9, BoundAssumption, OpsAssumption, HelperTypes DEF CopyBody, IInv, NumberingInv,
     CallbackInv, TypeOK, rpcVars, slotVars, stackVars, lastVars, Ids, Callbacks, NoCb,
     LockFree
<1>10. CASE Timeout
  BY <1>10, BoundAssumption, OpsAssumption, HelperTypes DEF Timeout, ReturnError, IInv,
     NumberingInv, CallbackInv, TypeOK, rpcVars, slotVars, stackVars, lastVars, Ids,
     Callbacks, NoCb, LockFree
<1>11. CASE CbFill
  BY <1>11, BoundAssumption, OpsAssumption, HelperTypes DEF CbFill, IInv, NumberingInv,
     CallbackInv, TypeOK, rpcVars, slotVars, stackVars, lastVars, Ids, Callbacks, NoCb,
     LockFree
<1>12. CASE CbGive
  BY <1>12, BoundAssumption, OpsAssumption, HelperTypes DEF CbGive, free, IInv,
     NumberingInv, CallbackInv, TypeOK, rpcVars, slotVars, stackVars, lastVars, Ids,
     Callbacks, NoCb, LockFree
<1>13. ASSUME NEW i \in Ids, NEW outcome \in Outcomes, zdo_match_result(i, outcome)
      PROVE  CallbackInv'
  BY <1>13, BoundAssumption, OpsAssumption, HelperTypes DEF zdo_match_result, Deliver, IInv,
     NumberingInv, CallbackInv, TypeOK, rpcVars, slotVars, stackVars, lastVars, Ids,
     Callbacks, NoCb, LockFree
<1>14. ASSUME NEW i \in Ids, NEW outcome \in Outcomes, CbReset(i, outcome)
      PROVE  CallbackInv'
  BY <1>14, BoundAssumption, OpsAssumption, HelperTypes DEF CbReset, Deliver, IInv,
     NumberingInv, CallbackInv, TypeOK, rpcVars, slotVars, stackVars, lastVars, Ids,
     Callbacks, NoCb, LockFree
<1>15. ASSUME NEW a \in Addr, NEW cluster \in {"temperature", "other"},
             NEW short \in BOOLEAN, NEW measured \in BOOLEAN,
             zcl_report_attr(a, cluster, short, measured)
      PROVE  CallbackInv'
  BY <1>15, BoundAssumption, OpsAssumption, HelperTypes DEF zcl_report_attr, Clusters, IInv,
     NumberingInv, CallbackInv, TypeOK, rpcVars, slotVars, stackVars, lastVars, Ids,
     Callbacks, NoCb, LockFree
<1>16. CASE UNCHANGED vars
  BY <1>16, BoundAssumption, OpsAssumption, HelperTypes DEF vars, IInv, NumberingInv,
     CallbackInv, TypeOK, rpcVars, slotVars, stackVars, lastVars, Ids, Callbacks, NoCb,
     LockFree
<1>17. QED
  BY <1>1, <1>2, <1>3, <1>4, <1>5, <1>6, <1>7, <1>8, <1>9, <1>10, <1>11, <1>12, <1>13,
     <1>14, <1>15, <1>16 DEF Next, RpcStep, CbStep


\* Only find_sensor uses the match queue, and only bind and subscribe share a slot.
LEMMA SlotFacts ==
  ASSUME NEW op \in AllOps
  PROVE  /\ op # "none"
         /\ Slot(op) = "match" <=> op = "find"
         /\ IsBind(op) => op \notin {"find", "report"}
         /\ op = "report" <=> Slot(op) = "report"
BY DEF AllOps, Slot, IsBind

\* Whatever can reach the slot of the current call belongs to an allowed request.
LEMMA SlotStep ==
  ASSUME IInv, [Next]_vars
  PROVE  SlotInv'
<1>1. ASSUME NEW op \in Ops, NEW a \in Addr, Begin(op, a) PROVE SlotInv'
  BY <1>1, BoundAssumption, OpsAssumption, HelperTypes, SlotFacts DEF Begin, Start, Drain,
     InFlight, IInv, NumberingInv, CallbackInv, SlotInv, Allowed, Here, TypeOK, rpcVars,
     slotVars, stackVars, lastVars, Ids, Callbacks, NoCb, LockFree
<1>2. ASSUME NEW op \in Ops, NEW a \in Addr, CallocFails(op, a) PROVE SlotInv'
  BY <1>2, BoundAssumption, OpsAssumption, HelperTypes, SlotFacts DEF CallocFails, Start,
     ReturnError, IInv, NumberingInv, CallbackInv, SlotInv, Allowed, Here, TypeOK, rpcVars,
     slotVars, stackVars, lastVars, Ids, Callbacks, NoCb, LockFree
<1>3. CASE IssueAccepted
  BY <1>3, BoundAssumption, OpsAssumption, HelperTypes, SlotFacts DEF IssueAccepted, IInv,
     NumberingInv, CallbackInv, SlotInv, Allowed, Here, TypeOK, rpcVars, slotVars,
     stackVars, lastVars, Ids, Callbacks, NoCb, LockFree
<1>4. CASE IssueLookupFails
  BY <1>4, BoundAssumption, OpsAssumption, HelperTypes, SlotFacts DEF IssueLookupFails,
     ReturnError, free, IInv, NumberingInv, CallbackInv, SlotInv, Allowed, Here, TypeOK,
     rpcVars, slotVars, stackVars, lastVars, Ids, Callbacks, NoCb, LockFree
<1>5. CASE IssueRejected
  BY <1>5, BoundAssumption, OpsAssumption, HelperTypes, SlotFacts DEF IssueRejected,
     ReturnError, free, IInv, NumberingInv, CallbackInv, SlotInv, Allowed, Here, TypeOK,
     rpcVars, slotVars, stackVars, lastVars, Ids, Callbacks, NoCb, LockFree
<1>6. CASE ReceiveMatch
  BY <1>6, BoundAssumption, OpsAssumption, HelperTypes, SlotFacts DEF ReceiveMatch, IInv,
     NumberingInv, CallbackInv, SlotInv, Allowed, Here, TypeOK, rpcVars, slotVars,
     stackVars, lastVars, Ids, Callbacks, NoCb, LockFree
<1>7. CASE TakePermit
  BY <1>7, BoundAssumption, OpsAssumption, HelperTypes, SlotFacts DEF TakePermit, IInv,
     NumberingInv, CallbackInv, SlotInv, Allowed, Here, TypeOK, rpcVars, slotVars,
     stackVars, lastVars, Ids, Callbacks, NoCb, LockFree
<1>8. CASE CopyErr
  BY <1>8, BoundAssumption, OpsAssumption, HelperTypes, SlotFacts DEF CopyErr, IInv,
     NumberingInv, CallbackInv, SlotInv, Allowed, Here, TypeOK, rpcVars, slotVars,
     stackVars, lastVars, Ids, Callbacks, NoCb, LockFree
<1>9. CASE CopyBody
  BY <1>9, BoundAssumption, OpsAssumption, HelperTypes, SlotFacts DEF CopyBody, IInv,
     NumberingInv, CallbackInv, SlotInv, Allowed, Here, TypeOK, rpcVars, slotVars,
     stackVars, lastVars, Ids, Callbacks, NoCb, LockFree
<1>10. CASE Timeout
  BY <1>10, BoundAssumption, OpsAssumption, HelperTypes, SlotFacts DEF Timeout, ReturnError,
     IInv, NumberingInv, CallbackInv, SlotInv, Allowed, Here, TypeOK, rpcVars, slotVars,
     stackVars, lastVars, Ids, Callbacks, NoCb, LockFree
<1>11. CASE CbFill
  BY <1>11, BoundAssumption, OpsAssumption, HelperTypes, SlotFacts DEF CbFill, IInv,
     NumberingInv, CallbackInv, SlotInv, Allowed, Here, TypeOK, rpcVars, slotVars,
     stackVars, lastVars, Ids, Callbacks, NoCb, LockFree
<1>12. CASE CbGive
  BY <1>12, BoundAssumption, OpsAssumption, HelperTypes, SlotFacts DEF CbGive, free, IInv,
     NumberingInv, CallbackInv, SlotInv, Allowed, Here, TypeOK, rpcVars, slotVars,
     stackVars, lastVars, Ids, Callbacks, NoCb, LockFree
<1>13. ASSUME NEW i \in Ids, NEW outcome \in Outcomes, zdo_match_result(i, outcome)
      PROVE  SlotInv'
  BY <1>13, BoundAssumption, OpsAssumption, HelperTypes, SlotFacts DEF zdo_match_result,
     Deliver, MatchItem, NoItem, IInv, NumberingInv, CallbackInv, SlotInv, Allowed, Here,
     TypeOK, rpcVars, slotVars, stackVars, lastVars, Ids, Callbacks, NoCb, LockFree
<1>14. ASSUME NEW i \in Ids, NEW outcome \in Outcomes, CbReset(i, outcome)
      PROVE  SlotInv'
  BY <1>14, BoundAssumption, OpsAssumption, HelperTypes, SlotFacts DEF CbReset, Deliver,
     IInv, NumberingInv, CallbackInv, SlotInv, Allowed, Here, TypeOK, rpcVars, slotVars,
     stackVars, lastVars, Ids, Callbacks, NoCb, LockFree
<1>15. ASSUME NEW a \in Addr, NEW cluster \in {"temperature", "other"},
             NEW short \in BOOLEAN, NEW measured \in BOOLEAN,
             zcl_report_attr(a, cluster, short, measured)
      PROVE  SlotInv'
  BY <1>15, BoundAssumption, OpsAssumption, HelperTypes, SlotFacts DEF zcl_report_attr,
     Clusters, IInv, NumberingInv, CallbackInv, SlotInv, Allowed, Here, TypeOK, rpcVars,
     slotVars, stackVars, lastVars, Ids, Callbacks, NoCb, LockFree
<1>16. CASE UNCHANGED vars
  BY <1>16, BoundAssumption, OpsAssumption, HelperTypes, SlotFacts DEF vars, IInv,
     NumberingInv, CallbackInv, SlotInv, Allowed, Here, TypeOK, rpcVars, slotVars,
     stackVars, lastVars, Ids, Callbacks, NoCb, LockFree
<1>17. QED
  BY <1>1, <1>2, <1>3, <1>4, <1>5, <1>6, <1>7, <1>8, <1>9, <1>10, <1>11, <1>12, <1>13,
     <1>14, <1>15, <1>16 DEF Next, RpcStep, CbStep

\* With nothing else in flight, a permit stands for a complete answer.
LEMMA CompleteStep ==
  ASSUME IInv, [Next]_vars
  PROVE  CompleteInv'
<1>1. ASSUME NEW op \in Ops, NEW a \in Addr, Begin(op, a) PROVE CompleteInv'
  BY <1>1, BoundAssumption, OpsAssumption, HelperTypes, SlotFacts DEF Begin, Start, Drain,
     InFlight, IInv, NumberingInv, CallbackInv, SlotInv, CompleteInv, Allowed, Here,
     TypeOK, rpcVars, slotVars, stackVars, lastVars, Ids, Callbacks, NoCb, LockFree
<1>2. ASSUME NEW op \in Ops, NEW a \in Addr, CallocFails(op, a) PROVE CompleteInv'
  BY <1>2, BoundAssumption, OpsAssumption, HelperTypes, SlotFacts DEF CallocFails, Start,
     ReturnError, IInv, NumberingInv, CallbackInv, SlotInv, CompleteInv, Allowed, Here,
     TypeOK, rpcVars, slotVars, stackVars, lastVars, Ids, Callbacks, NoCb, LockFree
<1>3. CASE IssueAccepted
  BY <1>3, BoundAssumption, OpsAssumption, HelperTypes, SlotFacts DEF IssueAccepted, IInv,
     NumberingInv, CallbackInv, SlotInv, CompleteInv, Allowed, Here, TypeOK, rpcVars,
     slotVars, stackVars, lastVars, Ids, Callbacks, NoCb, LockFree
<1>4. CASE IssueLookupFails
  BY <1>4, BoundAssumption, OpsAssumption, HelperTypes, SlotFacts DEF IssueLookupFails,
     ReturnError, free, IInv, NumberingInv, CallbackInv, SlotInv, CompleteInv, Allowed,
     Here, TypeOK, rpcVars, slotVars, stackVars, lastVars, Ids, Callbacks, NoCb, LockFree
<1>5. CASE IssueRejected
  BY <1>5, BoundAssumption, OpsAssumption, HelperTypes, SlotFacts DEF IssueRejected,
     ReturnError, free, IInv, NumberingInv, CallbackInv, SlotInv, CompleteInv, Allowed,
     Here, TypeOK, rpcVars, slotVars, stackVars, lastVars, Ids, Callbacks, NoCb, LockFree
<1>6. CASE ReceiveMatch
  BY <1>6, BoundAssumption, OpsAssumption, HelperTypes, SlotFacts DEF ReceiveMatch, IInv,
     NumberingInv, CallbackInv, SlotInv, CompleteInv, Allowed, Here, TypeOK, rpcVars,
     slotVars, stackVars, lastVars, Ids, Callbacks, NoCb, LockFree
<1>7. CASE TakePermit
  BY <1>7, BoundAssumption, OpsAssumption, HelperTypes, SlotFacts DEF TakePermit, IInv,
     NumberingInv, CallbackInv, SlotInv, CompleteInv, Allowed, Here, TypeOK, rpcVars,
     slotVars, stackVars, lastVars, Ids, Callbacks, NoCb, LockFree
<1>8. CASE CopyErr
  BY <1>8, BoundAssumption, OpsAssumption, HelperTypes, SlotFacts DEF CopyErr, IInv,
     NumberingInv, CallbackInv, SlotInv, CompleteInv, Allowed, Here, TypeOK, rpcVars,
     slotVars, stackVars, lastVars, Ids, Callbacks, NoCb, LockFree
<1>9. CASE CopyBody
  BY <1>9, BoundAssumption, OpsAssumption, HelperTypes, SlotFacts DEF CopyBody, IInv,
     NumberingInv, CallbackInv, SlotInv, CompleteInv, Allowed, Here, TypeOK, rpcVars,
     slotVars, stackVars, lastVars, Ids, Callbacks, NoCb, LockFree
<1>10. CASE Timeout
  BY <1>10, BoundAssumption, OpsAssumption, HelperTypes, SlotFacts DEF Timeout, ReturnError,
     IInv, NumberingInv, CallbackInv, SlotInv, CompleteInv, Allowed, Here, TypeOK, rpcVars,
     slotVars, stackVars, lastVars, Ids, Callbacks, NoCb, LockFree
<1>11. CASE CbFill
  BY <1>11, BoundAssumption, OpsAssumption, HelperTypes, SlotFacts DEF CbFill, IInv,
     NumberingInv, CallbackInv, SlotInv, CompleteInv, Allowed, Here, TypeOK, rpcVars,
     slotVars, stackVars, lastVars, Ids, Callbacks, NoCb, LockFree
<1>12. CASE CbGive
  BY <1>12, BoundAssumption, OpsAssumption, HelperTypes, SlotFacts DEF CbGive, free, IInv,
     NumberingInv, CallbackInv, SlotInv, CompleteInv, Allowed, Here, TypeOK, rpcVars,
     slotVars, stackVars, lastVars, Ids, Callbacks, NoCb, LockFree
<1>13. ASSUME NEW i \in Ids, NEW outcome \in Outcomes, zdo_match_result(i, outcome)
      PROVE  CompleteInv'
  BY <1>13, BoundAssumption, OpsAssumption, HelperTypes, SlotFacts DEF zdo_match_result,
     Deliver, IInv, NumberingInv, CallbackInv, SlotInv, CompleteInv, Allowed, Here, TypeOK,
     rpcVars, slotVars, stackVars, lastVars, Ids, Callbacks, NoCb, LockFree
<1>14. ASSUME NEW i \in Ids, NEW outcome \in Outcomes, CbReset(i, outcome)
      PROVE  CompleteInv'
  BY <1>14, BoundAssumption, OpsAssumption, HelperTypes, SlotFacts DEF CbReset, Deliver,
     IInv, NumberingInv, CallbackInv, SlotInv, CompleteInv, Allowed, Here, TypeOK, rpcVars,
     slotVars, stackVars, lastVars, Ids, Callbacks, NoCb, LockFree
<1>15. ASSUME NEW a \in Addr, NEW cluster \in {"temperature", "other"},
             NEW short \in BOOLEAN, NEW measured \in BOOLEAN,
             zcl_report_attr(a, cluster, short, measured)
      PROVE  CompleteInv'
  BY <1>15, BoundAssumption, OpsAssumption, HelperTypes, SlotFacts DEF zcl_report_attr,
     Clusters, IInv, NumberingInv, CallbackInv, SlotInv, CompleteInv, Allowed, Here,
     TypeOK, rpcVars, slotVars, stackVars, lastVars, Ids, Callbacks, NoCb, LockFree
<1>16. CASE UNCHANGED vars
  BY <1>16, BoundAssumption, OpsAssumption, HelperTypes, SlotFacts DEF vars, IInv,
     NumberingInv, CallbackInv, SlotInv, CompleteInv, Allowed, Here, TypeOK, rpcVars,
     slotVars, stackVars, lastVars, Ids, Callbacks, NoCb, LockFree
<1>17. QED
  BY <1>1, <1>2, <1>3, <1>4, <1>5, <1>6, <1>7, <1>8, <1>9, <1>10, <1>11, <1>12, <1>13,
     <1>14, <1>15, <1>16 DEF Next, RpcStep, CbStep

\* Where the sensor addresses come from.
LEMMA SourceStep ==
  ASSUME IInv, [Next]_vars
  PROVE  SourceInv'
<1>1. ASSUME NEW op \in Ops, NEW a \in Addr, Begin(op, a) PROVE SourceInv'
  BY <1>1, BoundAssumption, OpsAssumption, HelperTypes DEF Begin, Start, Drain, InFlight,
     NoItem, Failed, IInv, NumberingInv, CallbackInv, SourceInv, TypeOK, rpcVars, slotVars,
     stackVars, lastVars, Ids, Callbacks, NoCb, LockFree
<1>2. ASSUME NEW op \in Ops, NEW a \in Addr, CallocFails(op, a) PROVE SourceInv'
  BY <1>2, BoundAssumption, OpsAssumption, HelperTypes DEF CallocFails, Start, ReturnError,
     IInv, NumberingInv, CallbackInv, SourceInv, TypeOK, rpcVars, slotVars, stackVars,
     lastVars, Ids, Callbacks, NoCb, LockFree
<1>3. CASE IssueAccepted
  BY <1>3, BoundAssumption, OpsAssumption, HelperTypes DEF IssueAccepted, IInv,
     NumberingInv, CallbackInv, SourceInv, TypeOK, rpcVars, slotVars, stackVars, lastVars,
     Ids, Callbacks, NoCb, LockFree
<1>4. CASE IssueLookupFails
  BY <1>4, BoundAssumption, OpsAssumption, HelperTypes DEF IssueLookupFails, ReturnError,
     free, IInv, NumberingInv, CallbackInv, SourceInv, TypeOK, rpcVars, slotVars,
     stackVars, lastVars, Ids, Callbacks, NoCb, LockFree
<1>5. CASE IssueRejected
  BY <1>5, BoundAssumption, OpsAssumption, HelperTypes DEF IssueRejected, ReturnError,
     free, IInv, NumberingInv, CallbackInv, SourceInv, TypeOK, rpcVars, slotVars,
     stackVars, lastVars, Ids, Callbacks, NoCb, LockFree
<1>6. CASE ReceiveMatch
  BY <1>6, BoundAssumption, OpsAssumption, HelperTypes DEF ReceiveMatch, NoItem, Failed,
     IInv, NumberingInv, CallbackInv, SourceInv, TypeOK, rpcVars, slotVars, stackVars,
     lastVars, Ids, Callbacks, NoCb, LockFree
<1>7. CASE TakePermit
  BY <1>7, BoundAssumption, OpsAssumption, HelperTypes DEF TakePermit, IInv, NumberingInv,
     CallbackInv, SourceInv, TypeOK, rpcVars, slotVars, stackVars, lastVars, Ids,
     Callbacks, NoCb, LockFree
<1>8. CASE CopyErr
  BY <1>8, BoundAssumption, OpsAssumption, HelperTypes DEF CopyErr, IInv, NumberingInv,
     CallbackInv, SourceInv, TypeOK, rpcVars, slotVars, stackVars, lastVars, Ids,
     Callbacks, NoCb, LockFree
<1>9. CASE CopyBody
  BY <1>9, BoundAssumption, OpsAssumption, HelperTypes DEF CopyBody, IInv, NumberingInv,
     CallbackInv, SourceInv, TypeOK, rpcVars, slotVars, stackVars, lastVars, Ids,
     Callbacks, NoCb, LockFree
<1>10. CASE Timeout
  BY <1>10, BoundAssumption, OpsAssumption, HelperTypes DEF Timeout, ReturnError, IInv,
     NumberingInv, CallbackInv, SourceInv, TypeOK, rpcVars, slotVars, stackVars, lastVars,
     Ids, Callbacks, NoCb, LockFree
<1>11. CASE CbFill
  BY <1>11, BoundAssumption, OpsAssumption, HelperTypes DEF CbFill, IInv, NumberingInv,
     CallbackInv, SourceInv, TypeOK, rpcVars, slotVars, stackVars, lastVars, Ids,
     Callbacks, NoCb, LockFree
<1>12. CASE CbGive
  BY <1>12, BoundAssumption, OpsAssumption, HelperTypes DEF CbGive, free, IInv,
     NumberingInv, CallbackInv, SourceInv, TypeOK, rpcVars, slotVars, stackVars, lastVars,
     Ids, Callbacks, NoCb, LockFree
<1>13. ASSUME NEW i \in Ids, NEW outcome \in Outcomes, zdo_match_result(i, outcome)
      PROVE  SourceInv'
  BY <1>13, BoundAssumption, OpsAssumption, HelperTypes DEF zdo_match_result, Deliver,
     MatchItem, NoItem, EzbErr, Failed, IInv, NumberingInv, CallbackInv, SourceInv, TypeOK,
     rpcVars, slotVars, stackVars, lastVars, Ids, Callbacks, NoCb, LockFree
<1>14. ASSUME NEW i \in Ids, NEW outcome \in Outcomes, CbReset(i, outcome)
      PROVE  SourceInv'
  BY <1>14, BoundAssumption, OpsAssumption, HelperTypes DEF CbReset, Deliver, IInv,
     NumberingInv, CallbackInv, SourceInv, TypeOK, rpcVars, slotVars, stackVars, lastVars,
     Ids, Callbacks, NoCb, LockFree
<1>15. ASSUME NEW a \in Addr, NEW cluster \in {"temperature", "other"},
             NEW short \in BOOLEAN, NEW measured \in BOOLEAN,
             zcl_report_attr(a, cluster, short, measured)
      PROVE  SourceInv'
  BY <1>15, BoundAssumption, OpsAssumption, HelperTypes DEF zcl_report_attr, Clusters, IInv,
     NumberingInv, CallbackInv, SourceInv, TypeOK, rpcVars, slotVars, stackVars, lastVars,
     Ids, Callbacks, NoCb, LockFree
<1>16. CASE UNCHANGED vars
  BY <1>16, BoundAssumption, OpsAssumption, HelperTypes DEF vars, IInv, NumberingInv,
     CallbackInv, SourceInv, TypeOK, rpcVars, slotVars, stackVars, lastVars, Ids,
     Callbacks, NoCb, LockFree
<1>17. QED
  BY <1>1, <1>2, <1>3, <1>4, <1>5, <1>6, <1>7, <1>8, <1>9, <1>10, <1>11, <1>12, <1>13,
     <1>14, <1>15, <1>16 DEF Next, RpcStep, CbStep

\* What a call returns.
LEMMA ReplyStep ==
  ASSUME IInv, [Next]_vars
  PROVE  (ReplyProvenance /\ ReplyComplete)'
<1>1. ASSUME NEW op \in Ops, NEW a \in Addr, Begin(op, a) PROVE (ReplyProvenance /\ ReplyComplete)'
  BY <1>1, BoundAssumption, OpsAssumption, SlotFacts DEF Begin, Start, Drain, InFlight,
     IInv, NumberingInv, SlotInv, CompleteInv, ReplyProvenance, ReplyComplete, Returned,
     Allowed, Here, IsStruct, TypeOK, rpcVars, slotVars, stackVars, lastVars, Ids, Results
<1>2. ASSUME NEW op \in Ops, NEW a \in Addr, CallocFails(op, a) PROVE (ReplyProvenance /\ ReplyComplete)'
  BY <1>2, BoundAssumption, OpsAssumption, SlotFacts DEF CallocFails, Start, ReturnError,
     IsBind, IInv, NumberingInv, SlotInv, CompleteInv, ReplyProvenance, ReplyComplete,
     Returned, Allowed, Here, IsStruct, TypeOK, rpcVars, slotVars, stackVars, lastVars,
     Ids, Results
<1>3. CASE IssueAccepted
  BY <1>3, BoundAssumption, OpsAssumption, SlotFacts DEF IssueAccepted, IInv, NumberingInv,
     SlotInv, CompleteInv, ReplyProvenance, ReplyComplete, Returned, Allowed, Here,
     IsStruct, TypeOK, rpcVars, slotVars, stackVars, lastVars, Ids, Results
<1>4. CASE IssueLookupFails
  BY <1>4, BoundAssumption, OpsAssumption, SlotFacts DEF IssueLookupFails, ReturnError,
     free, IInv, NumberingInv, SlotInv, CompleteInv, ReplyProvenance, ReplyComplete,
     Returned, Allowed, Here, IsStruct, TypeOK, rpcVars, slotVars, stackVars, lastVars,
     Ids, Results
<1>5. CASE IssueRejected
  BY <1>5, BoundAssumption, OpsAssumption, SlotFacts DEF IssueRejected, ReturnError, free,
     IInv, NumberingInv, SlotInv, CompleteInv, ReplyProvenance, ReplyComplete, Returned,
     Allowed, Here, IsStruct, TypeOK, rpcVars, slotVars, stackVars, lastVars, Ids, Results
<1>6. CASE ReceiveMatch
  BY <1>6, BoundAssumption, OpsAssumption, SlotFacts DEF ReceiveMatch, IInv, NumberingInv,
     SlotInv, CompleteInv, ReplyProvenance, ReplyComplete, Returned, Allowed, Here,
     IsStruct, TypeOK, rpcVars, slotVars, stackVars, lastVars, Ids, Results
<1>7. CASE TakePermit
  BY <1>7, BoundAssumption, OpsAssumption, SlotFacts DEF TakePermit, IInv, NumberingInv,
     SlotInv, CompleteInv, ReplyProvenance, ReplyComplete, Returned, Allowed, Here,
     IsStruct, TypeOK, rpcVars, slotVars, stackVars, lastVars, Ids, Results
<1>8. CASE CopyErr
  BY <1>8, BoundAssumption, OpsAssumption, SlotFacts DEF CopyErr, IInv, NumberingInv,
     SlotInv, CompleteInv, ReplyProvenance, ReplyComplete, Returned, Allowed, Here,
     IsStruct, TypeOK, rpcVars, slotVars, stackVars, lastVars, Ids, Results
<1>9. CASE CopyBody
  BY <1>9, BoundAssumption, OpsAssumption, SlotFacts DEF CopyBody, IInv, NumberingInv,
     SlotInv, CompleteInv, ReplyProvenance, ReplyComplete, Returned, Allowed, Here,
     IsStruct, TypeOK, rpcVars, slotVars, stackVars, lastVars, Ids, Results
<1>10. CASE Timeout
  BY <1>10, BoundAssumption, OpsAssumption, SlotFacts DEF Timeout, ReturnError, IInv,
     NumberingInv, SlotInv, CompleteInv, ReplyProvenance, ReplyComplete, Returned, Allowed,
     Here, IsStruct, TypeOK, rpcVars, slotVars, stackVars, lastVars, Ids, Results
<1>11. CASE CbFill
  BY <1>11, BoundAssumption, OpsAssumption, SlotFacts DEF CbFill, IInv, NumberingInv,
     SlotInv, CompleteInv, ReplyProvenance, ReplyComplete, Returned, Allowed, Here,
     IsStruct, TypeOK, rpcVars, slotVars, stackVars, lastVars, Ids, Results
<1>12. CASE CbGive
  BY <1>12, BoundAssumption, OpsAssumption, SlotFacts DEF CbGive, free, IInv, NumberingInv,
     SlotInv, CompleteInv, ReplyProvenance, ReplyComplete, Returned, Allowed, Here,
     IsStruct, TypeOK, rpcVars, slotVars, stackVars, lastVars, Ids, Results
<1>13. ASSUME NEW i \in Ids, NEW outcome \in Outcomes, zdo_match_result(i, outcome)
      PROVE  (ReplyProvenance /\ ReplyComplete)'
  BY <1>13, BoundAssumption, OpsAssumption, SlotFacts DEF zdo_match_result, Deliver, IInv,
     NumberingInv, SlotInv, CompleteInv, ReplyProvenance, ReplyComplete, Returned, Allowed,
     Here, IsStruct, TypeOK, rpcVars, slotVars, stackVars, lastVars, Ids, Results
<1>14. ASSUME NEW i \in Ids, NEW outcome \in Outcomes, CbReset(i, outcome)
      PROVE  (ReplyProvenance /\ ReplyComplete)'
  BY <1>14, BoundAssumption, OpsAssumption, SlotFacts DEF CbReset, Deliver, IInv,
     NumberingInv, SlotInv, CompleteInv, ReplyProvenance, ReplyComplete, Returned, Allowed,
     Here, IsStruct, TypeOK, rpcVars, slotVars, stackVars, lastVars, Ids, Results
<1>15. ASSUME NEW a \in Addr, NEW cluster \in {"temperature", "other"},
             NEW short \in BOOLEAN, NEW measured \in BOOLEAN,
             zcl_report_attr(a, cluster, short, measured)
      PROVE  (ReplyProvenance /\ ReplyComplete)'
  BY <1>15, BoundAssumption, OpsAssumption, SlotFacts DEF zcl_report_attr, Clusters, IInv,
     NumberingInv, SlotInv, CompleteInv, ReplyProvenance, ReplyComplete, Returned, Allowed,
     Here, IsStruct, TypeOK, rpcVars, slotVars, stackVars, lastVars, Ids, Results
<1>16. CASE UNCHANGED vars
  BY <1>16, BoundAssumption, OpsAssumption, SlotFacts DEF vars, IInv, NumberingInv, SlotInv,
     CompleteInv, ReplyProvenance, ReplyComplete, Returned, Allowed, Here, IsStruct,
     TypeOK, rpcVars, slotVars, stackVars, lastVars, Ids, Results
<1>17. QED
  BY <1>1, <1>2, <1>3, <1>4, <1>5, <1>6, <1>7, <1>8, <1>9, <1>10, <1>11, <1>12, <1>13,
     <1>14, <1>15, <1>16 DEF Next, RpcStep, CbStep

\* The owner of every bind_req.
LEMMA HeapStep ==
  ASSUME IInv, [Next]_vars
  PROVE  BindReqOwnership'
<1>1. ASSUME NEW op \in Ops, NEW a \in Addr, Begin(op, a) PROVE BindReqOwnership'
  BY <1>1, BoundAssumption, OpsAssumption, SlotFacts DEF Begin, Start, Drain, InFlight,
     IInv, NumberingInv, CallbackInv, BindReqOwnership, TypeOK, rpcVars, slotVars,
     stackVars, lastVars, Ids, NoCb, LockFree, Responses, Callbacks, IsBind
<1>2. ASSUME NEW op \in Ops, NEW a \in Addr, CallocFails(op, a) PROVE BindReqOwnership'
  BY <1>2, BoundAssumption, OpsAssumption, SlotFacts DEF CallocFails, Start, ReturnError,
     IInv, NumberingInv, CallbackInv, BindReqOwnership, TypeOK, rpcVars, slotVars,
     stackVars, lastVars, Ids, NoCb, LockFree, Responses, Callbacks, IsBind
<1>3. CASE IssueAccepted
  BY <1>3, BoundAssumption, OpsAssumption, SlotFacts DEF IssueAccepted, IInv, NumberingInv,
     CallbackInv, BindReqOwnership, TypeOK, rpcVars, slotVars, stackVars, lastVars, Ids,
     NoCb, LockFree, Responses, Callbacks, IsBind
<1>4. CASE IssueLookupFails
  BY <1>4, BoundAssumption, OpsAssumption, SlotFacts DEF IssueLookupFails, ReturnError,
     free, IInv, NumberingInv, CallbackInv, BindReqOwnership, TypeOK, rpcVars, slotVars,
     stackVars, lastVars, Ids, NoCb, LockFree, Responses, Callbacks, IsBind
<1>5. CASE IssueRejected
  BY <1>5, BoundAssumption, OpsAssumption, SlotFacts DEF IssueRejected, ReturnError, free,
     IInv, NumberingInv, CallbackInv, BindReqOwnership, TypeOK, rpcVars, slotVars,
     stackVars, lastVars, Ids, NoCb, LockFree, Responses, Callbacks, IsBind
<1>6. CASE ReceiveMatch
  BY <1>6, BoundAssumption, OpsAssumption, SlotFacts DEF ReceiveMatch, IInv, NumberingInv,
     CallbackInv, BindReqOwnership, TypeOK, rpcVars, slotVars, stackVars, lastVars, Ids,
     NoCb, LockFree, Responses, Callbacks, IsBind
<1>7. CASE TakePermit
  BY <1>7, BoundAssumption, OpsAssumption, SlotFacts DEF TakePermit, IInv, NumberingInv,
     CallbackInv, BindReqOwnership, TypeOK, rpcVars, slotVars, stackVars, lastVars, Ids,
     NoCb, LockFree, Responses, Callbacks, IsBind
<1>8. CASE CopyErr
  BY <1>8, BoundAssumption, OpsAssumption, SlotFacts DEF CopyErr, IInv, NumberingInv,
     CallbackInv, BindReqOwnership, TypeOK, rpcVars, slotVars, stackVars, lastVars, Ids,
     NoCb, LockFree, Responses, Callbacks, IsBind
<1>9. CASE CopyBody
  BY <1>9, BoundAssumption, OpsAssumption, SlotFacts DEF CopyBody, IInv, NumberingInv,
     CallbackInv, BindReqOwnership, TypeOK, rpcVars, slotVars, stackVars, lastVars, Ids,
     NoCb, LockFree, Responses, Callbacks, IsBind
<1>10. CASE Timeout
  BY <1>10, BoundAssumption, OpsAssumption, SlotFacts DEF Timeout, ReturnError, IInv,
     NumberingInv, CallbackInv, BindReqOwnership, TypeOK, rpcVars, slotVars, stackVars,
     lastVars, Ids, NoCb, LockFree, Responses, Callbacks, IsBind
<1>11. CASE CbFill
  BY <1>11, BoundAssumption, OpsAssumption, SlotFacts DEF CbFill, IInv, NumberingInv,
     CallbackInv, BindReqOwnership, TypeOK, rpcVars, slotVars, stackVars, lastVars, Ids,
     NoCb, LockFree, Responses, Callbacks, IsBind
<1>12. CASE CbGive
  BY <1>12, BoundAssumption, OpsAssumption, SlotFacts DEF CbGive, free, IInv, NumberingInv,
     CallbackInv, BindReqOwnership, TypeOK, rpcVars, slotVars, stackVars, lastVars, Ids,
     NoCb, LockFree, Responses, Callbacks, IsBind
<1>13. ASSUME NEW i \in Ids, NEW outcome \in Outcomes, zdo_match_result(i, outcome)
      PROVE  BindReqOwnership'
  BY <1>13, BoundAssumption, OpsAssumption, SlotFacts DEF zdo_match_result, Deliver, IInv,
     NumberingInv, CallbackInv, BindReqOwnership, TypeOK, rpcVars, slotVars, stackVars,
     lastVars, Ids, NoCb, LockFree, Responses, Callbacks, IsBind
<1>14. ASSUME NEW i \in Ids, NEW outcome \in Outcomes, CbReset(i, outcome)
      PROVE  BindReqOwnership'
  BY <1>14, BoundAssumption, OpsAssumption, SlotFacts DEF CbReset, Deliver, IInv,
     NumberingInv, CallbackInv, BindReqOwnership, TypeOK, rpcVars, slotVars, stackVars,
     lastVars, Ids, NoCb, LockFree, Responses, Callbacks, IsBind
<1>15. ASSUME NEW a \in Addr, NEW cluster \in {"temperature", "other"},
             NEW short \in BOOLEAN, NEW measured \in BOOLEAN,
             zcl_report_attr(a, cluster, short, measured)
      PROVE  BindReqOwnership'
  BY <1>15, BoundAssumption, OpsAssumption, SlotFacts DEF zcl_report_attr, Clusters, IInv,
     NumberingInv, CallbackInv, BindReqOwnership, TypeOK, rpcVars, slotVars, stackVars,
     lastVars, Ids, NoCb, LockFree, Responses, Callbacks, IsBind
<1>16. CASE UNCHANGED vars
  BY <1>16, BoundAssumption, OpsAssumption, SlotFacts DEF vars, IInv, NumberingInv,
     CallbackInv, BindReqOwnership, TypeOK, rpcVars, slotVars, stackVars, lastVars, Ids,
     NoCb, LockFree, Responses, Callbacks, IsBind
<1>17. QED
  BY <1>1, <1>2, <1>3, <1>4, <1>5, <1>6, <1>7, <1>8, <1>9, <1>10, <1>11, <1>12, <1>13,
     <1>14, <1>15, <1>16 DEF Next, RpcStep, CbStep

\* The remembered sensor and temperature.
LEMMA SensorStep ==
  ASSUME IInv, [Next]_vars
  PROVE  SensorProvenance'
<1>1. ASSUME NEW op \in Ops, NEW a \in Addr, Begin(op, a) PROVE SensorProvenance'
  BY <1>1, AddrAssumption DEF Begin, Start, Drain, InFlight, IInv, CallbackInv, SourceInv,
     SensorProvenance, TypeOK, rpcVars, slotVars, stackVars, lastVars
<1>2. ASSUME NEW op \in Ops, NEW a \in Addr, CallocFails(op, a) PROVE SensorProvenance'
  BY <1>2, AddrAssumption DEF CallocFails, Start, ReturnError, IInv, CallbackInv,
     SourceInv, SensorProvenance, TypeOK, rpcVars, slotVars, stackVars, lastVars
<1>3. CASE IssueAccepted
  BY <1>3, AddrAssumption DEF IssueAccepted, IInv, CallbackInv, SourceInv,
     SensorProvenance, TypeOK, rpcVars, slotVars, stackVars, lastVars
<1>4. CASE IssueLookupFails
  BY <1>4, AddrAssumption DEF IssueLookupFails, ReturnError, free, IInv, CallbackInv,
     SourceInv, SensorProvenance, TypeOK, rpcVars, slotVars, stackVars, lastVars
<1>5. CASE IssueRejected
  BY <1>5, AddrAssumption DEF IssueRejected, ReturnError, free, IInv, CallbackInv,
     SourceInv, SensorProvenance, TypeOK, rpcVars, slotVars, stackVars, lastVars
<1>6. CASE ReceiveMatch
  BY <1>6, AddrAssumption DEF ReceiveMatch, IInv, CallbackInv, SourceInv, SensorProvenance,
     TypeOK, rpcVars, slotVars, stackVars, lastVars
<1>7. CASE TakePermit
  BY <1>7, AddrAssumption DEF TakePermit, IInv, CallbackInv, SourceInv, SensorProvenance,
     TypeOK, rpcVars, slotVars, stackVars, lastVars
<1>8. CASE CopyErr
  BY <1>8, AddrAssumption DEF CopyErr, IInv, CallbackInv, SourceInv, SensorProvenance,
     TypeOK, rpcVars, slotVars, stackVars, lastVars
<1>9. CASE CopyBody
  BY <1>9, AddrAssumption DEF CopyBody, IInv, CallbackInv, SourceInv, SensorProvenance,
     TypeOK, rpcVars, slotVars, stackVars, lastVars
<1>10. CASE Timeout
  BY <1>10, AddrAssumption DEF Timeout, ReturnError, IInv, CallbackInv, SourceInv,
     SensorProvenance, TypeOK, rpcVars, slotVars, stackVars, lastVars
<1>11. CASE CbFill
  BY <1>11, AddrAssumption DEF CbFill, IInv, CallbackInv, SourceInv, SensorProvenance,
     TypeOK, rpcVars, slotVars, stackVars, lastVars
<1>12. CASE CbGive
  BY <1>12, AddrAssumption DEF CbGive, free, IInv, CallbackInv, SourceInv, SensorProvenance,
     TypeOK, rpcVars, slotVars, stackVars, lastVars
<1>13. ASSUME NEW i \in Ids, NEW outcome \in Outcomes, zdo_match_result(i, outcome)
      PROVE  SensorProvenance'
  BY <1>13, AddrAssumption DEF zdo_match_result, Deliver, IInv, CallbackInv, SourceInv,
     SensorProvenance, TypeOK, rpcVars, slotVars, stackVars, lastVars
<1>14. ASSUME NEW i \in Ids, NEW outcome \in Outcomes, CbReset(i, outcome)
      PROVE  SensorProvenance'
  BY <1>14, AddrAssumption DEF CbReset, Deliver, IInv, CallbackInv, SourceInv,
     SensorProvenance, TypeOK, rpcVars, slotVars, stackVars, lastVars
<1>15. ASSUME NEW a \in Addr, NEW cluster \in {"temperature", "other"},
             NEW short \in BOOLEAN, NEW measured \in BOOLEAN,
             zcl_report_attr(a, cluster, short, measured)
      PROVE  SensorProvenance'
  BY <1>15, AddrAssumption DEF zcl_report_attr, Clusters, IInv, CallbackInv, SourceInv,
     SensorProvenance, TypeOK, rpcVars, slotVars, stackVars, lastVars
<1>16. CASE UNCHANGED vars
  BY <1>16, AddrAssumption DEF vars, IInv, CallbackInv, SourceInv, SensorProvenance, TypeOK,
     rpcVars, slotVars, stackVars, lastVars
<1>17. QED
  BY <1>1, <1>2, <1>3, <1>4, <1>5, <1>6, <1>7, <1>8, <1>9, <1>10, <1>11, <1>12, <1>13,
     <1>14, <1>15, <1>16 DEF Next, RpcStep, CbStep

\* The invariant holds initially.
LEMMA IInvInit == Init => IInv
<1> SUFFICES ASSUME Init PROVE IInv
  OBVIOUS
<1>1. TypeOK
  BY AddrAssumption, BoundAssumption, HelperTypes
     DEF Init, TypeOK, Ids, AllOps, Cells, Results, NoAddr, Slots
<1>2. NumberingInv /\ CallbackInv
  BY BoundAssumption DEF Init, NumberingInv, CallbackInv, NoCb, Ids
<1>3. SlotInv /\ CompleteInv /\ ReplyProvenance /\ ReplyComplete
  BY DEF Init, SlotInv, CompleteInv, ReplyProvenance, ReplyComplete, Returned
<1>4. BindReqOwnership
  BY DEF Init, BindReqOwnership, NoCb, Ids
<1>5. SourceInv /\ SensorProvenance
  BY DEF Init, SourceInv, SensorProvenance, NoItem, NoCb, Failed
<1>6. QED
  BY <1>1, <1>2, <1>3, <1>4, <1>5 DEF IInv

\* Every step preserves it.
LEMMA IInvNext == IInv /\ [Next]_vars => IInv'
BY TypeOKStep, NumberingStep, CallbackStep, SlotStep, CompleteStep, SourceStep,
   ReplyStep, HeapStep, SensorStep DEF IInv

\* The invariant holds throughout every behaviour of the two tasks.
THEOREM Invariance == Spec => []IInv
BY IInvInit, IInvNext, PTL DEF Spec

\* The static variables of zigbee_stack.c keep their types.
THEOREM TypeCorrect == Spec => []TypeOK
<1>1. IInv => TypeOK
  BY DEF IInv
<1>2. QED
  BY <1>1, Invariance, PTL

\* A call of zigbee_stack.c returns only values written by the answer to that call or
\* by an answer that was on its way to the same slot when the call drained it.
THEOREM RepliesHaveProvenance == Spec => []ReplyProvenance
<1>1. IInv => ReplyProvenance
  BY DEF IInv
<1>2. QED
  BY <1>1, Invariance, PTL

\* With no earlier request of the slot in flight, a call returns one complete answer.
THEOREM RepliesAreComplete == Spec => []ReplyComplete
<1>1. IInv => ReplyComplete
  BY DEF IInv
<1>2. QED
  BY <1>1, Invariance, PTL

\* Every bind_req of bind_common is freed at most once, never under the stack's feet,
\* and has an owner until then.
THEOREM BindReqsAreOwned == Spec => []BindReqOwnership
<1>1. IInv => BindReqOwnership
  BY DEF IInv
<1>2. QED
  BY <1>1, Invariance, PTL

\* The remembered sensor and the last temperature stem from temperature sensors.
THEOREM SensorsHaveProvenance == Spec => []SensorProvenance
<1>1. IInv => SensorProvenance
  BY DEF IInv
<1>2. QED
  BY <1>1, Invariance, PTL

=============================================================================
