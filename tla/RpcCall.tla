------------------------------ MODULE RpcCall -------------------------------
(***************************************************************************)
(* What a session of zb_rpc promises its caller, whatever the bytes do:    *)
(* calls are made one at a time; the service executes each at most once,   *)
(* in order and as it was made; a call returns exactly what its execution  *)
(* computed, or it fails, and then the session is over: a call made        *)
(* afterwards is never executed and fails too.                             *)
(***************************************************************************)
EXTENDS Naturals, Sequences

CONSTANTS Calls,         \* the calls that can be made
          Serve(_, _),   \* Serve(service, call): the service afterwards and the value
          FreshService,  \* the service when the session begins
          Failed         \* the outcome of a call that fails

VARIABLES
  asked,     \* the calls made
  executed,  \* the values the service has computed for them
  results,   \* their outcomes
  service    \* the state of the service

vars == <<asked, executed, results, service>>

Init == asked = <<>> /\ executed = <<>> /\ results = <<>> /\ service = FreshService

Invoke(call) ==
  /\ Len(results) = Len(asked)
  /\ asked' = Append(asked, call)
  /\ UNCHANGED <<executed, results, service>>

FailedBefore(n) == \E i \in 1..(n - 1) : i <= Len(results) /\ results[i] = Failed

\* The caller may have given the call up in the meantime.
Execute ==
  LET n == Len(executed) + 1 IN
  /\ n <= Len(asked)
  /\ ~FailedBefore(n)
  /\ LET served == Serve(service, asked[n]) IN
       /\ executed' = Append(executed, served.value)
       /\ service' = served.service
  /\ UNCHANGED <<asked, results>>

Return ==
  LET n == Len(asked) IN
  /\ Len(results) = n - 1 /\ Len(executed) = n
  /\ results' = Append(results, executed[n])
  /\ UNCHANGED <<asked, executed, service>>

Fail ==
  /\ Len(results) < Len(asked)
  /\ results' = Append(results, Failed)
  /\ UNCHANGED <<asked, executed, service>>

Next == (\E call \in Calls : Invoke(call)) \/ Execute \/ Return \/ Fail

\* Every call ends one way or the other.
Spec == Init /\ [][Next]_vars /\ WF_vars(Return \/ Fail)
=============================================================================
