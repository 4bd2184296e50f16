--------------------------- MODULE Commissioning ----------------------------
(***************************************************************************)
(* How the coordinator gets onto its network: zigbee_main_task, the signal *)
(* handler of zigbee_stack.c and its retry alarm.                          *)
(*                                                                         *)
(* External: the Zigbee stack, which runs one top-level commissioning at a *)
(* time, ignores a request for another meanwhile, and raises one signal    *)
(* when it ends; it keeps the network it has formed in flash.  The signal  *)
(* handler runs in the stack's own loop, before anything else is done.     *)
(* Formation on a device that has a network is taken to fail, to keep it,  *)
(* or to replace it.                                                       *)
(***************************************************************************)
EXTENDS Naturals

CONSTANTS MaxFailures,   \* bound: procedures that fail
          MaxNetworks    \* bound: networks formed

ASSUME CommissioningBounds == MaxFailures \in Nat /\ MaxNetworks \in Nat \ {0}

VARIABLES
  network,       \* in flash: which network the device has formed, 0 when factory new
  stack,         \* "off", "skip_startup", "idle", or the procedure that runs
  alarm,         \* the procedure the alarm timer will start, or "none"
  join,          \* whether devices may join
  steer_failed,  \* whether a steering has failed since the boot (history)
  failures

zigbeeVars == <<network, stack, alarm, join, steer_failed, failures>>

\* Power on: what was in RAM is gone.
ZigbeeBoots ==
  /\ stack' = "off" /\ alarm' = "none" /\ join' = FALSE /\ steer_failed' = FALSE
  /\ UNCHANGED <<network, failures>>

ZigbeeInit ==
  /\ network = 0 /\ stack = "off" /\ alarm = "none"
  /\ join = FALSE /\ steer_failed = FALSE /\ failures = 0

factory_new == network = 0

\* zigbee_main_task up to esp_zigbee_launch_mainloop; a failure aborts.
zigbee_main_task ==
  /\ stack = "off"
  /\ stack' = "skip_startup"
  /\ UNCHANGED <<network, alarm, join, steer_failed, failures>>

(***************************************************************************)
(* zigbee_app_signal_handler, one action for each signal that starts or    *)
(* schedules something.  The procedure has ended when its signal is raised.*)
(***************************************************************************)
SkipStartup ==
  /\ stack = "skip_startup"
  /\ stack' = "initialization"
  /\ UNCHANGED <<network, alarm, join, steer_failed, failures>>

\* Mutation: a device that has a network forms one after every reboot.
DeviceStartFormsAlways ==
  /\ stack = "initialization"
  /\ stack' = "formation"
  /\ UNCHANGED <<network, alarm, join, steer_failed, failures>>

\* DEVICE_FIRST_START and DEVICE_REBOOT.
DeviceStart ==
  /\ stack = "initialization"
  /\ stack' = IF factory_new THEN "formation" ELSE "idle"
  /\ UNCHANGED <<network, alarm, join, steer_failed, failures>>

Formation ==
  /\ stack = "formation"
  /\ network' \in {n \in {network, network + 1} : n \in 1..MaxNetworks}
  /\ stack' = "steering"
  /\ UNCHANGED <<alarm, join, steer_failed, failures>>

\* Steering opens the coordinator's network.
Steering ==
  /\ stack = "steering"
  /\ stack' = "idle"
  /\ join' = TRUE
  /\ UNCHANGED <<network, alarm, steer_failed, failures>>

alarm_timer_schedule(mode) == stack' = "idle" /\ alarm' = mode

\* Mutation: no retry.
CommissioningFailsForGood(procedure) ==
  /\ stack = procedure /\ failures < MaxFailures
  /\ failures' = failures + 1
  /\ stack' = "idle"
  /\ steer_failed' = (steer_failed \/ procedure = "steering")
  /\ UNCHANGED <<network, alarm, join>>

\* The branch of a signal whose status is not success: initialization is tried again as
\* such, formation and steering as formation.
CommissioningFails(procedure) ==
  /\ stack = procedure /\ failures < MaxFailures
  /\ failures' = failures + 1
  /\ alarm_timer_schedule(IF procedure = "initialization" THEN "initialization"
                          ELSE "formation")
  /\ steer_failed' = (steer_failed \/ procedure = "steering")
  /\ UNCHANGED <<network, join>>

\* The alarm's own task, under the Zigbee lock; the result of the start is not looked at.
zigbee_alarm_bdb_commissioning ==
  /\ alarm # "none"
  /\ alarm' = "none"
  /\ stack' = IF stack = "idle" THEN alarm ELSE stack
  /\ UNCHANGED <<network, join, steer_failed, failures>>

\* The RPC task, under the Zigbee lock; without a network it is refused.
zigbee_open_network(duration) ==
  /\ stack \notin {"off", "skip_startup"}
  /\ join' = IF factory_new THEN join ELSE duration # 0
  /\ UNCHANGED <<network, stack, alarm, steer_failed, failures>>

Procedures == {"initialization", "formation", "steering"}

\* What happens without the RPC task, once zigbee_main_task runs.
ZigbeeStep ==
  \/ zigbee_main_task \/ SkipStartup \/ DeviceStart \/ Formation \/ Steering
  \/ (\E p \in Procedures : CommissioningFails(p))
  \/ zigbee_alarm_bdb_commissioning

\* On a network to stay: no procedure runs and no retry is scheduled.
OnNetwork == ~factory_new /\ stack = "idle" /\ alarm = "none"
=============================================================================
