----------------------------- MODULE EspDevice ------------------------------
(***************************************************************************)
(* The ESP as app_main.c puts it together: the UART receiver and the       *)
(* Zigbee commissioning run as tasks of one chip, each is started by a     *)
(* step of app_main, and a failed ESP_ERROR_CHECK in any task, or a loss   *)
(* of power, restarts the whole.  Only what the Zigbee stack keeps in      *)
(* flash survives.                                                         *)
(***************************************************************************)
EXTENDS Commissioning, UartReceive

CONSTANT MaxReboots    \* bound: restarts

ASSUME RebootsAssumption == MaxReboots \in Nat

VARIABLES boot,      \* what app_main does next
          reboots

vars == <<zigbeeVars, uartVars, boot, reboots>>

Init ==
  /\ ZigbeeInit /\ UartInit
  /\ boot = "nvs_flash_init" /\ reboots = 0

\* app_main, step by step.
Following ==
  [nvs_flash_init        |-> "esp_netif_init",
   esp_netif_init        |-> "esp_event_loop_create",
   esp_event_loop_create |-> "ppp_uart_start",
   ppp_uart_start        |-> "zigbee_stack_start",
   zigbee_stack_start    |-> "rpc_server_start",
   rpc_server_start      |-> "started"]

app_main ==
  /\ boot \in DOMAIN Following
  /\ boot' = Following[boot]
  /\ IF boot = "ppp_uart_start" THEN UartStarts ELSE UNCHANGED uartVars
  /\ UNCHANGED <<zigbeeVars, reboots>>

\* zigbee_stack_start has created the Zigbee task, rpc_server_start the RPC task.
ZigbeeTask == boot \in {"rpc_server_start", "started"}

Zigbee ==
  /\ ZigbeeTask /\ ZigbeeStep
  /\ UNCHANGED <<uartVars, boot, reboots>>

Rpc ==
  /\ boot = "started"
  /\ \E duration \in {0, 180} : zigbee_open_network(duration)
  /\ UNCHANGED <<uartVars, boot, reboots>>

Uart ==
  /\ UartStep
  /\ UNCHANGED <<zigbeeVars, boot, reboots>>

\* ESP_ERROR_CHECK aborts, in app_main or in zigbee_main_task, or the power fails.
Reboot ==
  /\ reboots < MaxReboots
  /\ reboots' = reboots + 1
  /\ boot' = "nvs_flash_init"
  /\ ZigbeeBoots /\ UartBoots

Next == app_main \/ Zigbee \/ Rpc \/ Uart \/ Reboot

\* FreeRTOS runs every task, and a procedure of the Zigbee stack ends.
Spec ==
  /\ Init /\ [][Next]_vars
  /\ WF_vars(app_main) /\ WF_vars(Zigbee)

(***************************************************************************)
(* Properties.                                                             *)
(***************************************************************************)
\* Once restarts and failures end, the coordinator is on a network to stay, wherever the
\* last restart or failure struck: no failed procedure is left without a retry.
ComesOnline == <>[]OnNetwork

\* A device that has a network forms another, which would lose every sensor, only after
\* a steering has failed since the boot: not by a restart, whenever it comes, and not by
\* the retry of an initialization.
ReformsOnlyAfterFailedSteering ==
  [][network # 0 /\ network' # network => steer_failed]_vars
=============================================================================
