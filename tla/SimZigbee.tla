----------------------------- MODULE SimZigbee ------------------------------
(***************************************************************************)
(* zb_rpc/src/sim_zigbee.cpp: the simulated coordinator whose functions    *)
(* dispatch_ns finds by reflection.  Serve(sim, call) is the function      *)
(* named call.api applied to the decoded request call.req; it returns the  *)
(* value to be encoded and the globals afterwards.                         *)
(***************************************************************************)
EXTENDS Integers, Sequences

g_short_addr   == 0
g_panid        == 19481    \* 0x4c19
g_channel      == 13
g_sensor_short == 6486     \* 0x1956
g_sensor_ep    == 10
Manufacturer   == 69       \* the texts stand for their first characters
Model          == 101

FreshSim == [permit_join |-> FALSE, joined |-> FALSE, temp |-> 1300]

bump_temp(sim) == IF sim.temp < 1800 THEN [sim EXCEPT !.temp = @ + 100] ELSE sim

Says(sim, value) == [value |-> value, service |-> sim]

\* The three functions that only check the address, and answer 0 or -1.
CheckedAddr(sim, addr) == Says(sim, <<IF addr[2] = g_sensor_short THEN 0 ELSE -1>>)

open_network(sim, req) == Says([sim EXCEPT !.permit_join = (req[1] # 0)], <<0>>)

wait_annce(sim) == Says([sim EXCEPT !.joined = TRUE], <<g_sensor_short>>)

find_sensor(sim, req) ==
  Says(sim, IF ~sim.joined \/ req[1] # g_sensor_short THEN <<-1, 0, 0>>
            ELSE <<0, g_sensor_short, g_sensor_ep>>)

read_basic(sim, addr) ==
  Says(sim, IF addr[2] # g_sensor_short THEN <<-1, 0, 0>> ELSE <<0, Manufacturer, Model>>)

read_temp(sim, addr) ==
  IF addr[2] # g_sensor_short THEN Says(sim, <<-1, 0, 0, 0, 0>>)
  ELSE LET bumped == bump_temp(sim) IN Says(bumped, <<0, bumped.temp, -1000, 8000, 0>>)

get_last_temp(sim) == LET bumped == bump_temp(sim) IN Says(bumped, <<bumped.temp>>)

\* The functions of namespace sim: what dispatch_ns can reach.
Handlers == {"get_short_addr", "get_panid", "get_channel", "open_network", "wait_annce",
             "find_sensor", "read_basic", "bind_sensor", "subscribe_sensor",
             "config_report", "read_temp", "get_last_temp"}

Serve(sim, call) ==
  CASE call.api = "get_short_addr" -> Says(sim, <<g_short_addr>>)
    [] call.api = "get_panid"      -> Says(sim, <<g_panid>>)
    [] call.api = "get_channel"    -> Says(sim, <<g_channel>>)
    [] call.api = "open_network"   -> open_network(sim, call.req)
    [] call.api = "wait_annce"     -> wait_annce(sim)
    [] call.api = "find_sensor"    -> find_sensor(sim, call.req)
    [] call.api = "read_basic"     -> read_basic(sim, call.req)
    [] call.api \in {"bind_sensor", "subscribe_sensor", "config_report"}
                                   -> CheckedAddr(sim, call.req)
    [] call.api = "read_temp"      -> read_temp(sim, call.req)
    [] call.api = "get_last_temp"  -> get_last_temp(sim)
    [] OTHER                       -> Says(sim, <<>>)
=============================================================================
