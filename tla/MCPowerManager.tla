--------------------------- MODULE MCPowerManager ---------------------------
(* Three things, two of them with the same priority; one unit of time is a *)
(* minute, so the debounce times are 2 and 3.                              *)
EXTENDS PowerManager, TLC

CONSTANTS wallbox, heater, pump

MCThings == {wallbox, heater, pump}
MCPriority == (wallbox :> 0 @@ heater :> 2 @@ pump :> 0)
=============================================================================
