------------------------- MODULE MCWallboxStrategy ---------------------------
(* Powers in units of 230 W, so that a phase of 230 V has 1: a car needs 6 *)
(* on one phase and 18 on three; the hystereses of 200 W and 414 W are 1   *)
(* and 2.  A wallbox may be connected to one phase only.                   *)
EXTENDS WallboxStrategy

MCOff == -142
MCOffsets == {MCOff, -9, 0, 9}
MCVoltages == {[i \in 1 .. 3 |-> 1], <<2, 1, 1>>}
MCGridPowers == {-21, -20, -8, -7, -6, 1, 9}
MCShortPowers == {-21, -7, 9}
MCPowers == {0, 7, 19}

MCOneVoltage == {[i \in 1 .. 3 |-> 1]}
MCOneShortPower == {-8}
=============================================================================
