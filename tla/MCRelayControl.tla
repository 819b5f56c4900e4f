--------------------------- MODULE MCRelayControl ----------------------------
(* Two phases of 2 W each; energy is published in units of 2 Ws.           *)
EXTENDS RelayControl

MCThreshold == [p \in Phases |-> 2]
MCHysteresis == [p \in Phases |-> 1]

(* The relay was switched off, or the daemon restarts under a relay that   *)
(* is on.                                                                  *)
MCRelayOff == {[p \in Phases |-> FALSE]}
MCRelayAny == [Phases -> BOOLEAN]

MCInputs == [Phases -> BOOLEAN]

(* Import, a surplus one short of what a phase needs, and one that is      *)
(* enough.                                                                 *)
MCGridPowers == {1, -3, -4}
=============================================================================
