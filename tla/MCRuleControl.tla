---------------------------- MODULE MCRuleControl ----------------------------
(* A plug whose rule mentions a meter: it is switched on by a surplus of   *)
(* the site, and off by what the meter reports.  A wallbox has a strategy  *)
(* and no rule.                                                            *)
EXTENDS RuleControl, TLC

CONSTANTS plug, meter, wallbox

MCThings == {plug, meter, wallbox}
MCWithStrategy == {plug, wallbox}
MCMentions == (plug :> {meter} @@ meter :> {} @@ wallbox :> {})
MCValues == {0, 1}
MCGridPowers == {-2, 2}

MCOn(table, g) == g < -1
MCOff(table, g) == table[meter] = 1
=============================================================================
