----------------------------- MODULE MCSettings -----------------------------
EXTENDS SettingsControl

CONSTANTS wallbox, plug

MCSettings == {<<wallbox, "offset">>, <<plug, "name">>, <<plug, "offset">>}

\* The plug's rule does not mention its offset.
MCOffsetsMentioned == [t \in {plug} |-> {}]
=============================================================================
