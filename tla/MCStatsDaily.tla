---------------------------- MODULE MCStatsDaily ----------------------------
(* A tick of 8 units, two ticks a second, a poll every two seconds, and a  *)
(* day of seven seconds, whose midnight is between two polls.              *)
EXTENDS StatsDaily
=============================================================================
