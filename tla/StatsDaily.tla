----------------------------- MODULE StatsDaily -----------------------------
(***************************************************************************)
(* The energy that an inverter has delivered today.  Whenever it reports a *)
(* power, the time since its last report is added with that power, and the *)
(* sum is published as another property.  The sums start again with the    *)
(* first report of a day, and with the daemon.  One of the strings of the  *)
(* inverter is modelled; they do not depend on each other.                 *)
(***************************************************************************)
EXTENDS ThingsManager

CONSTANTS
  Powers,  \* what the string delivers
  Day,     \* seconds in a day
  KiloWattMinute \* 60000 Ws

ASSUME StatsAssumption ==
  /\ Powers \subseteq Nat
  /\ Day \in Nat \ {0} /\ KiloWattMinute \in Nat \ {0}

VARIABLES
  stats,      \* ThingStats: currentDay, timestamp and energyDelivered
  dcEnergy,   \* the published property
  first,      \* history: when the sums were started
  low, high   \* history: the powers reported since then are between these

statsVars == <<stats, dcEnergy, first, low, high>>
vars == <<timerVars, statsVars>>

(* The day of an entry that is not there yet is 0, which has passed.  *)
NoStats == [currentDay |-> 0, timestamp |-> 0, energyDelivered |-> 0]

Init ==
  /\ TimerInit
  /\ stats = NoStats
  /\ dcEnergy = 0 /\ first = 0 /\ low = 0 /\ high = 0

(* system_clock, in seconds; the model begins at midnight of day 1.  *)
Seconds == Day + (now \div Second)

(* The sum with the time since the last report left out.  *)
NoCatchUp(s, value) == s.energyDelivered + value * Interval

Added(s, value) == s.energyDelivered + value * (Seconds - s.timestamp)

(* The same entry with the time of the last report kept, and the sum not.  *)
SumDropped(s) == [currentDay |-> Seconds \div Day, timestamp |-> s.timestamp, energyDelivered |-> 0]

StartOfDay(s) ==
  IF Seconds \div Day = s.currentDay THEN s
  ELSE [currentDay |-> Seconds \div Day, timestamp |-> Seconds, energyDelivered |-> 0]

DcPower(value) ==
  LET s == StartOfDay(stats)
      isFirst == Seconds \div Day # stats.currentDay
  IN  /\ stats' = [s EXCEPT !.timestamp = Seconds, !.energyDelivered = Added(s, value)]
      /\ dcEnergy' = stats'.energyDelivered \div KiloWattMinute
      /\ first' = IF isFirst THEN Seconds ELSE first
      /\ low' = IF isFirst \/ value < low THEN value ELSE low
      /\ high' = IF isFirst \/ value > high THEN value ELSE high

(* The thing answers, at once or before the timer fires however often.  *)
Report ==
  /\ asked /\ asked' = FALSE
  /\ \E value \in Powers : DcPower(value)
  /\ UNCHANGED <<now, polled>>

Restart ==
  /\ stats' = NoStats /\ dcEnergy' = 0 /\ asked' = FALSE
  /\ UNCHANGED <<now, polled, first, low, high>>

Fire == onTimer /\ UNCHANGED statsVars

Next == Fire \/ Report \/ Restart

Spec == Init /\ [][Next]_vars

(* The sum covers the time since it was started, once: polls that are      *)
(* missed or answered late neither add energy nor lose any.                *)
EnergyIsWithin ==
  LET counted == stats.timestamp - first IN
  stats.currentDay # 0 =>
    /\ low * counted <= stats.energyDelivered
    /\ stats.energyDelivered <= high * counted
    /\ counted < Day

(* What is published falls only when a day or the daemon starts.  *)
NeverFalls ==
  [][stats'.currentDay = stats.currentDay => dcEnergy' >= dcEnergy]_vars
=============================================================================
