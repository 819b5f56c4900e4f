SPECIFICATION Spec
CONSTANTS
  Tick = 8
  Second = 16
  Interval = 2
  Drift = 1
  MaxTime = 240
  Powers = {0, 1, 3}
  Day = 7
  KiloWattMinute = 2
INVARIANTS
  NeverTwoMissed EnergyIsWithin
PROPERTIES
  NeverFalls
CHECK_DEADLOCK FALSE
