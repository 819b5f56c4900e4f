SPECIFICATION Spec
CONSTANTS
  NoRequest = NoRequest
  N = 2
  RelayAtStart <- MCRelayAny
  PowerThreshold <- MCThreshold
  Hysteresis <- MCHysteresis
  PhaseLimitDuration = 3
  DayLength = 5
  EnergyUnit = 2
  MaxAge = 3
  MaxEnergy = 16
  StepDownDebounce = 2
  StepUpDebounce = 3
  GridPowers <- MCGridPowers
  InputReports <- MCInputs
  MaxLost = 0
INVARIANTS
  InactiveInputStepsDown
