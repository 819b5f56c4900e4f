SPECIFICATION FairSpec
CONSTANTS
  NoRequest = NoRequest
  N = 2
  RelayAtStart <- MCRelayOff
  PowerThreshold <- MCThreshold
  Hysteresis <- MCHysteresis
  PhaseLimitDuration = 2
  DayLength = 3
  EnergyUnit = 2
  MaxAge = 5
  MaxEnergy = 8
  StepDownDebounce = 4
  StepUpDebounce = 5
  GridPowers <- MCGridPowers
  InputReports <- MCInputs
  MaxLost = 1
INVARIANTS
  TypeOK
  OnPhasesAreARing
  InactiveInputStepsDown
PROPERTIES
  OldestOffFirst
  LimitRespected
  EnergyNeverFalls
  InactiveInputSwitchesOff
  SurplusSwitchesOn
