SPECIFICATION FairSpec
CONSTANTS
  StepDownDebounce = 2
  StepUpDebounce = 3
  MinCurrent = 6
  Offsets <- MCOffsets
  Off <- MCOff
  OnePhaseHysteresis = 1
  ThreePhaseHysteresis = 2
  Powers <- MCPowers
  Voltages <- MCOneVoltage
  GridPowers <- MCGridPowers
  ShortPowers <- MCOneShortPower
INVARIANTS
  NeverBoth
PROPERTIES
  EnoughCurrent
  StepDirection
  NotTakenBack
  OffStaysOff
  SurplusCharges
