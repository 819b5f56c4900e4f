SPECIFICATION FairSpec
CONSTANTS
  wallbox = wallbox
  heater = heater
  pump = pump
  NoThing = NoThing
  Things <- MCThings
  Priority <- MCPriority
  StepDownDebounce = 2
  StepUpDebounce = 3
INVARIANTS
  StepsByPriority
  UpOnlyWhenNobodyWantsDown
PROPERTIES
  EachAdjustedOnce
  EachSeesAnOutcome
  KeepsPromise
  DownIsServed
  UpIsServed
