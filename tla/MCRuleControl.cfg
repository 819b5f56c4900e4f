SPECIFICATION FairSpec
CONSTANTS
  plug = plug
  meter = meter
  wallbox = wallbox
  Things <- MCThings
  WithStrategy <- MCWithStrategy
  Mentions <- MCMentions
  Values <- MCValues
  Zero = 0
  Plug = plug
  GridPowers <- MCGridPowers
  OnExpression <- MCOn
  OffExpression <- MCOff
  Unset = Unset
  StepDownDebounce = 2
  StepUpDebounce = 3
INVARIANTS
  NeededAreHeardUntilTheyLeave
  SetsTellSubscriptions
PROPERTIES
  SwitchedAsAsked
  LatchIsServed
  OffReachesPlug
