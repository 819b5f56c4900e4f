SPECIFICATION Spec
CONSTANTS
  shelly = shelly
  stray1 = stray1
  stray2 = stray2
  stray3 = stray3
  Request = Request
  Invalid = Invalid
  Nodes <- MCNodes
  Flaps <- MCFlaps
  Strays <- MCStrays
  StrayText <- MCStrayText
  Hosts = {shelly}
  HttpThings = {shelly}
INVARIANTS
  DecodesAsSent OnlyNodesJoin
PROPERTIES
  ReadingsCatchUp
