SPECIFICATION Spec
CONSTANTS
  wallbox = wallbox
  plug = plug
  Things = {wallbox, plug}
  Settings <- MCSettings
  Values = {10, 20}
  Default = 10
  Unset = Unset
  Broken = Broken
  Wallboxes = {wallbox}
  Rules = {plug}
  OffsetsMentioned <- MCOffsetsMentioned
  Chosen = {20}
  MaxQueue = 1
INVARIANTS
  EverySettingSurvives
CHECK_DEADLOCK FALSE
