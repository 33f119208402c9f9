SPECIFICATION SpecKillInside
CONSTANTS
  empty = empty
  treasury = treasury
  low = low
  a = a
  b = b
  Torn = Torn
  NoHash = NoHash
  States <- MCStates
  Empty = empty
  NoHeight <- MCNoHeight
  Checked <- MCCheckedAll
  MaxStamp = 3
INVARIANTS
  ImageIsCurrent
