SPECIFICATION Spec
CONSTANTS
  empty = empty
  treasury = treasury
  low = low
  a = a
  b = b
  Torn = Torn
  NoHash = NoHash
  States <- MCStates
  Empty = empty
  NoHeight <- MCNoHeight
  Checked <- MCChecked
  MaxStamp = 3
INVARIANTS
  TypeOK
  ImageIsCurrent
  CleanIsReusable
  StampMeansCommitted
