CONSTANTS
  A = A
  B = B
  C = C
  Psbts = {A, B, C}
  MaxFrames = 2
  Total <- Sizes
  Missing = Missing
  ValidPsbts <- OneValid
  MaxVerifying = 2
  Broadcasts = {b1}
SPECIFICATION Spec
INVARIANTS
  TypeOK
  SendsWhatWasVerifiedUnlessCrossed
  OnlyValidReachesCore
  OutcomeIsTrue
PROPERTIES
  CapturedStays
  BroadcastEnds
