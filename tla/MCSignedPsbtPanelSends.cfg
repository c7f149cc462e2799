CONSTANTS
  A = A
  B = B
  C = C
  Psbts = {A, B, C}
  MaxFrames = 2
  Total <- Sizes
  Missing = Missing
  ValidPsbts <- TwoValid
  MaxVerifying = 2
  Broadcasts = {b1}
SPECIFICATION Spec
INVARIANT
  SendsWhatWasVerified
