SPECIFICATION Spec
CONSTANTS
  Sessions = {api, dl, ul}
  Media = {dl, ul}
  NumSlots = 2
  NumSenders = 3
  Workers = {w1, w2}
  MaxFaults = 2
INVARIANTS
  SendersAreHeld
  KeyIsSound
SYMMETRY CallerSymmetry
CHECK_DEADLOCK FALSE
