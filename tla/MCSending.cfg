CONSTANTS
  Sources = {s1, s2, s3, s4}
  SendIds = {s1, s2, s3, s4}
  MessagePrice = 2
  PublicPrice = 3
  InitialBalances = {1, 4, 6}
  MaxInFlight = 3
SPECIFICATION SendSpec
SYMMETRY SendSymmetry
INVARIANTS ChargedIffLogged OverdraftBounded
CHECK_DEADLOCK FALSE
