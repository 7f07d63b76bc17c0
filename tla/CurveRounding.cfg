\* Up to seven small buys and two repairs, in any order, on a curve of 997 tokens.
SPECIFICATION Spec
CONSTANTS
  VirtualZec = 60
  VirtualTokens = 997
  Dust = 0
  Payments = {1, 2, 3}
  MaxBuys = 7
  MaxRepairs = 2
INVARIANTS
  DriftBounded
  RoundTripWithinHalfToken
CHECK_DEADLOCK FALSE
