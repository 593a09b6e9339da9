\* A register local assigned from an expression that reads it.
SPECIFICATION Spec
CONSTANTS
  MaxInt = 7
  MaxString = 6
  MaxCallDepth = 3
  MaxOverflowFires = 2
  Code <- SelfAssignCode
  Expected <- SelfAssignEnds
INVARIANT Parity
CHECK_DEADLOCK FALSE
