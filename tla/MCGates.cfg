SPECIFICATION Spec
CONSTANT HALF_BITS = 4
INVARIANTS
  EvaluatorsAgree
  GateSound
  GateComplete
CHECK_DEADLOCK FALSE
