SPECIFICATION Spec
CONSTANT HALF_BITS = 4
INVARIANT SignedLimbsNormalize
CHECK_DEADLOCK FALSE
