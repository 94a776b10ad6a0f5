SPECIFICATION Spec
CONSTANTS
  EmptyRegister = EmptyRegister
  NoOrder = NoOrder
  a1 = a1
  a2 = a2
  Accounts = {a1, a2}
  FeeAccount = fees
  Setups <- SlicedTwapSetups
INVARIANT NothingLockedNothingOpen
