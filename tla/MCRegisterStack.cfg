SPECIFICATION Spec
CONSTANTS
  EmptyRegister = EmptyRegister
  Instr = {i1, i2}
INVARIANT LastRegisterFree
PROPERTY RefinesInstructionStack
