SPECIFICATION Spec
CONSTANTS
  Tdfs <- FastAndSlow
  Crosses = FALSE
  Epoch = 20
  MaxChanges = 0
  Span = 7
  MaxReads = 3
INVARIANTS
  FreezeInForce
  AccountsFrozenTime
  KeepsTime
  TypeOK
PROPERTIES
  Forward
  IdealSpec
