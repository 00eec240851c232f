SPECIFICATION Spec
CONSTANTS
  Tdfs <- FastAndSlow
  Crosses = FALSE
  Epoch = 20
  MaxChanges = 2
  Span = 5
  MaxReads = 2
PROPERTIES
  TdfChangeKeepsTime
