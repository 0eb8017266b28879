SPECIFICATION ControlSpec
CONSTANTS
  s1 = s1  i1 = i1  i2 = i2  j1 = j1  j2 = j2  p1 = p1  p2 = p2  p3 = p3  p4 = p4
  None = None
  Scopes <- MCScopes
  Intents <- TwoIntents
  ScopeOf <- ScopeOfTwo
  Invocations <- FourCalls
  Operations <- MCOperations
  Jobs <- TwoJobs
SYMMETRY MCSymmetry
INVARIANTS CancelReconciles
CHECK_DEADLOCK FALSE
