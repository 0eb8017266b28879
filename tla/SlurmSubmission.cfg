SPECIFICATION MCSpec
CONSTANTS
  s1 = s1  i1 = i1  j1 = j1  j2 = j2  a1 = a1  a2 = a2  a3 = a3  r1 = r1  r2 = r2
  w1 = w1  w2 = w2  p1 = p1  p2 = p2
  None = None
  Scopes <- MCScopes
  Intents <- MCIntents
  ScopeOf <- MCScopeOf
  Invocations <- TwoCalls
  Operations <- MCOperations
  Jobs <- TwoJobs
  Actions <- ThreeActions
  Frozen = i1
  Commands <- AllCommandsOffered
  Threads <- TwoThreads
  Renewals <- TwoRenewals
SYMMETRY CallJobSymmetry
INVARIANTS OneJobPerAttempt ClaimsAreHonoured
PROPERTIES KnownIsKept
