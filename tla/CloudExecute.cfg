SPECIFICATION MCSpec
CONSTANTS
  c1 = c1  c2 = c2  j1 = j1  a1 = a1  a2 = a2  a3 = a3
  None = None
  Observer = None
  Jobs <- MCJobs
  Callers <- MCCallers
  ProviderStates <- ThreeStates
  Actions <- ThreeActions
  Commands <- MCCommands
INVARIANTS EffectsHappenOnce CloudIsSound
PROPERTIES EvidenceIsKept ObservationsMoveOn CloudOnlyAdvances
