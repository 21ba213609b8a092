SPECIFICATION Spec
CONSTANTS
  NoBackend = NoBackend
  NoError = NoError
  Stages <- MCStages
  MaxCount = 1
INVARIANTS
  OneHolder
