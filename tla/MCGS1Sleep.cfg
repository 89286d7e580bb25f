CONSTANTS
  Resumable = {r1}
  Sync = {s1}
  Script <- MCScript
  Program <- MCProgram
  ScriptsFor <- MCScriptsFor
  MaxSteps = 30
  Npc = Npc
  None = None
SPECIFICATION FairSpec
INVARIANTS TypeOK CancelErases ScopeIntact Unbound SliceBounded
PROPERTIES CancelOnlyDoomed Finishes
