CONSTANTS
  Resumable = {r1, r2}
  Sync = {}
  Script <- MCScript
  Program <- MCProgram
  ScriptsFor <- MCUnbounded
  MaxSteps = 12
  Npc = Npc
  None = None
SPECIFICATION Spec
INVARIANT CancelErases
