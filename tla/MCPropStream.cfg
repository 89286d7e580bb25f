CONSTANTS
  Tables = {"player", "npc", "baddy"}
  Prop <- MCProp
  Junk <- MCJunk
  Policies <- MCPolicies
  MaxProps = 2
  None = None
SPECIFICATION Spec
INVARIANTS Aligned ValuesArrive TruncationSeen CleanWhenWhole WriterAgrees NoNewline
PROPERTY WalkForward
CHECK_DEADLOCK FALSE
