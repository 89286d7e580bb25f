CONSTANTS
  script = script
  class = class
  other = other
  VM = {script, class, other}
  Joined <- MCJoined
  Coro = {}
  MaxOps = 2
  MaxErrors = 0
  Reentry = TRUE
  MaxDepth = 3
  None = None
SPECIFICATION Spec
INVARIANT RunBounded
