CONSTANTS
  script = script
  class = class
  other = other
  VM = {script, class, other}
  Joined <- MCJoined
  Coro = {c1}
  MaxOps = 2
  MaxErrors = 0
  Reentry = FALSE
  MaxDepth = 4
  None = None
SPECIFICATION Spec
INVARIANTS TypeOK CounterIsOwn SuspendableRight
PROPERTY Terminates
