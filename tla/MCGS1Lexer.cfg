CONSTANTS
    Commands <- MCCommands
    CallForms <- MCCallForms
    Functions <- MCFunctions
    Codes <- MCCodes
    MaxDepth = 4
SPECIFICATION Spec
INVARIANT ModesInStep
INVARIANT ReadAsMeant
