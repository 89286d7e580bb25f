CONSTANTS
  Modulus = 4
  Multiplier = 5
  InitialIterator = 3
  Xor <- MCXor
  Key = {1, 2}
  LimitOf <- MCLimitOf
  Message = {1, 2, 3}
  Raw <- MCRaw
  Packed <- MCPacked
  MaxPacketLen = 3
  PosModulus = 4
  Filler = 0
  Gen3Message <- MCFits
  MaxInFlight = 3
  None = None
SPECIFICATION Spec
INVARIANT InStep
PROPERTY Channel
