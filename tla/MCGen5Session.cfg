CONSTANTS
  Modulus = 4
  Multiplier = 5
  InitialIterator = 3
  Xor <- MCXor
  Key <- MCKey
  LimitOf <- MCLimitOf
  Message <- MCMessage
  Size <- MCSize
  Image <- MCImage
  Login <- MCLogin
  ClientPolicy <- MCPolicy
  ServerPolicy <- MCPolicy
  MaxPacketLen = 4
  MaxInFlight <- MCInFlight
  None = None
  Garbage = Garbage
SPECIFICATION FairSpec
INVARIANTS TypeOK InStep SessionInv
PROPERTIES UpChannel DownChannel
