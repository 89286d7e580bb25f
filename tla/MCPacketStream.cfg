CONSTANTS
  Base = 2
  Payload <- MCPayload
  None = None
  MaxQueued = 3
SPECIFICATION FairSpec
INVARIANTS TypeOK NoHeldPacket
PROPERTY StreamChannel
