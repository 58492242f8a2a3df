SPECIFICATION CreditSpec
CONSTANTS
  Role = "server"
  MaxStreamId = 1
  MaxStreams = 1
  MaxClosedStreams = 1
  MaxConcurrent = 1
  InitialWindow = 3
  EnablePush = FALSE
  MaxControlFrames = 1
  MaxOutput = 1
  MaxQueuedEvents = 1
  HeaderReserve = 1
  DefaultWindow = 2
  MaxWindow = 3
  DefaultMaxFrame = 2
  Unlimited = 9
  Sections <- FlowSections
  PeerSettings <- PlainSettings
  LocalSettings <- OwnWindowSettings
  LastStreams = {0}
  DataLengths = {1, 2}
  Increments = {}
  MaxBody = 2
  MaxOutstanding = 2
INVARIANTS
  CreditNotOverstated
  CreditBounded
CHECK_DEADLOCK FALSE
