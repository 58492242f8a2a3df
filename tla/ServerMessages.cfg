SPECIFICATION Spec
CONSTANTS
  Role = "server"
  MaxStreamId = 1
  MaxStreams = 1
  MaxClosedStreams = 1
  MaxConcurrent = 1
  InitialWindow = 3
  EnablePush = FALSE
  MaxControlFrames = 1
  MaxOutput = 1
  MaxQueuedEvents = 1
  HeaderReserve = 1
  DefaultWindow = 2
  MaxWindow = 3
  DefaultMaxFrame = 2
  Unlimited = 9
  Sections <- MessageSections
  PeerSettings <- PlainSettings
  LocalSettings <- NoSettings
  LastStreams = {}
  DataLengths = {0, 1, 3}
  Increments = {}
  MaxBody = 2
  MaxOutstanding = 1
INVARIANTS
  LengthsExact
  CreditRestored
CHECK_DEADLOCK FALSE
