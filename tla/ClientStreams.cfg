SPECIFICATION Spec
CONSTANTS
  Role = "client"
  MaxStreamId = 3
  MaxStreams = 2
  MaxClosedStreams = 1
  MaxConcurrent = 2
  InitialWindow = 1
  EnablePush = FALSE
  MaxControlFrames = 1
  MaxOutput = 1
  MaxQueuedEvents = 2
  HeaderReserve = 1
  DefaultWindow = 1
  MaxWindow = 3
  DefaultMaxFrame = 2
  Unlimited = 9
  Sections <- StreamSections
  PeerSettings <- PlainSettings
  LocalSettings <- NoSettings
  LastStreams = {0, 1}
  DataLengths = {}
  Increments = {}
  MaxBody = 1
  MaxOutstanding = 1
INVARIANTS
  SessionTypeOK
  GoAwayHonoured
PROPERTIES
  ImplementsTable
  FailureFreezes
  ClosingAnnounced
CHECK_DEADLOCK FALSE
