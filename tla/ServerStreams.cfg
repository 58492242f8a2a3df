SPECIFICATION Spec
CONSTANTS
  Role = "server"
  MaxStreamId = 3
  MaxStreams = 2
  MaxClosedStreams = 1
  MaxConcurrent = 2
  InitialWindow = 1
  EnablePush = TRUE
  MaxControlFrames = 1
  MaxOutput = 1
  MaxQueuedEvents = 1
  HeaderReserve = 1
  DefaultWindow = 1
  MaxWindow = 3
  DefaultMaxFrame = 2
  Unlimited = 9
  Sections <- ServerSections
  PeerSettings <- PushSettings
  LocalSettings <- NoSettings
  LastStreams = {}
  DataLengths = {0}
  Increments = {}
  MaxBody = 1
  MaxOutstanding = 1
INVARIANTS
  ProcessedWasReceived
PROPERTIES
  NeverReused
CHECK_DEADLOCK FALSE
