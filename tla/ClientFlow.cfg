SPECIFICATION Spec
CONSTANTS
  Role = "client"
  MaxStreamId = 1
  MaxStreams = 1
  MaxClosedStreams = 1
  MaxConcurrent = 1
  InitialWindow = 2
  EnablePush = FALSE
  MaxControlFrames = 1
  MaxOutput = 1
  MaxQueuedEvents = 1
  HeaderReserve = 1
  DefaultWindow = 2
  MaxWindow = 3
  DefaultMaxFrame = 2
  Unlimited = 9
  Sections <- FlowSections
  PeerSettings <- WindowSettings
  LocalSettings <- NoSettings
  LastStreams = {0}
  DataLengths = {0, 3}
  Increments = {2}
  MaxBody = 3
  MaxOutstanding = 1
INVARIANTS
  WindowsInRange
CHECK_DEADLOCK FALSE
