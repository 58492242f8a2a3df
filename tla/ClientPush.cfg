SPECIFICATION Spec
CONSTANTS
  Role = "client"
  MaxStreamId = 2
  MaxStreams = 2
  MaxClosedStreams = 1
  MaxConcurrent = 1
  InitialWindow = 1
  EnablePush = TRUE
  MaxControlFrames = 1
  MaxOutput = 1
  MaxQueuedEvents = 1
  HeaderReserve = 1
  DefaultWindow = 1
  MaxWindow = 3
  DefaultMaxFrame = 2
  Unlimited = 9
  Sections <- PushSections
  PeerSettings <- PlainSettings
  LocalSettings <- NoPush
  LastStreams = {0, 1}
  DataLengths = {}
  Increments = {}
  MaxBody = 1
  MaxOutstanding = 1
INVARIANTS
  DecoderFollowsParser
  TableInv
CHECK_DEADLOCK FALSE
