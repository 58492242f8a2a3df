SPECIFICATION Http1Spec
CONSTANTS
  Requests <- MCRequests
  MaxStartLineBytes = 5
  MaxHeaderBytes = 11
  MaxHeaders = 3
  MaxBodyBytes = 2
  MaxChunkLineBytes = 4
  MaxChunkMetadataBytes = 9
  MaxChunks = 2
  MaxUint = 3
  MaxFragment = 2
INVARIANTS
  ParserTypeOK
  InStep
  RejectedForCause
  FailedIsSilent
PROPERTIES
  FinishTruthful
