SPECIFICATION FairSpec
CONSTANTS
  Chunks <- MCChunks
  Frames <- MCAllFrames
  MaxFrames = 2
  MaxLateFrames = 1
  max_retries = 2
  max_line_buffer = 3
  max_event_payload = 2
  max_tool_call_args = 2
INVARIANTS
  ChunkingIrrelevant
  NothingFabricated
  ErrIffFailure
  BuffersBounded
  RetriesOnlyTransient
PROPERTIES
  StreamEnds
