SPECIFICATION SpeechSpec
CONSTANTS
  MaxSpeeches = 2
  MaxStreams = 2
  QueueFills = TRUE
INVARIANTS TranscribedByOne
CHECK_DEADLOCK FALSE
