SPECIFICATION PipelinedSpec
CONSTANTS
  Turns = {t1}
  MaxSentences = 2
  MaxHuman = 0
  QueueCap = 2
  MaxUtterances = 2
  StoreFails = FALSE
INVARIANTS OnlyFailedRetracted
CHECK_DEADLOCK FALSE
