SPECIFICATION RecordsSpec
CONSTANTS
  x1 = x1
  p1 = p1
  p2 = p2
  MaxSpeeches = 2
  MaxStreams = 2
  QueueFills = TRUE
  Turns = {t1}
  MaxSentences = 2
  MaxHuman = 1
  QueueCap = 2
  MaxUtterances = 2
  StoreFails = TRUE
  Nodes = {n1, n2}
  Names = {x1, x2}
  Editors = {e1}
  Embedders = {w1}
  Proposals = {p1, p2}
  ProposalKind <- Kinds
  Subject <- About
  Authored = Authored
  MaxAspects = 2
  MaxRows = 3
  MaxWrites = 3
  MaxEmbedFails = 1
  Nothing = Nothing
INVARIANTS  RecordInv KnowledgeInv
PROPERTIES UtterancesSettle RecordsDrain
CHECK_DEADLOCK FALSE
