CONSTANTS
  MAX_SEQUENCE_NUMBER = 6
  Window = 3
  MediaStream = TRUE
  SEQUENCE_PROCESSING_BOUNDARY = 2
  Late = 2
  LateLast = FALSE
  SkipAtWrap = FALSE
  MaxLap = 2
SPECIFICATION LiveSpec
INVARIANTS
  TypeOK
  QueueAhead
  RepeatsKnown
PROPERTIES
  Fifo
  SentIsParsed
