CONSTANTS
  MAX_SEQUENCE_NUMBER = 8
  Window = 4
  MediaStream = TRUE
  SEQUENCE_PROCESSING_BOUNDARY = 3
  Late = 3
  LateLast = TRUE
  SkipAtWrap = FALSE
  MaxLap = 2
SPECIFICATION Spec
INVARIANTS
  RepeatsKnown
