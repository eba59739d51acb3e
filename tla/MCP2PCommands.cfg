CONSTANTS
  c1 = c1
  c2 = c2
  c3 = c3
  p1 = p1
  Commands = {c1, c2, p1}
  Gateway = Gateway
  None = None
  CommandType <- MCOneType
  PingCommands = {p1}
  DevicePingCommands = {}
  TwoStageCommands = {}
  MAX_RETRIES = 2
  MAX_SEQUENCE_NUMBER = 63
  MaxConnections = 2
  MaxFailures = 1
  Faults = {"disconnect", "slow_retry", "slow_result", "close", "stray_lookup"}
SPECIFICATION Spec
INVARIANTS
  TypeOK
  QueueNotStranded
  ResultBelongsToCommand
  OneAnswer
  NoReexecution
  ExecutedInOrder
  KeyAgreed
