CONSTANTS
  c1 = c1
  c2 = c2
  c3 = c3
  p1 = p1
  Commands = {c1, c2}
  Gateway = Gateway
  None = None
  CommandType <- MCOwnType
  PingCommands = {}
  DevicePingCommands = {}
  TwoStageCommands = {}
  MAX_RETRIES = 2
  MAX_SEQUENCE_NUMBER = 63
  MaxConnections = 1
  MaxFailures = 1
  Faults = {"slow_ack", "slow_retry", "slow_result"}
SPECIFICATION LiveSpec
CHECK_DEADLOCK FALSE
PROPERTIES
  CommandAnswered
