CONSTANTS
  c1 = c1
  c2 = c2
  c3 = c3
  p1 = p1
  Commands = {c1, c2, c3}
  Gateway = Gateway
  None = None
  CommandType <- MCOwnType
  PingCommands = {}
  DevicePingCommands = {}
  TwoStageCommands = {c2, c3}
  MAX_RETRIES = 1
  MAX_SEQUENCE_NUMBER = 63
  MaxConnections = 2
  MaxFailures = 0
  Faults = {"disconnect", "ageing", "slow_result", "early_second"}
SPECIFICATION Spec
INVARIANTS
  AgedOutNotExecuted
  SecondAfterFirst
