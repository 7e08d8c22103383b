CONSTANTS
  null = null
  video = video
  audio = audio
  NullPID = null
  PIDs <- MCPIDs
  Modulus = 3
  MaxLost = 2
  MaxRepeated = 1
SPECIFICATION Spec
INVARIANTS TypeOK NoFalseAlarm Accounting AmplificationBounded LossLeavesError
