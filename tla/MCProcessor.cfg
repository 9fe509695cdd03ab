SPECIFICATION ProcessorSpec
CONSTANTS
  LastRequest = 4
  SetAddress = 1
  SetConfig = 3
  Key = {"A"}
  LooksBefore = 5
  LooksAfter = 7
  MaxFd = 5
  Device = {"null", "jtag"}
  Null = "null"
  Stdio = "jtag"
  BufLen = 2
  FifoLen = 2
  Margin = 1
  Timeout = 2
  IntMax = 4
  MaxBytes = 3
  MaxTyped = 1
  TickWords = 4
  Alarm = {"a1", "a2", "a3"}
  List = "list"
INVARIANTS
  NoStaleKey
  OneLockPerDevice
  StdioIsTheConsole
  OnTime
PROPERTIES
  HeldKeyArrives
  LockKeepsOthersOut
  WriteReturns
