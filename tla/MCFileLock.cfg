SPECIFICATION TableSpec
CONSTANTS
  MaxFd = 5
  Device = {"null", "jtag"}
  Null = "null"
  Stdio = "jtag"
INVARIANT ExclusiveAccess
