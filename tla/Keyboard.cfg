SPECIFICATION FairSpec
CONSTANTS
  NULL = NULL
  Reader = {r1, r2}
  Foreground = r1
  Codes = {"enter", "c", "ctrl", "shift", "bar"}
  BUF_SIZE = 2
  CountMod = 4
  Bytes = {3}
  Counts = {3}
  Timeouts = {1}
  MaxKeys = 3
INVARIANTS InOrderOnce OnlyFreshKeys StaysInBuffer
PROPERTY TimedReadReturns
