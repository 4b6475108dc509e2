SPECIFICATION Spec
CONSTANTS
  Procs = {"panel", "open", "latch", "flash", "upload"}
  Job <- MCJob
  MaxStarts = 3
  MaxTogether = 2
INVARIANTS
  ResetsWork
  LatchIsAddressed
  FlashKeepsCount
CHECK_DEADLOCK FALSE
