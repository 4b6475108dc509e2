CONSTANTS
  Interfaces <- MCInterfaces
  Machines <- MCMachines
  Gets = {"MAC", "DEVTYPE"}
  MaxEntries = 3
  HiMax = 9
SPECIFICATION Spec
INVARIANTS Lan2IsNext
CHECK_DEADLOCK FALSE
