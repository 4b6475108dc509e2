CONSTANTS
  Interfaces <- MCInterfaces
  Machines <- MCMachines
  Gets = {"MAC", "DEVTYPE"}
  MaxEntries = 2
  HiMax = 9
SPECIFICATION Spec
INVARIANTS GetAnswersLast StatusIsTrue AddressesAreGood
PROPERTIES ComesUpAgain
CHECK_DEADLOCK FALSE
