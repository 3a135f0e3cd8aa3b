SPECIFICATION PciSpec
CONSTANTS
  f1 = f1
  f2 = f2
  f3 = f3
  Fn = {f1, f2, f3}
  Machines <- MCMachines
  Refuses = {"function", "bus"}
  End = 5
  Chips <- MCChips
  Cards <- MCCards
  Fails = {"open", "setup", "caps", "intx", "err", "req"}
INVARIANTS
  NoDoubleReset
  BusResetIsPrepared
  GoneIsQuiet
  ChainsMatch
  TableIsTrapped
  FreedHoldsNothing
PROPERTIES
  
  OthersUndisturbed
  SignalsAreServed
CHECK_DEADLOCK FALSE
