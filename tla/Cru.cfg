CONSTANTS
  Resets <- MCResets
  CpuClusters = {"big"}
  BusRates = {40000, 50000, 50001, 400000}
  PixelRates = {10000, 16327, 25200, 126857, 148500, 600464, 722959, 2823723, 3199884}
  MaxCalls = 2
SPECIFICATION Spec
INVARIANTS FeedsOnlyLocked  SettingsKept RatesRight
