SPECIFICATION MCSpec
CONSTANTS
  Graphics = {"display", "mirror"}
  Keypads = {"keypad"}
  Pathless = {"mirror"}
  MaxNumber = 2
  MaxFailures = 2
  MaxPresses = 2
INVARIANTS ConsolesFollow OptionsFollow
PROPERTY BootGetsThrough
