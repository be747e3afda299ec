SPECIFICATION BindSpec
CONSTANT MaxRegistrations = 3
INVARIANTS
  HandlersSafe
  NothingLeaked
