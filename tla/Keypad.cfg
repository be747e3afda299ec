SPECIFICATION FairSpec
CONSTANTS
  a = a
  nul = nul
  CHAR_NULL = nul
  NULL = NULL
  Code <- MCCode
  Shift <- MCShift
  Toggle <- MCToggle
  Fn = {f}
  Handle = {h1, h2}
  Capacity = 2
  Typed <- MCTyped
  Wanted <- MCWanted
  Callers = {"app", "callback"}
  SelfUnregister = FALSE
  MaxTyped = 3
INVARIANTS
  NoLostWakeup
  HandlerLinkLive
  EveryFunctionHears
  PromiseKept
PROPERTY NotifyDrains
