SPECIFICATION Spec
CONSTANTS
  a = a
  b = b
  p = p
  none = none
  done = done
  KEYPAD_EFI_KEY_MAX_COUNT = 4
  Key <- MCKey
  Partial <- MCPartial
  ZeroKey = p
  NotReady = none
  Done = done
PROPERTY ImplementsKeyFifo
