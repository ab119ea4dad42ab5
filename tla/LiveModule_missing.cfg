\* The SDK library is not installed; the process ends after the shutdown.
SPECIFICATION Spec
CONSTANTS
  NULL = NULL
  Owner = {o1, o2}
  Rid = {r1}
  Cell = {a1, a2}
  SdkHandle = {h1, h2}
  Libraries <- Missing
INVARIANTS
  InterfacePresent
CHECK_DEADLOCK FALSE
