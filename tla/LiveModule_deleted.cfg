\* Liveness when the SDK reports every start; it ends after the shutdown.
SPECIFICATION FairSpec
CONSTANTS
  NULL = NULL
  Owner = {o1, o2}
  Rid = {r1}
  Cell = {a1, a2, a3}
  SdkHandle = {h1, h2}
  Libraries <- Installed
PROPERTIES
  StoppedIsDeleted
CHECK_DEADLOCK FALSE
