\* Reports of the SDK cross stops; cells and SDK handles are used again. The
\* process ends after the shutdown, or when startup fails.
SPECIFICATION Spec
CONSTANTS
  NULL = NULL
  Owner = {o1, o2}
  Rid = {r1, r2}
  Cell = {a1, a2, a3}
  SdkHandle = {h1, h2, h3}
  Libraries <- Installed
SYMMETRY Symmetry
INVARIANTS
  TypeOK
  ReportOutstanding
  SessionsStoppable
  ServedWhatAsked
PROPERTIES
  KeepsContract
CHECK_DEADLOCK FALSE
