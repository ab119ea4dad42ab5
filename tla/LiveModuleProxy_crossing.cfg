\* Stops, answers and crashes of the children cross; slots are used again.
SPECIFICATION Spec
CONSTANTS
  NULL = NULL
  Owner = {o1, o2}
  Proc = {p1, p2, p3}
SYMMETRY Symmetry
INVARIANTS
  FreedOnce
  ChildStoppable
  AnsweredOnce
PROPERTIES
  KeepsContract
\* The parent and its children end for good.
CHECK_DEADLOCK FALSE
