\* The parent's loop is fair; the children may crash, hang or never answer,
\* and the parent may crash.
SPECIFICATION ParentSpec
CONSTANTS
  NULL = NULL
  Owner = {o1, o2}
  Proc = {p1, p2}
PROPERTIES
  EndIsAnswer
  ToldChildEnds
  OrphansEnd
\* The parent and its children end for good.
CHECK_DEADLOCK FALSE
