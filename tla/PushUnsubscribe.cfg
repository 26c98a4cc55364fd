SPECIFICATION Spec
CONSTANTS
  s1 = s1
  s2 = s2
  pl = pl
  k1 = k1
  k2 = k2
  NoSub = NoSub
  Subs = {s1}
  Push = {s1}
  Grouped = {}
  Calls = {k1, k2}
  Messages = {"a", "b", "c"}
  Topic <- Backlog
  Matching <- Wanted
  Window = 3
  Capacity = 1
  MaxRestarts = 0
INVARIANTS UnsubscribeIsSafe
CHECK_DEADLOCK FALSE
