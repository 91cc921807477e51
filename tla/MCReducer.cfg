SPECIFICATION Spec
CONSTANTS
  t1 = t1  t2 = t2  c1 = c1  c2 = c2  p1 = p1
  m1 = m1  m2 = m2  m3 = m3  x1 = x1  u1 = u1  v1 = v1  k1 = k1
  None = None
  TurnId = {t1, t2}
  ToolCallId = {c1}
  PartId = {p1}
  MessageId = {m1, m2, m3}
  Text = {x1}
  Chunk = {k1}
  Client = {k1}
  Uri = {u1}
  MetaValue = {v1}
  MaxParts = 2
  MaxText = 2
  MaxQueue = 3
SYMMETRY ReducerSymmetry
CONSTRAINT OneConcern
INVARIANTS ReducerTypeOK QueueIdsUnique ReorderIsStable
PROPERTIES HistorySettledAndFrozen ToolCallFollowsLifecycle
