SPECIFICATION Spec
CONSTANTS
  s1 = s1  s2 = s2  c1 = c1  c2 = c2  m1 = m1  m2 = m2
  p1 = p1  p2 = p2  p3 = p3  x1 = x1  d1 = d1
  None = None
  Session = {s1}
  TurnId = {1, 2}
  ToolCallId = {}
  PartId = {}
  MessageId = {m1}
  Text = {x1}
  Chunk = {d1}
  Client = {}
  Uri = {}
  MetaValue = {}
  TextEvent = {}
  Environment = {"fail", "queue"}
  MaxParts = 0
  MaxText = 0
  MaxQueue = 1
  MaxSteers = 2
  MaxAsks = 0
CHECK_DEADLOCK FALSE
INVARIANT QueueWaitsBehindATurn
