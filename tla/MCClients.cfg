SPECIFICATION ClientsSpec
CONSTANTS
  c1 = c1  k1 = k1  k2 = k2  root = root  session = session
  p1 = p1  p2 = p2  p3 = p3  t1 = t1  x1 = x1  a1 = a1  a2 = a2  none = none
  Parts = {"sync", "plugins", "chat", "hosts"}
  ClientId = {c1}
  Conn = {k1, k2}
  Resource = {root, session}
  Session = {session}
  Agent = Agent
  Absent = none
  Capacity = 2
  Initial = {{}, {root}}
  Burst = FALSE
  MaxSeq = 2
  MaxDispatch = 1
  MaxUp = 2
  PluginUri = {p1, p2, p3}
  Unversioned = {p3}
  MaxPlugins = 2
  MaxVersion = 2
  NoTask = none
  NoUri = none
  None = none
  TurnId = {1, 2}
  ToolCallId = {t1}
  PartId = {}
  MessageId = {1, 2}
  Text = {x1}
  Chunk = {}
  Client = {}
  Uri = {}
  MetaValue = {}
  MaxTurns = 2
  MaxQueue = 2
  MaxSent = 2
  MaxDown = 1
  MaxOthers = 1
  Address = {a1, a2}
  Tunnel = {a2}
  MaxClients = 2
  MaxRequests = 2
  NoCall = none
  Free = none
CHECK_DEADLOCK FALSE
INVARIANTS
  SyncTypeOK OptimisticIsRebased ViewsCatchUp StaleCloseIsHarmless PendingIsOnItsWay
  CacheTypeOK  CacheBounded
  HandlerTypeOK ActiveTurnIsTracked PendingIsAsked
  OneLiveClient AddsHearOfConnections
PROPERTIES NeverForgotten EntriesAreConfigured ShownStaysShown ViewsFollowTheLog ListIsMirrored
