SPECIFICATION ServicesSpec
CONSTANTS
  s1 = s1  t1 = t1  a1 = a1  c1 = c1  c2 = c2  g1 = g1  none = none
  Parts = {"agent"}
  SessionId = {s1}
  Token = {t1}
  Plugins = {a1}
  NoPlugins = none
  Nobody = none
  MaxCalls = 2
  MaxStarts = 2
  MaxObjects = 2
  MaxSyncs = 1
  Chat = {c1, c2}
  Signature = {g1}
  Window = 1
  MaxTime = 3
  MaxTools = 2
  Nothing = none
  Never = none
INVARIANT PaidIsAnswered
