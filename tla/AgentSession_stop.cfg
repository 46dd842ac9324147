CONSTANTS
  s1 = s1
  s2 = s2
  u1 = u1
  u2 = u2
  u3 = u3
  NoSession = NoSession
  Session = {s1,s2}
  Input = {u1,u2}
  MaxRemote = 0
  MaxInject = 0
  InjectLimit = 2
  MaxCommand = 1
  MaxCrash = 0
  MaxFault = 0
  Event = {"stop", "expire"}
SPECIFICATION Spec
CHECK_DEADLOCK FALSE
INVARIANT HistoryKept
