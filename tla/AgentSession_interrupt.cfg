CONSTANTS
  s1 = s1
  s2 = s2
  u1 = u1
  u2 = u2
  u3 = u3
  NoSession = NoSession
  Session = {s1,s2}
  Input = {u1,u2,u3}
  MaxRemote = 1
  MaxInject = 0
  InjectLimit = 2
  MaxCommand = 2
  MaxCrash = 0
  MaxFault = 1
  Event = {"hydrate", "stop", "clear", "midTurn", "modelError", "reload"}
SPECIFICATION Spec
SYMMETRY Symmetry
CHECK_DEADLOCK FALSE
INVARIANT HistoryKept
INVARIANT NoStaleReply
