CONSTANTS
  s1 = s1
  s2 = s2
  u1 = u1
  u2 = u2
  u3 = u3
  NoSession = NoSession
  Session = {s1,s2}
  Input = {u1,u2}
  MaxRemote = 1
  MaxInject = 1
  InjectLimit = 2
  MaxCommand = 1
  MaxCrash = 0
  MaxFault = 1
  Event = {"hydrate", "inject", "stop", "clear", "clearAll", "exit", "expire", "promptError", "longTurn", "midTurn", "status", "modelError", "reload"}
SPECIFICATION FairSpec
CHECK_DEADLOCK FALSE
INVARIANT TypeOK
INVARIANT NoStaleReply
PROPERTY TurnEnds
