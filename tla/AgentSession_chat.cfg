CONSTANTS
  s1 = s1
  s2 = s2
  u1 = u1
  u2 = u2
  u3 = u3
  NoSession = NoSession
  Session = {s1,s2}
  Input = {u1,u2,u3}
  MaxRemote = 0
  MaxInject = 1
  InjectLimit = 2
  MaxCommand = 2
  MaxCrash = 1
  MaxFault = 1
  Event = {"inject", "clear", "clearAll", "expire", "midTurn", "modelError", "reload"}
SPECIFICATION Spec
CHECK_DEADLOCK FALSE
SYMMETRY Symmetry
INVARIANT PromptFirst
INVARIANT ClearIsFinal
