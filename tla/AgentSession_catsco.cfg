CONSTANTS
  s1 = s1
  s2 = s2
  u1 = u1
  u2 = u2
  u3 = u3
  NoSession = NoSession
  Session = {s1, s2}
  Input = {u1, u2, u3}
  MaxRemote = 2
  MaxInject = 0
  InjectLimit = 1
  MaxCommand = 2
  MaxCrash = 1
  MaxFault = 2
  Event = {"hydrate", "clear", "clearAll", "expire", "midTurn", "modelError", "reload"}
SPECIFICATION Spec
SYMMETRY Symmetry
CHECK_DEADLOCK FALSE
INVARIANT HistoryKept
INVARIANT ClearIsFinal
INVARIANT CursorCovered
INVARIANT PromptFirst
