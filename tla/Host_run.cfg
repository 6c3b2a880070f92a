SPECIFICATION HostSpec
CONSTANTS
  Proc = {p1, p2}
  Link = {l1, l2}
  Absent = Absent
  MaxEnds = 1
  MaxExits = 1
  Turn = {t1, t2}
  IsAnswer = {t2}
  Text = {x, y}
  NoText = NoText
  MaxFaults = 4
  j1 = j1
  j2 = j2
  k1 = k1
  Job = {j1, j2}
  Context = {k1}
  ContextOf <- MCContextOf
  Server = {s1, s2}
  Thread = {h1, h2}
  Operator = Operator
  Null = Null
  MaxBreaks = 1
  MaxOperatorTurns = 1
  Writer = {w1, w2}
  Main = Main
  u1 = u1
  d1 = d1
  HubUrl = {u1, u2}
  Core = {c1, c2}
  ClaudeCore = {c2}
  Channel = {d1, d2}
  Off = Off
  MaxEdits = 2
  MaxFailures = 1
INVARIANTS HostTypeOK NewestIsActive OneChild CompletedIsKept AnswerIsOwn ReloadApplies NothingStray
PROPERTIES
  DriverReturns
  TurnEnds
  RunEnds
CHECK_DEADLOCK FALSE
