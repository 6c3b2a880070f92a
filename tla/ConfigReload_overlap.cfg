SPECIFICATION ReloadSpec
CONSTANTS
  Writer = {w1, w2}
  Main = Main
  HubUrl = {u1, u2}
  Core = {c1, c2}
  ClaudeCore = {c2}
  Channel = {d1}
  Off = Off
  MaxEdits = 2
  MaxFailures = 0
INVARIANT FileAlwaysApplied
CHECK_DEADLOCK FALSE
