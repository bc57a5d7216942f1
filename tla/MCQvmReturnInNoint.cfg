SPECIFICATION LiveSpec
CONSTANTS
  Root = Root
  Null = Null
  NoLabel = NoLabel
  q1 = q1
  q2 = q2
  v0 = v0
  v1 = v1
  Quaint = {q1, q2}
  Var = {v0, v1}
  CanUse <- PrivateUse
  Valued = {q1}
  Label = {}
  Timeouts = {1}
  UnitNs = 1
  Word = 8
  Period = 2
  MaxClock = 1
  MaxFrames = 2
  MaxNoint = 1
  Features = {"retnoint"}
  Failures = {}
PROPERTY TimeoutHonoured
