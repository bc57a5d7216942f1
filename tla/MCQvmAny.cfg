SPECIFICATION Spec
CONSTANTS
  Root = Root
  Null = Null
  NoLabel = NoLabel
  q1 = q1
  q2 = q2
  v0 = v0
  v1 = v1
  Quaint = {q1, q2}
  Var = {v0, v1}
  CanUse <- SharedUse
  Valued = {q1, q2}
  Label = {L}
  Timeouts = {0, 1}
  UnitNs = 1
  Word = 8
  Period = 2
  MaxClock = 1
  MaxFrames = 1
  MaxNoint = 0
  Features = {"copy", "falloff", "bfun"}
  Failures = {"alloc", "clock"}
SYMMETRY SharedSymmetry
INVARIANTS
  
  TimersSane
PROPERTIES
  WaitSound
