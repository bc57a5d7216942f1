SPECIFICATION Spec
CONSTANTS
  Null = Null
  Bfuns <- MCBfuns
  Programs <- MCPrograms
  Answers = {0, 2}
  MaxAnswers = 7
  StackSize = 192
INVARIANTS
  FollowsSource
  OperandsInFrame
  ReturnsBalanced
  LayoutSound
PROPERTIES
  Terminates
CHECK_DEADLOCK FALSE
