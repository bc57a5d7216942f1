SPECIFICATION Spec
CONSTANT MiddleLevel = 1
INVARIANTS
  RefusedForCause LookaheadInside StackCoversTokens MadeByRules StackOwned TreeAsWritten
  ReleasedAtExit FaultStops ReadyForCodegen NamesAsMeant LabelsAsMeant
PROPERTIES OnlyTwoMistakesBreakIt LongestMatch FreshTokens ReleasesStack Terminates
CHECK_DEADLOCK FALSE
