CONSTANTS
  AccessTTL = 2
  MaxTime = 5
SPECIFICATION Spec
INVARIANTS OneAnswer LogIsTrue AnswerMatchesEffect
PROPERTIES PowerEnds ProbesAnswer
