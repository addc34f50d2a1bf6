CONSTANTS
  Threads = {a, b, c}
  MaxSends = 2
SPECIFICATION Spec
INVARIANTS TypeOK AnswersAtHome CutIsSilent
PROPERTIES NothingIsLost TurnsAreAnswered
