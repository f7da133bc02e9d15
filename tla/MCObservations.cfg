SPECIFICATION SmallSpec
CHECK_DEADLOCK FALSE
CONSTANTS
  Nil = Nil
  Cells = {"a", "b"}
  Sources = {"s", "t"}
  Specs <- AllSpecs
  Closure <- Apart
  Start <- StartOn
  Maintained <- EitherOf
  Kinds = {"yes", "no", "bad", "disputed"}
  MaxAge = 1
  MaxUncertainty = 1
  MaxGap = 1
  MaxTime = 2
  MaxReadings = 3
  MaxConflicts = 1
  MaxGeneration = 1
  MaxBoots = 1
  MaxEpoch = 3
INVARIANTS
  FactsAreAlive
  IncidentsEndRuns
PROPERTIES
  LapseIsNoticed
