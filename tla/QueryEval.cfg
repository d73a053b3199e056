CONSTANTS
  KeyArity <- MCKeyArity
  Numerics = {1, 2, 3, 11}
  Order <- MCOrder
  K = 2
  Queries <- MCQueries
  BoundedCap = 3
SPECIFICATION FairSpec
INVARIANTS AnswerIsModel RefusedIffUnstratifiable NothingUnderivable LowerStrataComplete  FixedSizesAreExact
PROPERTIES DeltaIsWhatIsNew QueryEnds
CHECK_DEADLOCK FALSE
