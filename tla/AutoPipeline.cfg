\* Seven replies, four stored states, two lanes, one failing append.
SPECIFICATION Spec
CONSTANTS
  Id = {"a", "b", "c"}
  Replies <- MCReplies
  Stored <- MCStored
  Lane = {0, 1}
  MaxFault = 1
INVARIANT TypeOK
INVARIANT AcceptsOnlyDags
INVARIANT ContextForAllOrNone
INVARIANT ExitCodeMatchesRepository
INVARIANT ExitTellsOutcome
INVARIANT CommitsBackedByTests
PROPERTY CommandEnds
CHECK_DEADLOCK FALSE
