\* Two overlapping calls, one failing write.
SPECIFICATION RouteSpec
CONSTANTS
  Call = {c1, c2}
  Provider = {"p1", "p2", "p3", "p4"}
  Order <- MCOrder
  Manifest <- MCManifest
  Valid = {"p2", "p3", "p4"}
  MaxFault = 1
INVARIANT RouteTypeOK
INVARIANT OneSuccessEntry
INVARIANT ExhaustedAfterAll
INVARIANT StatsAgreeWithLedgers
PROPERTY EveryCallEnds
CHECK_DEADLOCK FALSE
