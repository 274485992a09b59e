SPECIFICATION VerifySpec
CONSTANTS
  MaxLines = 4
  MaxEdits = 2
INVARIANT AcceptsExactlyHonest
CHECK_DEADLOCK FALSE
