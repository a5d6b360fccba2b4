CONSTANTS
  Records = {r1, r2, r3}
  Valid = {r1, r2}
  MaxAppends = 2
SPECIFICATION JsonlSpec
INVARIANT EachLineOneRecord
CHECK_DEADLOCK FALSE
