SPECIFICATION Spec
CONSTANTS
  Attempts = {a}
  Seqs = {1, 2, 3}
  MaxResults = 1
CHECK_DEADLOCK FALSE
INVARIANT OneAtATime
