CONSTANTS
  a = a
  b = b
  Conn = {a, b}
  MaxPage = 2
  Scenarios <- Reset
SPECIFICATION Spec
INVARIANT CommitsSurvive
