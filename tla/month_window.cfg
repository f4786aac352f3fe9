\* The last months, with the cap of the code: a window with room for 396 of
\* the longest months holds more boundaries than the loop makes.
SPECIFICATION Spec
CONSTANTS
  None = None
  MaxIntervalCount = 400
  Asked = {"month"}
  Times = {}
  Counts = {395, 396, 400}
  Chains <- MCChains
INVARIANT LastAreAnswered
CHECK_DEADLOCK FALSE
