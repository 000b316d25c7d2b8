\* A controller on a host of its own, and the judge it starts.
SPECIFICATION Spec
CHECK_DEADLOCK FALSE
CONSTANTS
  NumControllers = 1
INVARIANT JudgeIsOwned
