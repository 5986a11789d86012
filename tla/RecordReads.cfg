SPECIFICATION Spec
CONSTANTS
  Records = {"r1", "r2", "r3", "r4"}
  Readers = {"p"}
  Scenarios <- MCScenarios
  OwnerOf <- MCOwnerOf
  Turns = {"t1", "t2"}
  None = None
INVARIANT PagesCoverTheTrace
INVARIANT ListsAreWhole
PROPERTY PagesEnd
