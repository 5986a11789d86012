SPECIFICATION Spec
CONSTANTS
  Owners = {"alice", "bob"}
  Admin = Admin
  Browsers = {"b1", "b2"}
  Requests = {"r1", "r2", "r3", "r4", "r5"}
  Scenarios <- MCScenarios
  SessionTtl = 2
  TicketTtl = 1
  GrantTtl = 1
  MaxTime = 2
  None = None
INVARIANT ViewerInv
INVARIANT ReadersAreAuthorised
INVARIANT TicketsOpenOnce
INVARIANT NothingIsReadAfterExpiry
INVARIANT EndedGrantsOpenNothing
