SPECIFICATION GateSpec
CONSTANTS
  Requests = {"r1", "r2", "r3", "r4"}
  Known = {"alice", "bob"}
  Emails = {"e1", "e2"}
  Names = {"n1", "n2"}
  Codes = {"once", "twice", "brief"}
  Minted = {"once", "twice"}
  MaxUses <- MCMaxUses
  Life <- MCLife
  Policies = {"admin", "invite", "open"}
  Scenarios <- MCScenarios
  Limit = 2
  Window = 1
  MaxTime = 1
  MaxRestarts = 1
  None = None
  GateRequests = {"g1", "g2", "g3", "g4"}
  GateScenarios <- MCGateScenarios
  Handles = {"h1", "h2", "www"}
  Unfit = {"www"}
  Resources = {"share"}
  Scopes = {"read", "write"}
  Ttl = 1
INVARIANT AccountsInv
INVARIANT GateInv
INVARIANT InvitesAdmitTheirUses
INVARIANT RegistrationsAgree
INVARIANT DeadKeysDoNothing
INVARIANT NewGrantReplaces
INVARIANT TokensWithinGrants
INVARIANT TokensEndInTime
PROPERTY CodesAdmitWhileUsable
