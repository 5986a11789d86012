SPECIFICATION Spec
CONSTANTS
  Calls = {c1, c2}
  Requests <- AllRequests
  Attempts = 1
  Owners = {"alice", "bob"}
  NoOwner = NoOwner
  Agents = {"agent1", "agent2", "ghost"}
  AgentOwner <- MCAgentOwner
  Ids = {"r1", "r2"}
  Sessions = {"s1", "s2"}
  Shas = {"h1"}
  Keys = {"k1"}
  NoKey = NoKey
  MaxTime = 1
  MaxFaults = 1
SYMMETRY CallSymmetry
INVARIANT UpstreamPrecedes
INVARIANT BatchSeesItself
INVARIANT LedgerInv
INVARIANT RowsAreTheOwners
INVARIANT ReferencesWereUploaded
CONSTRAINT FaultsMeetBatches
