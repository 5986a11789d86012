SPECIFICATION Spec
CONSTANTS
  Calls = {c1}
  Requests <- OneRecord
  Attempts = 2
  Owners = {"alice", "bob"}
  NoOwner = NoOwner
  Agents = {"agent1", "agent2", "ghost"}
  AgentOwner <- MCAgentOwner
  Ids = {"r1", "r2"}
  Sessions = {"s1", "s2"}
  Shas = {}
  Keys = {}
  NoKey = NoKey
  MaxTime = 0
  MaxFaults = 0
PROPERTY DuplicateGetsOriginalAck
