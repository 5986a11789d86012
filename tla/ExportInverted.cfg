SPECIFICATION ExportSpec
CONSTANTS
  Calls = {c1, c2}
  Requests <- TwoRecords
  Attempts = 1
  Owners = {"alice"}
  NoOwner = NoOwner
  Agents = {"agent1"}
  AgentOwner <- MCAgentOwner
  Ids = {"r1", "r2"}
  Sessions = {"s1", "s2"}
  Shas = {}
  Keys = {}
  NoKey = NoKey
  MaxTime = 3
  MaxFaults = 0
  Exporters = {e1}
  Batch = 2
  Settle = 3
  SlowestInsert = 1
  MaxDeaths = 0
INVARIANT ExportIsGapless
