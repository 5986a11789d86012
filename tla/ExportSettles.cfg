SPECIFICATION ExportSpec
CONSTANTS
  Calls = {c1, c2}
  Requests <- BatchAndRetries
  Attempts = 1
  Owners = {"alice"}
  NoOwner = NoOwner
  Agents = {"agent1"}
  AgentOwner <- MCAgentOwner
  Ids = {"r1", "r2"}
  Sessions = {"s1", "s2"}
  Shas = {}
  Keys = {}
  NoKey = NoKey
  MaxTime = 3
  MaxFaults = 0
  Exporters = {e1, e2}
  Batch = 2
  Settle = 2
  SlowestInsert = 1
  MaxDeaths = 1
INVARIANT ExportInv
INVARIANT OnlyInversionsAreLeftBehind
INVARIANT CompletedPairsVerify
SYMMETRY ExportSymmetry
