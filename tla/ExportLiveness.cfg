SPECIFICATION FairExportSpec
CONSTANTS
  Calls = {c1}
  Requests <- RecordOrBatch
  Attempts = 2
  Owners = {"alice"}
  NoOwner = NoOwner
  Agents = {"agent1"}
  AgentOwner <- MCAgentOwner
  Ids = {"r1", "r2"}
  Sessions = {"s1", "s2"}
  Shas = {}
  Keys = {}
  NoKey = NoKey
  MaxTime = 1
  MaxFaults = 1
  Exporters = {e1}
  Batch = 1
  Settle = 1
  SlowestInsert = 1
  MaxDeaths = 0
PROPERTY ExportCatchesUp
INVARIANT OneOriginalAck
INVARIANT AcksAreStored
PROPERTY EveryCallEnds
PROPERTY NoInsertStarves
PROPERTY ImplementsLog
