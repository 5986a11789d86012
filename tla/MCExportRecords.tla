-------------------------- MODULE MCExportRecords --------------------------
(* Small instances of ExportRecords, with the requests of MCRecordLedger. *)
EXTENDS ExportRecords, MCRecordLedger

Other == Record("r2", "agent1", {}, {})

\* Single submissions of two independent records.
TwoRecords == {Single("alice", First), Single("alice", Other)}

\* A batch of two independent records, and the second of them on its own.
BatchAndRetries == {Many("alice", <<First, Other>>), Single("alice", Other)}

\* A record and a batch that has it.
RecordOrBatch == {Single("alice", First), Many("alice", <<First, Child>>)}

ExportSymmetry == Permutations(Calls) \cup Permutations(Exporters)
=============================================================================
