--------------------------- MODULE MCRecordLedger ---------------------------
(***************************************************************************)
(* Small instances of RecordLedger.  Two owners with an agent each, and an *)
(* agent id nobody registered; the requests of each run are listed below.  *)
(***************************************************************************)
EXTENDS RecordLedger, TLC

MCAgentOwner == [a \in Agents |-> IF a = "agent1" THEN "alice"
                                  ELSE IF a = "agent2" THEN "bob" ELSE NoOwner]

Record(id, agent, upstream, refs) ==
  [id |-> id, agent |-> agent, session |-> "s1", upstream |-> upstream,
   refs |-> refs, sound |-> TRUE]
Single(caller, sub) ==
  [kind |-> "single", caller |-> caller, writable |-> TRUE, batch |-> <<sub>>]
Many(caller, subs) ==
  [kind |-> "batch", caller |-> caller, writable |-> TRUE, batch |-> subs]

First == Record("r1", "agent1", {}, {})
Elsewhere == [First EXCEPT !.session = "s2"]
Child == [Record("r2", "agent1", {"r1"}, {}) EXCEPT !.session = "s2"]

\* Batches that race: a record and its child, the same id twice, and a single
\* submission of the record.
BatchRequests == {Single("alice", First), Many("alice", <<First, Child>>),
                  Many("alice", <<Elsewhere, First>>)}

\* Owners and agents: another owner's agent, an unknown agent, another owner
\* using the same record id or building on it, malformed records and bodies.
OwnerRequests ==
  {Many("bob", <<First, Record("r1", "agent2", {}, {})>>),
   Single("bob", Record("r2", "agent2", {"r1"}, {})),
   Many("alice", <<[First EXCEPT !.sound = FALSE], Record("r2", "ghost", {}, {})>>),
   [Single("alice", First) EXCEPT !.writable = FALSE]}

Plain == [sha |-> "h1", key |-> NoKey, exact |-> TRUE]
Sealed == [sha |-> "h1", key |-> "k1", exact |-> TRUE]
Wrong == [sha |-> "h1", key |-> NoKey, exact |-> FALSE]

\* Content: a plaintext reference, an encrypted one, one with a wrong size.
ContentRequests ==
  {Single("alice", Record("r1", "agent1", {}, {Plain})),
   Many("alice", <<Record("r1", "agent1", {}, {Sealed}),
                   Record("r2", "agent1", {"r1"}, {Plain})>>),
   Single("alice", Record("r2", "agent1", {}, {Wrong}))}

AllRequests == BatchRequests \cup OwnerRequests \cup ContentRequests

\* One record and its retries.
OneRecord == {Single("alice", First)}

\* A bound: the clock moves among calls that send the one record, faults happen there
\* and among the batches that race.
FaultsMeetBatches ==
  \/ now = 0 /\ faults = 0
  \/ now = 0 /\ \A c \in Calls : body[c] \in BatchRequests
  \/ \A c \in Calls : body[c] \in OneRecord

CallSymmetry == Permutations(Calls)
=============================================================================
