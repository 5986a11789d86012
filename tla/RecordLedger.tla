---------------------------- MODULE RecordLedger ----------------------------
(***************************************************************************)
(* Record submission: POST /v1/records and POST /v1/records/batch of the   *)
(* api-server (routes/records.ts), the rows of trace_records they write,   *)
(* and the client that sends the request and retries it (http.ts of the    *)
(* TypeScript SDK, http.py of the Python SDK).                             *)
(*                                                                         *)
(* One HTTP request is one handler.  A handler works through the records   *)
(* of its request one at a time; between two awaits of the code other      *)
(* handlers, the operator and the content library take steps, so every     *)
(* database read and write of the handler is an action of its own.  All    *)
(* reads see committed rows only (READ COMMITTED, no transaction spans two *)
(* statements).  A retry opens a new handler while the old one may still   *)
(* be running: the client cannot tell a lost request from a lost response. *)
(***************************************************************************)
EXTENDS Integers, Sequences, FiniteSets

CONSTANTS
  Calls,       \* the SDK calls (submit or submitBatch), one request each
  Requests,    \* the requests a call may carry
  Attempts,    \* RetryConfig.attempts: tries per call
  Owners, NoOwner,
  Agents,      \* agent ids a record may name
  AgentOwner,  \* agents.owner_id; NoOwner for an id nobody registered
  Ids,         \* record ids
  Sessions,
  Shas,        \* content hashes
  Keys, NoKey, \* content key ids; NoKey marks a plaintext reference
  MaxTime,     \* bound on the clock
  MaxFaults    \* bound on server crashes plus failed statements

\* A ContentRef; "exact" says its byte count is that of the stored bytes.
Refs == [sha: Shas, key: Keys \cup {NoKey}, exact: BOOLEAN]

\* A record as submitted.  "sound" is the outcome of the per-record size limit
\* and of recordRuleProblems.
Submissions == [id: Ids, agent: Agents, session: Sessions,
                upstream: SUBSET Ids, refs: SUBSET Refs, sound: BOOLEAN]

ASSUME AttemptsAssumption == Attempts \in Nat \ {0}
ASSUME BoundsAssumption == MaxTime \in Nat /\ MaxFaults \in Nat
ASSUME OwnersAssumption == NoOwner \notin Owners /\ NoKey \notin Keys
ASSUME AgentsAssumption == AgentOwner \in [Agents -> Owners \cup {NoOwner}]
\* "writable" is the outcome of the checks on the whole body: schema version,
\* field validation, batch size.
ASSUME RequestsAssumption ==
  \A r \in Requests :
    /\ r \in [kind: {"single", "batch"}, caller: Owners,
              writable: BOOLEAN, batch: Seq(Submissions)]
    /\ r.batch # <<>>
    /\ r.kind = "single" => Len(r.batch) = 1

VARIABLES
  rows,     \* trace_records, committed
  lastSeq,  \* the last value the sequence generator gave out
  now,      \* Date.now()
  library,  \* content_objects: the state of each owner's piece of content
  keys,     \* content_keys, registered
  body,     \* the request each call carries; the same bytes at every attempt
  status,   \* where each call stands
  attempt,  \* attempts made by each call
  pc,       \* where each handler stands
  cut,      \* handlers whose server process died
  seq,      \* sequence number drawn by a handler for its current record
  stamp,    \* serverTs of a handler's current record
  results,  \* what a handler has answered, record by record
  faults    \* faults so far

clientVars  == <<body, status, attempt>>
libraryVars == <<library, keys>>
vars == <<rows, lastSeq, now, library, keys, body, status, attempt,
          pc, cut, seq, stamp, results, faults>>

Handlers == Calls \X (1 .. Attempts)

Row == [seq: Nat, ts: Nat, sub: Submissions]
Ack == [kind: {"ack"}, is_duplicate: BOOLEAN, server_ts: Nat, session: Sessions]
Codes == {"invalid", "auth_invalid", "unknown_upstream", "content_missing",
          "key_missing", "server_5xx"}
Failure == [kind: {"error"}, code: Codes]

\* The statements a handler has sent to the database and that run to their
\* end there even when the server process dies.
InDatabase == {"acquire", "commit"}
Running == {"check", "refs", "content", "keys", "dedup", "insert"} \cup InDatabase
PC == {"unsent", "sent", "rejected", "done", "gone"} \cup Running
Statuses == {"idle", "waiting", "backoff", "answered", "failed"}

TypeOK ==
  /\ rows \subseteq Row
  /\ lastSeq \in Nat
  /\ now \in Nat
  /\ library \in [Owners \X Shas -> {"absent", "live", "deleted"}]
  /\ keys \subseteq Owners \X Keys
  /\ body \in [Calls -> Requests]
  /\ status \in [Calls -> Statuses]
  /\ attempt \in [Calls -> 0 .. Attempts]
  /\ pc \in [Handlers -> PC]
  /\ cut \subseteq Handlers
  /\ seq \in [Handlers -> Nat]
  /\ stamp \in [Handlers -> Nat]
  /\ results \in [Handlers -> Seq(Ack \cup Failure)]
  /\ faults \in Nat

Init ==
  /\ rows = {}
  /\ lastSeq = 0
  /\ now = 0
  /\ library = [p \in Owners \X Shas |-> "absent"]
  /\ keys = {}
  /\ body \in [Calls -> Requests]
  /\ status = [c \in Calls |-> "idle"]
  /\ attempt = [c \in Calls |-> 0]
  /\ pc = [h \in Handlers |-> "unsent"]
  /\ cut = {}
  /\ seq = [h \in Handlers |-> 0]
  /\ stamp = [h \in Handlers |-> 0]
  /\ results = [h \in Handlers |-> <<>>]
  /\ faults = 0

-----------------------------------------------------------------------------
(***************************************************************************)
(* The handler.                                                            *)
(***************************************************************************)

Request(h) == body[h[1]]
Caller(h) == Request(h).caller

\* The record the handler is working on.
Current(h) == Request(h).batch[Len(results[h]) + 1]

\* Rows under the record's own (agent_id, record_id): the deduplication key.
Stored(sub) == {r \in rows : r.sub.id = sub.id /\ r.sub.agent = sub.agent}

\* Rows under its record_id, the primary key, whatever the agent.
SameId(id) == {r \in rows : r.sub.id = id}

Error(code) == [kind |-> "error", code |-> code]
\* Faulty: the duplicate flag is never set.
AcknowledgeOriginal(dup, ts, session) ==
  [kind |-> "ack", is_duplicate |-> FALSE, server_ts |-> ts, session |-> session]

Acknowledge(dup, ts, session) ==
  [kind |-> "ack", is_duplicate |-> dup, server_ts |-> ts, session |-> session]

Goto(h, where) == pc' = [pc EXCEPT ![h] = where]

\* The handler moves on and its locals go out of scope.
Leave(h, where) ==
  /\ Goto(h, where)
  /\ seq' = [seq EXCEPT ![h] = 0]
  /\ stamp' = [stamp EXCEPT ![h] = 0]

\* Answer the current record and go on with the next one, or respond.  The
\* answer of a dead process reaches nobody.
Answer(h, result) ==
  IF h \in cut
  THEN Leave(h, "gone") /\ UNCHANGED results
  ELSE /\ results' = [results EXCEPT ![h] = Append(@, result)]
       /\ Leave(h, IF Len(results[h]) + 1 = Len(Request(h).batch)
                   THEN "done" ELSE "check")

\* A check that holds leads to the next one that has something to look up; the
\* others return at once.  After the last one persistRecord reads the clock
\* before it awaits anything.
Keyed(h) == {ref \in Current(h).refs : ref.key # NoKey}

NextCheck(h, at) ==
  IF at = "check" /\ Current(h).upstream # {} THEN "refs"
  ELSE IF at \in {"check", "refs"} /\ Current(h).refs # {} THEN "content"
  ELSE IF at = "content" /\ Keyed(h) # {} THEN "keys"
  ELSE "dedup"

Check(h, at, ok, code) ==
  /\ pc[h] = at
  /\ IF ok
     THEN /\ Goto(h, NextCheck(h, at))
          /\ stamp' = [stamp EXCEPT ![h] = IF NextCheck(h, at) = "dedup" THEN now ELSE 0]
          /\ UNCHANGED <<seq, results>>
     ELSE Answer(h, Error(code))
  /\ UNCHANGED <<rows, lastSeq, now, libraryVars, clientVars, cut, faults>>

\* A request reaches the server: the guards over the whole body come first.
Arrive(h) ==
  /\ pc[h] = "sent"
  /\ Goto(h, IF Request(h).writable THEN "check" ELSE "rejected")
  /\ UNCHANGED <<rows, lastSeq, now, libraryVars, clientVars, cut, seq, stamp,
                 results, faults>>

\* Faulty: the agent must exist, whoever owns it.
AgentKnown(h) == AgentOwner[Current(h).agent] # NoOwner

\* Size and cross-field rules, then assertAgentOwnership.  An agent never
\* changes owner.
AgentOwned(h) == AgentOwner[Current(h).agent] = Caller(h)

CheckAgent(h) ==
  Check(h, "check", Current(h).sound /\ AgentOwned(h),
        IF Current(h).sound THEN "auth_invalid" ELSE "invalid")

\* Faulty: an upstream id may also be any entry of the same request.
UpstreamNamed(h) ==
  \A u \in Current(h).upstream :
    \/ \E r \in rows : r.sub.id = u /\ r.sub.agent = Current(h).agent
    \/ \E k \in 1 .. Len(Request(h).batch) : Request(h).batch[k].id = u

\* Faulty: upstream ids are looked up in the record's own session.
UpstreamInSession(h) ==
  \A u \in Current(h).upstream :
    \E r \in rows : /\ r.sub.id = u /\ r.sub.agent = Current(h).agent
                    /\ r.sub.session = Current(h).session

\* validateRecordRefs: each upstream id is a committed record of this agent.
UpstreamExists(h) ==
  \A u \in Current(h).upstream :
    \E r \in rows : r.sub.id = u /\ r.sub.agent = Current(h).agent

CheckRefs(h) == Check(h, "refs", UpstreamExists(h), "unknown_upstream")

\* Faulty: content counts as present when any owner has it.
ContentAnywhere(h) ==
  \A ref \in Current(h).refs :
    (\E o \in Owners : library[<<o, ref.sha>>] = "live") /\ ref.exact

\* assertContentPresent: uploaded by this owner, not deleted, right size.
ContentPresent(h) ==
  \A ref \in Current(h).refs :
    library[<<Caller(h), ref.sha>>] = "live" /\ ref.exact

CheckContent(h) == Check(h, "content", ContentPresent(h), "content_missing")

\* assertContentKeysRegistered.
KeysRegistered(h) == \A ref \in Keyed(h) : <<Caller(h), ref.key>> \in keys

CheckKeys(h) == Check(h, "keys", KeysRegistered(h), "key_missing")

\* Faulty: an upsert, which gives the stored row a new timestamp.
DedupRefreshing(h) ==
  /\ pc[h] = "dedup"
  /\ IF Stored(Current(h)) = {}
     THEN Goto(h, "insert") /\ UNCHANGED <<rows, seq, stamp, results>>
     ELSE \E r \in Stored(Current(h)) :
            /\ rows' = (rows \ {r}) \cup {[r EXCEPT !.ts = stamp[h]]}
            /\ Answer(h, Acknowledge(TRUE, stamp[h], r.sub.session))
  /\ UNCHANGED <<lastSeq, now, libraryVars, clientVars, cut, faults>>

\* The deduplication read of persistRecord.
Dedup(h) ==
  /\ pc[h] = "dedup"
  /\ IF Stored(Current(h)) = {}
     THEN Goto(h, "insert") /\ UNCHANGED <<seq, stamp, results>>
     ELSE \E r \in Stored(Current(h)) :
            Answer(h, Acknowledge(TRUE, r.ts, r.sub.session))
  /\ UNCHANGED <<rows, lastSeq, now, libraryVars, clientVars, cut, faults>>

\* Faulty: the number is the largest one so far plus one, and not kept.
InsertUnnumbered(h) ==
  /\ pc[h] = "insert"
  /\ seq' = [seq EXCEPT ![h] = lastSeq + 1]
  /\ Goto(h, "acquire")
  /\ UNCHANGED <<rows, lastSeq, now, libraryVars, clientVars, cut, stamp,
                 results, faults>>

\* The INSERT starts: its row takes the next value of the sequence, which is
\* spent even when the statement fails later.
Insert(h) ==
  /\ pc[h] = "insert"
  /\ lastSeq' = lastSeq + 1
  /\ seq' = [seq EXCEPT ![h] = lastSeq + 1]
  /\ Goto(h, "acquire")
  /\ UNCHANGED <<rows, now, libraryVars, clientVars, cut, stamp, results, faults>>

\* The primary key is free: no committed row has it and no other INSERT is
\* about to commit it.  An INSERT that meets another one in flight waits.
KeyFree(h) ==
  /\ SameId(Current(h).id) = {}
  /\ \A g \in Handlers : pc[g] = "commit" => Current(g).id # Current(h).id

Acquire(h) ==
  /\ pc[h] = "acquire"
  /\ KeyFree(h)
  /\ Goto(h, "commit")
  /\ UNCHANGED <<rows, lastSeq, now, libraryVars, clientVars, cut, seq, stamp,
                 results, faults>>

\* Faulty: a row of the same agent does not end the wait for the key.
ConflictElsewhere(h) ==
  /\ pc[h] = "acquire"
  /\ SameId(Current(h).id) # {} /\ Stored(Current(h)) = {}
  /\ Answer(h, Error("server_5xx"))
  /\ UNCHANGED <<rows, lastSeq, now, libraryVars, clientVars, cut, faults>>

\* The primary key is taken: unique violation, which no code catches for a
\* single submission and the batch loop reports as server_5xx.
Conflict(h) ==
  /\ pc[h] = "acquire"
  /\ SameId(Current(h).id) # {}
  /\ Answer(h, Error("server_5xx"))
  /\ UNCHANGED <<rows, lastSeq, now, libraryVars, clientVars, cut, faults>>

\* Faulty: the database stamps the row when it commits.
NewRowStampedLate(h) == [seq |-> seq[h], ts |-> now, sub |-> Current(h)]

NewRow(h) == [seq |-> seq[h], ts |-> stamp[h], sub |-> Current(h)]

\* The INSERT commits: the row becomes visible and the handler answers.
Commit(h) ==
  /\ pc[h] = "commit"
  /\ rows' = rows \cup {NewRow(h)}
  /\ Answer(h, Acknowledge(FALSE, stamp[h], Current(h).session))
  /\ UNCHANGED <<lastSeq, now, libraryVars, clientVars, cut, faults>>

\* The connection breaks after the commit and before the handler hears of it.
CommitUnheard(h) ==
  /\ pc[h] = "commit"
  /\ faults < MaxFaults
  /\ faults' = faults + 1
  /\ rows' = rows \cup {NewRow(h)}
  /\ Answer(h, Error("server_5xx"))
  /\ UNCHANGED <<lastSeq, now, libraryVars, clientVars, cut>>

\* A statement of the handler fails (connection lost, database restarted).
StatementFails(h) ==
  /\ pc[h] \in Running
  /\ faults < MaxFaults
  /\ faults' = faults + 1
  /\ Answer(h, Error("server_5xx"))
  /\ UNCHANGED <<rows, lastSeq, now, libraryVars, clientVars, cut>>

\* The server process dies and is restarted.  INSERTs already sent to the
\* database run on without it.
Crash ==
  /\ faults < MaxFaults
  /\ faults' = faults + 1
  /\ cut' = cut \cup {h \in Handlers : pc[h] \in Running}
  /\ pc' = [h \in Handlers |-> IF pc[h] \in Running \ InDatabase
                               THEN "gone" ELSE pc[h]]
  /\ stamp' = [h \in Handlers |-> IF pc[h] \in Running \ InDatabase
                                  THEN 0 ELSE stamp[h]]
  /\ UNCHANGED <<rows, lastSeq, now, libraryVars, clientVars, seq, results>>

Handle(h) ==
  \/ CheckAgent(h) \/ CheckRefs(h) \/ CheckContent(h) \/ CheckKeys(h)
  \/ Dedup(h) \/ Insert(h) \/ Acquire(h) \/ Conflict(h) \/ Commit(h)

-----------------------------------------------------------------------------
(***************************************************************************)
(* The client: callApi over sendRequest over withRetry.                    *)
(***************************************************************************)

\* One attempt: the first, or the next one after the backoff.
Send(c) ==
  /\ status[c] \in {"idle", "backoff"}
  /\ attempt' = [attempt EXCEPT ![c] = @ + 1]
  /\ status' = [status EXCEPT ![c] = "waiting"]
  /\ Goto(<<c, attempt[c] + 1>>, "sent")
  /\ UNCHANGED <<rows, lastSeq, now, libraryVars, body, cut, seq, stamp, results,
                 faults>>

\* A transient failure: try again while attempts remain, else throw it.
Transient(c) ==
  status' = [status EXCEPT ![c] =
               IF attempt[c] < Attempts THEN "backoff" ELSE "failed"]

\* The response arrives.  Only a 5xx of the request itself is retried: a batch
\* answers 200 whatever its entries say.
ServerError(h) ==
  Request(h).kind = "single" /\ results[h] = <<Error("server_5xx")>>

Receive(c) ==
  LET h == <<c, attempt[c]>> IN
  /\ status[c] = "waiting"
  /\ pc[h] \in {"done", "rejected"}
  /\ IF pc[h] = "done" /\ ServerError(h)
     THEN Transient(c)
     ELSE status' = [status EXCEPT ![c] = "answered"]
  /\ UNCHANGED <<rows, lastSeq, now, libraryVars, body, attempt, pc, cut, seq,
                 stamp, results, faults>>

\* Faulty: no timeout; only a lost response is noticed.
NetworkErrorAfterReply(c) ==
  /\ status[c] = "waiting"
  /\ pc[<<c, attempt[c]>>] \in {"done", "rejected"}
  /\ Transient(c)
  /\ UNCHANGED <<rows, lastSeq, now, libraryVars, body, attempt, pc, cut, seq,
                 stamp, results, faults>>

\* No complete response: the request, the server or the response was lost.
\* Nothing tells the client which, and the handler may still be running.
NetworkError(c) ==
  /\ status[c] = "waiting"
  /\ Transient(c)
  /\ UNCHANGED <<rows, lastSeq, now, libraryVars, body, attempt, pc, cut, seq,
                 stamp, results, faults>>

-----------------------------------------------------------------------------
(***************************************************************************)
(* The rest of the system, as far as a submission reads it.                *)
(***************************************************************************)

\* The rows of the content library, which ContentLibrary implements.
Library == INSTANCE ContentRows WITH Objects <- Owners \X Shas, content <- library

\* PUT /v1/content/{sha256} leaves the row live, also after a deletion.
PutContent(o, s) ==
  /\ Library!Upload(<<o, s>>)
  /\ UNCHANGED <<rows, lastSeq, now, keys, clientVars, pc, cut, seq, stamp,
                 results, faults>>

\* The operator's delete-content command; the row itself stays.
DeleteContent(o, s) ==
  /\ Library!Delete(<<o, s>>)
  /\ UNCHANGED <<rows, lastSeq, now, keys, clientVars, pc, cut, seq, stamp,
                 results, faults>>

\* PUT /v1/content-keys/{key_id}; registered keys are never removed.
RegisterKey(o, k) ==
  /\ <<o, k>> \notin keys
  /\ keys' = keys \cup {<<o, k>>}
  /\ UNCHANGED <<rows, lastSeq, now, library, clientVars, pc, cut, seq, stamp,
                 results, faults>>

Tick ==
  /\ now < MaxTime
  /\ now' = now + 1
  /\ UNCHANGED <<rows, lastSeq, libraryVars, clientVars, pc, cut, seq, stamp,
                 results, faults>>

Environment ==
  \/ \E o \in Owners, s \in Shas : PutContent(o, s) \/ DeleteContent(o, s)
  \/ \E o \in Owners, k \in Keys : RegisterKey(o, k)
  \/ Tick

-----------------------------------------------------------------------------

\* Every call has ended and no handler will take another step.
Settled ==
  /\ \A c \in Calls : status[c] \in {"answered", "failed"}
  /\ \A h \in Handlers : pc[h] \in {"unsent", "rejected", "done", "gone"}

Next ==
  \/ \E h \in Handlers : Arrive(h) \/ Handle(h)
  \/ \E h \in Handlers : CommitUnheard(h) \/ StatementFails(h)
  \/ \E c \in Calls : Send(c) \/ Receive(c) \/ NetworkError(c)
  \/ Crash
  \/ Environment
  \/ Settled /\ UNCHANGED vars

Spec == Init /\ [][Next]_vars

\* What the code's scheduling guarantees: the event loop and the database
\* finish what they started, a backoff ends, and an open connection answers or
\* breaks.  A request on its way need not arrive, and nobody has to call.
Fairness ==
  /\ \A h \in Handlers : WF_vars(Handle(h))
  /\ \A c \in Calls : WF_vars(status[c] = "backoff" /\ Send(c))
  /\ \A c \in Calls : WF_vars(Receive(c) \/ NetworkError(c))

-----------------------------------------------------------------------------
(***************************************************************************)
(* Properties.                                                             *)
(***************************************************************************)

\* The acknowledgements handed out, each with the record it answers.
AcksOf(h) == {k \in DOMAIN results[h] : results[h][k].kind = "ack"}
Answered(h, k) == Request(h).batch[k]

\* A record_id names one row, whichever requests raced to write it
\* (trace_records' primary key against retries that overlap).
OneRowPerRecord == \A r, q \in rows : r.sub.id = q.sub.id => r = q

\* What was acknowledged is stored: every acknowledgement, original or
\* duplicate, from whichever attempt, repeats the timestamp and the session of
\* a committed row of that agent (RecordAck of persistRecord).
AcksAreStored ==
  \A h \in Handlers : \A k \in AcksOf(h) :
    \E r \in Stored(Answered(h, k)) :
      /\ r.ts = results[h][k].server_ts
      /\ r.sub.session = results[h][k].session

\* At most one acknowledgement in the whole history of a record says that it
\* is no duplicate, so a writer that counts originals counts rows.
OneOriginalAck ==
  \A h, g \in Handlers : \A k \in AcksOf(h), j \in AcksOf(g) :
    /\ Answered(h, k).id = Answered(g, j).id
    /\ ~results[h][k].is_duplicate
    /\ ~results[g][j].is_duplicate
    => h = g /\ k = j

\* The trace is a DAG laid out in sequence order: what a row builds on is a row
\* of the same agent with a smaller sequence (validateRecordRefs).
UpstreamPrecedes ==
  \A r \in rows : \A u \in r.sub.upstream :
    \E q \in rows : q.sub.id = u /\ q.sub.agent = r.sub.agent /\ q.seq < r.seq

\* A stored reference can be followed: the content was uploaded by the agent's
\* owner (it may have been deleted since) and its key is registered
\* (assertContentPresent).
ReferencesWereUploaded ==
  \A r \in rows : \A ref \in r.sub.refs :
    LET owner == AgentOwner[r.sub.agent] IN
    /\ library[<<owner, ref.sha>>] # "absent"
    /\ ref.key # NoKey => <<owner, ref.key>> \in keys

\* Owner isolation on the write side: a row was sent, as it stands, by a
\* request of the owner of its agent (assertAgentOwnership).
RowsAreTheOwners ==
  \A r \in rows : \E c \in Calls :
    /\ body[c].caller = AgentOwner[r.sub.agent]
    /\ \E k \in DOMAIN body[c].batch : body[c].batch[k] = r.sub

\* A batch sees its own records: a record is never refused for upstream ids
\* that earlier entries of the same batch were acknowledged for (the loop of
\* submitBatch validates and persists record by record).
BatchSeesItself ==
  \A h \in Handlers : \A k \in DOMAIN results[h] :
    results[h][k] = Error("unknown_upstream") =>
      \E u \in Answered(h, k).upstream :
        \A j \in AcksOf(h) :
          j < k => \/ Answered(h, j).id # u
                  \/ Answered(h, j).agent # Answered(h, k).agent

\* A record that is already stored when its submission is answered is never
\* answered with an error, unless the caller may not write it or it is
\* malformed ("a duplicate returns the original ack with is_duplicate: true").
Refused(h) == results'[h] # results[h] /\ results'[h][Len(results'[h])].kind = "error"

DuplicateGetsOriginalAck ==
  [][\A h \in Handlers :
       Refused(h) => \/ Stored(Current(h)) = {}
                     \/ ~Current(h).sound
                     \/ ~AgentOwned(h)]_vars

\* The acknowledgements of all handlers, as the abstract ledger keeps them.
AllAcks ==
  UNION {{[to |-> <<h, k>>, sub |-> Answered(h, k), ack |-> results[h][k]]
            : k \in AcksOf(h)} : h \in Handlers}

Log == INSTANCE IdempotentLog WITH stored <- rows, acks <- AllAcks

\* Submission implements the write-once, append-only, acknowledged store of
\* IdempotentLog: rows are only ever added, each once and after what it builds
\* on, and an acknowledgement is an original given with its row or a repeat of
\* a row that is there ("append-only storage" of the README, is_duplicate).
ImplementsLog == Log!Spec

\* Every call ends: retries, waits on another INSERT's key and dead servers
\* included, the caller gets an answer or an exception.
EveryCallEnds ==
  \A c \in Calls : status[c] = "waiting" ~> status[c] \in {"answered", "failed"}

\* No INSERT waits for ever on the key another one holds.
NoInsertStarves ==
  \A h \in Handlers : pc[h] = "acquire" ~> pc[h] # "acquire"

-----------------------------------------------------------------------------
(***************************************************************************)
(* The inductive invariant behind the properties above: what a handler has *)
(* established by the time it stands where it stands.                      *)
(***************************************************************************)

Accepted == {"dedup", "insert"} \cup InDatabase

\* A handler that is not finished has a record to work on.
PositionsInv ==
  \A h \in Handlers :
    /\ Len(results[h]) <= Len(Request(h).batch)
    /\ pc[h] \in Running \cup {"unsent", "sent"} =>
         Len(results[h]) < Len(Request(h).batch)

\* A call is at its attempt-th attempt, backs off only while attempts remain,
\* and the handlers of later attempts do not exist yet.
ClientInv ==
  \A c \in Calls :
    /\ status[c] = "idle" => attempt[c] = 0
    /\ status[c] = "waiting" => attempt[c] > 0
    /\ status[c] = "backoff" => attempt[c] < Attempts
    /\ \A a \in 1 .. Attempts : attempt[c] < a => pc[<<c, a>>] = "unsent"

\* The checks a handler has passed still hold: agents keep their owner, rows and
\* keys are never removed, content rows neither.
ChecksInv ==
  \A h \in Handlers :
    /\ pc[h] \in Accepted \cup {"refs", "content", "keys"} => AgentOwned(h)
    /\ pc[h] \in Accepted \cup {"content", "keys"} => UpstreamExists(h)
    /\ pc[h] \in Accepted \cup {"keys"} =>
         \A ref \in Current(h).refs : library[<<Caller(h), ref.sha>>] # "absent"
    /\ pc[h] \in Accepted => KeysRegistered(h)

\* Sequence numbers are drawn once each, after everything the row builds on.
SequenceInv ==
  /\ \A r \in rows : r.seq <= lastSeq
  /\ \A r, q \in rows : r.seq = q.seq => r = q
  /\ \A h \in Handlers : pc[h] \in InDatabase =>
       /\ seq[h] <= lastSeq
       /\ \A r \in rows : r.seq # seq[h]
       /\ \A g \in Handlers : pc[g] \in InDatabase /\ seq[g] = seq[h] => g = h
       /\ \A u \in Current(h).upstream :
            \E r \in rows : /\ r.sub.id = u /\ r.sub.agent = Current(h).agent
                           /\ r.seq < seq[h]

\* The holder of a primary key is the only one, and the key has no row yet.
HoldersInv ==
  \A h \in Handlers : pc[h] = "commit" =>
    /\ SameId(Current(h).id) = {}
    /\ \A g \in Handlers :
         pc[g] = "commit" /\ Current(g).id = Current(h).id => g = h

LedgerInv ==
  /\ PositionsInv
  /\ ClientInv
  /\ ChecksInv
  /\ SequenceInv
  /\ HoldersInv
  /\ OneRowPerRecord
  /\ UpstreamPrecedes
  /\ ReferencesWereUploaded
  /\ RowsAreTheOwners
  /\ AcksAreStored
  /\ OneOriginalAck
  /\ BatchSeesItself
=============================================================================
