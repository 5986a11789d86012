------------------------- MODULE RecordLedgerProofs -------------------------
(***************************************************************************)
(* Proofs about RecordLedger, for every number of calls, attempts, records *)
(* and faults.                                                             *)
(***************************************************************************)
EXTENDS RecordLedger, TLAPS

\* What a handler reads is well typed.
LEMMA HandlerTyping ==
  ASSUME TypeOK, NEW h \in Handlers
  PROVE  /\ h[1] \in Calls
         /\ Request(h) \in Requests
         /\ Caller(h) \in Owners
         /\ Request(h).batch \in Seq(Submissions)
         /\ Len(Request(h).batch) \in Nat \ {0}
         /\ results[h] \in Seq(Ack \cup Failure)
         /\ Len(results[h]) \in Nat
<1>1. h[1] \in Calls
  BY DEF Handlers
<1>2. Request(h) \in Requests
  BY <1>1 DEF TypeOK, Request
<1>3. /\ Caller(h) \in Owners
      /\ Request(h).batch \in Seq(Submissions)
      /\ Request(h).batch # <<>>
  BY <1>2, RequestsAssumption DEF Caller
<1>4. Len(Request(h).batch) \in Nat \ {0}
  BY <1>3
<1>5. results[h] \in Seq(Ack \cup Failure) /\ Len(results[h]) \in Nat
  BY DEF TypeOK
<1> QED
  BY <1>1, <1>2, <1>3, <1>4, <1>5

\* A handler that is not finished works on a submission.
LEMMA CurrentTyping ==
  ASSUME TypeOK, PositionsInv, NEW h \in Handlers, pc[h] \in Running
  PROVE  /\ Len(results[h]) + 1 \in 1 .. Len(Request(h).batch)
         /\ Current(h) \in Submissions
<1>1. Len(results[h]) + 1 \in 1 .. Len(Request(h).batch)
  BY HandlerTyping DEF PositionsInv
<1> QED
  BY <1>1, HandlerTyping DEF Current

-----------------------------------------------------------------------------
(***************************************************************************)
(* Types and positions, which depend on each other: a committed row is a   *)
(* submission because the handler stands inside its batch.                 *)
(***************************************************************************)

LocalsOK ==
  /\ pc \in [Handlers -> PC]
  /\ seq \in [Handlers -> Nat]
  /\ stamp \in [Handlers -> Nat]
  /\ results \in [Handlers -> Seq(Ack \cup Failure)]

\* Answering a record leaves the handler typed and inside its batch.
LEMMA AnswerStep ==
  ASSUME TypeOK, PositionsInv, NEW h \in Handlers, pc[h] \in Running,
         NEW result \in Ack \cup Failure, Answer(h, result), body' = body
  PROVE  LocalsOK' /\ PositionsInv'
<1>1. /\ Len(results[h]) + 1 \in 1 .. Len(Request(h).batch)
      /\ results[h] \in Seq(Ack \cup Failure)
      /\ Len(Request(h).batch) \in Nat
  BY CurrentTyping, HandlerTyping
<1>2. \A g \in Handlers : Request(g)' = Request(g)
  BY DEF Request
<1>3. CASE h \in cut
  <2>1. Leave(h, "gone") /\ UNCHANGED results
    BY <1>3 DEF Answer
  <2>2. LocalsOK'
    BY <2>1 DEF Leave, Goto, TypeOK, LocalsOK, PC
  <2>3. \A g \in Handlers : pc'[g] = pc[g] \/ pc'[g] = "gone"
    BY <2>1 DEF Leave, Goto, TypeOK
  <2>4. "gone" \notin Running \cup {"unsent", "sent"}
    BY DEF Running, InDatabase
  <2> QED
    BY <1>2, <2>1, <2>2, <2>3, <2>4 DEF PositionsInv
<1>4. CASE h \notin cut
  <2>1. /\ results' = [results EXCEPT ![h] = Append(@, result)]
        /\ Leave(h, IF Len(results[h]) + 1 = Len(Request(h).batch)
                    THEN "done" ELSE "check")
    BY <1>4 DEF Answer
  <2>2. Append(results[h], result) \in Seq(Ack \cup Failure)
    BY <1>1
  <2>3. Len(Append(results[h], result)) = Len(results[h]) + 1
    BY <1>1
  <2>4. LocalsOK'
    BY <2>1, <2>2 DEF Leave, Goto, TypeOK, LocalsOK, PC, Running
  <2>5. ASSUME NEW g \in Handlers
        PROVE  /\ Len(results'[g]) <= Len(Request(g).batch)
               /\ pc'[g] \in Running \cup {"unsent", "sent"} =>
                    Len(results'[g]) < Len(Request(g).batch)
    <3>1. CASE g = h
      BY <1>1, <2>1, <2>3, <3>1 DEF Leave, Goto, TypeOK, PositionsInv, Running, InDatabase
    <3>2. CASE g # h
      BY <2>1, <3>2 DEF Leave, Goto, TypeOK, PositionsInv
    <3> QED
      BY <3>1, <3>2
  <2> QED
    BY <1>2, <2>4, <2>5 DEF PositionsInv
<1> QED
  BY <1>3, <1>4

\* So does moving on to another step of the same record.
LEMMA GotoStep ==
  ASSUME TypeOK, PositionsInv, NEW h \in Handlers, NEW where \in PC,
         pc[h] \in Running \cup {"unsent", "sent"},
         Goto(h, where), seq' \in [Handlers -> Nat], stamp' \in [Handlers -> Nat],
         UNCHANGED <<results, body>>
  PROVE  LocalsOK' /\ PositionsInv'
<1>1. LocalsOK'
  BY DEF Goto, TypeOK, LocalsOK
<1>2. \A g \in Handlers : Request(g)' = Request(g) /\ results'[g] = results[g]
  BY DEF Request
<1>3. \A g \in Handlers :
        pc'[g] \in Running \cup {"unsent", "sent"} =>
          pc[g] \in Running \cup {"unsent", "sent"}
  BY DEF Goto, TypeOK
<1> QED
  BY <1>1, <1>2, <1>3 DEF PositionsInv

\* One of the four validation steps.
LEMMA CheckStep ==
  ASSUME TypeOK, PositionsInv, NEW h \in Handlers, NEW at \in Running, NEW ok,
         NEW code \in Codes, Check(h, at, ok, code)
  PROVE  LocalsOK' /\ PositionsInv'
<1>1. /\ pc[h] = at
      /\ UNCHANGED body
      /\ now \in Nat
  BY DEF Check, clientVars, TypeOK
<1>2. NextCheck(h, at) \in PC
  BY DEF NextCheck, PC, Running
<1>3. CASE ok
  <2>1. /\ Goto(h, NextCheck(h, at))
        /\ UNCHANGED <<seq, results>>
        /\ stamp' = [stamp EXCEPT ![h] = IF NextCheck(h, at) = "dedup" THEN now ELSE 0]
    BY <1>3 DEF Check
  <2>2. stamp' \in [Handlers -> Nat] /\ seq' \in [Handlers -> Nat]
    BY <1>1, <2>1 DEF TypeOK
  <2> QED
    BY <1>1, <1>2, <2>1, <2>2, GotoStep
<1>4. CASE ~ok
  <2>1. Answer(h, Error(code))
    BY <1>4 DEF Check
  <2>2. Error(code) \in Ack \cup Failure
    BY DEF Error, Failure
  <2> QED
    BY <1>1, <2>1, <2>2, AnswerStep
<1> QED
  BY <1>3, <1>4

\* The row a handler is about to commit.
LEMMA NewRowTyping ==
  ASSUME TypeOK, PositionsInv, NEW h \in Handlers, pc[h] \in Running
  PROVE  /\ NewRow(h) \in Row
         /\ \A dup \in BOOLEAN :
              Acknowledge(dup, stamp[h], Current(h).session) \in Ack \cup Failure
<1>1. Current(h) \in Submissions
  BY CurrentTyping
<1>2. seq[h] \in Nat /\ stamp[h] \in Nat
  BY DEF TypeOK
<1>3. Current(h).session \in Sessions
  BY <1>1 DEF Submissions
<1> QED
  BY <1>1, <1>2, <1>3 DEF NewRow, Row, Acknowledge, Ack

\* The part of the state no handler step of its own describes.
RestOK ==
  /\ rows \subseteq Row
  /\ lastSeq \in Nat
  /\ now \in Nat
  /\ library \in [Owners \X Shas -> {"absent", "live", "deleted"}]
  /\ keys \subseteq Owners \X Keys
  /\ body \in [Calls -> Requests]
  /\ status \in [Calls -> Statuses]
  /\ attempt \in [Calls -> 0 .. Attempts]
  /\ cut \subseteq Handlers
  /\ faults \in Nat

LEMMA HandleTyping ==
  ASSUME TypeOK, PositionsInv, NEW h \in Handlers, Arrive(h) \/ Handle(h)
  PROVE  TypeOK' /\ PositionsInv'
<1> USE DEF clientVars, libraryVars
<1>1. RestOK
  BY DEF TypeOK, RestOK
<1>2. CASE Arrive(h)
  <2>1. /\ pc[h] = "sent"
        /\ Goto(h, IF Request(h).writable THEN "check" ELSE "rejected")
        /\ UNCHANGED <<rows, lastSeq, now, library, keys, body, status, attempt, cut,
                       seq, stamp, results, faults>>
    BY <1>2 DEF Arrive
  <2>2. seq' \in [Handlers -> Nat] /\ stamp' \in [Handlers -> Nat]
    BY <2>1 DEF TypeOK
  <2>3. (IF Request(h).writable THEN "check" ELSE "rejected") \in PC
    BY DEF PC, Running
  <2>4. LocalsOK' /\ PositionsInv'
    BY <2>1, <2>2, <2>3, GotoStep
  <2> QED
    BY <1>1, <2>1, <2>4 DEF TypeOK, LocalsOK, RestOK
<1>3. CASE CheckAgent(h)
  <2>1. "check" \in Running /\ (IF Current(h).sound THEN "auth_invalid" ELSE "invalid") \in Codes
    BY DEF Running, Codes
  <2>2. LocalsOK' /\ PositionsInv'
    BY <1>3, <2>1, CheckStep DEF CheckAgent
  <2> QED
    BY <1>1, <1>3, <2>2 DEF TypeOK, LocalsOK, RestOK, CheckAgent, Check
<1>4. CASE CheckRefs(h)
  <2>1. "refs" \in Running /\ "unknown_upstream" \in Codes
    BY DEF Running, Codes
  <2>2. LocalsOK' /\ PositionsInv'
    BY <1>4, <2>1, CheckStep DEF CheckRefs
  <2> QED
    BY <1>1, <1>4, <2>2 DEF TypeOK, LocalsOK, RestOK, CheckRefs, Check
<1>5. CASE CheckContent(h)
  <2>1. "content" \in Running /\ "content_missing" \in Codes
    BY DEF Running, Codes
  <2>2. LocalsOK' /\ PositionsInv'
    BY <1>5, <2>1, CheckStep DEF CheckContent
  <2> QED
    BY <1>1, <1>5, <2>2 DEF TypeOK, LocalsOK, RestOK, CheckContent, Check
<1>6. CASE CheckKeys(h)
  <2>1. "keys" \in Running /\ "key_missing" \in Codes
    BY DEF Running, Codes
  <2>2. LocalsOK' /\ PositionsInv'
    BY <1>6, <2>1, CheckStep DEF CheckKeys
  <2> QED
    BY <1>1, <1>6, <2>2 DEF TypeOK, LocalsOK, RestOK, CheckKeys, Check
<1>7. CASE Dedup(h)
  <2>1. /\ pc[h] = "dedup"
        /\ UNCHANGED <<rows, lastSeq, now, library, keys, body, status, attempt, cut,
                       faults>>
    BY <1>7 DEF Dedup
  <2>2. "dedup" \in Running /\ "insert" \in PC
    BY DEF Running, PC
  <2>3. CASE Stored(Current(h)) = {}
    <3>1. Goto(h, "insert") /\ UNCHANGED <<seq, stamp, results>>
      BY <1>7, <2>3 DEF Dedup
    <3>2. seq' \in [Handlers -> Nat] /\ stamp' \in [Handlers -> Nat]
      BY <3>1 DEF TypeOK
    <3>3. LocalsOK' /\ PositionsInv'
      BY <2>1, <2>2, <3>1, <3>2, GotoStep
    <3> QED
      BY <1>1, <2>1, <3>3 DEF TypeOK, LocalsOK, RestOK
  <2>4. CASE Stored(Current(h)) # {}
    <3>1. PICK r \in Stored(Current(h)) :
            Answer(h, Acknowledge(TRUE, r.ts, r.sub.session))
      BY <1>7, <2>4 DEF Dedup
    <3>2. r \in Row
      BY <1>1 DEF Stored, RestOK
    <3>3. Acknowledge(TRUE, r.ts, r.sub.session) \in Ack \cup Failure
      BY <3>2 DEF Row, Submissions, Acknowledge, Ack
    <3>4. LocalsOK' /\ PositionsInv'
      BY <2>1, <2>2, <3>1, <3>3, AnswerStep
    <3> QED
      BY <1>1, <2>1, <3>4 DEF TypeOK, LocalsOK, RestOK
  <2> QED
    BY <2>3, <2>4
<1>8. CASE Insert(h)
  <2>1. /\ pc[h] = "insert"
        /\ lastSeq' = lastSeq + 1
        /\ seq' = [seq EXCEPT ![h] = lastSeq + 1]
        /\ Goto(h, "acquire")
        /\ UNCHANGED <<rows, now, library, keys, body, status, attempt, cut, stamp,
                       results, faults>>
    BY <1>8 DEF Insert
  <2>2. /\ lastSeq' \in Nat
        /\ seq' \in [Handlers -> Nat]
        /\ stamp' \in [Handlers -> Nat]
    BY <2>1 DEF TypeOK
  <2>3. "insert" \in Running /\ "acquire" \in PC
    BY DEF Running, PC, InDatabase
  <2>4. LocalsOK' /\ PositionsInv'
    BY <2>1, <2>2, <2>3, GotoStep
  <2> QED
    BY <1>1, <2>1, <2>2, <2>4 DEF TypeOK, LocalsOK, RestOK
<1>9. CASE Acquire(h)
  <2>1. /\ pc[h] = "acquire"
        /\ Goto(h, "commit")
        /\ UNCHANGED <<rows, lastSeq, now, library, keys, body, status, attempt, cut,
                       seq, stamp, results, faults>>
    BY <1>9 DEF Acquire
  <2>2. seq' \in [Handlers -> Nat] /\ stamp' \in [Handlers -> Nat]
    BY <2>1 DEF TypeOK
  <2>3. "acquire" \in Running /\ "commit" \in PC
    BY DEF Running, PC, InDatabase
  <2>4. LocalsOK' /\ PositionsInv'
    BY <2>1, <2>2, <2>3, GotoStep
  <2> QED
    BY <1>1, <2>1, <2>4 DEF TypeOK, LocalsOK, RestOK
<1>10. CASE Conflict(h)
  <2>1. /\ pc[h] = "acquire"
        /\ Answer(h, Error("server_5xx"))
        /\ UNCHANGED <<rows, lastSeq, now, library, keys, body, status, attempt, cut,
                       faults>>
    BY <1>10 DEF Conflict
  <2>2. "acquire" \in Running /\ Error("server_5xx") \in Ack \cup Failure
    BY DEF Running, InDatabase, Error, Failure, Codes
  <2>3. LocalsOK' /\ PositionsInv'
    BY <2>1, <2>2, AnswerStep
  <2> QED
    BY <1>1, <2>1, <2>3 DEF TypeOK, LocalsOK, RestOK
<1>11. CASE Commit(h)
  <2>1. /\ pc[h] = "commit"
        /\ rows' = rows \cup {NewRow(h)}
        /\ Answer(h, Acknowledge(FALSE, stamp[h], Current(h).session))
        /\ UNCHANGED <<lastSeq, now, library, keys, body, status, attempt, cut, faults>>
    BY <1>11 DEF Commit
  <2>2. "commit" \in Running
    BY DEF Running, InDatabase
  <2>3. /\ NewRow(h) \in Row
        /\ Acknowledge(FALSE, stamp[h], Current(h).session) \in Ack \cup Failure
    BY <2>1, <2>2, NewRowTyping
  <2>4. LocalsOK' /\ PositionsInv'
    BY <2>1, <2>2, <2>3, AnswerStep
  <2> QED
    BY <1>1, <2>1, <2>3, <2>4 DEF TypeOK, LocalsOK, RestOK
<1> QED
  BY <1>2, <1>3, <1>4, <1>5, <1>6, <1>7, <1>8, <1>9, <1>10, <1>11 DEF Handle

LEMMA FaultTyping ==
  ASSUME TypeOK, PositionsInv,
         Crash \/ \E h \in Handlers : CommitUnheard(h) \/ StatementFails(h)
  PROVE  TypeOK' /\ PositionsInv'
<1> USE DEF clientVars, libraryVars
<1>1. RestOK /\ faults + 1 \in Nat
  BY DEF TypeOK, RestOK
<1>2. Error("server_5xx") \in Ack \cup Failure
  BY DEF Error, Failure, Codes
<1>3. CASE Crash
  <2>1. TypeOK'
    BY <1>1, <1>3 DEF Crash, TypeOK, PC
  <2>2. \A h \in Handlers : pc'[h] = pc[h] \/ pc'[h] = "gone"
    BY <1>3 DEF Crash
  <2>3. "gone" \notin Running \cup {"unsent", "sent"}
    BY DEF Running, InDatabase
  <2>4. UNCHANGED <<results, body>>
    BY <1>3 DEF Crash
  <2> QED
    BY <2>1, <2>2, <2>3, <2>4 DEF PositionsInv, Request
<1>4. ASSUME NEW h \in Handlers, CommitUnheard(h)
      PROVE  TypeOK' /\ PositionsInv'
  <2>1. /\ pc[h] = "commit"
        /\ faults' = faults + 1
        /\ rows' = rows \cup {NewRow(h)}
        /\ Answer(h, Error("server_5xx"))
        /\ UNCHANGED <<lastSeq, now, library, keys, body, status, attempt, cut>>
    BY <1>4 DEF CommitUnheard
  <2>2. "commit" \in Running
    BY DEF Running, InDatabase
  <2>3. NewRow(h) \in Row
    BY <2>1, <2>2, NewRowTyping
  <2>4. LocalsOK' /\ PositionsInv'
    BY <1>2, <2>1, <2>2, AnswerStep
  <2> QED
    BY <1>1, <2>1, <2>3, <2>4 DEF TypeOK, LocalsOK, RestOK
<1>5. ASSUME NEW h \in Handlers, StatementFails(h)
      PROVE  TypeOK' /\ PositionsInv'
  <2>1. /\ pc[h] \in Running
        /\ faults' = faults + 1
        /\ Answer(h, Error("server_5xx"))
        /\ UNCHANGED <<rows, lastSeq, now, library, keys, body, status, attempt, cut>>
    BY <1>5 DEF StatementFails
  <2>2. LocalsOK' /\ PositionsInv'
    BY <1>2, <2>1, AnswerStep
  <2> QED
    BY <1>1, <2>1, <2>2 DEF TypeOK, LocalsOK, RestOK
<1> QED
  BY <1>3, <1>4, <1>5

LEMMA ClientTyping ==
  ASSUME TypeOK, PositionsInv, NEW c \in Calls,
         Send(c) \/ Receive(c) \/ NetworkError(c), ClientInv
  PROVE  TypeOK' /\ PositionsInv'
<1> USE DEF clientVars, libraryVars
<1>1. status' \in [Calls -> Statuses]
  BY DEF Send, Receive, NetworkError, Transient, TypeOK, Statuses
<1>2. CASE Send(c)
  <2>1. attempt[c] + 1 \in 1 .. Attempts /\ attempt[c] < attempt[c] + 1
    BY <1>2, AttemptsAssumption DEF Send, ClientInv, TypeOK
  <2>2. <<c, attempt[c] + 1>> \in Handlers
    BY <2>1 DEF Handlers
  <2>3. pc[<<c, attempt[c] + 1>>] = "unsent"
    BY <1>2, <2>1, <2>2 DEF Send, ClientInv
  <2>4. /\ Goto(<<c, attempt[c] + 1>>, "sent")
        /\ attempt' = [attempt EXCEPT ![c] = attempt[c] + 1]
        /\ UNCHANGED <<rows, lastSeq, now, library, keys, body, cut, seq, stamp,
                       results, faults>>
    BY <1>2 DEF Send
  <2>5. /\ seq' \in [Handlers -> Nat]
        /\ stamp' \in [Handlers -> Nat]
        /\ "sent" \in PC
    BY <2>4 DEF TypeOK, PC
  <2>6. LocalsOK' /\ PositionsInv'
    BY <2>2, <2>3, <2>4, <2>5, GotoStep
  <2>7. attempt' \in [Calls -> 0 .. Attempts]
    BY <2>1, <2>4 DEF TypeOK
  <2> QED
    BY <1>1, <2>4, <2>6, <2>7 DEF TypeOK, LocalsOK
<1>3. CASE Receive(c) \/ NetworkError(c)
  <2>1. UNCHANGED <<rows, lastSeq, now, library, keys, body, attempt, pc, cut, seq,
                    stamp, results, faults>>
    BY <1>3 DEF Receive, NetworkError
  <2> QED
    BY <1>1, <2>1 DEF TypeOK, PositionsInv, Request
<1> QED
  BY <1>2, <1>3

LEMMA EnvironmentTyping ==
  ASSUME TypeOK, PositionsInv, Environment
  PROVE  TypeOK' /\ PositionsInv'
<1>1. UNCHANGED <<pc, results, body>> => PositionsInv'
  BY DEF PositionsInv, Request
<1> USE DEF clientVars, libraryVars
<1>2. ASSUME NEW o \in Owners, NEW s \in Shas, PutContent(o, s) \/ DeleteContent(o, s)
      PROVE  TypeOK' /\ PositionsInv'
  BY <1>1, <1>2 DEF PutContent, DeleteContent, Library!Upload, Library!Delete, TypeOK
<1>3. ASSUME NEW o \in Owners, NEW k \in Keys, RegisterKey(o, k)
      PROVE  TypeOK' /\ PositionsInv'
  BY <1>1, <1>3 DEF RegisterKey, TypeOK
<1>4. CASE Tick
  BY <1>1, <1>4 DEF Tick, TypeOK
<1> QED
  BY <1>2, <1>3, <1>4 DEF Environment

\* ClientInv is preserved: handlers leave "unsent" by Send only.
LEMMA ClientInvStep ==
  ASSUME TypeOK, ClientInv, [Next]_vars
  PROVE  ClientInv'
<1> USE DEF clientVars, libraryVars
<1>1. ASSUME UNCHANGED <<status, attempt>>,
             \A g \in Handlers : pc[g] = "unsent" => pc'[g] = "unsent"
      PROVE  ClientInv'
  BY <1>1 DEF ClientInv, Handlers
<1>2. ASSUME NEW h \in Handlers, Arrive(h) \/ Handle(h) \/ CommitUnheard(h) \/ StatementFails(h)
      PROVE  ClientInv'
  <2>1. UNCHANGED <<status, attempt>>
    BY <1>2 DEF Arrive, Handle, CheckAgent, CheckRefs, CheckContent, CheckKeys, Check, Dedup,
       Insert, Acquire, Conflict, Commit, CommitUnheard, StatementFails
  <2>2. pc[h] # "unsent"
    BY <1>2 DEF Arrive, Handle, CheckAgent, CheckRefs, CheckContent, CheckKeys, Check, Dedup,
       Insert, Acquire, Conflict, Commit, CommitUnheard, StatementFails, Running, InDatabase
  <2>3. \E where : pc' = [pc EXCEPT ![h] = where]
    BY <1>2, Zenon DEF Arrive, Handle, CheckAgent, CheckRefs, CheckContent, CheckKeys, Check,
       Dedup, Insert, Acquire, Conflict, Commit, CommitUnheard, StatementFails, Answer, Leave,
       Goto
  <2>4. \A g \in Handlers : pc[g] = "unsent" => pc'[g] = "unsent"
    BY <2>2, <2>3 DEF TypeOK
  <2> QED
    BY <1>1, <2>1, <2>4
<1>3. CASE Crash
  <2>1. "unsent" \notin Running \ InDatabase
    BY DEF Running, InDatabase
  <2>2. \A g \in Handlers : pc[g] = "unsent" => pc'[g] = "unsent"
    BY <1>3, <2>1 DEF Crash
  <2> QED
    BY <1>1, <1>3, <2>2 DEF Crash
<1>4. ASSUME NEW c \in Calls, Send(c)
      PROVE  ClientInv'
  <2>1. /\ attempt[c] \in 0 .. Attempts
        /\ attempt[c] < Attempts
        /\ attempt' = [attempt EXCEPT ![c] = attempt[c] + 1]
        /\ status' = [status EXCEPT ![c] = "waiting"]
        /\ pc' = [pc EXCEPT ![<<c, attempt[c] + 1>>] = "sent"]
    BY <1>4, AttemptsAssumption DEF Send, Goto, ClientInv, TypeOK
  <2>2. <<c, attempt[c] + 1>> \in Handlers
    BY <2>1, AttemptsAssumption DEF Handlers
  <2>3. ASSUME NEW d \in Calls, NEW a \in 1 .. Attempts, attempt'[d] < a
        PROVE  pc'[<<d, a>>] = "unsent"
    <3>1. attempt[d] < a /\ <<d, a>> # <<c, attempt[c] + 1>>
      BY <2>1, <2>3 DEF TypeOK
    <3>2. pc[<<d, a>>] = "unsent"
      BY <3>1 DEF ClientInv
    <3>3. <<d, a>> \in Handlers
      BY DEF Handlers
    <3> QED
      BY <2>1, <3>1, <3>2, <3>3 DEF TypeOK
  <2>4. ASSUME NEW d \in Calls
        PROVE  /\ status'[d] = "idle" => attempt'[d] = 0
               /\ status'[d] = "waiting" => attempt'[d] > 0
               /\ status'[d] = "backoff" => attempt'[d] < Attempts
    BY <2>1 DEF ClientInv, TypeOK
  <2> QED
    BY <2>3, <2>4 DEF ClientInv
<1>5. ASSUME NEW c \in Calls, Receive(c) \/ NetworkError(c)
      PROVE  ClientInv'
  <2>1. /\ UNCHANGED <<attempt, pc>>
        /\ \/ status' = [status EXCEPT ![c] = "answered"]
           \/ status' = [status EXCEPT ![c] = "failed"]
           \/ attempt[c] < Attempts /\ status' = [status EXCEPT ![c] = "backoff"]
    BY <1>5 DEF Receive, NetworkError, Transient
  <2> QED
    BY <2>1 DEF ClientInv, TypeOK
<1>6. CASE Environment
  BY <1>1, <1>6 DEF Environment, PutContent, DeleteContent,
     Library!Upload, Library!Delete, RegisterKey, Tick
<1>7. CASE UNCHANGED vars
  BY <1>1, <1>7 DEF vars
<1> QED
  BY <1>2, <1>3, <1>4, <1>5, <1>6, <1>7 DEF Next

LEMMA TypeStep ==
  ASSUME TypeOK, PositionsInv, ClientInv, [Next]_vars
  PROVE  TypeOK' /\ PositionsInv' /\ ClientInv'
<1>1. ClientInv'
  BY ClientInvStep
<1>2. CASE UNCHANGED vars
  BY <1>1, <1>2 DEF vars, TypeOK, PositionsInv, Request
<1> QED
  BY <1>1, <1>2, HandleTyping, FaultTyping, ClientTyping, EnvironmentTyping DEF Next

LEMMA TypeInit == Init => TypeOK /\ PositionsInv /\ ClientInv
<1> SUFFICES ASSUME Init PROVE TypeOK /\ PositionsInv /\ ClientInv
  OBVIOUS
<1>1. TypeOK
  BY AttemptsAssumption DEF Init, TypeOK, Statuses, PC
<1>2. \A h \in Handlers : results[h] = <<>> /\ pc[h] = "unsent"
  BY DEF Init
<1>3. PositionsInv
  BY <1>1, <1>2, HandlerTyping DEF PositionsInv
<1>4. ClientInv
  BY AttemptsAssumption DEF Init, ClientInv, Handlers
<1> QED
  BY <1>1, <1>3, <1>4

\* Every variable keeps its type in every behaviour.
THEOREM TypeCorrect == Spec => [](TypeOK /\ PositionsInv /\ ClientInv)
  BY TypeInit, TypeStep, PTL DEF Spec

-----------------------------------------------------------------------------
(***************************************************************************)
(* What one step does to the parts of the state the invariant relates.     *)
(***************************************************************************)

\* Where a handler holds no established fact.
Outside == {"unsent", "sent", "check", "rejected", "done", "gone"}

\* Nothing a handler has read and found is ever taken back.
LEMMA Monotone ==
  ASSUME TypeOK, [Next]_vars
  PROVE  /\ body' = body
         /\ rows \subseteq rows'
         /\ keys \subseteq keys'
         /\ lastSeq <= lastSeq'
         /\ \A p \in Owners \X Shas : library[p] # "absent" => library'[p] # "absent"
<1> USE DEF clientVars, libraryVars
<1>0. lastSeq <= lastSeq /\ lastSeq <= lastSeq + 1
  BY DEF TypeOK
<1>1. ASSUME NEW h \in Handlers, Arrive(h) \/ Handle(h) \/ CommitUnheard(h) \/ StatementFails(h)
      PROVE  /\ UNCHANGED <<body, keys, library>>
             /\ rows \subseteq rows'
             /\ lastSeq' \in {lastSeq, lastSeq + 1}
  BY <1>1 DEF Arrive, Handle, CheckAgent, CheckRefs, CheckContent, CheckKeys, Check, Dedup,
     Insert, Acquire, Conflict, Commit, CommitUnheard, StatementFails
<1>2. ASSUME NEW c \in Calls, Send(c) \/ Receive(c) \/ NetworkError(c)
      PROVE  UNCHANGED <<body, keys, library, rows, lastSeq>>
  BY <1>2 DEF Send, Receive, NetworkError
<1>3. Crash \/ UNCHANGED vars => UNCHANGED <<body, keys, library, rows, lastSeq>>
  BY DEF Crash, vars
<1>4. ASSUME Environment
      PROVE  /\ UNCHANGED <<body, rows, lastSeq>>
             /\ keys \subseteq keys'
             /\ \A p \in Owners \X Shas : library[p] # "absent" => library'[p] # "absent"
  BY <1>4 DEF Environment, PutContent, DeleteContent,
     Library!Upload, Library!Delete, RegisterKey, Tick, TypeOK
<1> QED
  BY <1>0, <1>1, <1>2, <1>3, <1>4 DEF Next

\* A handler that stays inside either stands still or takes one of the steps
\* that establish or keep its facts.
Passes(h, at, ok) ==
  pc[h] = at /\ ok /\ pc'[h] = NextCheck(h, at) /\ results'[h] = results[h]

Advances(h) ==
  \/ Passes(h, "check", AgentOwned(h))
  \/ Passes(h, "refs", UpstreamExists(h))
  \/ Passes(h, "content", ContentPresent(h))
  \/ Passes(h, "keys", KeysRegistered(h))
  \/ pc[h] = "dedup" /\ pc'[h] = "insert" /\ results'[h] = results[h]
  \/ Insert(h)
  \/ Acquire(h)

Still(h) ==
  /\ pc'[h] = pc[h]
  /\ seq'[h] = seq[h]
  /\ results'[h] = results[h]

LEMMA CheckMoves ==
  ASSUME TypeOK, NEW g \in Handlers, NEW at, NEW ok, NEW code, Check(g, at, ok, code)
  PROVE  /\ Passes(g, at, ok) \/ pc'[g] \in Outside
         /\ \A h \in Handlers : h # g => Still(h)
<1>1. CASE ok
  BY <1>1 DEF Check, Goto, Passes, TypeOK, Still
<1>2. CASE ~ok
  BY <1>2 DEF Check, Answer, Leave, Goto, Outside, TypeOK, Still
<1> QED
  BY <1>1, <1>2

LEMMA HandleMoves ==
  ASSUME TypeOK, NEW g \in Handlers,
         Arrive(g) \/ Handle(g) \/ CommitUnheard(g) \/ StatementFails(g)
  PROVE  /\ Advances(g) \/ pc'[g] \in Outside
         /\ \A h \in Handlers : h # g => Still(h)
<1>1. CASE Arrive(g)
  BY <1>1 DEF Arrive, Goto, Outside, TypeOK, Still
<1>2. CASE CheckAgent(g)
  BY <1>2, CheckMoves DEF CheckAgent, Advances, Passes
<1>3. CASE CheckRefs(g)
  BY <1>3, CheckMoves DEF CheckRefs, Advances
<1>4. CASE CheckContent(g)
  BY <1>4, CheckMoves DEF CheckContent, Advances
<1>5. CASE CheckKeys(g)
  BY <1>5, CheckMoves DEF CheckKeys, Advances
<1>6. CASE Dedup(g)
  <2>1. CASE Stored(Current(g)) = {}
    BY <1>6, <2>1 DEF Dedup, Goto, TypeOK, Still, Advances
  <2>2. CASE Stored(Current(g)) # {}
    <3>1. \E result : Answer(g, result)
      BY <1>6, <2>2 DEF Dedup
    <3> QED
      BY <3>1 DEF Answer, Leave, Goto, Outside, TypeOK, Still
  <2> QED
    BY <2>1, <2>2
<1>7. CASE Insert(g)
  BY <1>7 DEF Insert, Goto, TypeOK, Still, Advances
<1>8. CASE Acquire(g)
  BY <1>8 DEF Acquire, Goto, TypeOK, Still, Advances
<1>9. CASE Conflict(g) \/ Commit(g) \/ CommitUnheard(g) \/ StatementFails(g)
  <2>1. \E result : Answer(g, result)
    BY <1>9, Zenon DEF Conflict, Commit, CommitUnheard, StatementFails
  <2> QED
    BY <2>1 DEF Answer, Leave, Goto, Outside, TypeOK, Still
<1> QED
  BY <1>1, <1>2, <1>3, <1>4, <1>5, <1>6, <1>7, <1>8, <1>9 DEF Handle

LEMMA Moves ==
  ASSUME TypeOK, ClientInv, [Next]_vars, NEW h \in Handlers
  PROVE  Still(h) \/ Advances(h) \/ pc'[h] \in Outside
<1>1. ASSUME NEW g \in Handlers, Arrive(g) \/ Handle(g) \/ CommitUnheard(g) \/ StatementFails(g)
      PROVE  Still(h) \/ Advances(h) \/ pc'[h] \in Outside
  BY <1>1, HandleMoves
<1>2. ASSUME NEW c \in Calls, Send(c)
      PROVE  Still(h) \/ pc'[h] \in Outside
  BY <1>2 DEF Send, Goto, TypeOK, Still, Outside
<1>3. ASSUME NEW c \in Calls, Receive(c) \/ NetworkError(c)
      PROVE  Still(h)
  BY <1>3 DEF Receive, NetworkError, Still
<1>4. CASE Crash
  BY <1>4 DEF Crash, Still, Outside
<1>5. CASE Environment
  BY <1>5 DEF Environment, PutContent, DeleteContent,
     Library!Upload, Library!Delete, RegisterKey, Tick, Still
<1>6. CASE UNCHANGED vars
  BY <1>6 DEF vars, Still
<1> QED
  BY <1>1, <1>2, <1>3, <1>4, <1>5, <1>6 DEF Next

\* Rows grow by the row of one handler, which then leaves.
CommitsRow(h) ==
  /\ pc[h] = "commit"
  /\ pc'[h] \in Outside
  /\ rows' = rows \cup {NewRow(h)}

LEMMA RowsMove ==
  ASSUME TypeOK, [Next]_vars
  PROVE  rows' = rows \/ \E h \in Handlers : CommitsRow(h)
<1> USE DEF clientVars, libraryVars
<1>1. ASSUME NEW h \in Handlers, Commit(h) \/ CommitUnheard(h)
      PROVE  CommitsRow(h)
  BY <1>1 DEF Commit, CommitUnheard, Answer, Leave, Goto, TypeOK, CommitsRow, Outside
<1>2. ASSUME NEW h \in Handlers, Arrive(h) \/ Handle(h) \/ StatementFails(h), ~Commit(h)
      PROVE  rows' = rows
  BY <1>2 DEF Arrive, Handle, CheckAgent, CheckRefs, CheckContent, CheckKeys, Check, Dedup,
     Insert, Acquire, Conflict, StatementFails
<1>3. ASSUME NEW c \in Calls, Send(c) \/ Receive(c) \/ NetworkError(c)
      PROVE  rows' = rows
  BY <1>3 DEF Send, Receive, NetworkError
<1>4. Crash \/ Environment \/ UNCHANGED vars => rows' = rows
  BY DEF Crash, Environment, PutContent, DeleteContent,
     Library!Upload, Library!Delete, RegisterKey, Tick, vars
<1> QED
  BY <1>1, <1>2, <1>3, <1>4 DEF Next

-----------------------------------------------------------------------------
(***************************************************************************)
(* The invariant, one part at a time.                                      *)
(***************************************************************************)

LEMMA ChecksStep ==
  ASSUME TypeOK, PositionsInv, ClientInv, ChecksInv, [Next]_vars
  PROVE  ChecksInv'
<1> SUFFICES ASSUME NEW h \in Handlers
             PROVE
               /\ pc'[h] \in Accepted \cup {"refs", "content", "keys"} => AgentOwned(h)'
               /\ pc'[h] \in Accepted \cup {"content", "keys"} => UpstreamExists(h)'
               /\ pc'[h] \in Accepted \cup {"keys"} =>
                    \A ref \in Current(h)'.refs : library'[<<Caller(h)', ref.sha>>] # "absent"
               /\ pc'[h] \in Accepted => KeysRegistered(h)'
  BY DEF ChecksInv
<1>1. /\ body' = body
      /\ rows \subseteq rows'
      /\ keys \subseteq keys'
      /\ \A p \in Owners \X Shas : library[p] # "absent" => library'[p] # "absent"
      /\ Caller(h)' = Caller(h)
      /\ Caller(h) \in Owners
  BY Monotone, HandlerTyping DEF Caller, Request
<1>2. ASSUME results'[h] = results[h]
      PROVE  /\ Current(h)' = Current(h)
             /\ AgentOwned(h) => AgentOwned(h)'
             /\ UpstreamExists(h) => UpstreamExists(h)'
             /\ KeysRegistered(h) => KeysRegistered(h)'
  BY <1>1, <1>2 DEF Current, Request, AgentOwned, UpstreamExists, KeysRegistered, Keyed
<1>3. ASSUME results'[h] = results[h], pc[h] \in Running,
             \A ref \in Current(h).refs : library[<<Caller(h), ref.sha>>] # "absent"
      PROVE  \A ref \in Current(h)'.refs : library'[<<Caller(h)', ref.sha>>] # "absent"
  <2>1. \A ref \in Current(h).refs : ref.sha \in Shas
    BY <1>3, CurrentTyping DEF Submissions, Refs
  <2> QED
    BY <1>1, <1>2, <1>3, <2>1
<1>4. CASE pc'[h] \in Outside
  BY <1>4 DEF Outside, Accepted, InDatabase
<1>5. CASE Still(h)
  BY <1>2, <1>3, <1>5 DEF Still, ChecksInv, Accepted, InDatabase, Running
<1>6. CASE Passes(h, "check", AgentOwned(h))
  <2>1. AgentOwned(h)'
    BY <1>2, <1>6 DEF Passes
  <2>2. pc'[h] # "refs" => Current(h).upstream = {}
    BY <1>6 DEF Passes, NextCheck
  <2>3. pc'[h] \in Accepted \cup {"keys"} => Current(h).refs = {}
    BY <1>6 DEF Passes, NextCheck, Accepted, InDatabase
  <2> QED
    BY <1>2, <1>6, <2>1, <2>2, <2>3 DEF Passes, NextCheck, UpstreamExists, KeysRegistered,
       Keyed, Accepted, InDatabase
<1>7. CASE Passes(h, "refs", UpstreamExists(h))
  <2>1. AgentOwned(h)' /\ UpstreamExists(h)'
    BY <1>2, <1>7 DEF Passes, ChecksInv
  <2>2. pc'[h] \in Accepted \cup {"keys"} => Current(h).refs = {}
    BY <1>7 DEF Passes, NextCheck, Accepted, InDatabase
  <2> QED
    BY <1>2, <1>7, <2>1, <2>2 DEF Passes, KeysRegistered, Keyed, Accepted
<1>8. CASE Passes(h, "content", ContentPresent(h))
  <2>1. AgentOwned(h)' /\ UpstreamExists(h)'
    BY <1>2, <1>8 DEF Passes, ChecksInv
  <2>2. \A ref \in Current(h)'.refs : library'[<<Caller(h)', ref.sha>>] # "absent"
    BY <1>3, <1>8 DEF Passes, ContentPresent, Running
  <2>3. pc'[h] \in Accepted => Keyed(h) = {}
    BY <1>8 DEF Passes, NextCheck, Accepted, InDatabase
  <2> QED
    BY <1>2, <1>8, <2>1, <2>2, <2>3 DEF Passes, KeysRegistered
<1>9. CASE Passes(h, "keys", KeysRegistered(h))
  BY <1>2, <1>3, <1>9 DEF Passes, ChecksInv, Running
<1>10. CASE pc[h] = "dedup" /\ pc'[h] = "insert" /\ results'[h] = results[h]
  BY <1>2, <1>3, <1>10 DEF ChecksInv, Accepted, Running
<1>11. CASE Insert(h)
  BY <1>2, <1>3, <1>11 DEF Insert, ChecksInv, Accepted, Running
<1>12. CASE Acquire(h)
  BY <1>2, <1>3, <1>12 DEF Acquire, ChecksInv, Accepted, Running, InDatabase
<1> QED
  BY <1>4, <1>5, <1>6, <1>7, <1>8, <1>9, <1>10, <1>11, <1>12, Moves DEF Advances

\* A handler with an INSERT in the database either had it there before the
\* step or started or advanced it in this step.
LEMMA InDatabaseMoves ==
  ASSUME TypeOK, ClientInv, [Next]_vars, NEW h \in Handlers, pc'[h] \in InDatabase
  PROVE  /\ results'[h] = results[h]
         /\ Current(h)' = Current(h)
         /\ \/ Insert(h)
            \/ pc[h] \in InDatabase /\ seq'[h] = seq[h] /\ pc'[h] = pc[h]
            \/ pc[h] \in InDatabase /\ seq'[h] = seq[h] /\ Acquire(h)
<1>1. body' = body
  BY Monotone
<1>2. pc'[h] \notin Outside
  BY DEF InDatabase, Outside
<1>3. Still(h) \/ Insert(h) \/ Acquire(h)
  BY <1>2, Moves DEF Advances, Passes, NextCheck, InDatabase
<1> QED
  BY <1>1, <1>3 DEF Still, Insert, Acquire, Current, Request, InDatabase

\* Only one INSERT starts, and only one takes a key, in one step.
LEMMA OneMover ==
  ASSUME TypeOK, NEW h \in Handlers, NEW g \in Handlers,
         \/ Insert(h) /\ Insert(g)
         \/ Acquire(h) /\ Acquire(g)
  PROVE  h = g
  BY DEF Insert, Acquire, Goto, TypeOK

LEMMA SequenceStep ==
  ASSUME TypeOK, PositionsInv, ClientInv, ChecksInv, SequenceInv, [Next]_vars
  PROVE  SequenceInv'
<1>1. /\ rows \subseteq rows'
      /\ lastSeq <= lastSeq'
      /\ lastSeq \in Nat
      /\ lastSeq' \in Nat
  BY Monotone, TypeStep DEF TypeOK
<1>2. \A r \in rows : r.seq \in Nat /\ r.seq <= lastSeq /\ r.seq <= lastSeq'
  BY <1>1 DEF SequenceInv, TypeOK, Row
<1>3. \A h \in Handlers : seq[h] \in Nat
  BY DEF TypeOK
<1>4. ASSUME NEW r \in rows', r \notin rows
      PROVE  \E h \in Handlers : /\ CommitsRow(h) /\ r = NewRow(h) /\ r.seq = seq[h]
                                /\ pc[h] \in InDatabase
  BY <1>4, RowsMove DEF CommitsRow, NewRow, InDatabase
<1>5. \A r \in rows' : r.seq <= lastSeq'
  <2>1. ASSUME NEW r \in rows', r \notin rows
        PROVE  r.seq <= lastSeq'
    BY <1>1, <1>3, <1>4, <2>1 DEF SequenceInv
  <2> QED
    BY <1>2, <2>1
<1>6. ASSUME NEW r \in rows', NEW q \in rows', r.seq = q.seq
      PROVE  r = q
  <2>1. CASE r \in rows /\ q \in rows
    BY <1>6, <2>1 DEF SequenceInv
  <2>2. CASE r \notin rows /\ q \in rows
    BY <1>4, <1>6, <2>2 DEF SequenceInv
  <2>3. CASE r \in rows /\ q \notin rows
    BY <1>4, <1>6, <2>3 DEF SequenceInv
  <2>4. CASE r \notin rows /\ q \notin rows
    BY <1>4, <1>6, <2>4 DEF SequenceInv
  <2> QED
    BY <2>1, <2>2, <2>3, <2>4
<1>7. ASSUME NEW h \in Handlers, pc'[h] \in InDatabase
      PROVE  /\ seq'[h] <= lastSeq'
             /\ \A r \in rows' : r.seq # seq'[h]
             /\ \A g \in Handlers : pc'[g] \in InDatabase /\ seq'[g] = seq'[h] => g = h
             /\ \A u \in Current(h)'.upstream :
                  \E r \in rows' : /\ r.sub.id = u /\ r.sub.agent = Current(h)'.agent
                                  /\ r.seq < seq'[h]
  <2>1. \A g \in Handlers : pc'[g] \in InDatabase =>
          \/ Insert(g)
          \/ pc[g] \in InDatabase /\ seq'[g] = seq[g]
    BY InDatabaseMoves
  <2>2. Current(h)' = Current(h)
    BY <1>7, InDatabaseMoves
  <2>3. CASE Insert(h)
    <3>1. /\ seq'[h] = lastSeq + 1
          /\ lastSeq' = lastSeq + 1
          /\ rows' = rows
      BY <2>3 DEF Insert, TypeOK
    <3>2. \A r \in rows : r.seq < seq'[h]
      BY <1>1, <1>2, <3>1
    <3>3. UpstreamExists(h)
      BY <2>3 DEF ChecksInv, Insert, Accepted
    <3>4. \A u \in Current(h).upstream :
            \E r \in rows : /\ r.sub.id = u /\ r.sub.agent = Current(h).agent
                           /\ r.seq < seq'[h]
      BY <3>2, <3>3 DEF UpstreamExists
    <3>5. ASSUME NEW g \in Handlers, pc'[g] \in InDatabase, seq'[g] = seq'[h]
          PROVE  g = h
      <4>1. CASE Insert(g)
        BY <2>3, <4>1, OneMover
      <4>2. CASE pc[g] \in InDatabase /\ seq'[g] = seq[g]
        <5>1. seq[g] <= lastSeq
          BY <4>2 DEF SequenceInv
        <5> QED
          BY <1>1, <1>3, <3>1, <3>5, <4>2, <5>1
      <4> QED
        BY <2>1, <3>5, <4>1, <4>2
    <3>6. \A r \in rows' : r.seq # seq'[h]
      BY <1>1, <1>2, <3>1, <3>2
    <3> QED
      BY <1>1, <2>2, <3>1, <3>4, <3>5, <3>6
  <2>4. CASE pc[h] \in InDatabase /\ seq'[h] = seq[h]
    <3>1. seq'[h] <= lastSeq'
      BY <1>1, <1>3, <2>4 DEF SequenceInv
    <3>2. ASSUME NEW r \in rows', r.seq = seq'[h]
          PROVE  FALSE
      <4>1. CASE r \in rows
        BY <2>4, <3>2, <4>1 DEF SequenceInv
      <4>2. CASE r \notin rows
        <5>1. PICK g \in Handlers : /\ CommitsRow(g) /\ r.seq = seq[g]
                                   /\ pc[g] \in InDatabase
          BY <1>4, <4>2
        <5>2. g = h
          BY <2>4, <3>2, <5>1 DEF SequenceInv
        <5> QED
          BY <1>7, <5>1, <5>2 DEF CommitsRow, Outside, InDatabase
      <4> QED
        BY <4>1, <4>2
    <3>3. ASSUME NEW g \in Handlers, pc'[g] \in InDatabase, seq'[g] = seq'[h]
          PROVE  g = h
      <4>1. CASE Insert(g)
        <5>1. seq'[g] = lastSeq + 1
          BY <4>1 DEF Insert, TypeOK
        <5>2. seq[h] <= lastSeq
          BY <2>4 DEF SequenceInv
        <5> QED
          BY <1>1, <1>3, <2>4, <3>3, <5>1, <5>2
      <4>2. CASE pc[g] \in InDatabase /\ seq'[g] = seq[g]
        BY <2>4, <3>3, <4>2 DEF SequenceInv
      <4> QED
        BY <2>1, <3>3, <4>1, <4>2
    <3>4. \A u \in Current(h)'.upstream :
            \E r \in rows' : /\ r.sub.id = u /\ r.sub.agent = Current(h)'.agent
                            /\ r.seq < seq'[h]
      BY <1>1, <2>2, <2>4 DEF SequenceInv
    <3> QED
      BY <3>1, <3>2, <3>3, <3>4
  <2> QED
    BY <1>7, <2>1, <2>3, <2>4
<1> QED
  BY <1>5, <1>6, <1>7 DEF SequenceInv

LEMMA HoldersStep ==
  ASSUME TypeOK, PositionsInv, ClientInv, HoldersInv, [Next]_vars
  PROVE  HoldersInv'
<1> SUFFICES ASSUME NEW h \in Handlers, pc'[h] = "commit"
             PROVE  /\ \A r \in rows' : r.sub.id # Current(h)'.id
                    /\ \A g \in Handlers :
                         pc'[g] = "commit" /\ Current(g)'.id = Current(h)'.id => g = h
  BY DEF HoldersInv, SameId
<1>1. \A g \in Handlers : pc'[g] = "commit" =>
        /\ Current(g)' = Current(g)
        /\ pc[g] = "commit" \/ Acquire(g)
  BY InDatabaseMoves DEF InDatabase, Insert, Goto, TypeOK
<1>2. ASSUME NEW r \in rows', r \notin rows
      PROVE  \E g \in Handlers : /\ CommitsRow(g) /\ r.sub.id = Current(g).id
                                /\ pc'[g] # "commit"
  BY <1>2, RowsMove DEF CommitsRow, NewRow, Outside
<1>3. \A r \in rows : r.sub.id # Current(h).id
  BY <1>1 DEF HoldersInv, SameId, Acquire, KeyFree
<1>4. \A g \in Handlers : pc[g] = "commit" /\ Current(g).id = Current(h).id => g = h
  BY <1>1 DEF HoldersInv, Acquire, KeyFree
<1>5. \A r \in rows' : r.sub.id # Current(h)'.id
  BY <1>1, <1>2, <1>3, <1>4 DEF CommitsRow
<1>6. ASSUME NEW g \in Handlers, pc'[g] = "commit", Current(g)'.id = Current(h)'.id
      PROVE  g = h
  <2>1. CASE pc[g] = "commit"
    BY <1>1, <1>4, <1>6, <2>1
  <2>2. CASE pc[h] = "commit" /\ Acquire(g)
    BY <1>1, <1>6, <2>2 DEF Acquire, KeyFree
  <2>3. CASE Acquire(h) /\ Acquire(g)
    BY <2>3, OneMover
  <2> QED
    BY <1>1, <1>6, <2>1, <2>2, <2>3
<1> QED
  BY <1>5, <1>6

\* What holds of every row, from what held when its handler wrote it.
LEMMA RowsStep ==
  ASSUME TypeOK, PositionsInv, ClientInv, ChecksInv, SequenceInv, HoldersInv,
         OneRowPerRecord, UpstreamPrecedes, ReferencesWereUploaded, RowsAreTheOwners,
         [Next]_vars
  PROVE  /\ OneRowPerRecord'
         /\ UpstreamPrecedes'
         /\ ReferencesWereUploaded'
         /\ RowsAreTheOwners'
<1>1. /\ body' = body
      /\ rows \subseteq rows'
      /\ keys \subseteq keys'
      /\ \A p \in Owners \X Shas : library[p] # "absent" => library'[p] # "absent"
  BY Monotone
<1>2. ASSUME NEW h \in Handlers, pc[h] = "commit"
      PROVE  /\ Current(h) \in Submissions
             /\ AgentOwned(h)
             /\ NewRow(h) = [seq |-> seq[h], ts |-> stamp[h], sub |-> Current(h)]
             /\ Len(results[h]) + 1 \in 1 .. Len(Request(h).batch)
             /\ h[1] \in Calls
             /\ Caller(h) \in Owners
  BY <1>2, CurrentTyping, HandlerTyping DEF ChecksInv, Accepted, Running, InDatabase, NewRow
<1>3. OneRowPerRecord'
  BY RowsMove DEF OneRowPerRecord, CommitsRow, NewRow, HoldersInv, SameId
<1>4. UpstreamPrecedes'
  <2>1. ASSUME NEW h \in Handlers, CommitsRow(h), NEW u \in NewRow(h).sub.upstream
        PROVE  \E q \in rows : /\ q.sub.id = u /\ q.sub.agent = NewRow(h).sub.agent
                              /\ q.seq < NewRow(h).seq
    BY <2>1 DEF CommitsRow, NewRow, SequenceInv, InDatabase
  <2> QED
    BY <1>1, <2>1, RowsMove DEF UpstreamPrecedes, CommitsRow
<1>5. ReferencesWereUploaded'
  <2>1. ASSUME NEW r \in rows, NEW ref \in r.sub.refs
        PROVE  /\ library'[<<AgentOwner[r.sub.agent], ref.sha>>] # "absent"
               /\ ref.key # NoKey => <<AgentOwner[r.sub.agent], ref.key>> \in keys'
    <3>1. PICK c \in Calls : body[c].caller = AgentOwner[r.sub.agent]
      BY DEF RowsAreTheOwners
    <3>2. AgentOwner[r.sub.agent] \in Owners
      BY <3>1, RequestsAssumption DEF TypeOK
    <3>3. ref.sha \in Shas
      BY DEF TypeOK, Row, Submissions, Refs
    <3> QED
      BY <1>1, <3>2, <3>3 DEF ReferencesWereUploaded
  <2>2. ASSUME NEW h \in Handlers, CommitsRow(h), NEW ref \in NewRow(h).sub.refs
        PROVE  /\ library'[<<AgentOwner[NewRow(h).sub.agent], ref.sha>>] # "absent"
               /\ ref.key # NoKey =>
                    <<AgentOwner[NewRow(h).sub.agent], ref.key>> \in keys'
    <3>1. pc[h] = "commit" /\ ref \in Current(h).refs
      BY <2>2 DEF CommitsRow, NewRow
    <3>2. AgentOwner[NewRow(h).sub.agent] = Caller(h) /\ Caller(h) \in Owners
      BY <1>2, <3>1 DEF AgentOwned
    <3>3. library[<<Caller(h), ref.sha>>] # "absent"
      BY <3>1 DEF ChecksInv, Accepted, InDatabase
    <3>4. ref.key # NoKey => <<Caller(h), ref.key>> \in keys
      BY <3>1 DEF ChecksInv, Accepted, InDatabase, KeysRegistered, Keyed
    <3>5. ref.sha \in Shas
      BY <1>2, <3>1 DEF Submissions, Refs
    <3> QED
      BY <1>1, <3>2, <3>3, <3>4, <3>5
  <2>3. \A r \in rows' : r \in rows \/ \E h \in Handlers : CommitsRow(h) /\ r = NewRow(h)
    BY RowsMove DEF CommitsRow
  <2> QED
    BY <2>1, <2>2, <2>3 DEF ReferencesWereUploaded
<1>6. RowsAreTheOwners'
  <2>1. ASSUME NEW h \in Handlers, CommitsRow(h)
        PROVE  \E c \in Calls : /\ body[c].caller = AgentOwner[NewRow(h).sub.agent]
                               /\ \E k \in DOMAIN body[c].batch :
                                    body[c].batch[k] = NewRow(h).sub
    <3>1. pc[h] = "commit"
      BY <2>1 DEF CommitsRow
    <3>2. Len(results[h]) + 1 \in DOMAIN body[h[1]].batch
      BY <1>2, <3>1, HandlerTyping DEF Request
    <3> QED
      BY <1>2, <3>1, <3>2 DEF AgentOwned, Caller, Request, Current
  <2> QED
    BY <1>1, <2>1, RowsMove DEF RowsAreTheOwners, CommitsRow
<1> QED
  BY <1>3, <1>4, <1>5, <1>6

\* Answers grow by one answer of one handler.
Answers(h, result) ==
  /\ results' = [results EXCEPT ![h] = Append(@, result)]
  /\ \/ result \in Failure /\ (result.code = "unknown_upstream" => ~UpstreamExists(h))
     \/ \E r \in Stored(Current(h)) : result = Acknowledge(TRUE, r.ts, r.sub.session)
     \/ /\ CommitsRow(h)
        /\ result = Acknowledge(FALSE, stamp[h], Current(h).session)

LEMMA ResultsMove ==
  ASSUME TypeOK, [Next]_vars
  PROVE  \/ results' = results
         \/ \E h \in Handlers : pc[h] \in Running /\ \E result : Answers(h, result)
<1> USE DEF clientVars, libraryVars
<1>0. Error("server_5xx") \in Failure /\ Error("server_5xx").code # "unknown_upstream"
  BY DEF Error, Failure, Codes
<1>1. ASSUME NEW h \in Handlers, NEW at \in Running, NEW ok, NEW code \in Codes,
             Check(h, at, ok, code), code = "unknown_upstream" => (ok <=> UpstreamExists(h))
      PROVE  results' = results \/ (pc[h] \in Running /\ \E result : Answers(h, result))
  <2>1. pc[h] \in Running /\ (results' = results \/ (~ok /\ Answer(h, Error(code))))
    BY <1>1 DEF Check
  <2>2. results' = results \/ (~ok /\ results' = [results EXCEPT ![h] = Append(@, Error(code))])
    BY <2>1 DEF Answer
  <2>3. Error(code) \in Failure /\ Error(code).code = code
    BY DEF Error, Failure
  <2> QED
    BY <1>1, <2>1, <2>2, <2>3 DEF Answers
<1>2. ASSUME NEW h \in Handlers, Handle(h) \/ Arrive(h)
      PROVE  results' = results \/ (pc[h] \in Running /\ \E result : Answers(h, result))
  <2>1. CASE CheckAgent(h)
    BY <1>1, <2>1 DEF CheckAgent, Running, Codes
  <2>2. CASE CheckRefs(h)
    BY <1>1, <2>2 DEF CheckRefs, Running, Codes
  <2>3. CASE CheckContent(h)
    BY <1>1, <2>3 DEF CheckContent, Running, Codes
  <2>4. CASE CheckKeys(h)
    BY <1>1, <2>4 DEF CheckKeys, Running, Codes
  <2>5. CASE Dedup(h)
    <3>1. \/ results' = results
          \/ \E r \in Stored(Current(h)) :
               Answer(h, Acknowledge(TRUE, r.ts, r.sub.session))
      BY <2>5 DEF Dedup
    <3>2. pc[h] \in Running
      BY <2>5 DEF Dedup, Running
    <3> QED
      BY <3>1, <3>2 DEF Answer, Answers
  <2>6. CASE Commit(h)
    <3>1. CommitsRow(h)
      BY <2>6 DEF Commit, Answer, Leave, Goto, TypeOK, CommitsRow, Outside
    <3>2. \/ results' = results
          \/ results' = [results EXCEPT ![h] =
                           Append(@, Acknowledge(FALSE, stamp[h], Current(h).session))]
      BY <2>6 DEF Commit, Answer
    <3> QED
      BY <3>1, <3>2 DEF Answers, CommitsRow, Running, InDatabase
  <2>7. CASE Conflict(h)
    <3>1. \/ results' = results
          \/ results' = [results EXCEPT ![h] = Append(@, Error("server_5xx"))]
      BY <2>7 DEF Conflict, Answer
    <3> QED
      BY <1>0, <2>7, <3>1 DEF Conflict, Answers, Running, InDatabase
  <2>8. CASE Arrive(h) \/ Insert(h) \/ Acquire(h)
    BY <2>8 DEF Arrive, Insert, Acquire
  <2> QED
    BY <1>2, <2>1, <2>2, <2>3, <2>4, <2>5, <2>6, <2>7, <2>8 DEF Handle
<1>3. ASSUME NEW h \in Handlers, CommitUnheard(h) \/ StatementFails(h)
      PROVE  results' = results \/ (pc[h] \in Running /\ \E result : Answers(h, result))
  <2>1. pc[h] \in Running /\ Answer(h, Error("server_5xx"))
    BY <1>3 DEF CommitUnheard, StatementFails, Running, InDatabase
  <2>2. \/ results' = results
        \/ results' = [results EXCEPT ![h] = Append(@, Error("server_5xx"))]
    BY <2>1 DEF Answer
  <2> QED
    BY <1>0, <2>1, <2>2 DEF Answers
<1>4. ASSUME NEW c \in Calls, Send(c) \/ Receive(c) \/ NetworkError(c)
      PROVE  results' = results
  BY <1>4 DEF Send, Receive, NetworkError
<1>5. Crash \/ Environment \/ UNCHANGED vars => results' = results
  BY DEF Crash, Environment, PutContent, DeleteContent,
     Library!Upload, Library!Delete, RegisterKey, Tick, vars
<1> QED
  BY <1>2, <1>3, <1>4, <1>5 DEF Next

\* Acknowledgements: each is matched by a row, originals by their own.
LEMMA AcksStep ==
  ASSUME TypeOK, PositionsInv, ClientInv, HoldersInv, AcksAreStored, OneOriginalAck,
         BatchSeesItself, [Next]_vars
  PROVE  AcksAreStored' /\ OneOriginalAck' /\ BatchSeesItself'
<1>1. body' = body /\ rows \subseteq rows'
  BY Monotone
<1>2. \A h \in Handlers : Request(h)' = Request(h)
  BY <1>1 DEF Request
<1>3. \A h \in Handlers : \A k : Answered(h, k)' = Request(h)'.batch[k]
  BY DEF Answered
<1>4. CASE results' = results
  <2>1. \A h \in Handlers : AcksOf(h)' = AcksOf(h)
    BY <1>4 DEF AcksOf
  <2>2. AcksAreStored'
    BY <1>1, <1>2, <1>4, <2>1 DEF AcksAreStored, Stored, Answered
  <2>3. OneOriginalAck'
    BY <1>2, <1>4, <2>1 DEF OneOriginalAck, Answered
  <2>4. BatchSeesItself'
    BY <1>2, <1>4, <2>1 DEF BatchSeesItself, Answered
  <2> QED
    BY <2>2, <2>3, <2>4
<1>5. ASSUME NEW h \in Handlers, pc[h] \in Running, NEW result, Answers(h, result)
      PROVE  AcksAreStored' /\ OneOriginalAck' /\ BatchSeesItself'
  <2> DEFINE n == Len(results[h]) + 1
  <2>1. /\ results[h] \in Seq(Ack \cup Failure)
        /\ Len(results[h]) \in Nat
        /\ n \in Nat
        /\ Answered(h, n) = Current(h)
        /\ Current(h) \in Submissions
    BY <1>5, HandlerTyping, CurrentTyping DEF Answered, Current
  <2>2. results' = [results EXCEPT ![h] = Append(results[h], result)]
    BY <1>5 DEF Answers
  <2>3. result \in Ack \cup Failure
    <3>1. \A r \in Stored(Current(h)) :
            Acknowledge(TRUE, r.ts, r.sub.session) \in Ack
      BY DEF Stored, TypeOK, Row, Submissions, Acknowledge, Ack
    <3>2. Acknowledge(FALSE, stamp[h], Current(h).session) \in Ack
      BY <2>1 DEF TypeOK, Submissions, Acknowledge, Ack
    <3> QED
      BY <1>5, <3>1, <3>2 DEF Answers
  <2>4. /\ DOMAIN results'[h] = 1 .. n
        /\ results'[h][n] = result
        /\ \A k \in 1 .. Len(results[h]) : results'[h][k] = results[h][k]
        /\ DOMAIN results[h] = 1 .. Len(results[h])
    BY <2>1, <2>2, <2>3 DEF TypeOK
  <2>5. \A g \in Handlers : g # h => results'[g] = results[g]
    BY <2>2 DEF TypeOK
  <2>6. \A g \in Handlers : \A k : Answered(g, k)' = Answered(g, k)
    BY <1>2, <1>3 DEF Answered
  \* An acknowledgement after the step is an old one or the new one.
  <2>7. ASSUME NEW g \in Handlers, NEW k \in AcksOf(g)'
        PROVE  \/ k \in AcksOf(g) /\ results'[g][k] = results[g][k]
               \/ g = h /\ k = n /\ result.kind = "ack" /\ results'[g][k] = result
    <3>1. CASE g # h
      BY <2>5, <2>7, <3>1 DEF AcksOf
    <3>2. CASE g = h
      <4>1. k \in 1 .. n /\ results'[h][k].kind = "ack"
        BY <2>4, <2>7, <3>2 DEF AcksOf
      <4>2. CASE k = n
        BY <2>4, <3>2, <4>1, <4>2
      <4>3. CASE k # n
        <5>1. k \in 1 .. Len(results[h])
          BY <2>1, <4>1, <4>3
        <5> QED
          BY <2>4, <3>2, <4>1, <5>1 DEF AcksOf
      <4> QED
        BY <4>2, <4>3
    <3> QED
      BY <3>1, <3>2
  <2>8. n \notin AcksOf(h)
    BY <2>1 DEF AcksOf
  \* The new acknowledgement has its row.
  <2>9. ASSUME result.kind = "ack"
        PROVE  /\ \E r \in rows' : /\ r.sub.id = Current(h).id
                                 /\ r.sub.agent = Current(h).agent
                                 /\ r.ts = result.server_ts
                                 /\ r.sub.session = result.session
               /\ result.is_duplicate \/ CommitsRow(h)
    <3>1. CASE result \in Failure
      BY <2>9, <3>1 DEF Failure
    <3>2. ASSUME NEW r \in Stored(Current(h)),
                 result = Acknowledge(TRUE, r.ts, r.sub.session)
          PROVE  /\ r \in rows' /\ r.sub.id = Current(h).id /\ r.sub.agent = Current(h).agent
                 /\ r.ts = result.server_ts /\ r.sub.session = result.session
                 /\ result.is_duplicate
      BY <1>1, <3>2 DEF Stored, Acknowledge
    <3>3. CASE CommitsRow(h) /\ result = Acknowledge(FALSE, stamp[h], Current(h).session)
      <4>1. NewRow(h) \in rows'
        BY <3>3 DEF CommitsRow
      <4>2. /\ NewRow(h).sub = Current(h)
            /\ NewRow(h).ts = stamp[h]
            /\ result.server_ts = stamp[h]
            /\ result.session = Current(h).session
        BY <3>3 DEF NewRow, Acknowledge
      <4> QED
        BY <3>3, <4>1, <4>2
    <3> QED
      BY <1>5, <3>1, <3>2, <3>3 DEF Answers
  <2>10. AcksAreStored'
    <3>1. ASSUME NEW g \in Handlers, NEW k \in AcksOf(g)'
          PROVE  \E r \in rows' : /\ r.sub.id = Answered(g, k).id
                                /\ r.sub.agent = Answered(g, k).agent
                                /\ r.ts = results'[g][k].server_ts
                                /\ r.sub.session = results'[g][k].session
      <4>1. CASE k \in AcksOf(g) /\ results'[g][k] = results[g][k]
        BY <1>1, <4>1 DEF AcksAreStored, Stored
      <4>2. CASE g = h /\ k = n /\ result.kind = "ack" /\ results'[g][k] = result
        BY <2>1, <2>9, <4>2
      <4> QED
        BY <2>7, <3>1, <4>1, <4>2
    <3> QED
      BY <2>6, <3>1 DEF AcksAreStored, Stored
  \* Before a handler commits there is no acknowledgement for its record.
  <2>11. ASSUME CommitsRow(h), NEW g \in Handlers, NEW k \in AcksOf(g)
         PROVE  Answered(g, k).id # Current(h).id
    <3>1. \E r \in rows : r.sub.id = Answered(g, k).id
      BY <2>11 DEF AcksAreStored, Stored
    <3>2. \A r \in rows : r.sub.id # Current(h).id
      BY <2>11 DEF CommitsRow, HoldersInv, SameId
    <3> QED
      BY <3>1, <3>2
  <2>12. OneOriginalAck'
    <3>1. ASSUME NEW f \in Handlers, NEW g \in Handlers,
                 NEW k \in AcksOf(f)', NEW j \in AcksOf(g)',
                 Answered(f, k).id = Answered(g, j).id,
                 ~results'[f][k].is_duplicate, ~results'[g][j].is_duplicate
          PROVE  f = g /\ k = j
      <4>1. CASE /\ k \in AcksOf(f) /\ results'[f][k] = results[f][k]
                 /\ j \in AcksOf(g) /\ results'[g][j] = results[g][j]
        BY <3>1, <4>1 DEF OneOriginalAck
      <4>2. CASE /\ f = h /\ k = n /\ result.kind = "ack" /\ results'[f][k] = result
                 /\ j \in AcksOf(g)
        BY <2>1, <2>9, <2>11, <3>1, <4>2
      <4>3. CASE /\ g = h /\ j = n /\ result.kind = "ack" /\ results'[g][j] = result
                 /\ k \in AcksOf(f)
        BY <2>1, <2>9, <2>11, <3>1, <4>3
      <4> QED
        BY <2>7, <3>1, <4>1, <4>2, <4>3
    <3> QED
      BY <2>6, <3>1 DEF OneOriginalAck
  <2>13. BatchSeesItself'
    <3>1. ASSUME NEW g \in Handlers, NEW k \in DOMAIN results'[g],
                 results'[g][k] = Error("unknown_upstream")
          PROVE  \E u \in Answered(g, k).upstream :
                   \A j \in AcksOf(g)' :
                     j < k => \/ Answered(g, j).id # u
                             \/ Answered(g, j).agent # Answered(g, k).agent
      <4>1. CASE g # h
        <5>1. AcksOf(g)' = AcksOf(g) /\ results'[g] = results[g]
          BY <2>5, <4>1 DEF AcksOf
        <5> QED
          BY <3>1, <5>1 DEF BatchSeesItself
      <4>2. CASE g = h /\ k # n
        <5>1. k \in DOMAIN results[h] /\ k < n /\ results[h][k] = Error("unknown_upstream")
          BY <2>1, <2>4, <3>1, <4>2
        <5>2. PICK u \in Answered(h, k).upstream :
                \A j \in AcksOf(h) :
                  j < k => \/ Answered(h, j).id # u
                          \/ Answered(h, j).agent # Answered(h, k).agent
          BY <5>1 DEF BatchSeesItself
        <5>3. \A j \in AcksOf(h)' : j < k => j \in AcksOf(h)
          BY <2>1, <2>7, <5>1
        <5> QED
          BY <4>2, <5>2, <5>3
      <4>3. CASE g = h /\ k = n
        <5>1. result \in Failure /\ result.code = "unknown_upstream"
          BY <2>4, <3>1, <4>3, <1>5 DEF Answers, Error, Acknowledge
        <5>2. ~UpstreamExists(h)
          BY <1>5, <5>1 DEF Answers, Acknowledge, Failure
        <5>3. PICK u \in Current(h).upstream :
                \A r \in rows : ~(r.sub.id = u /\ r.sub.agent = Current(h).agent)
          BY <5>2 DEF UpstreamExists
        <5>4. \A j \in AcksOf(h)' : j < n => j \in AcksOf(h)
          BY <2>1, <2>7
        <5>5. \A j \in AcksOf(h) :
                \/ Answered(h, j).id # u \/ Answered(h, j).agent # Current(h).agent
          BY <5>3 DEF AcksAreStored, Stored
        <5> QED
          BY <2>1, <4>3, <5>3, <5>4, <5>5
      <4> QED
        BY <4>1, <4>2, <4>3
    <3> QED
      BY <2>6, <3>1 DEF BatchSeesItself
  <2> QED
    BY <2>10, <2>12, <2>13
<1> QED
  BY <1>4, <1>5, ResultsMove

-----------------------------------------------------------------------------
(***************************************************************************)
(* The theorems.                                                           *)
(***************************************************************************)

LEMMA LedgerInit == Init => TypeOK /\ LedgerInv
<1> SUFFICES ASSUME Init PROVE TypeOK /\ LedgerInv
  OBVIOUS
<1>1. TypeOK /\ PositionsInv /\ ClientInv
  BY TypeInit
<1>2. /\ rows = {}
      /\ \A h \in Handlers : results[h] = <<>> /\ pc[h] = "unsent" /\ AcksOf(h) = {}
  BY DEF Init, AcksOf
<1>3. ChecksInv /\ SequenceInv /\ HoldersInv
  BY <1>2 DEF ChecksInv, SequenceInv, HoldersInv, Accepted, InDatabase
<1>4. OneRowPerRecord /\ UpstreamPrecedes /\ ReferencesWereUploaded /\ RowsAreTheOwners
  BY <1>2 DEF OneRowPerRecord, UpstreamPrecedes, ReferencesWereUploaded, RowsAreTheOwners
<1>5. AcksAreStored /\ OneOriginalAck /\ BatchSeesItself
  BY <1>2 DEF AcksAreStored, OneOriginalAck, BatchSeesItself
<1> QED
  BY <1>1, <1>3, <1>4, <1>5 DEF LedgerInv

LEMMA LedgerStep == TypeOK /\ LedgerInv /\ [Next]_vars => TypeOK' /\ LedgerInv'
<1> SUFFICES ASSUME TypeOK, LedgerInv, [Next]_vars
             PROVE  TypeOK' /\ LedgerInv'
  OBVIOUS
<1> USE DEF LedgerInv
<1>1. TypeOK' /\ PositionsInv' /\ ClientInv'
  BY TypeStep
<1>2. ChecksInv'
  BY ChecksStep
<1>3. SequenceInv' /\ HoldersInv'
  BY SequenceStep, HoldersStep
<1>4. OneRowPerRecord' /\ UpstreamPrecedes' /\ ReferencesWereUploaded' /\ RowsAreTheOwners'
  BY RowsStep
<1>5. AcksAreStored' /\ OneOriginalAck' /\ BatchSeesItself'
  BY AcksStep
<1> QED
  BY <1>1, <1>2, <1>3, <1>4, <1>5

\* The inductive invariant holds in every reachable state, whatever the number
\* of calls, attempts, racing handlers and faults.
THEOREM LedgerInvariant == Spec => [](TypeOK /\ LedgerInv)
  BY LedgerInit, LedgerStep, PTL DEF Spec

\* A record_id never gets a second row.
THEOREM OneRow == Spec => []OneRowPerRecord
  BY LedgerInvariant, PTL DEF LedgerInv

\* Every acknowledgement repeats a committed row.
THEOREM AcksStored == Spec => []AcksAreStored
  BY LedgerInvariant, PTL DEF LedgerInv

\* A record is acknowledged as new at most once.
THEOREM OneOriginal == Spec => []OneOriginalAck
  BY LedgerInvariant, PTL DEF LedgerInv

\* Upstream edges lead to earlier rows of the same agent: the trace is acyclic.
THEOREM UpstreamOrder == Spec => []UpstreamPrecedes
  BY LedgerInvariant, PTL DEF LedgerInv

\* Content and keys that rows refer to were uploaded and registered.
THEOREM ReferencesResolve == Spec => []ReferencesWereUploaded
  BY LedgerInvariant, PTL DEF LedgerInv

\* Every row was sent by the owner of its agent.
THEOREM OwnersOnly == Spec => []RowsAreTheOwners
  BY LedgerInvariant, PTL DEF LedgerInv

\* A batch never refuses a record for what the batch itself has stored.
THEOREM BatchOrder == Spec => []BatchSeesItself
  BY LedgerInvariant, PTL DEF LedgerInv

-----------------------------------------------------------------------------
(***************************************************************************)
(* RecordLedger implements IdempotentLog: every step of a handler, of a    *)
(* client and of the environment is a step of the abstract log or leaves   *)
(* rows and acknowledgements alone.                                        *)
(***************************************************************************)

\* What a step adds: nothing, a row, an acknowledgement, or a row and the
\* acknowledgement of that row.
Appends(h, result) == results' = [results EXCEPT ![h] = Append(@, result)]

Silent == results' = results \/ \E h \in Handlers, f \in Failure :
                                  pc[h] \in Running /\ Appends(h, f)

LogStep ==
  \/ rows' = rows /\ Silent
  \/ \E h \in Handlers : CommitsRow(h) /\ Silent
  \/ \E h \in Handlers : /\ CommitsRow(h)
                        /\ Appends(h, Acknowledge(FALSE, stamp[h], Current(h).session))
  \/ /\ rows' = rows
     /\ \E h \in Handlers : /\ pc[h] \in Running
                            /\ \E r \in Stored(Current(h)) :
                                 Appends(h, Acknowledge(TRUE, r.ts, r.sub.session))

LEMMA LogSteps ==
  ASSUME TypeOK, [Next]_vars
  PROVE  LogStep
<1> USE DEF clientVars, libraryVars
<1>0. \A code \in Codes : Error(code) \in Failure
  BY DEF Error, Failure
<1>1. ASSUME NEW h \in Handlers, NEW code \in Codes, pc[h] \in Running, Answer(h, Error(code))
      PROVE  Silent
  BY <1>0, <1>1 DEF Answer, Silent, Appends
<1>2. ASSUME NEW h \in Handlers, NEW at \in Running, NEW ok, NEW code \in Codes,
             Check(h, at, ok, code)
      PROVE  rows' = rows /\ Silent
  BY <1>1, <1>2 DEF Check, Silent
<1>3. ASSUME NEW h \in Handlers, CheckAgent(h) \/ CheckRefs(h) \/ CheckContent(h) \/ CheckKeys(h)
      PROVE  rows' = rows /\ Silent
  BY <1>2, <1>3 DEF CheckAgent, CheckRefs, CheckContent, CheckKeys, Running, Codes
<1>4. ASSUME NEW h \in Handlers, Dedup(h)
      PROVE  LogStep
  <2>1. CASE Stored(Current(h)) = {}
    BY <1>4, <2>1 DEF Dedup, LogStep, Silent
  <2>2. CASE Stored(Current(h)) # {}
    <3>1. rows' = rows /\ pc[h] \in Running
      BY <1>4 DEF Dedup, Running
    <3>2. PICK r \in Stored(Current(h)) : Answer(h, Acknowledge(TRUE, r.ts, r.sub.session))
      BY <1>4, <2>2 DEF Dedup
    <3> QED
      BY <3>1, <3>2 DEF Answer, LogStep, Silent, Appends
  <2> QED
    BY <2>1, <2>2
<1>5. ASSUME NEW h \in Handlers, Commit(h)
      PROVE  LogStep
  <2>1. CommitsRow(h)
    BY <1>5 DEF Commit, Answer, Leave, Goto, TypeOK, CommitsRow, Outside
  <2> QED
    BY <1>5, <2>1 DEF Commit, Answer, LogStep, Silent, Appends
<1>6. ASSUME NEW h \in Handlers, CommitUnheard(h)
      PROVE  LogStep
  <2>1. CommitsRow(h)
    BY <1>6 DEF CommitUnheard, Answer, Leave, Goto, TypeOK, CommitsRow, Outside
  <2>2. Silent
    BY <1>1, <1>6 DEF CommitUnheard, Running, InDatabase, Codes
  <2> QED
    BY <2>1, <2>2 DEF LogStep
<1>7. ASSUME NEW h \in Handlers, Conflict(h) \/ StatementFails(h)
      PROVE  rows' = rows /\ Silent
  BY <1>1, <1>7 DEF Conflict, StatementFails, Running, InDatabase, Codes
<1>8. ASSUME NEW h \in Handlers, Arrive(h) \/ Insert(h) \/ Acquire(h)
      PROVE  rows' = rows /\ Silent
  BY <1>8 DEF Arrive, Insert, Acquire, Silent
<1>9. ASSUME NEW c \in Calls, Send(c) \/ Receive(c) \/ NetworkError(c)
      PROVE  rows' = rows /\ Silent
  BY <1>9 DEF Send, Receive, NetworkError, Silent
<1>10. Crash \/ Environment \/ UNCHANGED vars => rows' = rows /\ Silent
  BY DEF Crash, Environment, PutContent, DeleteContent,
     Library!Upload, Library!Delete, RegisterKey, Tick, vars, Silent
<1> QED
  BY <1>3, <1>4, <1>5, <1>6, <1>7, <1>8, <1>9, <1>10 DEF Next, Handle, LogStep

-----------------------------------------------------------------------------
(***************************************************************************)
(* The acknowledgements as the log sees them.                              *)
(***************************************************************************)

Entry(h, k) == [to |-> <<h, k>>, sub |-> Answered(h, k), ack |-> results[h][k]]

LEMMA Entries ==
  \A x : x \in AllAcks <=> \E h \in Handlers : \E k \in AcksOf(h) : x = Entry(h, k)
  BY DEF AllAcks, Entry

\* An answer is added at the end of its handler's answers.
LEMMA AppendedAcks ==
  ASSUME TypeOK, PositionsInv, body' = body, NEW h \in Handlers, pc[h] \in Running,
         NEW result \in Ack \cup Failure, Appends(h, result),
         NEW n, n = Len(results[h]) + 1
  PROVE  /\ \A g \in Handlers : g # h => AcksOf(g)' = AcksOf(g)
         /\ AcksOf(h)' = IF result.kind = "ack" THEN AcksOf(h) \cup {n} ELSE AcksOf(h)
         /\ \A g \in Handlers : \A k \in AcksOf(g) : Entry(g, k)' = Entry(g, k)
         /\ Entry(h, n)' = [to |-> <<h, n>>, sub |-> Current(h), ack |-> result]
         /\ n \notin AcksOf(h)
<1>1. /\ results[h] \in Seq(Ack \cup Failure)
      /\ n \in Nat /\ n - 1 \in Nat
      /\ DOMAIN results[h] = 1 .. (n - 1)
  BY DEF TypeOK
<1>2. results'[h] = Append(results[h], result) /\ \A g \in Handlers : g # h => results'[g] = results[g]
  BY DEF Appends, TypeOK
<1>3. /\ DOMAIN results'[h] = 1 .. n
      /\ results'[h][n] = result
      /\ \A k \in 1 .. (n - 1) : results'[h][k] = results[h][k]
  BY <1>1, <1>2
<1>4. \A g \in Handlers : \A k : Answered(g, k)' = Answered(g, k)
  BY DEF Answered, Request
<1>5. \A g \in Handlers : g # h => AcksOf(g)' = AcksOf(g)
  BY <1>2 DEF AcksOf
<1>6. AcksOf(h)' = IF result.kind = "ack" THEN AcksOf(h) \cup {n} ELSE AcksOf(h)
  <2>1. 1 .. n = (1 .. (n - 1)) \cup {n}
    BY <1>1
  <2>2. AcksOf(h)' = {k \in 1 .. n : results'[h][k].kind = "ack"}
    BY <1>3 DEF AcksOf
  <2>3. AcksOf(h) = {k \in 1 .. (n - 1) : results[h][k].kind = "ack"}
    BY <1>1 DEF AcksOf
  <2>4. \A k \in 1 .. (n - 1) : results'[h][k].kind = results[h][k].kind
    BY <1>3
  <2>5. n \notin 1 .. (n - 1)
    BY <1>1
  <2> QED
    BY <1>3, <2>1, <2>2, <2>3, <2>4, <2>5
<1>7. ASSUME NEW g \in Handlers, NEW k \in AcksOf(g)
      PROVE  Entry(g, k)' = Entry(g, k)
  <2>1. results'[g][k] = results[g][k]
    <3>1. CASE g = h
      <4>1. k \in 1 .. (n - 1)
        BY <1>1, <3>1 DEF AcksOf
      <4> QED
        BY <1>3, <3>1, <4>1
    <3>2. CASE g # h
      BY <1>2, <3>2
    <3> QED
      BY <3>1, <3>2
  <2> QED
    BY <1>4, <2>1 DEF Entry
<1>8. Entry(h, n)' = [to |-> <<h, n>>, sub |-> Current(h), ack |-> result]
  BY <1>3, <1>4 DEF Entry, Answered, Current
<1>9. n \notin AcksOf(h)
  BY <1>1 DEF AcksOf
<1> QED
  BY <1>5, <1>6, <1>7, <1>8, <1>9

\* An error adds no acknowledgement.
LEMMA FailureKeeps ==
  ASSUME TypeOK, PositionsInv, body' = body, NEW h \in Handlers, pc[h] \in Running,
         NEW f \in Failure, Appends(h, f)
  PROVE  AllAcks' = AllAcks
<1>1. f.kind # "ack" /\ f \in Ack \cup Failure
  BY DEF Failure
<1>2. \A g \in Handlers : AcksOf(g)' = AcksOf(g)
  BY <1>1, AppendedAcks
<1>3. \A g \in Handlers : \A k \in AcksOf(g) : Entry(g, k)' = Entry(g, k)
  BY <1>1, AppendedAcks
<1>4. \A x : x \in AllAcks' <=> \E g \in Handlers : \E k \in AcksOf(g)' : x = Entry(g, k)'
  BY DEF AllAcks, Entry
<1>5. \A x : x \in AllAcks' <=> x \in AllAcks
  BY <1>2, <1>3, <1>4, Entries
<1> QED
  BY <1>5

\* An acknowledgement adds itself, under a name no other has.
LEMMA AckAdds ==
  ASSUME TypeOK, PositionsInv, body' = body, NEW h \in Handlers, pc[h] \in Running,
         NEW a \in Ack, Appends(h, a)
  PROVE  \E to : /\ \A x \in AllAcks : x.to # to
                 /\ AllAcks' = AllAcks \cup {[to |-> to, sub |-> Current(h), ack |-> a]}
<1> DEFINE n == Len(results[h]) + 1
           new == [to |-> <<h, n>>, sub |-> Current(h), ack |-> a]
<1>1. PICK m : m = n
  OBVIOUS
<1>2. a.kind = "ack" /\ a \in Ack \cup Failure
  BY DEF Ack
<1>3. /\ \A g \in Handlers : g # h => AcksOf(g)' = AcksOf(g)
      /\ AcksOf(h)' = AcksOf(h) \cup {m}
      /\ \A g \in Handlers : \A k \in AcksOf(g) : Entry(g, k)' = Entry(g, k)
      /\ Entry(h, m)' = [to |-> <<h, m>>, sub |-> Current(h), ack |-> a]
      /\ m \notin AcksOf(h)
  BY <1>1, <1>2, AppendedAcks
<1>4. \A x : x \in AllAcks' <=> \E g \in Handlers : \E k \in AcksOf(g)' : x = Entry(g, k)'
  BY DEF AllAcks, Entry
<1>5. \A x : x \in AllAcks' <=> x \in AllAcks \/ x = new
  <2>1. ASSUME NEW x, x \in AllAcks'
        PROVE  x \in AllAcks \/ x = new
    <3>1. PICK g \in Handlers : \E k \in AcksOf(g)' : x = Entry(g, k)'
      BY <1>4, <2>1
    <3>2. PICK k \in AcksOf(g)' : x = Entry(g, k)'
      BY <3>1
    <3>3. CASE k \in AcksOf(g)
      BY <1>3, <3>2, <3>3, Entries
    <3>4. CASE k \notin AcksOf(g)
      BY <1>1, <1>3, <3>2, <3>4
    <3> QED
      BY <3>3, <3>4
  <2>2. ASSUME NEW x, x \in AllAcks
        PROVE  x \in AllAcks'
    <3>1. PICK g \in Handlers : \E k \in AcksOf(g) : x = Entry(g, k)
      BY <2>2, Entries
    <3>2. PICK k \in AcksOf(g) : x = Entry(g, k)
      BY <3>1
    <3>3. k \in AcksOf(g)' /\ x = Entry(g, k)'
      BY <1>3, <3>2
    <3> QED
      BY <1>4, <3>3
  <2>3. new \in AllAcks'
    BY <1>1, <1>3, <1>4
  <2> QED
    BY <2>1, <2>2, <2>3
<1>6. \A x \in AllAcks : x.to # <<h, n>>
  <2> SUFFICES ASSUME NEW g \in Handlers, NEW k \in AcksOf(g), <<g, k>> = <<h, n>>
               PROVE  FALSE
    BY Entries DEF Entry
  <2>1. g = h /\ k = n
    OBVIOUS
  <2> QED
    BY <1>1, <1>3, <2>1
<1>7. AllAcks' = AllAcks \cup {new}
  BY <1>5
<1> QED
  BY <1>6, <1>7

-----------------------------------------------------------------------------
(***************************************************************************)
(* The steps of the log.                                                   *)
(***************************************************************************)

LEMMA SilentKeeps ==
  ASSUME TypeOK, PositionsInv, body' = body, Silent
  PROVE  AllAcks' = AllAcks
<1>1. CASE results' = results
  BY <1>1 DEF AllAcks, AcksOf, Answered, Request
<1>2. ASSUME NEW h \in Handlers, NEW f \in Failure, pc[h] \in Running, Appends(h, f)
      PROVE  AllAcks' = AllAcks
  BY <1>2, FailureKeeps
<1> QED
  BY <1>1, <1>2 DEF Silent

\* The row a handler commits is new, has a new number and comes after all it
\* builds on: the key's holder is alone and its number was drawn for it.
LEMMA NewRowIsStorable ==
  ASSUME TypeOK, LedgerInv, NEW h \in Handlers, pc[h] = "commit"
  PROVE  NewRow(h) \notin rows /\ Log!Storable(NewRow(h))
<1>1. NewRow(h).sub = Current(h) /\ NewRow(h).seq = seq[h]
  BY DEF NewRow
<1>2. \A r \in rows : r.sub.id # Current(h).id
  BY DEF LedgerInv, HoldersInv, SameId
<1>3. /\ \A r \in rows : r.seq # seq[h]
      /\ \A u \in Current(h).upstream :
           \E r \in rows : /\ r.sub.id = u /\ r.sub.agent = Current(h).agent
                          /\ r.seq < seq[h]
  BY DEF LedgerInv, SequenceInv, InDatabase
<1> QED
  BY <1>1, <1>2, <1>3 DEF Log!Storable

LEMMA Refines ==
  ASSUME TypeOK, LedgerInv, [Next]_vars
  PROVE  [Log!Next]_<<rows, AllAcks>>
<1>1. body' = body /\ PositionsInv
  BY Monotone DEF LedgerInv
<1>2. CASE rows' = rows /\ Silent
  BY <1>1, <1>2, SilentKeeps
<1>3. ASSUME NEW h \in Handlers, CommitsRow(h), Silent
      PROVE  Log!Next
  <2>1. NewRow(h) \in rows' \ rows /\ Log!Storable(NewRow(h)) /\ rows' = rows \cup {NewRow(h)}
    BY <1>3, NewRowIsStorable DEF CommitsRow
  <2>2. AllAcks' = AllAcks
    BY <1>1, <1>3, SilentKeeps
  <2>3. Log!Store(NewRow(h))
    BY <2>1, <2>2 DEF Log!Store
  <2> QED
    BY <2>1, <2>3 DEF Log!Next
<1>4. ASSUME NEW h \in Handlers, CommitsRow(h),
             Appends(h, Acknowledge(FALSE, stamp[h], Current(h).session))
      PROVE  Log!Next
  <2> DEFINE a == Acknowledge(FALSE, stamp[h], Current(h).session)
  <2>1. pc[h] \in Running /\ pc[h] = "commit"
    BY <1>4 DEF CommitsRow, Running, InDatabase
  <2>2. NewRow(h) \in rows' \ rows /\ Log!Storable(NewRow(h)) /\ rows' = rows \cup {NewRow(h)}
    BY <1>4, <2>1, NewRowIsStorable DEF CommitsRow
  <2>3. a \in Ack
    BY <1>1, <2>1, CurrentTyping DEF TypeOK, Submissions, Acknowledge, Ack
  <2>4. PICK to : /\ \A x \in AllAcks : x.to # to
                  /\ AllAcks' = AllAcks \cup {[to |-> to, sub |-> Current(h), ack |-> a]}
    BY <1>1, <1>4, <2>1, <2>3, AckAdds
  <2> DEFINE e == [to |-> to, sub |-> Current(h), ack |-> a]
  <2>5. e.to = to /\ e \in AllAcks' \ AllAcks
    BY <2>4
  <2>6. e = Log!AckOf(e.to, NewRow(h).sub, NewRow(h), FALSE)
    BY DEF Log!AckOf, NewRow, Acknowledge
  <2>7. Log!Fresh(e.to)
    BY <2>4, <2>5 DEF Log!Fresh
  <2>8. Log!Store(NewRow(h))
    BY <2>2, <2>4, <2>5, <2>6, <2>7 DEF Log!Store
  <2> QED
    BY <2>2, <2>8 DEF Log!Next
<1>5. ASSUME rows' = rows, NEW h \in Handlers, pc[h] \in Running,
             NEW r \in Stored(Current(h)),
             Appends(h, Acknowledge(TRUE, r.ts, r.sub.session))
      PROVE  Log!Next
  <2> DEFINE a == Acknowledge(TRUE, r.ts, r.sub.session)
  <2>1. /\ r \in rows /\ r \in Row
        /\ r.sub.id = Current(h).id /\ r.sub.agent = Current(h).agent
    BY DEF Stored, TypeOK
  <2>2. a \in Ack
    BY <2>1 DEF Row, Submissions, Acknowledge, Ack
  <2>3. PICK to : /\ \A x \in AllAcks : x.to # to
                  /\ AllAcks' = AllAcks \cup {[to |-> to, sub |-> Current(h), ack |-> a]}
    BY <1>1, <1>5, <2>2, AckAdds
  <2> DEFINE e == [to |-> to, sub |-> Current(h), ack |-> a]
  <2>4. e.to = to /\ e.sub = Current(h) /\ e \in AllAcks' \ AllAcks
    BY <2>3
  <2>5. e = Log!AckOf(e.to, e.sub, r, TRUE)
    BY DEF Log!AckOf, Acknowledge
  <2>6. Log!Fresh(e.to)
    BY <2>3, <2>4 DEF Log!Fresh
  <2>7. Log!Repeat(e)
    BY <1>5, <2>1, <2>3, <2>4, <2>5, <2>6 DEF Log!Repeat
  <2> QED
    BY <2>4, <2>7 DEF Log!Next
<1> QED
  BY <1>2, <1>3, <1>4, <1>5, LogSteps DEF LogStep

LEMMA RefinesInit == Init => Log!Init
  BY DEF Init, Log!Init, AllAcks, AcksOf

\* Submission implements the write-once acknowledged log: every step of every
\* handler, retry, fault and operator is a step of IdempotentLog or a stutter.
THEOREM Refinement == Spec => ImplementsLog
  BY LedgerInvariant, Refines, RefinesInit, PTL DEF Spec, Log!Spec, ImplementsLog
=============================================================================
