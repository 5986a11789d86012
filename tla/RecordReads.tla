----------------------------- MODULE RecordReads -----------------------------
(***************************************************************************)
(* Reads of the ledger while records are written (lib/repository.ts, the   *)
(* routes over it, pages/index.astro).  A record takes its `sequence` when *)
(* it is inserted and is seen when its transaction commits, so records may *)
(* be seen out of order.  A request for a page of a trace or for a session *)
(* makes two queries; the trace list makes two at once, and builds the     *)
(* conversations from what each saw.                                       *)
(***************************************************************************)
EXTENDS Conversations

CONSTANTS
  Records, Readers,
  Scenarios,     \* pairs of what the records are and what the readers ask for
  OwnerOf        \* the owner of each agent

VARIABLES
  row, ask,              \* what the records are, what the readers ask for
  sequence, committed,   \* the table of records: a sequence, 0 before the insert
  gone,                  \* records whose transaction ended without a commit
  pc, cursor,            \* of a reader: where it is, and the cursor of its next page
  got,                   \* the records it was given
  sessions, links,       \* what the two queries of the trace list returned
  since,                 \* what had been committed when its pages began: kept for the properties
  changed                \* whether a page, asked for again, was another one

reading == <<pc, cursor, got, sessions, links, since, changed>>
vars == <<row, ask, sequence, committed, gone, reading>>

ASSUME ReadsAssumption ==
  /\ IsFiniteSet(Records)
  /\ None \notin Nat /\ None \notin ConversationKey
  /\ \A s \in Scenarios :
       /\ s[1] \in [Records -> LinkRow] /\ DOMAIN s[2] = Readers
       /\ \A p \in Readers : /\ s[2][p].op \in {"trace", "session", "list"}
                             /\ s[2][p].op # "session" => s[2][p].limit \in Nat \ {0}

Init ==
  /\ \E s \in Scenarios : row = s[1] /\ ask = s[2]
  /\ sequence = [r \in Records |-> 0]
  /\ committed = {}
  /\ gone = {}
  /\ pc = [p \in Readers |-> "idle"]
  /\ cursor = [p \in Readers |-> None]
  /\ got = [p \in Readers |-> <<>>]
  /\ sessions = [p \in Readers |-> <<>>]
  /\ links = [p \in Readers |-> <<>>]
  /\ since = [p \in Readers |-> {}]
  /\ changed = [p \in Readers |-> FALSE]

-----------------------------------------------------------------------------
(***************************************************************************)
(* The writers.                                                            *)
(***************************************************************************)

Inserted == {r \in Records : sequence[r] # 0}
Finished == \A p \in Readers : pc[p] \in {"end", "none"}

\* Records go on being inserted as long as a reader is there to see them.
Insert(r) ==
  /\ r \notin Inserted /\ ~Finished
  /\ sequence' = [sequence EXCEPT ![r] = 1 + Cardinality(Inserted)]
  /\ UNCHANGED <<row, ask, committed, gone, reading>>

Commit(r) ==
  /\ r \in Inserted \ (committed \cup gone) /\ ~Finished
  /\ committed' = committed \cup {r}
  /\ UNCHANGED <<row, ask, sequence, gone, reading>>

\* A transaction that fails leaves a gap in the sequence.
Abort(r) ==
  /\ r \in Inserted \ (committed \cup gone) /\ ~Finished
  /\ gone' = gone \cup {r}
  /\ UNCHANGED <<row, ask, sequence, committed, reading>>

-----------------------------------------------------------------------------
(***************************************************************************)
(* Pages of an agent's trace, newest first.                                *)
(***************************************************************************)

Arrive(p) ==
  /\ pc[p] = "idle"
  /\ since' = [since EXCEPT ![p] = IF ask[p].op = "trace" THEN committed ELSE {}]
  /\ pc' = [pc EXCEPT ![p] = IF ask[p].op = "list" THEN "both" ELSE "agent"]
  /\ UNCHANGED <<row, ask, sequence, committed, gone, cursor, got, sessions, links, changed>>

InScope(scope, agent) == scope = None \/ OwnerOf[agent] = scope

\* An agent outside the scope answers as one that does not exist.
OwnedAgent(p) ==
  /\ pc[p] = "agent"
  /\ pc' = [pc EXCEPT ![p] =
       IF ~InScope(ask[p].scope, ask[p].agent) THEN "none" ELSE ask[p].op]
  /\ UNCHANGED <<row, ask, sequence, committed, gone, cursor, got, sessions, links, since, changed>>

NewestFirst(rows) == Sorted(rows, Descending(sequence))
OldestFirst(rows) == Sorted(rows, Ascending(sequence))

Below(agent, before) ==
  {r \in committed : row[r].agent = agent /\ (before = None \/ sequence[r] < before)}

\* Faulty: the cursor is the sequence of the record fetched to see whether there is more.
PageToLookahead(agent, before, limit) ==
  LET rows == NewestFirst(Below(agent, before))
  IN  [rows |-> SubSeq(rows, 1, Min({limit, Len(rows)})),
       nextCursor |-> IF Len(rows) > limit THEN sequence[rows[limit + 1]] ELSE None]

\* Faulty: a page with nothing on it hands the cursor back.
PageEndless(agent, before, limit) ==
  LET rows == NewestFirst(Below(agent, before))
      page == SubSeq(rows, 1, Min({limit, Len(rows)}))
  IN  [rows |-> page, nextCursor |-> IF page = <<>> THEN before ELSE sequence[page[Len(page)]]]

Page(agent, before, limit) ==
  LET rows == NewestFirst(Below(agent, before))
  IN  [rows |-> SubSeq(rows, 1, Min({limit, Len(rows)})),
       nextCursor |-> IF Len(rows) > limit THEN sequence[rows[limit]] ELSE None]

\* The reader asks for the next page until there is none.
ReadPage(p) ==
  /\ pc[p] = "trace"
  /\ UNCHANGED <<row, ask, sequence, committed, gone, sessions, links, since, changed>>
  /\ LET page == Page(ask[p].agent, cursor[p], ask[p].limit)
     IN  /\ got' = [got EXCEPT ![p] = @ \o page.rows]
         /\ cursor' = [cursor EXCEPT ![p] = page.nextCursor]
         /\ pc' = [pc EXCEPT ![p] = IF page.nextCursor = None THEN "end" ELSE "agent"]

\* A reader that asks for the page it has just got again, with the same cursor.
Reread(p) ==
  LET n == Len(got[p]) - ask[p].limit
  IN  /\ ask[p].op = "trace" /\ ask[p].again /\ pc[p] = "agent" /\ n > 0
      /\ changed' = [changed EXCEPT ![p] =
           Page(ask[p].agent, sequence[got[p][n]], ask[p].limit).rows
             # SubSeq(got[p], n + 1, Len(got[p]))]
      /\ UNCHANGED <<row, ask, sequence, committed, gone, pc, cursor, got, sessions, links, since>>

\* Every record of one session, in the order the server received them.
ReadSession(p) ==
  /\ pc[p] = "session"
  /\ UNCHANGED <<row, ask, sequence, committed, gone, cursor, sessions, links, since, changed>>
  /\ got' = [got EXCEPT ![p] =
       OldestFirst({r \in committed : row[r].agent = ask[p].agent /\ row[r].id = ask[p].id})]
  /\ pc' = [pc EXCEPT ![p] = "end"]

-----------------------------------------------------------------------------
(***************************************************************************)
(* The trace list.                                                         *)
(***************************************************************************)

Visible(p) ==
  {r \in committed : InScope(ask[p].scope, row[r].agent)
                       /\ (ask[p].only = None \/ row[r].id \in ask[p].only)}

SessionOf(r) == [agent |-> row[r].agent, id |-> row[r].id]
LatestOf(rows) ==
  {r \in rows : \A x \in rows : SessionOf(x) = SessionOf(r) => sequence[x] <= sequence[r]}

\* The sessions most recently active first, cut at the limit, with their records counted.
Summaries(p) ==
  LET rows == Visible(p)
      order == NewestFirst(LatestOf(rows))
      count(r) == Cardinality({x \in rows : SessionOf(x) = SessionOf(r)})
      summary(r) == [agent |-> row[r].agent, id |-> row[r].id, count |-> count(r)]
  IN  [i \in 1..Min({ask[p].limit, Len(order)}) |-> summary(order[i])]

OwnedLinks(p) ==
  LET rows == {r \in Visible(p) : row[r].behavior \in {"Delegating", "Observing"} /\ row[r].tags # <<>>}
      order == OldestFirst(rows)
  IN  [i \in DOMAIN order |-> row[order[i]]]

ReadSummaries(p) ==
  /\ pc[p] \in {"both", "sessions"}
  /\ UNCHANGED <<row, ask, sequence, committed, gone, cursor, got, links, since, changed>>
  /\ sessions' = [sessions EXCEPT ![p] = Summaries(p)]
  /\ pc' = [pc EXCEPT ![p] = IF @ = "both" THEN "links" ELSE "end"]

ReadLinks(p) ==
  /\ pc[p] \in {"both", "links"}
  /\ UNCHANGED <<row, ask, sequence, committed, gone, cursor, got, sessions, since, changed>>
  /\ links' = [links EXCEPT ![p] = OwnedLinks(p)]
  /\ pc' = [pc EXCEPT ![p] = IF @ = "both" THEN "sessions" ELSE "end"]

-----------------------------------------------------------------------------
Read(p) ==
  \/ Arrive(p) \/ OwnedAgent(p) \/ ReadPage(p) \/ ReadSession(p)
  \/ ReadSummaries(p) \/ ReadLinks(p)

Next ==
  \/ \E r \in Records : Insert(r) \/ Commit(r) \/ Abort(r)
  \/ \E p \in Readers : Read(p) \/ Reread(p)
  \/ Finished /\ UNCHANGED vars

\* A reader that has begun goes on; nothing is asked of the writers.
Fairness == \A p \in Readers : WF_vars(pc[p] # "idle" /\ Read(p))
Spec == Init /\ [][Next]_vars /\ Fairness

-----------------------------------------------------------------------------
\* The pages of a trace come newest first and no record comes twice, and when they
\* have been read to the end every record that had been committed when the reader
\* began was among them, whatever commits meanwhile, before the cursor or behind it
\* ("pass the previous page's next_cursor as before").  None is of an agent outside
\* the reader's scope, though only the first of the two queries looks at the owner.
PagesCoverTheTrace ==
  \A p \in Readers :
    /\ ToSet(got[p]) \subseteq {r \in committed : InScope(ask[p].scope, row[r].agent)}
    /\ ask[p].op = "trace" =>
         /\ \A i, j \in DOMAIN got[p] : i < j => sequence[got[p][i]] > sequence[got[p][j]]
         /\ pc[p] = "end" =>
              {r \in since[p] : row[r].agent = ask[p].agent} \subseteq ToSet(got[p])

\* A reader that goes on reaches the last page, however many records are appended.
PagesEnd == \A p \in Readers : pc[p] # "idle" ~> pc[p] \in {"end", "none"}

\* The two queries of the trace list see different moments; whatever they saw, every
\* conversation is listed once, and nested under the one that began it unless that
\* is not listed or began with it in turn.  All of it is in the reader's scope.
ListsAreWhole ==
  \A p \in Readers : ask[p].op = "list" /\ pc[p] = "end" =>
    LET list == BuildConversations(sessions[p], links[p])
    IN  /\ \A s \in ToSet(sessions[p]) \cup ToSet(links[p]) : InScope(ask[p].scope, s.agent)
        /\ EachIsListed(list)
        /\ NestedUnlessCircular(list, sessions[p], links[p])

\* A page asked for again with the same cursor is the same page.  The code does not
\* guarantee it: a record with a lower sequence may commit later.
PagesStayStable == \A p \in Readers : ~changed[p]
=============================================================================
