------------------------ MODULE ExportRecordsProofs ------------------------
(***************************************************************************)
(* Proofs about ExportRecords: what a settle time longer than the slowest  *)
(* insertion buys, and that completed pairs of files always verify.        *)
(***************************************************************************)
EXTENDS ExportRecords, RecordLedgerProofs, FiniteSetTheorems

-----------------------------------------------------------------------------
(***************************************************************************)
(* The ledger below: its steps, its clock and its timestamps.              *)
(***************************************************************************)

LEMMA LedgerSteps == [ExportNext]_allVars => [Next]_vars
  BY DEF ExportNext, Export, Start, Query, WriteJsonl, WriteManifest, ExportDies, allVars

\* The clock moves alone.
LEMMA ClockMoves ==
  ASSUME TypeOK, [Next]_vars
  PROVE  now' = now \/ (now' = now + 1 /\ UNCHANGED <<rows, pc, seq, stamp>>)
<1> USE DEF clientVars, libraryVars
<1>1. ASSUME NEW h \in Handlers, Arrive(h) \/ Handle(h) \/ CommitUnheard(h) \/ StatementFails(h)
      PROVE  now' = now
  BY <1>1 DEF Arrive, Handle, CheckAgent, CheckRefs, CheckContent, CheckKeys, Check, Dedup,
     Insert, Acquire, Conflict, Commit, CommitUnheard, StatementFails
<1>2. ASSUME NEW c \in Calls, Send(c) \/ Receive(c) \/ NetworkError(c)
      PROVE  now' = now
  BY <1>2 DEF Send, Receive, NetworkError
<1>3. Crash \/ UNCHANGED vars => now' = now
  BY DEF Crash, vars
<1>4. ASSUME Environment, ~Tick PROVE now' = now
  BY <1>4 DEF Environment, PutContent, DeleteContent,
     Library!Upload, Library!Delete, RegisterKey
<1>5. CASE Tick
  BY <1>5 DEF Tick
<1> QED
  BY <1>1, <1>2, <1>3, <1>4, <1>5 DEF Next

\* A handler gets a timestamp once, from the clock, when it comes to the
\* deduplication read, and keeps it up to the commit.
StampKept(h) == pc[h] \in Accepted /\ stamp'[h] = stamp[h]
StampTaken(h) == stamp'[h] = now /\ now' = now

LEMMA StampOfCheck ==
  ASSUME TypeOK, NEW g \in Handlers, NEW h \in Handlers, NEW here \in Running \ Accepted,
         NEW ok, NEW code, Check(g, here, ok, code), pc'[h] \in Accepted
  PROVE  StampKept(h) \/ StampTaken(h)
<1>1. CASE h # g
  BY <1>1 DEF Check, Answer, Leave, Goto, TypeOK, StampKept
<1>2. CASE h = g /\ ok
  <2>1. pc'[h] = NextCheck(h, here) /\ now' = now
    BY <1>2 DEF Check, Goto, TypeOK
  <2>2. stamp'[h] = IF NextCheck(h, here) = "dedup" THEN now ELSE 0
    BY <1>2 DEF Check, TypeOK
  <2>3. pc'[h] \in {"refs", "content", "keys", "dedup"}
    BY <2>1 DEF NextCheck
  <2> QED
    BY <2>1, <2>2, <2>3 DEF Accepted, InDatabase, StampTaken
<1>3. CASE h = g /\ ~ok
  BY <1>3 DEF Check, Answer, Leave, Goto, TypeOK, Accepted, InDatabase
<1> QED
  BY <1>1, <1>2, <1>3

LEMMA StampMoves ==
  ASSUME TypeOK, ClientInv, [Next]_vars, NEW h \in Handlers, pc'[h] \in Accepted
  PROVE  StampKept(h) \/ StampTaken(h)
<1> USE DEF clientVars, libraryVars
<1>1. ASSUME NEW g \in Handlers, CheckAgent(g) \/ CheckRefs(g) \/ CheckContent(g) \/ CheckKeys(g)
      PROVE  StampKept(h) \/ StampTaken(h)
  <2>1. {"check", "refs", "content", "keys"} \subseteq Running \ Accepted
    BY DEF Running, Accepted, InDatabase
  <2> QED
    BY <1>1, <2>1, StampOfCheck DEF CheckAgent, CheckRefs, CheckContent, CheckKeys
<1>2. ASSUME NEW g \in Handlers, \E result : Answer(g, result), pc[g] \in Running
      PROVE  StampKept(h)
  BY <1>2 DEF Answer, Leave, Goto, TypeOK, StampKept, Accepted, InDatabase
<1>3. ASSUME NEW g \in Handlers, Arrive(g)
      PROVE  StampKept(h)
  BY <1>3 DEF Arrive, Goto, TypeOK, StampKept, Accepted, InDatabase
<1>4. ASSUME NEW g \in Handlers, Dedup(g)
      PROVE  StampKept(h)
  <2>1. CASE Stored(Current(g)) = {}
    BY <1>4, <2>1 DEF Dedup, Goto, TypeOK, StampKept, Accepted
  <2>2. CASE Stored(Current(g)) # {}
    BY <1>4, <2>2, <1>2 DEF Dedup, Running
  <2> QED
    BY <2>1, <2>2
<1>5. ASSUME NEW g \in Handlers, Insert(g) \/ Acquire(g)
      PROVE  StampKept(h)
  BY <1>5 DEF Insert, Acquire, Goto, TypeOK, StampKept, Accepted, InDatabase
<1>6. ASSUME NEW g \in Handlers, Conflict(g) \/ Commit(g) \/ CommitUnheard(g) \/ StatementFails(g)
      PROVE  StampKept(h)
  BY <1>6, <1>2 DEF Conflict, Commit, CommitUnheard, StatementFails, Running, InDatabase
<1>7. ASSUME NEW c \in Calls, Send(c) \/ Receive(c) \/ NetworkError(c)
      PROVE  StampKept(h)
  BY <1>7 DEF Send, Receive, NetworkError, Goto, TypeOK, StampKept, Accepted, InDatabase
<1>8. CASE Crash
  BY <1>8 DEF Crash, TypeOK, StampKept, Accepted, Running, InDatabase
<1>9. CASE Environment \/ UNCHANGED vars
  BY <1>9 DEF Environment, PutContent, DeleteContent,
     Library!Upload, Library!Delete, RegisterKey, Tick, vars, StampKept
<1> QED
  BY <1>1, <1>3, <1>4, <1>5, <1>6, <1>7, <1>8, <1>9 DEF Next, Handle

\* A row that becomes visible was stamped at most SlowestInsert ago.
NewlyVisible(r) == r \in rows' \ rows

LEMMA VisibleRow ==
  ASSUME TypeOK, LedgerInv, TimelyInv, [Next]_vars, NEW r, NewlyVisible(r)
  PROVE  /\ now' = now
         /\ r.seq > 0
         /\ now <= r.ts + SlowestInsert
         /\ \A q \in rows : q.seq # r.seq
<1>1. PICK h \in Handlers : CommitsRow(h)
  BY RowsMove DEF NewlyVisible
<1>2. r = NewRow(h) /\ pc[h] = "commit" /\ "commit" \in Accepted /\ "commit" \in InDatabase
  BY <1>1 DEF CommitsRow, NewlyVisible, Accepted, InDatabase
<1>3. r.seq = seq[h] /\ r.ts = stamp[h]
  BY <1>2 DEF NewRow
<1>4. now' = now
  BY ClockMoves DEF NewlyVisible
<1>5. \A q \in rows : q.seq # seq[h]
  BY <1>2 DEF LedgerInv, SequenceInv
<1> QED
  BY <1>2, <1>3, <1>4, <1>5 DEF TimelyInv

LEMMA TimelyStep ==
  ASSUME TypeOK, LedgerInv, TimelyInv, [ExportNext]_allVars
  PROVE  TimelyInv'
<1>1. [Next]_vars
  BY LedgerSteps
<1>2. now \in Nat /\ lastSeq \in Nat /\ stamp \in [Handlers -> Nat]
  BY DEF TypeOK
<1>3. TypeOK' /\ ClientInv
  BY <1>1, LedgerStep DEF LedgerInv
<1>4. ASSUME NEW h \in Handlers, pc'[h] \in Accepted
      PROVE  stamp'[h] <= now' /\ now' <= stamp'[h] + SlowestInsert
  <2>1. CASE now' = now
    <3>1. StampKept(h) \/ StampTaken(h)
      BY <1>1, <1>3, <1>4, StampMoves
    <3> QED
      BY <1>2, <2>1, <3>1, ExportAssumption DEF StampKept, StampTaken, TimelyInv
  <2>2. CASE now' # now
    <3>1. now' = now + 1 /\ UNCHANGED <<pc, stamp>>
      BY <1>1, <2>2, ClockMoves
    <3>2. Punctual
      BY <2>2 DEF ExportNext, Export, Start, Query, WriteJsonl, WriteManifest, ExportDies,
         allVars, vars
    <3>3. now' - stamp[h] <= SlowestInsert /\ stamp[h] <= now
      BY <1>4, <2>2, <3>1, <3>2 DEF Punctual, TimelyInv
    <3> QED
      BY <1>2, <3>1, <3>3, ExportAssumption
  <2> QED
    BY <2>1, <2>2
<1>5. ASSUME NEW h \in Handlers, pc'[h] \in InDatabase
      PROVE  seq'[h] > 0
  <2>1. \/ Insert(h)
        \/ pc[h] \in InDatabase /\ seq'[h] = seq[h]
    BY <1>1, <1>3, <1>5, InDatabaseMoves
  <2>2. CASE Insert(h)
    BY <1>2, <2>2 DEF Insert, TypeOK
  <2> QED
    BY <2>1, <2>2 DEF TimelyInv
<1>6. \A r \in rows' : r.seq > 0
  BY <1>1, VisibleRow DEF TimelyInv, NewlyVisible
<1> QED
  BY <1>4, <1>5, <1>6 DEF TimelyInv

-----------------------------------------------------------------------------
(***************************************************************************)
(* Types.                                                                  *)
(***************************************************************************)

LEMMA PageTyping ==
  ASSUME TypeOK, ExportTypeOK, NEW e \in Exporters, NEW P \in Pages(e),
         NEW a \in P, NEW b \in P
  PROVE  [first |-> a.seq, last |-> b.seq, lines |-> P] \in Jsonl
<1>1. P \subseteq Row
  BY DEF Pages, Due, TypeOK
<1> QED
  BY <1>1 DEF Jsonl, Row

LEMMA ExportTypeStep ==
  ASSUME TypeOK, ExportTypeOK, IsFiniteSet(rows), PagesInv, [ExportNext]_allVars
  PROVE  ExportTypeOK'
<1> USE DEF ExportTypeOK, Stop
<1>0. NoPage \in Jsonl
  BY DEF NoPage, Jsonl
<1>1. ASSUME NEW e \in Exporters, Start(e) PROVE ExportTypeOK'
  <2>1. after' \in [Exporters -> Nat]
    BY <1>1 DEF Start, Manifest
  <2> QED
    BY <1>1, <2>1 DEF Start
<1>2. ASSUME NEW e \in Exporters, Query(e) PROVE ExportTypeOK'
  <2>1. CASE Due(e) = {}
    BY <1>0, <1>2, <2>1 DEF Query
  <2>2. CASE Due(e) # {}
    <3>1. PICK P \in Pages(e) : \E a, b \in P :
            page' = [page EXCEPT ![e] = [first |-> a.seq, last |-> b.seq, lines |-> P]]
      BY <1>2, <2>2 DEF Query
    <3>2. page' \in [Exporters -> Jsonl]
      BY <3>1, PageTyping
    <3> QED
      BY <1>2, <2>2, <3>2 DEF Query
  <2> QED
    BY <2>1, <2>2
<1>3. ASSUME NEW e \in Exporters, WriteJsonl(e) PROVE ExportTypeOK'
  BY <1>0, <1>3 DEF WriteJsonl
<1>4. ASSUME NEW e \in Exporters, at[e] = "manifest", NEW w \in BOOLEAN
      PROVE  ManifestOf(page[e], w) \in Manifest
  <2>1. page[e] \in Jsonl
    OBVIOUS
  <2>2. Cardinality(page[e].lines) \in Nat
    <3>1. IsFiniteSet(page[e].lines)
      BY <1>4, FS_Subset DEF PagesInv, SoundBatch, OnItsWay
    <3> QED
      BY <3>1, FS_CardinalityType
  <2> QED
    BY <2>1, <2>2 DEF ManifestOf, Manifest, Jsonl
<1>5. ASSUME NEW e \in Exporters, WriteManifest(e) PROVE ExportTypeOK'
  <2>1. ManifestOf(page[e], TRUE) \in Manifest /\ page[e].last \in Nat
    BY <1>4, <1>5 DEF WriteManifest, Jsonl
  <2> QED
    BY <1>0, <1>5, <2>1 DEF WriteManifest
<1>6. ASSUME NEW e \in Exporters, ExportDies(e) PROVE ExportTypeOK'
  <2>1. /\ at' \in [Exporters -> {"idle", "query", "jsonl", "manifest"}]
        /\ page' \in [Exporters -> Jsonl]
        /\ after' = after
        /\ deaths' \in Nat
    BY <1>0, <1>6 DEF ExportDies
  <2>2. jsonl' \subseteq Jsonl
    <3>1. ASSUME NEW P \in SUBSET page[e].lines
          PROVE  [page[e] EXCEPT !.lines = P] \in Jsonl
      BY DEF Jsonl
    <3>2. \/ jsonl' = jsonl
          \/ \E P \in SUBSET page[e].lines :
               jsonl' = jsonl \cup {[page[e] EXCEPT !.lines = P]}
      BY <1>6 DEF ExportDies
    <3> QED
      BY <3>1, <3>2
  <2>3. manifests' \subseteq Manifest
    <3>1. at[e] = "manifest" => ManifestOf(page[e], FALSE) \in Manifest
      BY <1>4
    <3>2. manifests' = manifests \/ (at[e] = "manifest" /\
            manifests' = manifests \cup {ManifestOf(page[e], FALSE)})
      BY <1>6 DEF ExportDies
    <3> QED
      BY <3>1, <3>2
  <2> QED
    BY <2>1, <2>2, <2>3
<1>7. CASE UNCHANGED exportVars
  BY <1>7 DEF exportVars
<1> QED
  BY <1>1, <1>2, <1>3, <1>5, <1>6, <1>7 DEF ExportNext, Export, allVars

-----------------------------------------------------------------------------
(***************************************************************************)
(* What a step does to pages and files.                                    *)
(***************************************************************************)

\* A batch on its way was read by the last query of its run.
LEMMA PageMoves ==
  ASSUME ExportTypeOK, [ExportNext]_allVars, NEW e \in Exporters, at'[e] \in OnItsWay
  PROVE  \/ at[e] \in OnItsWay /\ page'[e] = page[e] /\ after'[e] = after[e]
         \/ Query(e) /\ Due(e) # {}
<1> USE DEF ExportTypeOK, OnItsWay
<1>1. ASSUME NEW f \in Exporters, Start(f)
      PROVE  at[e] \in OnItsWay /\ page'[e] = page[e] /\ after'[e] = after[e]
  BY <1>1 DEF Start
<1>2. ASSUME NEW f \in Exporters, Query(f), Due(f) = {}
      PROVE  at[e] \in OnItsWay /\ page'[e] = page[e] /\ after'[e] = after[e]
  BY <1>2 DEF Query, Stop
<1>3. ASSUME NEW f \in Exporters, Query(f), Due(f) # {}, f # e
      PROVE  at[e] \in OnItsWay /\ page'[e] = page[e] /\ after'[e] = after[e]
  BY <1>3 DEF Query
<1>4. ASSUME NEW f \in Exporters, WriteJsonl(f) \/ WriteManifest(f) \/ ExportDies(f)
      PROVE  at[e] \in OnItsWay /\ page'[e] = page[e] /\ after'[e] = after[e]
  BY <1>4 DEF WriteJsonl, WriteManifest, ExportDies, Stop
<1>5. ASSUME UNCHANGED exportVars
      PROVE  at[e] \in OnItsWay /\ page'[e] = page[e] /\ after'[e] = after[e]
  BY <1>5 DEF exportVars
<1> QED
  BY <1>1, <1>2, <1>3, <1>4, <1>5 DEF ExportNext, Export, allVars

\* At most one manifest is added, by a run that has written its .jsonl.
Completes(e) ==
  /\ at[e] = "manifest"
  /\ manifests' = manifests \cup {ManifestOf(page[e], TRUE)}
Tears(e) ==
  /\ at[e] = "manifest"
  /\ manifests' = manifests \cup {ManifestOf(page[e], FALSE)}

LEMMA ManifestsMove ==
  ASSUME [ExportNext]_allVars
  PROVE  manifests' = manifests
           \/ (rows' = rows /\ now' = now /\ \E e \in Exporters : Completes(e) \/ Tears(e))
<1>1. ASSUME NEW e \in Exporters, Start(e) \/ Query(e) \/ WriteJsonl(e)
      PROVE  manifests' = manifests
  BY <1>1 DEF Start, Query, WriteJsonl
<1>2. ASSUME NEW e \in Exporters, WriteManifest(e) \/ ExportDies(e)
      PROVE  /\ rows' = rows /\ now' = now
             /\ manifests' = manifests \/ Completes(e) \/ Tears(e)
  BY <1>2 DEF WriteManifest, ExportDies, Completes, Tears, vars
<1>3. UNCHANGED exportVars => manifests' = manifests
  BY DEF exportVars
<1> QED
  BY <1>1, <1>2, <1>3 DEF ExportNext, Export, allVars

\* At most one .jsonl is added, under a name that was free.
Creates(e, f) ==
  /\ at[e] = "jsonl"
  /\ Named(f, jsonl) = {}
  /\ jsonl' = jsonl \cup {f}

LEMMA JsonlMoves ==
  ASSUME ExportTypeOK, [ExportNext]_allVars
  PROVE  jsonl' = jsonl \/ \E e \in Exporters, f \in Jsonl : Creates(e, f)
<1>1. ASSUME NEW e \in Exporters, Start(e) \/ Query(e) \/ WriteManifest(e)
      PROVE  jsonl' = jsonl
  BY <1>1 DEF Start, Query, WriteManifest
<1>2. ASSUME NEW e \in Exporters, WriteJsonl(e)
      PROVE  jsonl' = jsonl \/ \E f \in Jsonl : Creates(e, f)
  BY <1>2 DEF WriteJsonl, Creates, ExportTypeOK
<1>3. ASSUME NEW e \in Exporters, ExportDies(e)
      PROVE  jsonl' = jsonl \/ \E f \in Jsonl : Creates(e, f)
  <2>1. CASE jsonl' = jsonl
    BY <2>1
  <2>2. CASE jsonl' # jsonl
    <3>1. PICK P \in SUBSET page[e].lines :
            /\ at[e] = "jsonl" /\ Named(page[e], jsonl) = {}
            /\ jsonl' = jsonl \cup {[page[e] EXCEPT !.lines = P]}
      BY <1>3, <2>2 DEF ExportDies
    <3>2. page[e] \in Jsonl
      BY DEF ExportTypeOK
    <3>3. /\ [page[e] EXCEPT !.lines = P] \in Jsonl
          /\ [page[e] EXCEPT !.lines = P].first = page[e].first
          /\ [page[e] EXCEPT !.lines = P].last = page[e].last
      BY <3>2 DEF Jsonl
    <3>4. Named([page[e] EXCEPT !.lines = P], jsonl) = {}
      BY <3>1, <3>3 DEF Named
    <3> QED
      BY <3>1, <3>3, <3>4 DEF Creates
  <2> QED
    BY <2>1, <2>2
<1>4. UNCHANGED exportVars => jsonl' = jsonl
  BY DEF exportVars
<1> QED
  BY <1>1, <1>2, <1>3, <1>4 DEF ExportNext, Export, allVars

\* Files are never removed and never change.
LEMMA FilesGrow ==
  ASSUME ExportTypeOK, [ExportNext]_allVars
  PROVE  jsonl \subseteq jsonl' /\ manifests \subseteq manifests'
  BY ManifestsMove, JsonlMoves DEF Completes, Tears, Creates

-----------------------------------------------------------------------------
(***************************************************************************)
(* The invariant, one part at a time.                                      *)
(***************************************************************************)

\* Rows stay and time passes, so a sound batch stays sound.
LEMMA SoundBatchStays ==
  ASSUME TypeOK, [Next]_vars, NEW lines, NEW last, SoundBatch(lines, last)
  PROVE  /\ lines \subseteq rows'
         /\ \E q \in lines : q.seq = last
         /\ \A q \in lines : q.seq <= last /\ q.ts + Settle <= now'
<1>1. now' = now \/ now' = now + 1
  BY ClockMoves
<1>2. \A q \in lines : q.ts \in Nat
  BY DEF SoundBatch, TypeOK, Row
<1>3. rows \subseteq rows'
  BY Monotone
<1> QED
  BY <1>1, <1>2, <1>3, ExportAssumption DEF SoundBatch, TypeOK

\* The heart of it: a row that becomes visible behind a sound batch was stamped
\* after every row of the batch.
LEMMA LateRowIsInverted ==
  ASSUME TypeOK, LedgerInv, TimelyInv, [Next]_vars, SlowestInsert < Settle,
         NEW lines, NEW last, SoundBatch(lines, last),
         NEW r, NewlyVisible(r), r.seq <= last
  PROVE  Inverted(r, lines)
<1>1. PICK q \in lines : q.seq = last
  BY DEF SoundBatch
<1>2. q \in rows /\ q.ts \in Nat /\ q.seq \in Nat /\ q.ts + Settle <= now
  BY DEF SoundBatch, TypeOK, Row
<1>3. q.seq # r.seq /\ now <= r.ts + SlowestInsert
  BY <1>2, VisibleRow
<1>4. r.ts \in Nat /\ r.seq \in Nat
  <2>1. TypeOK'
    BY LedgerStep
  <2> QED
    BY <2>1 DEF NewlyVisible, TypeOK, Row
<1>5. q.seq > r.seq
  BY <1>1, <1>2, <1>3, <1>4
<1>6. q.ts < r.ts
  BY <1>2, <1>3, <1>4, ExportAssumption DEF TypeOK
<1> QED
  BY <1>5, <1>6 DEF Inverted

LEMMA QueryIsSound ==
  ASSUME TypeOK, SequenceInv, ExportTypeOK, NEW e \in Exporters, Query(e), Due(e) # {}
  PROVE  /\ SoundBatch(page'[e].lines, page'[e].last)
         /\ after'[e] = after[e]
         /\ \A r \in rows : r.seq <= page'[e].last =>
              \/ r \in page'[e].lines
              \/ r.seq <= after[e]
              \/ Inverted(r, page'[e].lines)
<1>0. PICK P \in Pages(e) : \E a, b \in P :
        /\ \A r \in P : a.seq <= r.seq /\ r.seq <= b.seq
        /\ page' = [page EXCEPT ![e] = [first |-> a.seq, last |-> b.seq, lines |-> P]]
  BY DEF Query
<1>1. PICK a \in P, b \in P :
        /\ \A r \in P : a.seq <= r.seq /\ r.seq <= b.seq
        /\ page' = [page EXCEPT ![e] = [first |-> a.seq, last |-> b.seq, lines |-> P]]
  BY <1>0
<1>2. page'[e].lines = P /\ page'[e].last = b.seq
  BY <1>1 DEF ExportTypeOK
<1>3. P \subseteq Due(e) /\ \A r \in P, q \in Due(e) : q.seq < r.seq => q \in P
  BY DEF Pages
<1>4. SoundBatch(P, b.seq)
  BY <1>1, <1>3 DEF SoundBatch, Due
<1>5. \A r \in rows : r.seq \in Nat /\ r.ts \in Nat
  BY DEF TypeOK, Row
<1>6. after[e] \in Nat /\ now \in Nat /\ Settle \in Nat
  BY ExportAssumption DEF ExportTypeOK, TypeOK
<1>7. ASSUME NEW r \in rows, r.seq <= b.seq, r \notin P, ~(r.seq <= after[e])
      PROVE  Inverted(r, P)
  <2>0. b \in rows /\ r.seq \in Nat /\ r.ts \in Nat /\ b.seq \in Nat /\ b.ts \in Nat
    BY <1>3, <1>5 DEF Due
  <2>1. r.seq < b.seq
    BY <1>1, <1>7, <2>0 DEF SequenceInv
  <2>2. r \notin Due(e)
    BY <1>1, <1>3, <1>7, <2>1
  <2>3. now < r.ts + Settle
    BY <1>6, <1>7, <2>0, <2>2 DEF Due
  <2>4. b.ts + Settle <= now
    BY <1>3 DEF Due
  <2>5. b.ts < r.ts
    BY <1>6, <2>0, <2>3, <2>4
  <2> QED
    BY <2>1, <2>5, <2>0 DEF Inverted
<1>8. after' = after
  BY DEF Query
<1> QED
  BY <1>2, <1>4, <1>7, <1>8

LEMMA PagesStep ==
  ASSUME TypeOK, LedgerInv, ExportTypeOK, PagesInv, [ExportNext]_allVars
  PROVE  PagesInv'
<1>0. [Next]_vars
  BY LedgerSteps
<1> SUFFICES ASSUME NEW e \in Exporters, at'[e] \in OnItsWay
             PROVE  /\ page'[e].lines \subseteq rows'
                    /\ \E q \in page'[e].lines : q.seq = page'[e].last
                    /\ \A q \in page'[e].lines : q.seq <= page'[e].last /\ q.ts + Settle <= now'
  BY DEF PagesInv, SoundBatch, OnItsWay
<1>1. CASE at[e] \in OnItsWay /\ page'[e] = page[e]
  BY <1>0, <1>1, SoundBatchStays DEF PagesInv
<1>2. CASE Query(e) /\ Due(e) # {}
  <2>1. rows' = rows /\ now' = now
    BY <1>2 DEF Query, vars
  <2> QED
    BY <1>2, <2>1, QueryIsSound DEF LedgerInv, SoundBatch
<1> QED
  BY <1>1, <1>2, PageMoves

LEMMA CoverStep ==
  ASSUME TypeOK, LedgerInv, ExportTypeOK, TimelyInv, PagesInv, CoverInv,
         SlowestInsert < Settle, [ExportNext]_allVars
  PROVE  CoverInv'
<1>0. [Next]_vars
  BY LedgerSteps
<1> SUFFICES ASSUME NEW e \in Exporters, at'[e] \in OnItsWay
             PROVE  \A r \in rows' : r.seq <= page'[e].last =>
                         \/ r \in page'[e].lines
                         \/ r.seq <= after'[e]
                         \/ Inverted(r, page'[e].lines)
  BY DEF CoverInv, Inverted, OnItsWay
<1>1. CASE at[e] \in OnItsWay /\ page'[e] = page[e] /\ after'[e] = after[e]
  <2>1. \A r \in rows' \ rows : r.seq <= page[e].last => Inverted(r, page[e].lines)
    BY <1>0, <1>1, LateRowIsInverted DEF NewlyVisible, PagesInv
  <2> QED
    BY <1>1, <2>1 DEF CoverInv
<1>2. CASE Query(e) /\ Due(e) # {}
  BY <1>2, QueryIsSound DEF LedgerInv, Query, vars
<1> QED
  BY <1>1, <1>2, PageMoves

LEMMA CursorsStep ==
  ASSUME ExportTypeOK, CursorsInv, [ExportNext]_allVars
  PROVE  CursorsInv'
<1> SUFFICES ASSUME NEW e \in Exporters
             PROVE  after'[e] = 0 \/ \E m \in manifests' : m.whole /\ after'[e] <= m.last
  BY DEF CursorsInv
<1>1. manifests \subseteq manifests'
  BY FilesGrow
<1>2. CASE after'[e] = after[e]
  BY <1>1, <1>2 DEF CursorsInv
<1>3. CASE Start(e)
  <2>1. PICK n \in {0} \cup {m.last : m \in manifests} : after' = [after EXCEPT ![e] = n]
    BY <1>3 DEF Start
  <2>2. after'[e] = n
    BY <2>1 DEF ExportTypeOK
  <2>3. \A m \in manifests : m.whole /\ m.last <= m.last
    BY <1>3 DEF Start, ExportTypeOK, Manifest
  <2> QED
    BY <1>1, <2>1, <2>2, <2>3
<1>4. CASE WriteManifest(e) /\ after' # after
  <2>1. /\ manifests' = manifests \cup {ManifestOf(page[e], TRUE)}
        /\ after'[e] = page[e].last
    BY <1>4 DEF WriteManifest, ExportTypeOK
  <2>2. /\ ManifestOf(page[e], TRUE).whole
        /\ ManifestOf(page[e], TRUE).last = page[e].last
        /\ page[e].last <= page[e].last
    BY DEF ManifestOf, ExportTypeOK, Jsonl
  <2> QED
    BY <2>1, <2>2
<1>5. after'[e] = after[e] \/ Start(e) \/ (WriteManifest(e) /\ after' # after)
  BY DEF ExportNext, Export, Start, Query, WriteJsonl, WriteManifest, ExportDies, allVars,
     exportVars, ExportTypeOK
<1> QED
  BY <1>2, <1>3, <1>4, <1>5

LEMMA FilesStep ==
  ASSUME TypeOK, ExportTypeOK, PagesInv, FilesInv, [ExportNext]_allVars
  PROVE  FilesInv'
<1>0. [Next]_vars
  BY LedgerSteps
<1>1. \A f, g \in jsonl' : f.first = g.first /\ f.last = g.last => f = g
  BY JsonlMoves DEF Creates, Named, FilesInv
<1>2. ASSUME NEW e \in Exporters, at'[e] = "manifest"
      PROVE  page'[e] \in jsonl'
  <2>1. CASE at[e] = "manifest" /\ page'[e] = page[e]
    BY <2>1, FilesGrow DEF FilesInv
  <2>2. CASE WriteJsonl(e)
    BY <1>2, <2>2 DEF WriteJsonl, Stop, ExportTypeOK
  <2>3. (at[e] = "manifest" /\ page'[e] = page[e]) \/ WriteJsonl(e)
    BY <1>2 DEF ExportNext, Export, Start, Query, WriteJsonl, WriteManifest, ExportDies, Stop,
       allVars, exportVars, ExportTypeOK
  <2> QED
    BY <2>1, <2>2, <2>3
<1>3. ASSUME NEW m \in manifests', m.whole
      PROVE  /\ m.sha256 \subseteq rows'
             /\ \E q \in m.sha256 : q.seq = m.last
             /\ \A q \in m.sha256 : q.seq <= m.last /\ q.ts + Settle <= now'
             /\ m.count = Cardinality(m.sha256)
             /\ [first |-> m.first, last |-> m.last, lines |-> m.sha256] \in jsonl'
  <2>1. CASE m \in manifests
    <3>1. /\ SoundBatch(m.sha256, m.last)
          /\ m.count = Cardinality(m.sha256)
          /\ [first |-> m.first, last |-> m.last, lines |-> m.sha256] \in jsonl
      BY <1>3, <2>1 DEF FilesInv
    <3> QED
      BY <1>0, <3>1, SoundBatchStays, FilesGrow
  <2>2. CASE m \notin manifests
    <3>1. PICK e \in Exporters : Completes(e) \/ Tears(e)
      BY <1>3, <2>2, ManifestsMove
    <3>2. m = ManifestOf(page[e], TRUE) /\ at[e] = "manifest"
      BY <1>3, <2>2, <3>1 DEF Completes, Tears, ManifestOf
    <3>3. page[e] \in jsonl /\ SoundBatch(page[e].lines, page[e].last)
      BY <3>2 DEF FilesInv, PagesInv, OnItsWay
    <3>4. [first |-> page[e].first, last |-> page[e].last, lines |-> page[e].lines] = page[e]
      BY DEF ExportTypeOK, Jsonl
    <3>5. /\ m.sha256 = page[e].lines /\ m.first = page[e].first /\ m.last = page[e].last
          /\ m.count = Cardinality(page[e].lines)
      BY <3>2 DEF ManifestOf
    <3>6. [first |-> m.first, last |-> m.last, lines |-> m.sha256] \in jsonl
      BY <3>3, <3>4, <3>5
    <3> QED
      BY <1>0, <3>3, <3>5, <3>6, SoundBatchStays, FilesGrow
  <2> QED
    BY <2>1, <2>2
<1> QED
  BY <1>1, <1>2, <1>3 DEF FilesInv, SoundBatch

LEMMA InversionsStep ==
  ASSUME TypeOK, LedgerInv, ExportInv, SlowestInsert < Settle, [ExportNext]_allVars
  PROVE  OnlyInversionsAreLeftBehind'
<1> USE DEF ExportInv, StoreInv
<1>0. [Next]_vars
  BY LedgerSteps
<1>1. Exported \subseteq Exported'
  BY FilesGrow DEF Exported
<1>2. \A r \in rows : Reached(r) => r \in Exported \/ Inverted(r, Exported)
  BY DEF OnlyInversionsAreLeftBehind, LeftBehind
<1> SUFFICES ASSUME NEW r \in rows', r \notin Exported',
                    NEW m \in manifests', m.whole, r.seq <= m.last
             PROVE  \E q \in Exported' : q.seq > r.seq /\ q.ts < r.ts
  BY DEF OnlyInversionsAreLeftBehind, LeftBehind, Reached, Inverted
<1>3. CASE r \in rows /\ Reached(r)
  BY <1>1, <1>2, <1>3 DEF Inverted
<1>4. CASE r \in rows /\ ~Reached(r)
  <2>1. m \notin manifests
    BY <1>4 DEF Reached
  <2>2. PICK e \in Exporters : Completes(e) \/ Tears(e)
    BY <2>1, ManifestsMove
  <2>3. m = ManifestOf(page[e], TRUE) /\ at[e] = "manifest"
    BY <2>1, <2>2 DEF Completes, Tears, ManifestOf
  <2>4. m.last = page[e].last /\ m.sha256 = page[e].lines
    BY <2>3 DEF ManifestOf
  <2>5. page[e].lines \subseteq Exported'
    BY <2>4 DEF Exported
  <2>6. \/ r \in page[e].lines
        \/ r.seq <= after[e]
        \/ Inverted(r, page[e].lines)
    BY <1>4, <2>3, <2>4 DEF CoverInv, OnItsWay
  <2>7. ~(r.seq <= after[e])
    <3>1. r.seq \in Nat /\ r.seq > 0 /\ after[e] \in Nat
      BY <1>4 DEF TimelyInv, TypeOK, Row, ExportTypeOK
    <3>2. \A n \in manifests : n.last \in Nat
      BY DEF ExportTypeOK, Manifest
    <3> QED
      BY <1>4, <3>1, <3>2 DEF CursorsInv, Reached
  <2> QED
    BY <2>5, <2>6, <2>7 DEF Inverted
<1>5. CASE r \notin rows
  <2>1. m \in manifests
    BY <1>5, ManifestsMove
  <2>2. SoundBatch(m.sha256, m.last)
    BY <2>1 DEF FilesInv
  <2>3. Inverted(r, m.sha256)
    BY <1>0, <1>5, <2>2, LateRowIsInverted DEF NewlyVisible
  <2>4. m.sha256 \subseteq Exported
    BY <2>1 DEF Exported
  <2> QED
    BY <1>1, <2>3, <2>4 DEF Inverted
<1> QED
  BY <1>3, <1>4, <1>5

-----------------------------------------------------------------------------

LEMMA ExportStart == ExportInit => TypeOK /\ LedgerInv /\ ExportInv
<1> SUFFICES ASSUME ExportInit PROVE TypeOK /\ LedgerInv /\ ExportInv
  OBVIOUS
<1>1. Init /\ TypeOK /\ LedgerInv
  BY LedgerInit DEF ExportInit
<1>2. ExportTypeOK
  BY DEF ExportInit, ExportTypeOK, NoPage, Jsonl
<1>3. IsFiniteSet(rows)
  BY <1>1, FS_EmptySet DEF Init
<1>4. TimelyInv
  BY <1>1 DEF Init, TimelyInv, Accepted, InDatabase
<1>5. PagesInv /\ CoverInv /\ CursorsInv /\ FilesInv
  BY DEF ExportInit, PagesInv, CoverInv, OnItsWay, CursorsInv, FilesInv
<1>6. OnlyInversionsAreLeftBehind
  BY <1>1 DEF OnlyInversionsAreLeftBehind, Init
<1> QED
  BY <1>1, <1>2, <1>3, <1>4, <1>5, <1>6 DEF ExportInv, StoreInv

LEMMA StoreStep ==
  TypeOK /\ LedgerInv /\ StoreInv /\ [ExportNext]_allVars
    => TypeOK' /\ LedgerInv' /\ StoreInv'
<1> SUFFICES ASSUME TypeOK, LedgerInv, StoreInv, [ExportNext]_allVars
             PROVE  TypeOK' /\ LedgerInv' /\ StoreInv'
  OBVIOUS
<1>1. [Next]_vars
  BY LedgerSteps
<1>2. TypeOK' /\ LedgerInv'
  BY <1>1, LedgerStep
<1>3. IsFiniteSet(rows)'
  <2>1. rows' = rows \/ \E h \in Handlers : rows' = rows \cup {NewRow(h)}
    BY <1>1, RowsMove DEF CommitsRow
  <2> QED
    BY <2>1, FS_AddElement DEF StoreInv
<1> QED
  BY <1>2, <1>3, ExportTypeStep, TimelyStep, PagesStep, CursorsStep, FilesStep DEF StoreInv

LEMMA ExportStep ==
  ASSUME SlowestInsert < Settle
  PROVE  TypeOK /\ LedgerInv /\ ExportInv /\ [ExportNext]_allVars
           => TypeOK' /\ LedgerInv' /\ ExportInv'
  BY StoreStep, CoverStep, InversionsStep DEF ExportInv, StoreInv

\* Whatever the settle time, a completed pair of files is what it says it is:
\* verifyBatches finds the digest and the count right and the rows in the
\* database.
THEOREM CompletedPairs == ExportSpec => []CompletedPairsVerify
<1>1. ExportInit => TypeOK /\ LedgerInv /\ StoreInv
  BY ExportStart DEF ExportInv
<1>2. StoreInv => CompletedPairsVerify
  <2> SUFFICES ASSUME StoreInv, NEW m \in manifests, m.whole
               PROVE  /\ \E f \in jsonl : f.first = m.first /\ f.last = m.last
                      /\ \A f \in jsonl : f.first = m.first /\ f.last = m.last =>
                           /\ f.lines = m.sha256 /\ Cardinality(f.lines) = m.count
                           /\ f.lines \subseteq rows
    BY DEF CompletedPairsVerify
  <2> DEFINE g == [first |-> m.first, last |-> m.last, lines |-> m.sha256]
  <2>1. /\ g \in jsonl /\ m.count = Cardinality(m.sha256) /\ m.sha256 \subseteq rows
        /\ \A f \in jsonl : f.first = g.first /\ f.last = g.last => f = g
    BY DEF StoreInv, FilesInv, SoundBatch
  <2> QED
    BY <2>1
<1> QED
  BY <1>1, <1>2, StoreStep, PTL DEF ExportSpec

\* The inductive invariant of the export, for a settle time longer than the
\* slowest insertion.
THEOREM ExportInvariant ==
  ASSUME SlowestInsert < Settle
  PROVE  ExportSpec => [](TypeOK /\ LedgerInv /\ ExportInv)
  BY ExportStart, ExportStep, PTL DEF ExportSpec

\* With such a settle time only a row whose timestamp and sequence are in the
\* opposite order to an exported row's can be left behind.
THEOREM SettleSuffices ==
  ASSUME SlowestInsert < Settle
  PROVE  ExportSpec => []OnlyInversionsAreLeftBehind
  BY ExportInvariant, PTL DEF ExportInv
=============================================================================
