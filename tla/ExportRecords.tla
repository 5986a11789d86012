--------------------------- MODULE ExportRecords ---------------------------
(***************************************************************************)
(* The operator's export-records command (scripts/export-records.mts) next *)
(* to the ledger it reads: runs that start whenever the deployer's         *)
(* schedule says, page through the committed rows in sequence order and    *)
(* write one pair of files per page.                                       *)
(*                                                                         *)
(* RecordLedger's rows get their timestamp before their sequence number    *)
(* and their sequence number before they become visible.  How long that    *)
(* may take is the constant SlowestInsert: no code bounds it, and --settle  *)
(* is chosen against it.                                                   *)
(***************************************************************************)
EXTENDS RecordLedger

CONSTANTS
  Exporters,     \* runs of the command that may overlap
  Batch,         \* --batch: rows per pair of files
  Settle,        \* --settle-seconds
  SlowestInsert, \* longest time from reading the clock to the commit
  MaxDeaths      \* bound on killed runs

ASSUME ExportAssumption ==
  /\ Batch \in Nat \ {0}
  /\ Settle \in Nat /\ SlowestInsert \in Nat
  /\ MaxDeaths \in Nat

VARIABLES
  at,        \* where each run stands
  after,     \* the cursor of each run
  page,      \* the batch a run has read and not yet written
  jsonl,     \* the .jsonl files: their names and lines
  manifests, \* the .manifest.json files
  deaths     \* runs killed so far

exportVars == <<at, after, page, jsonl, manifests, deaths>>
allVars == <<vars, exportVars>>

\* A batch, and the file named after its first and last sequence; the order of
\* the lines is that of their sequences.  SHA-256 is injective, so a digest is
\* the set of lines it was computed from.  A file that a crash cut short holds
\* some of its lines, or no readable JSON.
Jsonl == [first: Nat, last: Nat, lines: SUBSET Row]
Manifest == [first: Nat, last: Nat, count: Nat, sha256: SUBSET Row, whole: BOOLEAN]

ExportTypeOK ==
  /\ at \in [Exporters -> {"idle", "query", "jsonl", "manifest"}]
  /\ after \in [Exporters -> Nat]
  /\ page \in [Exporters -> Jsonl]
  /\ jsonl \subseteq Jsonl
  /\ manifests \subseteq Manifest
  /\ deaths \in Nat

NoPage == [first |-> 0, last |-> 0, lines |-> {}]

ExportInit ==
  /\ Init
  /\ at = [e \in Exporters |-> "idle"]
  /\ after = [e \in Exporters |-> 0]
  /\ page = [e \in Exporters |-> NoPage]
  /\ jsonl = {}
  /\ manifests = {}
  /\ deaths = 0

-----------------------------------------------------------------------------

\* The files that already have the name of batch P.
Named(P, files) == {f \in files : f.first = P.first /\ f.last = P.last}

\* The run is over, one way or another.
Stop(e) ==
  /\ at' = [at EXCEPT ![e] = "idle"]
  /\ page' = [page EXCEPT ![e] = NoPage]

\* Faulty: every run starts over.
StartAnywhere(e) ==
  /\ at[e] = "idle"
  /\ \A m \in manifests : m.whole
  /\ at' = [at EXCEPT ![e] = "query"]
  /\ after' = [after EXCEPT ![e] = 0]
  /\ UNCHANGED <<vars, page, jsonl, manifests, deaths>>

\* A run starts after the highest sequence in the manifests; one it cannot
\* parse makes it fail before it does anything.
Start(e) ==
  /\ at[e] = "idle"
  /\ \A m \in manifests : m.whole
  /\ \E n \in {0} \cup {m.last : m \in manifests} :
       /\ \A m \in manifests : m.last <= n
       /\ after' = [after EXCEPT ![e] = n]
  /\ at' = [at EXCEPT ![e] = "query"]
  /\ UNCHANGED <<vars, page, jsonl, manifests, deaths>>

\* Faulty: every committed row is exported at once.
DueAtOnce(e) == {r \in rows : r.seq > after[e] /\ r.ts <= now}

\* Rows beyond the cursor that were received long enough ago.
Due(e) == {r \in rows : r.seq > after[e] /\ r.ts + Settle <= now}

\* Faulty: LIMIT without ORDER BY.
PagesUnordered(e) == {P \in SUBSET Due(e) : P # {} /\ Cardinality(P) <= Batch}

\* ORDER BY sequence LIMIT batch.
Pages(e) ==
  {P \in SUBSET Due(e) :
     /\ \A r \in P, q \in Due(e) : q.seq < r.seq => q \in P
     /\ Cardinality(P) <= Batch
     /\ Cardinality(P) < Batch => P = Due(e)}

\* One query; the batch is named by its first and its last row.
Query(e) ==
  /\ at[e] = "query"
  /\ IF Due(e) = {}
     THEN Stop(e)
     ELSE /\ \E P \in Pages(e) : \E a, b \in P :
               /\ \A r \in P : a.seq <= r.seq /\ r.seq <= b.seq
               /\ page' = [page EXCEPT ![e] =
                             [first |-> a.seq, last |-> b.seq, lines |-> P]]
          /\ at' = [at EXCEPT ![e] = "jsonl"]
  /\ UNCHANGED <<vars, after, jsonl, manifests, deaths>>

\* Both files are created (flag wx): where the name is taken the run fails.
WriteJsonl(e) ==
  /\ at[e] = "jsonl"
  /\ IF Named(page[e], jsonl) # {}
     THEN Stop(e) /\ UNCHANGED jsonl
     ELSE /\ jsonl' = jsonl \cup {page[e]}
          /\ at' = [at EXCEPT ![e] = "manifest"]
          /\ UNCHANGED page
  /\ UNCHANGED <<vars, after, manifests, deaths>>

\* Faulty: the count is read off the range, as if no sequence number were unused.
ManifestOfRange(P, whole) ==
  [first |-> P.first, last |-> P.last, count |-> P.last - P.first + 1,
   sha256 |-> P.lines, whole |-> whole]

ManifestOf(P, whole) ==
  [first |-> P.first, last |-> P.last, count |-> Cardinality(P.lines),
   sha256 |-> P.lines, whole |-> whole]

WriteManifest(e) ==
  /\ at[e] = "manifest"
  /\ IF Named(page[e], manifests) # {}
     THEN Stop(e) /\ UNCHANGED <<after, manifests>>
     ELSE /\ manifests' = manifests \cup {ManifestOf(page[e], TRUE)}
          /\ after' = [after EXCEPT ![e] = page[e].last]
          /\ at' = [at EXCEPT ![e] = "query"]
          /\ page' = [page EXCEPT ![e] = NoPage]
  /\ UNCHANGED <<vars, jsonl, deaths>>

\* The run is killed; the file it was writing may be left unfinished.
ExportDies(e) ==
  /\ at[e] # "idle"
  /\ deaths < MaxDeaths
  /\ deaths' = deaths + 1
  /\ Stop(e)
  /\ \/ UNCHANGED <<jsonl, manifests>>
     \/ /\ at[e] = "jsonl" /\ Named(page[e], jsonl) = {}
        /\ \E P \in SUBSET page[e].lines :
             P # page[e].lines /\ jsonl' = jsonl \cup {[page[e] EXCEPT !.lines = P]}
        /\ UNCHANGED manifests
     \/ /\ at[e] = "manifest" /\ Named(page[e], manifests) = {}
        /\ manifests' = manifests \cup {ManifestOf(page[e], FALSE)}
        /\ UNCHANGED jsonl
  /\ UNCHANGED <<vars, after>>

Export(e) == Start(e) \/ Query(e) \/ WriteJsonl(e) \/ WriteManifest(e)

\* No submission takes longer than SlowestInsert between the two.
Punctual ==
  now' # now => \A h \in Handlers : pc[h] \in Accepted => now' - stamp[h] <= SlowestInsert

ExportNext ==
  \/ Next /\ Punctual /\ UNCHANGED exportVars
  \/ \E e \in Exporters : Export(e)
  \/ \E e \in Exporters : ExportDies(e)

ExportSpec == ExportInit /\ [][ExportNext]_allVars

\* Runs are scheduled again and again and finish, time goes on, and so does
\* what the ledger has under way.
FairExportSpec ==
  /\ ExportSpec
  /\ Fairness
  /\ \A e \in Exporters : WF_allVars(Export(e))
  /\ WF_allVars(Tick /\ Punctual /\ UNCHANGED exportVars)

-----------------------------------------------------------------------------

Exported == UNION {m.sha256 : m \in {n \in manifests : n.whole}}

\* A row that some batch reaches beyond and none contains.  No later run will
\* take it: every run continues after the highest sequence exported.
Reached(r) == \E m \in manifests : m.whole /\ r.seq <= m.last
LeftBehind(r) == Reached(r) /\ r \notin Exported

\* No row is left behind an export ("a slow transaction cannot commit a lower
\* sequence behind an export").  The code does not guarantee it.
ExportIsGapless == \A r \in rows : ~LeftBehind(r)

\* What the settle time does guarantee when it exceeds SlowestInsert: a row is
\* left behind only when its timestamp and its sequence are in the opposite
\* order to those of an exported row.
Inverted(r, P) == \E q \in P : q.seq > r.seq /\ q.ts < r.ts

OnlyInversionsAreLeftBehind ==
  \A r \in rows : LeftBehind(r) => Inverted(r, Exported)

\* verifyBatches never blames the files: every completed manifest has its
\* .jsonl, with the digest and the count it says and with rows that are in the
\* database, whatever runs overlapped or died.  (A row left behind inside the
\* range makes it blame the database's count: ExportIsGapless.)
CompletedPairsVerify ==
  \A m \in manifests : m.whole =>
    /\ \E f \in jsonl : f.first = m.first /\ f.last = m.last
    /\ \A f \in jsonl : f.first = m.first /\ f.last = m.last =>
         f.lines = m.sha256 /\ Cardinality(f.lines) = m.count /\ f.lines \subseteq rows

\* The export catches up: a stored row whose time comes within the bound is
\* reached by a batch in the end ("Each run continues after the highest sequence
\* already exported").
ExportCatchesUp ==
  \A i \in Ids :
    (\E r \in rows : r.sub.id = i /\ r.ts + Settle <= MaxTime)
      ~> (\E r \in rows : r.sub.id = i /\ Reached(r))

-----------------------------------------------------------------------------
(***************************************************************************)
(* The inductive invariant behind the two invariants, for a settle time    *)
(* longer than the slowest insertion.                                      *)
(***************************************************************************)

\* A submission under way read the clock at most SlowestInsert ago, and
\* sequence numbers start at one.
TimelyInv ==
  /\ \A h \in Handlers : pc[h] \in Accepted =>
       stamp[h] <= now /\ now <= stamp[h] + SlowestInsert
  /\ \A h \in Handlers : pc[h] \in InDatabase => seq[h] > 0
  /\ \A r \in rows : r.seq > 0

\* A batch holds settled rows, the last of which names it.
SoundBatch(lines, last) ==
  /\ lines \subseteq rows
  /\ \E q \in lines : q.seq = last
  /\ \A q \in lines : q.seq <= last /\ q.ts + Settle <= now

\* So does a batch on its way to disk, and it holds every row between the cursor
\* and its last one, inversions apart.
OnItsWay == {"jsonl", "manifest"}

PagesInv ==
  \A e \in Exporters :
    at[e] \in OnItsWay => SoundBatch(page[e].lines, page[e].last)

CoverInv ==
  \A e \in Exporters : at[e] \in OnItsWay =>
    \A r \in rows : r.seq <= page[e].last =>
      \/ r \in page[e].lines
      \/ r.seq <= after[e]
      \/ Inverted(r, page[e].lines)

\* The cursor of a run is the end of some batch on disk.
CursorsInv ==
  \A e \in Exporters :
    after[e] = 0 \/ \E m \in manifests : m.whole /\ after[e] <= m.last

\* The files: one per name, and a manifest is written after its .jsonl.
FilesInv ==
  /\ \A f, g \in jsonl : f.first = g.first /\ f.last = g.last => f = g
  /\ \A e \in Exporters : at[e] = "manifest" => page[e] \in jsonl
  /\ \A m \in manifests : m.whole =>
       /\ SoundBatch(m.sha256, m.last)
       /\ m.count = Cardinality(m.sha256)
       /\ [first |-> m.first, last |-> m.last, lines |-> m.sha256] \in jsonl

\* What holds whatever the settle time, and what needs it.
StoreInv ==
  /\ ExportTypeOK
  /\ IsFiniteSet(rows)
  /\ TimelyInv
  /\ PagesInv
  /\ CursorsInv
  /\ FilesInv

ExportInv == StoreInv /\ CoverInv /\ OnlyInversionsAreLeftBehind
=============================================================================
