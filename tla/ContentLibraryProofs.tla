------------------------ MODULE ContentLibraryProofs ------------------------
(***************************************************************************)
(* Proofs about ContentLibrary, for any owners, contents, requests and     *)
(* runs of the delete command.                                             *)
(***************************************************************************)
EXTENDS ContentLibrary, TLAPS

LEMMA LibraryInit == Init => LibraryInv
<1> SUFFICES ASSUME Init PROVE LibraryInv
  OBVIOUS
<1>1. TypeOK
  BY DEF Init, TypeOK, PC, Serving, Running, Ends, Answers
<1>2. /\ log = {} /\ \A a \in Actors : pc[a] = "idle"
      /\ \A o \in Objects : row[o] = "absent" /\ file[o] = None
      /\ \A g \in Gets : code[g] = None
  BY DEF Init
<1>3. BytesInv /\ RowsInv /\ ActorsInv
  BY <1>2 DEF BytesInv, RowsInv, ActorsInv, Publishing, Removing, Actors
<1>4. FilesAreAccountedFor /\ UndeletedContentIsServed
  BY <1>2 DEF FilesAreAccountedFor, UndeletedContentIsServed
<1> QED
  BY <1>1, <1>3, <1>4 DEF LibraryInv

LEMMA TypeStep ==
  ASSUME TypeOK, [Next]_vars
  PROVE  TypeOK'
<1> USE DEF TypeOK, PC, Serving, Running, Ends, Answers, Actors, Goto, At, Respond
<1>1. ASSUME NEW p \in Puts, PutArrives(p) \/ Put(p)
      PROVE  TypeOK'
  BY <1>1 DEF PutArrives, Put, Look, Stream, Publish, Upsert
<1>2. ASSUME NEW g \in Gets, GetArrives(g) \/ Get(g)
      PROVE  TypeOK'
  <2>1. Copies(Sha(obj[g])) \subseteq Objects
    BY DEF Copies
  <2> QED
    BY <1>2, <2>1 DEF GetArrives, Get, Find, ReadRow, Verify, Open
<1>3. ASSUME NEW d \in Deletes, DeleteStarts(d) \/ Delete(d) \/ DeleteDies(d)
      PROVE  TypeOK'
  BY <1>3 DEF DeleteStarts, Delete, Mark, Remove, DeleteDies
<1>4. ASSUME NEW a \in Actors, Fails(a)
      PROVE  TypeOK'
  BY <1>4 DEF Fails
<1>5. Crash \/ UNCHANGED vars => TypeOK'
  BY DEF Crash, vars
<1> QED
  BY <1>1, <1>2, <1>3, <1>4, <1>5 DEF Next

-----------------------------------------------------------------------------
(***************************************************************************)
(* The invariant, by what a step does to rows and files.                   *)
(***************************************************************************)

\* Nobody but a moves; b keeps its place, its content and its bytes.
OnlyMoves(a) ==
  /\ \A b \in Actors \ {a} : pc'[b] = pc[b]
  /\ UNCHANGED <<obj, body>>

\* A move that leads neither to nor from a pending row or file.
QuietMove(a) ==
  /\ OnlyMoves(a)
  /\ pc[a] \notin {"upsert", "remove", "unwritten", "unremoved"}
  /\ pc'[a] \notin {"upsert", "remove", "publish"}
  /\ UNCHANGED <<row, log, file>>

LEMMA QuietStep ==
  ASSUME TypeOK, LibraryInv, NEW a \in Actors, QuietMove(a)
  PROVE  BytesInv' /\ RowsInv' /\ FilesAreAccountedFor'
<1> USE DEF LibraryInv, QuietMove, OnlyMoves
<1>1. \A o \in Objects : Publishing(o)' <=> Publishing(o)
  BY DEF Publishing, Actors
<1>2. \A o \in Objects : Removing(o)' <=> Removing(o)
  BY DEF Removing, Actors
<1>3. BytesInv'
  BY DEF BytesInv, Actors
<1>4. RowsInv'
  BY <1>1 DEF RowsInv
<1>5. \A o \in Objects : LeftBehind(o) => LeftBehind(o)'
  BY DEF LeftBehind, Actors
<1>6. FilesAreAccountedFor'
  BY <1>1, <1>2, <1>5 DEF FilesAreAccountedFor
<1> QED
  BY <1>3, <1>4, <1>6

\* Nobody comes back from where a failure ended it.
LEMMA LeftStays ==
  ASSUME TypeOK, [Next]_vars, NEW o \in Objects, LeftBehind(o)
  PROVE  LeftBehind(o)'
<1> USE DEF Actors, Goto, At, Respond
<1>1. PICK a \in Puts \cup Deletes : pc[a] \in {"unwritten", "unremoved"} /\ obj[a] = o
  BY DEF LeftBehind
<1>2. ASSUME NEW p \in Puts, PutArrives(p) \/ Put(p)
      PROVE  pc'[a] = pc[a] /\ obj'[a] = obj[a]
  BY <1>1, <1>2 DEF PutArrives, Put, Look, Stream, Publish, Upsert, TypeOK
<1>3. ASSUME NEW g \in Gets, GetArrives(g) \/ Get(g)
      PROVE  pc'[a] = pc[a] /\ obj'[a] = obj[a]
  <2>1. a # g
    BY ActorsAssumption
  <2>2. CASE Find(g)
    <3>1. /\ pc' = [pc EXCEPT ![g] = "done"] \/ pc' = [pc EXCEPT ![g] = "row"]
          /\ obj' = obj \/ \E c : obj' = [obj EXCEPT ![g] = c]
      BY <2>2 DEF Find
    <3> QED
      BY <2>1, <3>1 DEF TypeOK
  <2>3. CASE ~Find(g)
    BY <1>3, <2>1, <2>3 DEF GetArrives, Get, ReadRow, Verify, Open, TypeOK
  <2> QED
    BY <2>2, <2>3
<1>4. ASSUME NEW d \in Deletes, DeleteStarts(d) \/ Delete(d) \/ DeleteDies(d)
      PROVE  pc'[a] = pc[a] /\ obj'[a] = obj[a]
  BY <1>1, <1>4 DEF DeleteStarts, Delete, Mark, Remove, DeleteDies, TypeOK
<1>5. ASSUME NEW b \in Actors, Fails(b)
      PROVE  pc'[a] = pc[a] /\ obj'[a] = obj[a]
  BY <1>1, <1>5 DEF Fails, Running, Serving, TypeOK
<1>6. Crash \/ UNCHANGED vars => UNCHANGED <<pc, obj>>
  BY DEF Crash, vars
<1>7. pc'[a] = pc[a] /\ obj'[a] = obj[a]
  BY <1>2, <1>3, <1>4, <1>5, <1>6 DEF Next
<1> QED
  BY <1>1, <1>7 DEF LeftBehind

LEMMA PutStep ==
  ASSUME TypeOK, LibraryInv, NEW p \in Puts, PutArrives(p) \/ Put(p)
  PROVE  BytesInv' /\ RowsInv' /\ FilesAreAccountedFor'
<1> USE DEF Actors, Goto, At
<1>0. \A o \in Objects : LeftBehind(o) => LeftBehind(o)'
  BY LeftStays DEF Next
<1>1. CASE PutArrives(p) \/ Look(p)
  <2>1. QuietMove(p)
    BY <1>1 DEF PutArrives, Look, QuietMove, OnlyMoves, TypeOK
  <2> QED
    BY <2>1, QuietStep
<1>2. CASE Stream(p)
  <2>1. CASE pc'[p] = "done"
    <3>1. QuietMove(p)
      BY <1>2, <2>1 DEF Stream, QuietMove, OnlyMoves, TypeOK
    <3> QED
      BY <3>1, QuietStep
  <2>2. CASE pc'[p] # "done"
    <3>1. /\ body[p] = Sha(obj[p]) /\ pc[p] = "stream" /\ pc' = [pc EXCEPT ![p] = "publish"]
          /\ UNCHANGED <<row, log, file, obj, body>>
      BY <1>2, <2>2 DEF Stream, TypeOK
    <3>2. \A o \in Objects : (Publishing(o)' <=> Publishing(o)) /\ (Removing(o)' <=> Removing(o))
      BY <3>1 DEF Publishing, Removing, TypeOK
    <3>3. BytesInv'
      BY <3>1 DEF LibraryInv, BytesInv, TypeOK
    <3> QED
      BY <1>0, <3>1, <3>2, <3>3 DEF LibraryInv, RowsInv, FilesAreAccountedFor
  <2> QED
    BY <2>1, <2>2
<1>3. CASE Publish(p)
  <2>1. /\ pc[p] = "publish" /\ pc' = [pc EXCEPT ![p] = "upsert"]
        /\ file' = [file EXCEPT ![obj[p]] = body[p]]
        /\ body[p] = Sha(obj[p]) /\ obj[p] \in Objects
        /\ UNCHANGED <<row, log, obj, body>>
    BY <1>3 DEF Publish, LibraryInv, BytesInv, TypeOK
  <2>2. /\ file'[obj[p]] = Sha(obj[p]) /\ Sha(obj[p]) # None
        /\ \A o \in Objects : o # obj[p] => file'[o] = file[o]
    BY <2>1, ContentAssumption DEF TypeOK, Sha, Objects
  <2>3. \A o \in Objects : Publishing(o)' <=> Publishing(o) \/ o = obj[p]
    BY <2>1 DEF Publishing, TypeOK
  <2>4. \A o \in Objects : Removing(o)' <=> Removing(o)
    BY <2>1 DEF Removing, TypeOK
  <2>5. BytesInv'
    BY <2>1, <2>2 DEF LibraryInv, BytesInv, TypeOK
  <2>6. RowsInv'
    BY <2>1, <2>2, <2>3 DEF LibraryInv, RowsInv
  <2>7. FilesAreAccountedFor'
    BY <1>0, <2>1, <2>2, <2>3, <2>4 DEF LibraryInv, FilesAreAccountedFor
  <2> QED
    BY <2>5, <2>6, <2>7
<1>4. CASE Upsert(p)
  <2>1. /\ pc[p] = "upsert" /\ pc' = [pc EXCEPT ![p] = "done"]
        /\ row' = [row EXCEPT ![obj[p]] = "live"] /\ obj[p] \in Objects
        /\ UNCHANGED <<log, file, obj, body>>
    BY <1>4 DEF Upsert, TypeOK
  <2>2. /\ row'[obj[p]] = "live" /\ Publishing(obj[p])
        /\ \A o \in Objects : o # obj[p] => row'[o] = row[o]
    BY <2>1 DEF TypeOK, Publishing
  <2>3. \A o \in Objects : Publishing(o)' => Publishing(o)
    BY <2>1 DEF Publishing, TypeOK
  <2>4. \A o \in Objects : o # obj[p] => (Publishing(o)' <=> Publishing(o))
    BY <2>1 DEF Publishing, TypeOK
  <2>5. \A o \in Objects : Removing(o)' <=> Removing(o)
    BY <2>1 DEF Removing, TypeOK
  <2>6. BytesInv'
    BY <2>1 DEF LibraryInv, BytesInv, TypeOK
  <2>7. RowsInv'
    BY <2>1, <2>2, <2>3 DEF LibraryInv, RowsInv
  <2>8. FilesAreAccountedFor'
    BY <1>0, <2>1, <2>2, <2>4, <2>5 DEF LibraryInv, FilesAreAccountedFor
  <2> QED
    BY <2>6, <2>7, <2>8
<1> QED
  BY <1>1, <1>2, <1>3, <1>4 DEF Put

LEMMA DeleteStep ==
  ASSUME TypeOK, LibraryInv, NEW d \in Deletes, DeleteStarts(d) \/ Delete(d)
  PROVE  BytesInv' /\ RowsInv' /\ FilesAreAccountedFor'
<1> USE DEF Actors, Goto, At
<1>0. \A o \in Objects : LeftBehind(o) => LeftBehind(o)'
  BY LeftStays DEF Next
<1>1. CASE DeleteStarts(d) \/ (Mark(d) /\ row[obj[d]] # "live")
  <2>1. QuietMove(d)
    BY <1>1 DEF DeleteStarts, Mark, QuietMove, OnlyMoves, TypeOK
  <2> QED
    BY <2>1, QuietStep
<1>2. CASE Mark(d) /\ row[obj[d]] = "live"
  <2>1. /\ pc[d] = "mark" /\ pc' = [pc EXCEPT ![d] = "remove"] /\ obj[d] \in Objects
        /\ row' = [row EXCEPT ![obj[d]] = "deleted"] /\ log' = log \cup {obj[d]}
        /\ UNCHANGED <<file, obj, body>>
    BY <1>2 DEF Mark, TypeOK
  <2>2. /\ row'[obj[d]] = "deleted"
        /\ \A o \in Objects : o # obj[d] => row'[o] = row[o]
    BY <2>1 DEF TypeOK
  <2>3. \A o \in Objects : Publishing(o)' <=> Publishing(o)
    BY <2>1 DEF Publishing, TypeOK
  <2>4. \A o \in Objects : Removing(o)' <=> Removing(o) \/ o = obj[d]
    BY <2>1 DEF Removing, TypeOK
  <2>5. BytesInv'
    BY <2>1 DEF LibraryInv, BytesInv, TypeOK
  <2>6. RowsInv'
    BY <2>1, <2>2, <2>3 DEF LibraryInv, RowsInv, TypeOK
  <2>7. FilesAreAccountedFor'
    BY <1>0, <2>1, <2>2, <2>3, <2>4 DEF LibraryInv, FilesAreAccountedFor
  <2> QED
    BY <2>5, <2>6, <2>7
<1>3. CASE Remove(d)
  <2>1. /\ pc[d] = "remove" /\ pc' = [pc EXCEPT ![d] = "done"] /\ obj[d] \in Objects
        /\ file' = [file EXCEPT ![obj[d]] = None]
        /\ UNCHANGED <<row, log, obj, body>>
    BY <1>3 DEF Remove, TypeOK
  <2>2. /\ file'[obj[d]] = None /\ obj[d] \in log
        /\ \A o \in Objects : o # obj[d] => file'[o] = file[o]
    BY <2>1 DEF TypeOK, LibraryInv, ActorsInv
  <2>3. \A o \in Objects : Publishing(o)' <=> Publishing(o)
    BY <2>1 DEF Publishing, TypeOK
  <2>4. \A o \in Objects : o # obj[d] => (Removing(o)' <=> Removing(o))
    BY <2>1 DEF Removing, TypeOK
  <2>5. BytesInv'
    BY <2>1, <2>2 DEF LibraryInv, BytesInv, TypeOK
  <2>6. RowsInv'
    BY <2>1, <2>2, <2>3 DEF LibraryInv, RowsInv
  <2>7. FilesAreAccountedFor'
    BY <1>0, <2>1, <2>2, <2>3, <2>4 DEF LibraryInv, FilesAreAccountedFor
  <2> QED
    BY <2>5, <2>6, <2>7
<1> QED
  BY <1>1, <1>2, <1>3 DEF Delete

\* A read changes neither rows nor files, and only the administrator's choice of
\* a copy changes what it is about.
LEMMA GetStep ==
  ASSUME TypeOK, LibraryInv, NEW g \in Gets, GetArrives(g) \/ Get(g)
  PROVE  BytesInv' /\ RowsInv' /\ FilesAreAccountedFor'
<1> USE DEF Actors, Goto, At, Respond
<1>0. \A o \in Objects : LeftBehind(o) => LeftBehind(o)'
  BY LeftStays DEF Next
<1>1. /\ UNCHANGED <<row, log, file, body>>
      /\ pc[g] \notin {"upsert", "remove"}
      /\ pc'[g] \notin {"upsert", "remove", "publish"}
      /\ \A b \in Actors \ {g} : pc'[b] = pc[b] /\ obj'[b] = obj[b]
  <2>1. CASE GetArrives(g)
    BY <2>1 DEF GetArrives, TypeOK
  <2>2. CASE Find(g)
    <3>1. /\ UNCHANGED <<row, log, file, body>> /\ pc[g] = "find"
          /\ pc' = [pc EXCEPT ![g] = "done"] \/ pc' = [pc EXCEPT ![g] = "row"]
          /\ obj' = obj \/ \E o : obj' = [obj EXCEPT ![g] = o]
      BY <2>2 DEF Find
    <3> QED
      BY <3>1 DEF TypeOK
  <2>3. CASE ReadRow(g) \/ Verify(g) \/ Open(g)
    BY <2>3 DEF ReadRow, Verify, Open, TypeOK
  <2> QED
    BY <2>1, <2>2, <2>3 DEF Get
<1>2. \A o \in Objects : (Publishing(o)' <=> Publishing(o)) /\ (Removing(o)' <=> Removing(o))
  BY <1>1 DEF Publishing, Removing
<1>3. BytesInv'
  BY <1>1 DEF LibraryInv, BytesInv
<1> QED
  BY <1>0, <1>1, <1>2, <1>3 DEF LibraryInv, RowsInv, FilesAreAccountedFor

\* A failure changes neither rows nor files: what its actor had in hand is left behind.
LEMMA FailStep ==
  ASSUME TypeOK, LibraryInv, NEW a \in Actors, Fails(a)
  PROVE  BytesInv' /\ RowsInv' /\ FilesAreAccountedFor'
<1> USE DEF Goto
<1>1. /\ UNCHANGED <<row, log, file, obj, body>>
      /\ pc'[a] \in Ends
      /\ \A b \in Actors \ {a} : pc'[b] = pc[b]
  BY DEF Fails, Ends, TypeOK
<1>2. pc[a] = "upsert" \/ pc[a] = "remove" => pc'[a] \in {"unwritten", "unremoved"}
  BY DEF Fails, TypeOK
<1>3. \A o \in Objects : Publishing(o)' => Publishing(o)
  BY <1>1 DEF Publishing, Actors, Ends
<1>4. \A o \in Objects : Publishing(o) => Publishing(o)' \/ LeftBehind(o)'
  BY <1>1, <1>2 DEF Publishing, LeftBehind, Actors
<1>5. \A o \in Objects : Removing(o) => Removing(o)' \/ LeftBehind(o)'
  BY <1>1, <1>2 DEF Removing, LeftBehind, Actors
<1>6. \A o \in Objects : LeftBehind(o) => LeftBehind(o)'
  BY LeftStays DEF Next
<1>7. BytesInv'
  BY <1>1 DEF LibraryInv, BytesInv, Actors, Ends
<1>8. RowsInv'
  BY <1>1, <1>3 DEF LibraryInv, RowsInv
<1>9. FilesAreAccountedFor'
  BY <1>1, <1>4, <1>5, <1>6 DEF LibraryInv, FilesAreAccountedFor
<1> QED
  BY <1>7, <1>8, <1>9

\* Once a row is live it stays so until the command logs it.
LEMMA LiveUntilLogged ==
  ASSUME TypeOK, [Next]_vars
  PROVE  /\ log \subseteq log'
         /\ \A o \in Objects : row[o] = "live" => row'[o] = "live" \/ o \in log'
<1>1. ASSUME NEW p \in Puts, PutArrives(p) \/ Put(p)
      PROVE  /\ log' = log
             /\ \A o \in Objects : row[o] = "live" => row'[o] = "live"
  BY <1>1 DEF PutArrives, Put, Look, Stream, Publish, Upsert, TypeOK
<1>2. ASSUME NEW g \in Gets, GetArrives(g) \/ Get(g)
      PROVE  UNCHANGED <<row, log>>
  BY <1>2 DEF GetArrives, Get, Find, ReadRow, Verify, Open
<1>3. ASSUME NEW d \in Deletes, DeleteStarts(d) \/ Delete(d) \/ DeleteDies(d)
      PROVE  /\ log \subseteq log'
             /\ \A o \in Objects : row[o] = "live" => row'[o] = "live" \/ o \in log'
  <2>1. CASE Mark(d) /\ row[obj[d]] = "live"
    BY <2>1 DEF Mark, TypeOK
  <2>2. CASE ~(Mark(d) /\ row[obj[d]] = "live")
    BY <1>3, <2>2 DEF DeleteStarts, Delete, Mark, Remove, DeleteDies
  <2> QED
    BY <2>1, <2>2
<1>4. ASSUME NEW a \in Actors, Fails(a)
      PROVE  UNCHANGED <<row, log>>
  BY <1>4 DEF Fails
<1>5. Crash \/ UNCHANGED vars => UNCHANGED <<row, log>>
  BY DEF Crash, vars
<1> QED
  BY <1>1, <1>2, <1>3, <1>4, <1>5 DEF Next

\* What a reader relies on, and what it answers.
ReaderInv(g) ==
  /\ pc[g] \in {"verify", "open"} => obj[g] \in log \/ row[obj[g]] = "live"
  /\ pc[g] \notin Ends => code[g] = None
  /\ obj[g] \notin log => code[g] \in {None, "200", "404", "failed"}

LEMMA ReaderStep ==
  ASSUME TypeOK, LibraryInv, [Next]_vars, NEW g \in Gets
  PROVE  ReaderInv(g)'
<1> USE DEF Actors, Goto, At, Respond, Ends
<1>1. ReaderInv(g) /\ obj[g] \in Objects
  BY DEF LibraryInv, ActorsInv, UndeletedContentIsServed, ReaderInv, TypeOK
<1>2. CASE pc'[g] = pc[g] /\ obj'[g] = obj[g] /\ code'[g] = code[g]
  BY <1>1, <1>2, LiveUntilLogged DEF ReaderInv
<1>3. ASSUME GetArrives(g) \/ Get(g)
      PROVE  ReaderInv(g)'
  <2>1. CASE GetArrives(g)
    BY <1>1, <2>1 DEF GetArrives, ReaderInv, TypeOK
  <2>2. CASE Find(g)
    <3>1. pc[g] = "find" /\ log' = log /\ code[g] = None
      BY <1>1, <2>2 DEF Find, ReaderInv
    <3>2. \/ pc'[g] = "done" /\ code'[g] = "404" /\ obj' = obj
          \/ pc'[g] = "row" /\ code' = code
      BY <2>2 DEF Find, TypeOK
    <3> QED
      BY <3>1, <3>2 DEF ReaderInv
  <2>3. CASE ReadRow(g)
    <3>1. pc[g] = "row" /\ UNCHANGED <<row, log, obj>> /\ code[g] = None
      BY <1>1, <2>3 DEF ReadRow, ReaderInv
    <3>2. \/ pc'[g] = "verify" /\ code' = code /\ row[obj[g]] = "live"
          \/ pc'[g] = "done" /\ code'[g] = "410" /\ row[obj[g]] = "deleted"
          \/ pc'[g] = "done" /\ code'[g] = "404"
      BY <2>3 DEF ReadRow, TypeOK
    <3>3. row[obj[g]] = "deleted" => obj[g] \in log
      BY <1>1 DEF LibraryInv, RowsInv
    <3> QED
      BY <3>1, <3>2, <3>3 DEF ReaderInv
  <2>4. CASE Verify(g) \/ Open(g)
    <3>1. pc[g] \in {"verify", "open"} /\ UNCHANGED <<row, log, obj, file>> /\ code[g] = None
      BY <1>1, <2>4 DEF Verify, Open, ReaderInv
    <3>2. obj[g] \notin log => file[obj[g]] = Sha(obj[g]) /\ file[obj[g]] # None
      BY <1>1, <3>1 DEF ReaderInv, LibraryInv, RowsInv, BytesInv
    <3>3. \/ pc'[g] = "done" /\ code'[g] = "200"
          \/ pc'[g] = "open" /\ code' = code
          \/ pc'[g] = "done" /\ obj[g] \in log
      BY <2>4, <3>2 DEF Verify, Open, TypeOK
    <3> QED
      BY <1>1, <3>1, <3>3 DEF ReaderInv
  <2> QED
    BY <1>3, <2>1, <2>2, <2>3, <2>4 DEF Get
<1>4. ASSUME NEW h \in Gets, h # g, GetArrives(h) \/ Get(h)
      PROVE  pc'[g] = pc[g] /\ obj'[g] = obj[g] /\ code'[g] = code[g]
  <2>1. CASE Find(h)
    <3>1. /\ pc' = [pc EXCEPT ![h] = "done"] \/ pc' = [pc EXCEPT ![h] = "row"]
          /\ obj' = obj \/ \E o : obj' = [obj EXCEPT ![h] = o]
          /\ code' = code \/ code' = [code EXCEPT ![h] = "404"]
      BY <2>1 DEF Find
    <3> QED
      BY <1>4, <3>1 DEF TypeOK
  <2>2. CASE ~Find(h)
    BY <1>4, <2>2 DEF GetArrives, Get, ReadRow, Verify, Open, TypeOK
  <2> QED
    BY <2>1, <2>2
<1>5. CASE Crash \/ UNCHANGED vars
  BY <1>2, <1>5 DEF Crash, vars
<1>6. ASSUME NEW p \in Puts, PutArrives(p) \/ Put(p)
      PROVE  pc'[g] = pc[g] /\ obj'[g] = obj[g] /\ code'[g] = code[g]
  BY <1>6, ActorsAssumption DEF PutArrives, Put, Look, Stream, Publish, Upsert, TypeOK
<1>7. ASSUME NEW d \in Deletes, DeleteStarts(d) \/ Delete(d) \/ DeleteDies(d)
      PROVE  pc'[g] = pc[g] /\ obj'[g] = obj[g] /\ code'[g] = code[g]
  BY <1>7, ActorsAssumption DEF DeleteStarts, Delete, Mark, Remove, DeleteDies, TypeOK
<1>8. ASSUME NEW a \in Actors, Fails(a)
      PROVE  ReaderInv(g)'
  <2>1. CASE a = g
    BY <1>1, <1>8, <2>1 DEF Fails, ReaderInv, TypeOK
  <2>2. CASE a # g
    <3>1. pc'[g] = pc[g] /\ obj'[g] = obj[g] /\ code'[g] = code[g]
      BY <1>8, <2>2 DEF Fails, TypeOK
    <3> QED
      BY <1>2, <3>1
  <2> QED
    BY <2>1, <2>2
<1> QED
  BY <1>2, <1>3, <1>4, <1>5, <1>6, <1>7, <1>8 DEF Next

\* What a run is about to remove it has marked, and marks are never undone.
LEMMA RemoverStep ==
  ASSUME TypeOK, LibraryInv, [Next]_vars, NEW d \in Deletes, pc'[d] = "remove"
  PROVE  obj'[d] \in log'
<1> USE DEF Actors, Goto, At, Respond
<1>1. CASE pc[d] = "remove" /\ obj'[d] = obj[d]
  BY <1>1, LiveUntilLogged DEF LibraryInv, ActorsInv
<1>2. CASE Mark(d)
  BY <1>2 DEF Mark, TypeOK
<1>3. ASSUME NEW e \in Deletes, DeleteStarts(e) \/ Delete(e) \/ DeleteDies(e), ~Mark(d)
      PROVE  pc[d] = "remove" /\ obj'[d] = obj[d]
  BY <1>3 DEF DeleteStarts, Delete, Mark, Remove, DeleteDies, TypeOK
<1>4. ASSUME NEW p \in Puts, PutArrives(p) \/ Put(p)
      PROVE  pc[d] = "remove" /\ obj'[d] = obj[d]
  BY <1>4, ActorsAssumption DEF PutArrives, Put, Look, Stream, Publish, Upsert, TypeOK
<1>5. ASSUME NEW g \in Gets, GetArrives(g) \/ Get(g)
      PROVE  pc[d] = "remove" /\ obj'[d] = obj[d]
  <2>1. d # g
    BY ActorsAssumption
  <2>2. CASE Find(g)
    <3>1. /\ pc' = [pc EXCEPT ![g] = "done"] \/ pc' = [pc EXCEPT ![g] = "row"]
          /\ obj' = obj \/ \E o : obj' = [obj EXCEPT ![g] = o]
      BY <2>2 DEF Find
    <3> QED
      BY <2>1, <3>1 DEF TypeOK
  <2>3. CASE ~Find(g)
    BY <1>5, <2>1, <2>3 DEF GetArrives, Get, ReadRow, Verify, Open, TypeOK
  <2> QED
    BY <2>2, <2>3
<1>6. CASE Crash \/ UNCHANGED vars
  BY <1>1, <1>6 DEF Crash, vars
<1>7. ASSUME NEW a \in Actors, Fails(a)
      PROVE  pc[d] = "remove" /\ obj'[d] = obj[d]
  BY <1>7 DEF Fails, TypeOK
<1> QED
  BY <1>1, <1>2, <1>3, <1>4, <1>5, <1>6, <1>7 DEF Next

LEMMA LibraryStep == LibraryInv /\ [Next]_vars => LibraryInv'
<1> SUFFICES ASSUME LibraryInv, [Next]_vars PROVE LibraryInv'
  OBVIOUS
<1>1. TypeOK /\ TypeOK'
  BY TypeStep DEF LibraryInv
<1>2. BytesInv' /\ RowsInv' /\ FilesAreAccountedFor'
  <2>1. CASE Crash \/ UNCHANGED vars \/ \E d \in Deletes : DeleteDies(d)
    <3>1. UNCHANGED <<row, log, file, pc, obj, body>>
      BY <2>1 DEF Crash, DeleteDies, vars
    <3> QED
      BY <3>1 DEF LibraryInv, BytesInv, RowsInv, FilesAreAccountedFor, Publishing, Removing,
         LeftBehind
  <2> QED
    BY <1>1, <2>1, PutStep, GetStep, DeleteStep, FailStep DEF Next
<1>3. \A g \in Gets : ReaderInv(g)'
  BY <1>1, ReaderStep
<1>4. ActorsInv'
  BY <1>1, <1>3, RemoverStep DEF ActorsInv, ReaderInv
<1>5. UndeletedContentIsServed'
  BY <1>2, <1>3 DEF UndeletedContentIsServed, ReaderInv, RowsInv, BytesInv
<1> QED
  BY <1>1, <1>2, <1>4, <1>5 DEF LibraryInv

\* The inductive invariant, for any number of uploads, reads, runs of the command
\* and deaths and failures of either process.
THEOREM LibraryInvariant == Spec => []LibraryInv
  BY LibraryInit, LibraryStep, PTL DEF Spec

\* Content that was never deleted is there and is served.
THEOREM UndeletedIsServed == Spec => []UndeletedContentIsServed
  BY LibraryInvariant, PTL DEF LibraryInv

\* Bytes without a live row are on their way, or somebody broke off at the last step
\* of an upload or of a deletion, by death or by failure.
THEOREM NoStrayFiles == Spec => []FilesAreAccountedFor
  BY LibraryInvariant, PTL DEF LibraryInv

-----------------------------------------------------------------------------
(***************************************************************************)
(* What a submission sees of the library: ContentRows.                     *)
(***************************************************************************)

LEMMA RowWriters ==
  ASSUME TypeOK, [Next]_vars
  PROVE  \/ UNCHANGED row
         \/ \E o \in Objects : row' = [row EXCEPT ![o] = "live"]
         \/ \E o \in Objects : row[o] = "live" /\ row' = [row EXCEPT ![o] = "deleted"]
<1>1. ASSUME NEW p \in Puts, PutArrives(p) \/ Put(p)
      PROVE  UNCHANGED row \/ \E o \in Objects : row' = [row EXCEPT ![o] = "live"]
  <2>1. CASE Upsert(p)
    <3>1. obj[p] \in Objects /\ row' = [row EXCEPT ![obj[p]] = "live"]
      BY <2>1 DEF Upsert, TypeOK, Actors
    <3> QED
      BY <3>1
  <2>2. CASE ~Upsert(p)
    BY <1>1, <2>2 DEF PutArrives, Put, Look, Stream, Publish
  <2> QED
    BY <2>1, <2>2
<1>2. ASSUME NEW g \in Gets, GetArrives(g) \/ Get(g)
      PROVE  UNCHANGED row
  BY <1>2 DEF GetArrives, Get, Find, ReadRow, Verify, Open
<1>3. ASSUME NEW d \in Deletes, DeleteStarts(d) \/ Delete(d) \/ DeleteDies(d)
      PROVE  \/ UNCHANGED row
             \/ \E o \in Objects : row[o] = "live" /\ row' = [row EXCEPT ![o] = "deleted"]
  <2>1. CASE Mark(d) /\ row[obj[d]] = "live"
    <3>1. /\ obj[d] \in Objects /\ row[obj[d]] = "live"
          /\ row' = [row EXCEPT ![obj[d]] = "deleted"]
      BY <2>1 DEF Mark, TypeOK, Actors
    <3> QED
      BY <3>1
  <2>2. CASE ~(Mark(d) /\ row[obj[d]] = "live")
    BY <1>3, <2>2 DEF DeleteStarts, Delete, Mark, Remove, DeleteDies
  <2> QED
    BY <2>1, <2>2
<1>4. Crash \/ (\E a \in Actors : Fails(a)) \/ UNCHANGED vars => UNCHANGED row
  BY DEF Crash, Fails, vars
<1> QED
  BY <1>1, <1>2, <1>3, <1>4 DEF Next

LEMMA RowsRefine ==
  LibraryInv /\ [Next]_vars => [Rows!Next]_row
<1> SUFFICES ASSUME LibraryInv, [Next]_vars PROVE [Rows!Next]_row
  OBVIOUS
<1>1. row \in [Objects -> {"absent", "live", "deleted"}]
  BY DEF LibraryInv, TypeOK
<1>2. ASSUME NEW o \in Objects, row' = [row EXCEPT ![o] = "live"]
      PROVE  [Rows!Next]_row
  <2>1. CASE row[o] = "live"
    BY <1>1, <1>2, <2>1
  <2>2. CASE row[o] # "live"
    <3>1. Rows!Upload(o)
      BY <1>2, <2>2 DEF Rows!Upload
    <3> QED
      BY <3>1 DEF Rows!Next
  <2> QED
    BY <2>1, <2>2
<1>3. ASSUME NEW o \in Objects, row[o] = "live", row' = [row EXCEPT ![o] = "deleted"]
      PROVE  [Rows!Next]_row
  <2>1. Rows!Delete(o)
    BY <1>3 DEF Rows!Delete
  <2> QED
    BY <2>1 DEF Rows!Next
<1> QED
  BY <1>2, <1>3, RowWriters DEF LibraryInv

LEMMA RowsInit == Init => Rows!Init
  BY DEF Init, Rows!Init

\* The library of the server and the command, with its files, races and deaths,
\* gives a submission nothing but the rows of ContentRows.
THEOREM RowsOnly == Spec => ImplementsContentRows
  BY LibraryInvariant, RowsRefine, RowsInit, PTL DEF Spec, Rows!Spec, ImplementsContentRows
=============================================================================
