--------------------------- MODULE ContentLibrary ---------------------------
(***************************************************************************)
(* The content library: PUT, GET and HEAD /v1/content/{sha256} of the      *)
(* api-server (pages/v1/content/[sha256].ts over lib/content-store.ts) and *)
(* the operator's delete-content command.  A piece of content is a row of  *)
(* content_objects and a file; no transaction spans the two, and the       *)
(* command runs in a process of its own.                                   *)
(***************************************************************************)
EXTENDS FiniteSets

CONSTANTS
  Owners, Shas,
  Junk,     \* the digest of bytes that hash to no member of Shas
  Puts,     \* PUT requests
  Gets,     \* GET and HEAD requests
  Deletes,  \* runs of delete-content
  None

ASSUME ContentAssumption == None \notin Shas /\ Junk \notin Shas /\ None # Junk
ASSUME ActorsAssumption ==
  Puts \cap Gets = {} /\ Puts \cap Deletes = {} /\ Gets \cap Deletes = {}

\* One piece of content: each owner has a namespace of its own.
Objects == Owners \X Shas

VARIABLES
  row,   \* content_objects
  log,   \* content_deletions: what was ever deleted
  file,  \* the file under the content's name: the digest of its bytes
  pc,    \* where each request and each run of the command stands
  obj,   \* the content it is about
  body,  \* the digest of what a PUT sends
  code,  \* what a GET or HEAD has answered
  dead   \* requests and runs whose process died

vars == <<row, log, file, pc, obj, body, code, dead>>

Actors == Puts \cup Gets \cup Deletes

Serving == {"look", "stream", "publish", "upsert", "find", "row", "verify", "open"}
Running == Serving \cup {"mark", "remove"}
\* Where an actor ends; the last two are those of a failed upsert and a failed rm.
Ends == {"done", "unwritten", "unremoved"}
PC == Running \cup Ends \cup {"idle"}
\* "failed" is the 500, or the body broken off, of a read that itself failed and so
\* says nothing of the content.
Answers == {None, "200", "404", "410", "500", "broken", "failed"}

TypeOK ==
  /\ row \in [Objects -> {"absent", "live", "deleted"}]
  /\ log \subseteq Objects
  /\ file \in [Objects -> Shas \cup {Junk, None}]
  /\ pc \in [Actors -> PC]
  /\ obj \in [Actors -> Objects]
  /\ body \in [Puts -> Shas \cup {Junk}]
  /\ code \in [Gets -> Answers]
  /\ dead \subseteq Actors

Init ==
  /\ row = [o \in Objects |-> "absent"]
  /\ log = {}
  /\ file = [o \in Objects |-> None]
  /\ pc = [a \in Actors |-> "idle"]
  /\ obj \in [Actors -> Objects]
  /\ body \in [Puts -> Shas \cup {Junk}]
  /\ code = [g \in Gets |-> None]
  /\ dead = {}

Sha(o) == o[2]

\* An actor that is alive goes from one place to another.
At(a, here) == pc[a] = here /\ a \notin dead
Goto(a, there) == pc' = [pc EXCEPT ![a] = there]

-----------------------------------------------------------------------------
(***************************************************************************)
(* PUT.                                                                    *)
(***************************************************************************)

PutArrives(p) ==
  /\ At(p, "idle")
  /\ Goto(p, "look")
  /\ UNCHANGED <<row, log, file, obj, body, code, dead>>

\* A live row answers 200 and the body is not read.
Look(p) ==
  /\ At(p, "look")
  /\ Goto(p, IF row[obj[p]] = "live" THEN "done" ELSE "stream")
  /\ UNCHANGED <<row, log, file, obj, body, code, dead>>

\* Faulty: the digest is not compared.
StreamUnchecked(p) ==
  /\ At(p, "stream")
  /\ Goto(p, "publish") \/ Goto(p, "done")
  /\ UNCHANGED <<row, log, file, obj, body, code, dead>>

\* The body goes to a temporary file, hashed on the way; it may be too large or
\* break off.  The temporary file is removed in any case.
Stream(p) ==
  /\ At(p, "stream")
  /\ \/ body[p] = Sha(obj[p]) /\ Goto(p, "publish")
     \/ Goto(p, "done")
  /\ UNCHANGED <<row, log, file, obj, body, code, dead>>

\* rename(2): the file appears whole, or is replaced.
Publish(p) ==
  /\ At(p, "publish")
  /\ file' = [file EXCEPT ![obj[p]] = body[p]]
  /\ Goto(p, "upsert")
  /\ UNCHANGED <<row, log, obj, body, code, dead>>

\* The row is created or brought back to life.  A statement already sent runs
\* to its end without the server, or without the server hearing of it.
Upsert(p) ==
  /\ pc[p] = "upsert"
  /\ row' = [row EXCEPT ![obj[p]] = "live"]
  /\ Goto(p, "done")
  /\ UNCHANGED <<log, file, obj, body, code, dead>>

Put(p) == Look(p) \/ Stream(p) \/ Publish(p) \/ Upsert(p)

-----------------------------------------------------------------------------
(***************************************************************************)
(* GET and HEAD.                                                           *)
(***************************************************************************)

Respond(g, answer) ==
  /\ code' = [code EXCEPT ![g] = answer]
  /\ Goto(g, "done")

GetArrives(g) ==
  /\ At(g, "idle")
  /\ \E where \in {"row", "find"} : Goto(g, where)
  /\ UNCHANGED <<row, log, file, obj, body, code, dead>>

\* The administrator reads whichever owner's copy there is, a live one first.
Copies(s) ==
  LET kept(state) == {o \in Objects : Sha(o) = s /\ row[o] = state} IN
  IF kept("live") # {} THEN kept("live") ELSE kept("deleted")

Find(g) ==
  /\ At(g, "find")
  /\ IF Copies(Sha(obj[g])) = {}
     THEN Respond(g, "404") /\ UNCHANGED obj
     ELSE /\ \E o \in Copies(Sha(obj[g])) : obj' = [obj EXCEPT ![g] = o]
          /\ Goto(g, "row")
          /\ UNCHANGED code
  /\ UNCHANGED <<row, log, file, body, dead>>

ReadRow(g) ==
  /\ At(g, "row")
  /\ IF row[obj[g]] = "live"
     THEN Goto(g, "verify") /\ UNCHANGED code
     ELSE Respond(g, IF row[obj[g]] = "deleted" THEN "410" ELSE "404")
  /\ UNCHANGED <<row, log, file, obj, body, dead>>

\* verifiedObject reads the whole file; HEAD answers, GET opens it once more.
Verify(g) ==
  /\ At(g, "verify")
  /\ IF file[obj[g]] = Sha(obj[g])
     THEN Respond(g, "200") \/ (Goto(g, "open") /\ UNCHANGED code)
     ELSE Respond(g, "500")
  /\ UNCHANGED <<row, log, file, obj, body, dead>>

\* The headers are sent by now: a file that is gone breaks the body off.
Open(g) ==
  /\ At(g, "open")
  /\ Respond(g, IF file[obj[g]] = None THEN "broken" ELSE "200")
  /\ UNCHANGED <<row, log, file, obj, body, dead>>

Get(g) == Find(g) \/ ReadRow(g) \/ Verify(g) \/ Open(g)

-----------------------------------------------------------------------------
(***************************************************************************)
(* delete-content.                                                         *)
(***************************************************************************)

DeleteStarts(d) ==
  /\ At(d, "idle")
  /\ Goto(d, "mark")
  /\ UNCHANGED <<row, log, file, obj, body, code, dead>>

\* Faulty: the run goes on when there was nothing to mark.
MarkAndGoOn(d) ==
  /\ At(d, "mark")
  /\ Goto(d, "remove")
  /\ IF row[obj[d]] = "live"
     THEN row' = [row EXCEPT ![obj[d]] = "deleted"] /\ log' = log \cup {obj[d]}
     ELSE UNCHANGED <<row, log>>
  /\ UNCHANGED <<file, obj, body, code, dead>>

\* One transaction marks the row and writes the log; content that is not live
\* ends the run.
Mark(d) ==
  /\ At(d, "mark")
  /\ IF row[obj[d]] = "live"
     THEN /\ row' = [row EXCEPT ![obj[d]] = "deleted"]
          /\ log' = log \cup {obj[d]}
          /\ Goto(d, "remove")
     ELSE Goto(d, "done") /\ UNCHANGED <<row, log>>
  /\ UNCHANGED <<file, obj, body, code, dead>>

\* Faulty: the file is looked for where no owner has one.
RemoveElsewhere(d) ==
  /\ At(d, "remove")
  /\ Goto(d, "done")
  /\ UNCHANGED <<row, log, file, obj, body, code, dead>>

Remove(d) ==
  /\ At(d, "remove")
  /\ file' = [file EXCEPT ![obj[d]] = None]
  /\ Goto(d, "done")
  /\ UNCHANGED <<row, log, obj, body, code, dead>>

Delete(d) == Mark(d) \/ Remove(d)

-----------------------------------------------------------------------------

\* The server dies with all requests it is serving.
Crash ==
  /\ dead' = dead \cup {a \in Puts \cup Gets : pc[a] \in Serving}
  /\ dead' # dead
  /\ UNCHANGED <<row, log, file, pc, obj, body, code>>

\* A run of the command is killed.
DeleteDies(d) ==
  /\ pc[d] \in {"mark", "remove"} /\ d \notin dead
  /\ dead' = dead \cup {d}
  /\ UNCHANGED <<row, log, file, pc, obj, body, code>>

\* A statement or a file operation of a living process throws, and no code catches
\* it: a request is answered 500, a run of the command ends.  What was done stays
\* done; there is no second try.
Fails(a) ==
  /\ pc[a] \in Running /\ a \notin dead
  /\ Goto(a, CASE pc[a] = "upsert" -> "unwritten"
               [] pc[a] = "remove" -> "unremoved"
               [] OTHER -> "done")
  /\ code' = IF a \in Gets THEN [code EXCEPT ![a] = "failed"] ELSE code
  /\ UNCHANGED <<row, log, file, obj, body, dead>>

Finished == \A a \in Actors : pc[a] \in Ends \/ a \in dead

Next ==
  \/ \E p \in Puts : PutArrives(p) \/ Put(p)
  \/ \E g \in Gets : GetArrives(g) \/ Get(g)
  \/ \E d \in Deletes : DeleteStarts(d) \/ Delete(d) \/ DeleteDies(d)
  \/ \E a \in Actors : Fails(a)
  \/ Crash
  \/ Finished /\ UNCHANGED vars

Spec == Init /\ [][Next]_vars

\* What has started goes on, unless its process dies or a step of it fails.
FairSpec ==
  /\ Spec
  /\ \A p \in Puts : WF_vars(p \notin dead /\ Put(p))
  /\ \A g \in Gets : WF_vars(Get(g))
  /\ \A d \in Deletes : WF_vars(Delete(d))

-----------------------------------------------------------------------------
(***************************************************************************)
(* Properties.                                                             *)
(***************************************************************************)

Publishing(o) == \E p \in Puts : pc[p] = "upsert" /\ obj[p] = o
Removing(o) == \E d \in Deletes : pc[d] = "remove" /\ obj[d] = o

\* Content nobody ever deleted is there when its row says so, and is served to
\* whoever can read at all: no upload, crash, failure or run of the command for
\* other content gets in its way (the file is published before the row, the command
\* marks before it removes).
UndeletedContentIsServed ==
  /\ \A o \in Objects \ log : row[o] = "live" => file[o] = Sha(o)
  /\ \A g \in Gets : obj[g] \notin log => code[g] \in {None, "200", "404", "failed"}

\* The upsert after a rename failed, or the rm after a mark.
LeftBehind(o) == \E a \in Puts \cup Deletes : pc[a] \in {"unwritten", "unremoved"} /\ obj[a] = o

\* Bytes without a live row are on their way, in or out, or an upload or the command
\* broke off at its very last step: somebody still has the row to write or the file
\* to remove, or died before doing so, or tried and failed.  Whatever else dies,
\* fails or comes in between leaves no bytes of deleted content behind.
FilesAreAccountedFor ==
  \A o \in Objects :
    file[o] # None /\ row[o] # "live" => Publishing(o) \/ Removing(o) \/ LeftBehind(o)

\* A live row has its bytes ("already stored -> 200" of a PUT, which looks at
\* the row alone).  The code does not guarantee it: the command removes a file
\* that was uploaded again since it marked the row.
LiveContentIsThere == \A o \in Objects : row[o] = "live" => file[o] # None

\* Deleted content loses its bytes in the end, unless it is uploaded again or an
\* upload or the command died or failed before its last step was done ("then removes
\* the bytes from the content store").
Abandoned(o) ==
  LeftBehind(o) \/ \E a \in dead : obj[a] = o /\ pc[a] \in {"upsert", "remove"}

DeletedBytesGo ==
  \A o \in Objects :
    row[o] = "deleted" /\ file[o] # None
      ~> file[o] = None \/ row[o] = "live" \/ Abandoned(o)

\* Whatever happens to the files and to those at work on them, the rows are those
\* submissions read: uploaded, deleted and uploaded again, each in one step.
Rows == INSTANCE ContentRows WITH content <- row
ImplementsContentRows == Rows!Spec

-----------------------------------------------------------------------------
(***************************************************************************)
(* The inductive invariant.                                                *)
(***************************************************************************)

\* A file hashes to its name, and so does what is about to become one.
BytesInv ==
  /\ \A o \in Objects : file[o] \in {None, Sha(o)}
  /\ \A p \in Puts : pc[p] = "publish" => body[p] = Sha(obj[p])

\* A row was published before it was written; rows stay.
RowsInv ==
  /\ \A o \in Objects \ log : row[o] = "live" \/ Publishing(o) => file[o] # None
  /\ \A o \in log : row[o] # "absent"
  /\ \A o \in Objects : row[o] = "deleted" => o \in log

\* What a run of the command is about to remove it has marked; what a reader is
\* about to open it has found live, and it has not answered yet.
ActorsInv ==
  /\ \A d \in Deletes : pc[d] = "remove" => obj[d] \in log
  /\ \A g \in Gets :
       /\ pc[g] \in {"verify", "open"} => obj[g] \in log \/ row[obj[g]] = "live"
       /\ pc[g] \notin Ends => code[g] = None

LibraryInv ==
  /\ TypeOK
  /\ BytesInv
  /\ RowsInv
  /\ ActorsInv
  /\ FilesAreAccountedFor
  /\ UndeletedContentIsServed
=============================================================================
