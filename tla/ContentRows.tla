----------------------------- MODULE ContentRows -----------------------------
(***************************************************************************)
(* What a submission sees of the content library: rows that are uploaded,  *)
(* deleted and uploaded again, each in one step, and never removed.        *)
(* RecordLedger takes its steps of the library from here; ContentLibrary   *)
(* implements them with files, requests, runs of the command and deaths.   *)
(***************************************************************************)
CONSTANT Objects   \* a piece of content of one owner

VARIABLE content   \* content_objects

Init == content = [o \in Objects |-> "absent"]

Upload(o) ==
  /\ content[o] # "live"
  /\ content' = [content EXCEPT ![o] = "live"]

Delete(o) ==
  /\ content[o] = "live"
  /\ content' = [content EXCEPT ![o] = "deleted"]

Next == \E o \in Objects : Upload(o) \/ Delete(o)

Spec == Init /\ [][Next]_content
=============================================================================
