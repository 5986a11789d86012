---------------------------- MODULE IdempotentLog ---------------------------
(***************************************************************************)
(* What the ledger promises about submissions, with no word about how: a   *)
(* write-once store of records and the acknowledgements given for them.    *)
(* RecordLedger implements it (README, "Refinement").                      *)
(***************************************************************************)
EXTENDS Naturals

VARIABLES
  stored,  \* the rows: [seq, ts, sub], sub being the record as submitted
  acks     \* the acknowledgements given: [to, sub, ack]

Init == stored = {} /\ acks = {}

\* The acknowledgement given to request "to" for the record of row r.
AckOf(to, sub, r, dup) ==
  [to |-> to, sub |-> sub,
   ack |-> [kind |-> "ack", is_duplicate |-> dup, server_ts |-> r.ts,
            session |-> r.sub.session]]

\* A record may be stored when nothing has its id or its place in the order
\* and everything it builds on comes before it.
Storable(r) ==
  /\ \A q \in stored : q.sub.id # r.sub.id /\ q.seq # r.seq
  /\ \A u \in r.sub.upstream :
       \E q \in stored : q.sub.id = u /\ q.sub.agent = r.sub.agent /\ q.seq < r.seq

\* Nobody is answered twice.
Fresh(to) == \A a \in acks : a.to # to

\* A row is added, and its writer hears so or, the server having died, does not.
Store(r) ==
  /\ Storable(r)
  /\ stored' = stored \cup {r}
  /\ \/ UNCHANGED acks
     \/ \E a \in acks' \ acks :
          /\ Fresh(a.to)
          /\ acks' = acks \cup {AckOf(a.to, r.sub, r, FALSE)}

\* A record already stored is acknowledged as it was stored.
Repeat(a) ==
  /\ Fresh(a.to)
  /\ \E r \in stored :
       /\ r.sub.id = a.sub.id /\ r.sub.agent = a.sub.agent
       /\ acks' = acks \cup {AckOf(a.to, a.sub, r, TRUE)}
  /\ UNCHANGED stored

\* What was added is read off the step, so that no set of all rows is needed.
Next ==
  \/ \E r \in stored' \ stored : Store(r)
  \/ \E a \in acks' \ acks : Repeat(a)

Spec == Init /\ [][Next]_<<stored, acks>>
=============================================================================
