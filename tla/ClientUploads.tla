---------------------------- MODULE ClientUploads ----------------------------
(***************************************************************************)
(* What an SDK client does before its records are posted (client.py,       *)
(* encryption.py, client.ts), and what becomes of the data keys it         *)
(* registers (lib/content-keys.ts): values are encrypted with a data key   *)
(* per session, the keys are registered, the content is uploaded, and the  *)
(* records are posted.  A request that gets no answer is sent again, and   *)
(* the server may still be serving the first one.  Meanwhile the owner     *)
(* rotates the master key and opens the page of a session                  *)
(* ([session].astro, scripts/decrypt.ts).                                  *)
(* A data key is named by the writer and the session it was made for, a    *)
(* ciphertext by the value and by where it was encrypted: both are random. *)
(***************************************************************************)
EXTENDS Naturals, Sequences, FiniteSetsExt, Sorting

CONSTANTS
  Writers, Sdk,       \* clients, and the SDK of each: "python" or "typescript"
  Encrypting,         \* the ones configured with ContentEncryption (Python has it)
  Programs,           \* what the writers may do: for each one, a sequence of calls
  Watched,            \* the programs during which keys are rotated and a page is opened
  Sessions, Rank,     \* sessions, and the order of the data keys' ids
  Values,             \* what the records say
  TooLarge,           \* values whose upload the server refuses
  Attempts,           \* DEFAULT_RETRY.attempts
  PageLimit,          \* keys per page of GET /v1/content-keys
  MaxFaults,          \* attempts that get no answer: a bound of the model
  None

DataKeys == Writers \X Sessions
Actors == Writers \cup {"rotator"}   \* who puts keys

InputRecord == [valid : BOOLEAN, encodable : BOOLEAN, session : Sessions,
                values : Seq([value : Values, given : BOOLEAN])]
Calls == {call \in [batch : BOOLEAN, fits : BOOLEAN, inputs : Seq(InputRecord)] :
            call.batch \/ Len(call.inputs) = 1}

ASSUME UploadsAssumption ==
  /\ IsFiniteSet(Writers) /\ IsFiniteSet(Sessions) /\ "rotator" \notin Writers
  /\ Sdk \in [Writers -> {"python", "typescript"}]
  /\ \A w \in Writers \cap Encrypting : Sdk[w] = "python"
  /\ Programs \subseteq [Writers -> Seq(Calls)]
  /\ None \notin DataKeys \cup {"old", "new"}
  /\ Rank \in [DataKeys -> Nat]
  /\ \A k, l \in DataKeys : Rank[k] = Rank[l] => k = l
  /\ Attempts \in Nat \ {0} /\ PageLimit \in Nat \ {0}

VARIABLES
  program,
  wrapped,            \* the table of keys: the master key each is wrapped with, or None
  objects, stored,    \* the content uploaded, and the records accepted
  puts, sent,         \* key PUTs the server is serving; how many each actor has sent
  at, tries,          \* where an actor is, and the attempts its request has had
  putting,            \* the key it is putting
  made, registered,   \* the data keys of a writer, and the ones it knows are registered
  uploads,            \* the content it still has to upload
  answers,            \* what its calls returned
  rotation,           \* the pages of keys the rotator has read
  page,               \* the page of a session an owner opens
  faults

server == <<wrapped, objects, stored, puts>>
client == <<at, tries, putting, made, registered, uploads, answers>>
vars == <<program, server, sent, client, rotation, page, faults>>

Init ==
  /\ program \in Programs
  /\ wrapped = [k \in DataKeys |-> None]
  /\ objects = {} /\ stored = {} /\ puts = {}
  /\ sent = [a \in Actors |-> 0]
  /\ at = [a \in Actors |-> "idle"]
  /\ tries = [a \in Actors |-> 0]
  /\ putting = [a \in Actors |-> None]
  /\ made = [w \in Writers |-> {}]
  /\ registered = [w \in Writers |-> {}]
  /\ uploads = [w \in Writers |-> <<>>]
  /\ answers = [w \in Writers |-> <<>>]
  /\ rotation = [after |-> None, todo |-> {}, had |-> {}, settled |-> {}]
  /\ page = [at |-> "idle", session |-> None, refs |-> {}, keys |-> {}, begun |-> FALSE, rotated |-> FALSE]
  /\ faults = 0

-----------------------------------------------------------------------------
(***************************************************************************)
(* A call: records are completed and planned, valid or not.                *)
(***************************************************************************)

Turn(w) == Len(answers[w]) + 1
Call(w) == program[w][Turn(w)]
Inputs(w) == Call(w).inputs
RecordId(w, i) == <<w, Turn(w), i>>

Unencodable(w) == {i \in DOMAIN Inputs(w) : ~Inputs(w)[i].encodable}

\* The records the server will be sent, by their place in the call.
Sound(w) == {i \in DOMAIN Inputs(w) : Inputs(w)[i].valid} \ Unencodable(w)

Ref(w, i, j) ==
  LET x == Inputs(w)[i].values[j]
  IN  IF x.given \/ w \notin Encrypting THEN [value |-> x.value, key |-> None, made |-> None]
      ELSE [value |-> x.value, key |-> <<w, Inputs(w)[i].session>>, made |-> <<w, Turn(w), i, j>>]

Refs(w, i) == {Ref(w, i, j) : j \in DOMAIN Inputs(w)[i].values}
Raw(w, i) == {j \in DOMAIN Inputs(w)[i].values : ~Inputs(w)[i].values[j].given}

\* Where the records that are sent have content to upload, and where a piece of it
\* comes first: each distinct one is uploaded once, in the order of the records.
Slots(w) == UNION {{i} \X Raw(w, i) : i \in Sound(w)}
At(w, slot) == Ref(w, slot[1], slot[2])
First(w) == {p \in Slots(w) : \A q \in Slots(w) : Earlier(q, p) => At(w, q) # At(w, p)}
Planned(w) ==
  LET order == Sorted(First(w), Lexicographic(First(w)))
  IN  [n \in DOMAIN order |-> At(w, order[n])]

\* Python encrypts in order, until a value cannot be encoded, before it validates.
KeysMade(w) ==
  LET reached == {i \in DOMAIN Inputs(w) : \A b \in Unencodable(w) : i < b}
  IN  IF w \in Encrypting
      THEN {<<w, Inputs(w)[i].session>> : i \in {x \in reached : Raw(w, x) # {}}} ELSE {}

Return(w, how, results) ==
  /\ answers' = [answers EXCEPT ![w] = Append(@, [how |-> how, results |-> results])]
  /\ at' = [at EXCEPT ![w] = "idle"]
  /\ tries' = [tries EXCEPT ![w] = 0]
Go(a, where) ==
  /\ at' = [at EXCEPT ![a] = where]
  /\ tries' = [tries EXCEPT ![a] = 0]
  /\ UNCHANGED answers

Raises(w) ==
  \/ ~Call(w).batch /\ Sound(w) = {}
  \/ Call(w).batch /\ ~Call(w).fits
  \/ Sdk[w] = "python" /\ Unencodable(w) # {}

Invalid(w) == [i \in DOMAIN Inputs(w) |-> [id |-> RecordId(w, i), how |-> "invalid"]]

Plan(w) ==
  /\ at[w] = "idle" /\ Turn(w) <= Len(program[w])
  /\ made' = [made EXCEPT ![w] = @ \cup KeysMade(w)]
  /\ IF Raises(w) THEN Return(w, "raised", <<>>) /\ UNCHANGED uploads
     ELSE IF Sound(w) = {} THEN Return(w, "returned", Invalid(w)) /\ UNCHANGED uploads
     ELSE /\ uploads' = [uploads EXCEPT ![w] = Planned(w)]
          /\ Go(w, IF Planned(w) = <<>> THEN "post" ELSE "keys")
  /\ UNCHANGED <<program, server, sent, putting, registered, rotation, page, faults>>

-----------------------------------------------------------------------------
(***************************************************************************)
(* Attempts: one that gets no answer, or a 5xx, is followed by another.    *)
(***************************************************************************)

\* A call that runs out of attempts raises; a rotation stops.
Retry(a, where) ==
  IF tries[a] + 1 < Attempts
  THEN /\ tries' = [tries EXCEPT ![a] = @ + 1]
       /\ at' = [at EXCEPT ![a] = where]
       /\ UNCHANGED answers
  ELSE IF a \in Writers THEN Return(a, IF where = "post" THEN "unknown" ELSE "raised", <<>>)
  ELSE Go(a, "stopped")

Fault == faults < MaxFaults /\ faults' = faults + 1

\* The master key an actor wraps with: the rotator has the new one.
Master(a) == IF a = "rotator" THEN "new" ELSE "old"

SendKey(a, k) ==
  /\ sent' = [sent EXCEPT ![a] = @ + 1]
  /\ puts' = puts \cup {[by |-> a, number |-> sent[a] + 1, key |-> k, master |-> Master(a), at |-> "find"]}
  /\ putting' = [putting EXCEPT ![a] = k]
  /\ at' = [at EXCEPT ![a] = "wait"]

ResendKey(a) ==
  /\ at[a] = "again"
  /\ SendKey(a, putting[a])
  /\ UNCHANGED <<program, wrapped, objects, stored, tries, made, registered, uploads, answers,
                 rotation, page, faults>>

\* No answer: the request never arrived, or the server serves it all the same.
TimeOut(a) ==
  /\ at[a] = "wait" /\ Fault
  /\ \/ puts' = puts
     \/ \E q \in puts : q.by = a /\ q.number = sent[a] /\ q.at = "find" /\ puts' = puts \ {q}
  /\ Retry(a, "again")
  /\ UNCHANGED <<program, wrapped, objects, stored, sent, putting, made, registered, uploads,
                 rotation, page>>

-----------------------------------------------------------------------------
(***************************************************************************)
(* PUT /v1/content-keys/{key_id}: find the row, then update or create it.  *)
(***************************************************************************)

FindKey(q) ==
  /\ q.at = "find"
  /\ puts' = (puts \ {q})
       \cup {[q EXCEPT !.at = IF wrapped[q.key] = None THEN "create" ELSE "update"]}
  /\ UNCHANGED <<program, wrapped, objects, stored, sent, client, rotation, page, faults>>

Awaited(q) == at[q.by] = "wait" /\ sent[q.by] = q.number

\* The answer, if someone is waiting for it; a unique violation is a 5xx.
KeyAnswered(q, written) ==
  IF ~Awaited(q) THEN UNCHANGED <<at, tries, answers, registered>>
  ELSE IF ~written THEN Retry(q.by, "again") /\ UNCHANGED registered
  ELSE /\ Go(q.by, IF q.by \in Writers THEN "keys" ELSE "wrap")
       /\ registered' = IF q.by \in Writers THEN [registered EXCEPT ![q.by] = @ \cup {q.key}]
                        ELSE registered

\* Faulty: a key that is there already is left as it is.
WriteKeyOnce(q) ==
  LET written == q.at = "update" \/ wrapped[q.key] = None
  IN  /\ q.at \in {"create", "update"}
      /\ puts' = puts \ {q}
      /\ wrapped' = IF wrapped[q.key] = None THEN [wrapped EXCEPT ![q.key] = q.master] ELSE wrapped
      /\ KeyAnswered(q, written)
      /\ UNCHANGED <<program, objects, stored, sent, putting, made, uploads, rotation, page, faults>>

WriteKey(q) ==
  LET written == q.at = "update" \/ wrapped[q.key] = None
  IN  /\ q.at \in {"create", "update"}
      /\ puts' = puts \ {q}
      /\ wrapped' = IF written THEN [wrapped EXCEPT ![q.key] = q.master] ELSE wrapped
      /\ KeyAnswered(q, written)
      /\ UNCHANGED <<program, objects, stored, sent, putting, made, uploads, rotation, page, faults>>

-----------------------------------------------------------------------------
(***************************************************************************)
(* A writer: keys, then content, then the records.                         *)
(***************************************************************************)

\* Faulty: a key counts as registered as soon as it is sent.
NextKeyMarked(w) ==
  /\ at[w] = "keys"
  /\ \/ /\ made[w] \subseteq registered[w]
        /\ Go(w, "content")
        /\ UNCHANGED <<puts, sent, putting, registered>>
     \/ \E k \in made[w] \ registered[w] :
          /\ SendKey(w, k) /\ registered' = [registered EXCEPT ![w] = @ \cup {k}]
          /\ UNCHANGED <<tries, answers>>
  /\ UNCHANGED <<program, wrapped, objects, stored, made, uploads, rotation, page, faults>>

\* Every data key made so far and not known to be registered, whichever call made it.
NextKey(w) ==
  /\ at[w] = "keys"
  /\ \/ /\ made[w] \subseteq registered[w]
        /\ Go(w, "content")
        /\ UNCHANGED <<puts, sent, putting>>
     \/ \E k \in made[w] \ registered[w] : SendKey(w, k) /\ UNCHANGED <<tries, answers>>
  /\ UNCHANGED <<program, wrapped, objects, stored, made, registered, uploads, rotation, page, faults>>

\* Faulty: the records are posted although an upload failed.
UploadAnyhow(w) ==
  /\ at[w] = "content"
  /\ objects' = IF Head(uploads[w]).value \in TooLarge THEN objects
                ELSE objects \cup {Head(uploads[w])}
  /\ uploads' = [uploads EXCEPT ![w] = Tail(@)]
  /\ Go(w, IF Len(uploads[w]) = 1 THEN "post" ELSE "content")
  /\ UNCHANGED <<program, wrapped, stored, puts, sent, putting, made, registered, rotation, page, faults>>

\* The first upload that fails ends the call.
Upload(w) ==
  /\ at[w] = "content"
  /\ IF Head(uploads[w]).value \in TooLarge
     THEN Return(w, "raised", <<>>) /\ UNCHANGED <<objects, uploads>>
     ELSE /\ objects' = objects \cup {Head(uploads[w])}
          /\ uploads' = [uploads EXCEPT ![w] = Tail(@)]
          /\ Go(w, IF Len(uploads[w]) = 1 THEN "post" ELSE "content")
  /\ UNCHANGED <<program, wrapped, stored, puts, sent, putting, made, registered, rotation, page, faults>>

LoseUpload(w) ==
  /\ at[w] = "content" /\ Head(uploads[w]).value \notin TooLarge /\ Fault
  /\ objects' \in {objects, objects \cup {Head(uploads[w])}}
  /\ Retry(w, "content")
  /\ UNCHANGED <<program, wrapped, stored, puts, sent, putting, made, registered, uploads,
                 rotation, page>>

\* The server takes a record when what it refers to is there, and so are the keys.
Present(ref) == ref \in objects /\ (ref.key # None => wrapped[ref.key] # None)
Fit(w) == {i \in Sound(w) : \A ref \in Refs(w, i) : Present(ref)}
Taken(w) == stored \cup
  {[id |-> RecordId(w, i), session |-> Inputs(w)[i].session, refs |-> Refs(w, i)] : i \in Fit(w)}

\* Of the records that were sent, in the order they were sent.
Acks(w) ==
  LET order == Sorted(Sound(w), Increasing(Sound(w)))
  IN  [j \in DOMAIN order |->
         [id |-> RecordId(w, order[j]), how |-> IF order[j] \in Fit(w) THEN "ok" ELSE "refused"]]

\* Faulty: the acks are put at the first places, not at those of the records sent.
MergeInOrder(w) ==
  [i \in DOMAIN Inputs(w) |-> IF i \in DOMAIN Acks(w) THEN Acks(w)[i] ELSE Invalid(w)[i]]

Merge(w) ==
  [i \in DOMAIN Inputs(w) |->
     IF i \notin Sound(w) THEN Invalid(w)[i]
     ELSE Acks(w)[Cardinality({n \in Sound(w) : n <= i})]]

Post(w) ==
  /\ at[w] = "post"
  /\ stored' = Taken(w)
  /\ IF ~Call(w).batch /\ Fit(w) = {} THEN Return(w, "refused", <<>>)
     ELSE Return(w, "returned", Merge(w))
  /\ UNCHANGED <<program, wrapped, objects, puts, sent, putting, made, registered, uploads,
                 rotation, page, faults>>

LosePost(w) ==
  /\ at[w] = "post" /\ Fault
  /\ stored' \in {stored, Taken(w)}
  /\ Retry(w, "post")
  /\ UNCHANGED <<program, wrapped, objects, puts, sent, putting, made, registered, uploads,
                 rotation, page>>

-----------------------------------------------------------------------------
(***************************************************************************)
(* Rotating the master key: every key is listed, unwrapped, wrapped with   *)
(* the new master key and put again (python-sdk/README.md).                *)
(***************************************************************************)

Registered == {k \in DataKeys : wrapped[k] # None}

\* Keys whose writers have been told, and that no late request is going to write.
Settled == {k \in DataKeys : k \in registered[k[1]] /\ \A q \in puts : q.key # k}

BeginRotation ==
  /\ at["rotator"] = "idle" /\ program \in Watched
  /\ at' = [at EXCEPT !["rotator"] = "list"]
  /\ rotation' = [rotation EXCEPT !.had = Registered, !.settled = Settled]
  /\ UNCHANGED <<program, server, sent, tries, putting, made, registered, uploads, answers, page, faults>>

After(k, cursor) == cursor = None \/ Rank[k] > Rank[cursor]
RowsAfter(cursor) ==
  LET rows == {k \in Registered : After(k, cursor)} IN Sorted(rows, Ascending(Rank))

\* Faulty: the next page starts after the key fetched to see whether there is one.
KeysAfterSkipping(cursor) ==
  LET rows == RowsAfter(cursor)
  IN  [keys |-> {rows[n] : n \in 1..Min({PageLimit, Len(rows)})},
       next |-> IF Len(rows) > PageLimit THEN rows[PageLimit + 1] ELSE None]

KeysAfter(cursor) ==
  LET rows == RowsAfter(cursor)
  IN  [keys |-> {rows[n] : n \in 1..Min({PageLimit, Len(rows)})},
       next |-> IF Len(rows) > PageLimit THEN rows[PageLimit] ELSE None]

ListKeys ==
  /\ at["rotator"] = "list"
  /\ rotation' = [rotation EXCEPT !.todo = KeysAfter(rotation.after).keys,
                                  !.after = KeysAfter(rotation.after).next]
  /\ at' = [at EXCEPT !["rotator"] = "wrap"]
  /\ UNCHANGED <<program, server, sent, tries, putting, made, registered, uploads, answers, page, faults>>

Rewrap ==
  /\ at["rotator"] = "wrap"
  /\ \/ /\ rotation.todo = {}
        /\ at' = [at EXCEPT !["rotator"] = IF rotation.after = None THEN "end" ELSE "list"]
        /\ UNCHANGED <<puts, sent, putting, rotation>>
     \/ \E k \in rotation.todo :
          /\ SendKey("rotator", k)
          /\ rotation' = [rotation EXCEPT !.todo = @ \ {k}]
  /\ UNCHANGED <<program, wrapped, objects, stored, tries, made, registered, uploads, answers, page, faults>>

-----------------------------------------------------------------------------
(***************************************************************************)
(* The page of a session, for its owner: the records, then the keys of     *)
(* their encrypted content.  The browser opens what it has the key for.    *)
(***************************************************************************)

Encrypted(refs) == {ref \in refs : ref.key # None}

OpenPage ==
  /\ page.at = "idle" /\ program \in Watched
  /\ \E s \in Sessions :
       page' = [page EXCEPT !.at = "keys", !.session = s,
                  !.refs = UNION {r.refs : r \in {x \in stored : x.session = s}},
                  !.rotated = at["rotator"] = "end"]
  /\ UNCHANGED <<program, server, sent, client, rotation, faults>>

ReadKeys ==
  /\ page.at = "keys"
  /\ page' = [page EXCEPT !.at = "end",
                !.keys = {[key |-> ref.key, master |-> wrapped[ref.key]] :
                            ref \in {x \in Encrypted(page.refs) : wrapped[x.key] # None}},
                !.begun = at["rotator"] # "idle"]
  /\ UNCHANGED <<program, server, sent, client, rotation, faults>>

-----------------------------------------------------------------------------
WriterStep(w) ==
  \/ Plan(w) \/ NextKey(w) \/ Upload(w) \/ LoseUpload(w) \/ Post(w) \/ LosePost(w)

Quiet == /\ \A w \in Writers : at[w] = "idle" /\ Turn(w) > Len(program[w])
         /\ at["rotator"] \in {"idle", "end", "stopped"} /\ puts = {}

Next ==
  \/ \E w \in Writers : WriterStep(w)
  \/ \E a \in Actors : ResendKey(a) \/ TimeOut(a)
  \/ \E q \in puts : FindKey(q) \/ WriteKey(q)
  \/ BeginRotation \/ ListKeys \/ Rewrap
  \/ OpenPage \/ ReadKeys
  \/ Quiet /\ UNCHANGED vars

Spec == Init /\ [][Next]_vars

-----------------------------------------------------------------------------
\* What call n of writer w was about, and what it got.
Given(w, n, i) == \E j \in DOMAIN program[w][n].inputs[i].values : program[w][n].inputs[i].values[j].given
HasTooLarge(call) ==   \* content to upload, and the server refuses it
  \E i \in DOMAIN call.inputs : \E j \in DOMAIN call.inputs[i].values :
    /\ call.inputs[i].valid /\ call.inputs[i].encodable
    /\ ~call.inputs[i].values[j].given /\ call.inputs[i].values[j].value \in TooLarge
Posted(w, n) == {r \in stored : r.id[1] = w /\ r.id[2] = n}

\* A record is not refused for content or a key its client was to upload, through
\* lost answers, calls that failed half-way and the keys those left behind: only a
\* reference that the caller brought along may be to nothing.
NothingIsRefusedForUploads ==
  \A w \in Writers : \A n \in DOMAIN answers[w] :
    LET a == answers[w][n]
    IN  /\ a.how = "refused" => Given(w, n, 1)
        /\ \A i \in DOMAIN a.results : a.results[i].how = "refused" => Given(w, n, i)

\* "A failed upload raises and nothing is posted": a call that raises, or had content
\* the server refuses, has stored no record of it, unless what got no answer was the
\* POST itself.
FailedUploadsPostNothing ==
  \A w \in Writers : \A n \in DOMAIN answers[w] :
    answers[w][n].how \in {"raised", "refused"} \/ HasTooLarge(program[w][n]) => Posted(w, n) = {}

\* A batch answers for every record, at the record's own place, however many were
\* held back for being invalid; "ok" says the record is stored, all else that it is not.
ResultsInPlace ==
  \A w \in Writers : \A n \in DOMAIN answers[w] :
    LET results == answers[w][n].results
    IN  answers[w][n].how = "returned" =>
          /\ Len(results) = Len(program[w][n].inputs)
          /\ \A i \in DOMAIN results :
               /\ results[i].id = <<w, n, i>>
               /\ results[i].how = "ok" <=> \E r \in stored : r.id = <<w, n, i>>

\* When the rotation is over, every key that had been registered for good when it
\* began is wrapped with the new master key, whatever keys were added meanwhile, on
\* pages read or yet to be read.
RotationReachesAll ==
  at["rotator"] = "end" => \A k \in rotation.settled : wrapped[k] = "new"

\* The same for every key there was.  The code does not guarantee it: a client that
\* got no answer puts its key again, wrapped as before.
RotationIsKept == at["rotator"] = "end" => \A k \in rotation.had : wrapped[k] = "new"

\* The owner's page has the key of all it shows, though records and keys are read
\* apart; with the old master key it opens everything before a rotation, with the new
\* one everything that was settled when a finished rotation began.
PagesOpen ==
  page.at = "end" => \A ref \in Encrypted(page.refs) :
    \E k \in page.keys :
      /\ k.key = ref.key
      /\ ~page.begun => k.master = "old"
      /\ page.rotated /\ ref.key \in rotation.settled => k.master = "new"

\* "Per-record errors don't abort the batch".  The code does not guarantee it: in Python
\* a value that cannot be encoded raises for all of it.
OneInputFailsAlone ==
  \A w \in Writers : \A n \in DOMAIN answers[w] :
    LET call == program[w][n]
    IN  call.batch /\ call.fits /\ ~HasTooLarge(call) /\ faults = 0 => answers[w][n].how # "raised"
=============================================================================
