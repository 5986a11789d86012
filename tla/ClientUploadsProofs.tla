------------------------- MODULE ClientUploadsProofs -------------------------
(***************************************************************************)
(* Proofs about ClientUploads: what a client was to upload is there when   *)
(* its records are, answers are those of the records, and a rotation of    *)
(* the master key reaches every settled key, for any number of clients,    *)
(* calls, sessions and lost requests, and any size of a page.              *)
(***************************************************************************)
EXTENDS ClientUploads, SortingProofs, SequenceTheorems

-----------------------------------------------------------------------------
(***************************************************************************)
(* The inductive invariant.                                                *)
(***************************************************************************)

Reference == [value : Values, key : DataKeys \cup {None},
              made : (Writers \X Nat \X Nat \X Nat) \cup {None}]
Put == [by : Actors, number : Nat, key : DataKeys, master : {"old", "new"},
        at : {"find", "create", "update"}]
StoredRecord == [id : Writers \X Nat \X Nat, session : Sessions, refs : SUBSET Reference]
Result == [id : Writers \X Nat \X Nat, how : {"ok", "refused", "invalid"}]
Answer == [how : {"raised", "returned", "refused", "unknown"}, results : Seq(Result)]

Where == {"idle", "keys", "wait", "again", "content", "post", "list", "wrap", "end", "stopped"}

TypeOK ==
  /\ program \in Programs
  /\ wrapped \in [DataKeys -> {None, "old", "new"}]
  /\ objects \subseteq Reference
  /\ stored \subseteq StoredRecord
  /\ puts \subseteq Put
  /\ sent \in [Actors -> Nat]
  /\ at \in [Actors -> Where]
  /\ tries \in [Actors -> Nat]
  /\ putting \in [Actors -> DataKeys \cup {None}]
  /\ made \in [Writers -> SUBSET DataKeys]
  /\ registered \in [Writers -> SUBSET DataKeys]
  /\ uploads \in [Writers -> Seq(Reference)]
  /\ answers \in [Writers -> Seq(Answer)]
  /\ rotation \in [after : DataKeys \cup {None}, todo : SUBSET DataKeys,
                   had : SUBSET DataKeys, settled : SUBSET DataKeys]
  /\ page \in [at : {"idle", "keys", "end"}, session : Sessions \cup {None},
               refs : SUBSET Reference,
               keys : SUBSET [key : DataKeys, master : {None, "old", "new"}],
               begun : BOOLEAN, rotated : BOOLEAN]

InCall == {"keys", "wait", "again", "content", "post"}

\* A call that is under way passed its checks, and what it is to upload is there
\* already or still to be uploaded, in the order of the list it keeps.
CallsUnderWay ==
  \A w \in Writers : at[w] \in InCall =>
    /\ Turn(w) <= Len(program[w]) /\ Sound(w) # {}
    /\ at[w] = "post" <=> uploads[w] = <<>>
    /\ \A slot \in Slots(w) : At(w, slot) \in objects \cup Range(uploads[w])

\* The keys of what it is to upload are among the writer's, and they are registered
\* before the content is uploaded.
KeysUnderWay ==
  \A w \in Writers :
    /\ at[w] \in InCall => \A slot \in Slots(w) : At(w, slot).key \in made[w] \cup {None}
    /\ at[w] \in {"content", "post"} =>
         \A slot \in Slots(w) : At(w, slot).key \in registered[w] \cup {None}

\* A key that its writer knows is registered is there; the keys of a writer are its own.
KeysAreThere ==
  \A w \in Writers :
    /\ \A k \in made[w] \cup registered[w] : k[1] = w
    /\ \A k \in registered[w] : wrapped[k] # None

\* Content the server refuses is never there, and a record that is stored refers to
\* keys that are there and was to upload nothing of the kind.
StoredIsSound ==
  /\ \A ref \in objects : ref.value \notin TooLarge
  /\ \A r \in stored :
       /\ \A ref \in r.refs : ref.key # None => wrapped[ref.key] # None
       /\ r.id[2] \in DOMAIN program[r.id[1]]
       /\ ~HasTooLarge(program[r.id[1]][r.id[2]])

\* Records of the call under way are stored only once it posts them, and those that
\* are stored are fit.  Nothing is stored of a call yet to come.
StoredInTurn ==
  \A r \in stored :
    LET w == r.id[1]
    IN  /\ r.id[2] <= Turn(w)
        /\ r.id[2] = Turn(w) => at[w] = "post" /\ r.id[3] \in Fit(w)

\* An answer is of one of the calls.
AnswersAreOfCalls == \A w \in Writers : Len(answers[w]) <= Len(program[w])

Writing(a) == at[a] \in {"wait", "again"}

\* The requests that put keys: each actor's are its own, and the one it waits for is
\* the last it sent.  A writer puts no key that it knows is registered.
PutsAreSent ==
  /\ \A q \in puts :
       /\ q.number <= sent[q.by] /\ q.master = Master(q.by)
       /\ q.by \in Writers => q.key[1] = q.by
       /\ Awaited(q) => q.key = putting[q.by]
  /\ \A a \in Actors : Writing(a) => putting[a] \in DataKeys
  /\ \A w \in Writers : Writing(w) => putting[w] \notin registered[w] /\ putting[w][1] = w

Places == {"idle", "list", "wrap", "wait", "again", "end", "stopped"}

\* Before a rotation begins every key is wrapped with the old master key.
OldBefore ==
  /\ at["rotator"] \in Places
  /\ at["rotator"] = "idle" =>
       /\ \A k \in DataKeys : wrapped[k] \in {None, "old"}
       /\ \A q \in puts : q.by # "rotator"
       /\ rotation.after = None

\* Where a key that was settled is, while the rotation goes on.
Reached(k) ==
  \/ wrapped[k] = "new"
  \/ at["rotator"] = "stopped"
  \/ at["rotator"] \in {"wrap", "wait", "again"} /\ k \in rotation.todo
  \/ Writing("rotator") /\ putting["rotator"] = k
  \/ at["rotator"] = "list" /\ After(k, rotation.after)
  \/ /\ at["rotator"] \in {"wrap", "wait", "again"}
     /\ rotation.after # None /\ After(k, rotation.after)

\* What was settled stays so: only the rotator puts it.  None of it is passed over.
RotationGoesOn ==
  at["rotator"] # "idle" => \A k \in rotation.settled :
    /\ k \in registered[k[1]]
    /\ \A q \in puts : q.key = k => q.by = "rotator"
    /\ Reached(k)

\* What a page shows has its keys, from the moment its records are read.
PageHasKeys ==
  /\ page.at = "keys" => \A ref \in Encrypted(page.refs) : wrapped[ref.key] # None
  /\ page.at # "idle" /\ page.rotated => at["rotator"] = "end"

Answered == NothingIsRefusedForUploads /\ FailedUploadsPostNothing /\ ResultsInPlace

UploadsInv ==
  /\ TypeOK
  /\ CallsUnderWay /\ KeysUnderWay /\ KeysAreThere
  /\ StoredIsSound /\ StoredInTurn /\ AnswersAreOfCalls /\ Answered
  /\ PutsAreSent /\ OldBefore /\ RotationGoesOn
  /\ PageHasKeys /\ PagesOpen

-----------------------------------------------------------------------------
(***************************************************************************)
(* What the operators return.                                              *)
(***************************************************************************)

\* A place in a sequence, and what is there.
LEMMA InSequence ==
  ASSUME NEW S, NEW s \in Seq(S), NEW n \in DOMAIN s
  PROVE  n \in Nat \ {0} /\ n <= Len(s) /\ Len(s) \in Nat /\ s[n] \in S
OBVIOUS

\* What is left of a sequence of one is nothing.
LEMMA TailOfOne ==
  ASSUME NEW S, NEW s \in Seq(S), s # <<>>
  PROVE  Len(s) = 1 <=> Tail(s) = <<>>
<1> DEFINE t == Tail(s)
<1>1. t \in Seq(S) /\ Len(t) = Len(s) - 1 /\ Len(s) \in Nat
  OBVIOUS
<1> HIDE DEF t
<1>2. t = <<>> <=> Len(t) = 0
  BY <1>1, EmptySeq
<1>3. Len(s) = 1 <=> t = <<>>
  BY <1>1, <1>2
<1> QED  BY <1>3 DEF t

\* A call and its inputs are of their types.
LEMMA CallType ==
  ASSUME TypeOK, NEW w \in Writers, Turn(w) <= Len(program[w])
  PROVE  /\ Turn(w) \in Nat \ {0} /\ Turn(w) \in DOMAIN program[w]
         /\ Call(w) \in Calls
         /\ Inputs(w) \in Seq(InputRecord)
         /\ Call(w).batch \/ Len(Inputs(w)) = 1
         /\ program[w][Turn(w)] = Call(w)
<1>1. program[w] \in Seq(Calls)
  BY UploadsAssumption DEF TypeOK
<1>2. answers[w] \in Seq(Answer)
  BY DEF TypeOK
<1>3. Len(answers[w]) \in Nat
  BY <1>2
<1>4. Turn(w) \in Nat \ {0} /\ Turn(w) \in DOMAIN program[w]
  BY <1>1, <1>3 DEF Turn
<1>5. Call(w) \in Calls
  BY <1>1, <1>4 DEF Call
<1>6. Inputs(w) \in Seq(InputRecord) /\ (Call(w).batch \/ Len(Inputs(w)) = 1)
  BY <1>5 DEF Inputs, Calls
<1> QED  BY <1>4, <1>5, <1>6 DEF Call

\* A value is put by its content, and by where it was encrypted.
LEMMA RefType ==
  ASSUME TypeOK, NEW w \in Writers, Turn(w) <= Len(program[w]),
         NEW i \in DOMAIN Inputs(w), NEW j \in DOMAIN Inputs(w)[i].values
  PROVE  /\ Ref(w, i, j) \in Reference
         /\ Ref(w, i, j).value = Inputs(w)[i].values[j].value
         /\ Ref(w, i, j).key # None =>
              /\ w \in Encrypting /\ j \in Raw(w, i)
              /\ Ref(w, i, j).key = <<w, Inputs(w)[i].session>>
<1> DEFINE x == Inputs(w)[i].values[j]
<1>1. Inputs(w) \in Seq(InputRecord) /\ Turn(w) \in Nat
  BY CallType
<1>2. i \in Nat /\ Inputs(w)[i] \in InputRecord
  BY <1>1
<1>3. Inputs(w)[i].values \in Seq([value : Values, given : BOOLEAN]) /\ Inputs(w)[i].session \in Sessions
  BY <1>2 DEF InputRecord
<1>4. j \in Nat /\ x \in [value : Values, given : BOOLEAN]
  <2> DEFINE values == Inputs(w)[i].values
             V == [value : Values, given : BOOLEAN]
  <2>1. values \in Seq(V) /\ j \in DOMAIN values
    BY <1>3
  <2>2. j \in Nat /\ values[j] \in V
    <3> HIDE DEF values, V
    <3> QED  BY <2>1, InSequence
  <2> QED  BY <2>2
<1>5. CASE x.given \/ w \notin Encrypting
  <2>1. Ref(w, i, j) = [value |-> x.value, key |-> None, made |-> None]
    BY <1>5 DEF Ref
  <2>2. x.value \in Values
    BY <1>4
  <2> HIDE DEF x
  <2>3. Ref(w, i, j) \in Reference /\ Ref(w, i, j).value = x.value /\ Ref(w, i, j).key = None
    BY <2>1, <2>2 DEF Reference
  <2> QED  BY <2>3 DEF x
<1>6. CASE ~(x.given \/ w \notin Encrypting)
  <2>1. Ref(w, i, j) = [value |-> x.value, key |-> <<w, Inputs(w)[i].session>>,
                        made |-> <<w, Turn(w), i, j>>]
    BY <1>6 DEF Ref
  <2>2. x.value \in Values /\ <<w, Inputs(w)[i].session>> \in DataKeys
        /\ <<w, Turn(w), i, j>> \in Writers \X Nat \X Nat \X Nat
    BY <1>1, <1>2, <1>3, <1>4 DEF DataKeys
  <2>3. j \in Raw(w, i)
    BY <1>6 DEF Raw
  <2> HIDE DEF x
  <2>4. /\ Ref(w, i, j) \in Reference /\ Ref(w, i, j).value = x.value
        /\ Ref(w, i, j).key = <<w, Inputs(w)[i].session>>
    BY <2>1, <2>2 DEF Reference
  <2> QED  BY <2>3, <2>4, <1>6 DEF x
<1> QED  BY <1>5, <1>6

\* The slots of a call are pairs of a record and a place in it, finitely many.
LEMMA SlotsFinite ==
  ASSUME TypeOK, NEW w \in Writers, Turn(w) <= Len(program[w])
  PROVE  /\ IsFiniteSet(Sound(w)) /\ Sound(w) \subseteq DOMAIN Inputs(w)
         /\ Sound(w) \subseteq Nat \ {0}
         /\ IsFiniteSet(Slots(w)) /\ Slots(w) \subseteq Nat \X Nat
         /\ \A slot \in Slots(w) : /\ slot[1] \in Sound(w) /\ slot[1] \in DOMAIN Inputs(w)
                                   /\ slot[2] \in Raw(w, slot[1])
                                   /\ slot[2] \in DOMAIN Inputs(w)[slot[1]].values
         /\ \A i \in Sound(w) : \A j \in Raw(w, i) : <<i, j>> \in Slots(w)
<1>1. Inputs(w) \in Seq(InputRecord)
  BY CallType
<1>2. Sound(w) \subseteq DOMAIN Inputs(w) /\ DOMAIN Inputs(w) = 1..Len(Inputs(w)) /\ Len(Inputs(w)) \in Nat
  BY <1>1 DEF Sound
<1>3. IsFiniteSet(DOMAIN Inputs(w))
  BY <1>2, FS_Interval
<1>4. IsFiniteSet(Sound(w))
  BY <1>2, <1>3, FS_Subset
<1>5. ASSUME NEW i \in Sound(w)
      PROVE  /\ IsFiniteSet({i} \X Raw(w, i)) /\ Raw(w, i) \subseteq Nat
             /\ Raw(w, i) \subseteq DOMAIN Inputs(w)[i].values
  <2>1. Inputs(w)[i] \in InputRecord
    BY <1>1, <1>2
  <2>2. Inputs(w)[i].values \in Seq([value : Values, given : BOOLEAN])
    BY <2>1 DEF InputRecord
  <2> DEFINE values == Inputs(w)[i].values
  <2>3. Raw(w, i) \subseteq DOMAIN values
    BY DEF Raw
  <2>4. DOMAIN values = 1..Len(values) /\ Len(values) \in Nat
    BY <2>2
  <2> HIDE DEF values
  <2>5. IsFiniteSet(DOMAIN values)
    BY <2>4, FS_Interval
  <2>6. IsFiniteSet(Raw(w, i))
    BY <2>3, <2>5, FS_Subset
  <2>7. IsFiniteSet({i})
    BY FS_Singleton
  <2> QED  BY <2>3, <2>4, <2>6, <2>7, FS_Product DEF values
<1>6. Slots(w) = UNION {{i} \X Raw(w, i) : i \in Sound(w)}
  BY DEF Slots
<1>7. IsFiniteSet({{i} \X Raw(w, i) : i \in Sound(w)})
  <2> DEFINE f == [i \in Sound(w) |-> {i} \X Raw(w, i)]
  <2>1. f \in Surjection(Sound(w), {{i} \X Raw(w, i) : i \in Sound(w)})
    BY DEF Surjection
  <2> QED  BY <2>1, <1>4, FS_Surjection
<1>8. IsFiniteSet(Slots(w))
  <2> DEFINE parts == {{i} \X Raw(w, i) : i \in Sound(w)}
  <2>1. \A T \in parts : IsFiniteSet(T)
    BY <1>5
  <2> HIDE DEF parts
  <2>2. IsFiniteSet(UNION parts)
    BY <2>1, <1>7, FS_UNION DEF parts
  <2> QED  BY <2>2, <1>6 DEF parts
<1>9. \A i \in Sound(w) : \A j \in Raw(w, i) : <<i, j>> \in Slots(w)
  BY <1>6
<1>10. ASSUME NEW slot \in Slots(w)
       PROVE  \E i \in Sound(w) : \E j \in Raw(w, i) : slot = <<i, j>>
  BY <1>6
<1>11. ASSUME NEW slot \in Slots(w)
       PROVE  /\ slot \in Nat \X Nat /\ slot[1] \in Sound(w) /\ slot[2] \in Raw(w, slot[1])
              /\ slot[2] \in DOMAIN Inputs(w)[slot[1]].values
  <2>1. PICK i \in Sound(w) : \E j \in Raw(w, i) : slot = <<i, j>>
    BY <1>10
  <2>2. PICK j \in Raw(w, i) : slot = <<i, j>>
    BY <2>1
  <2>3. j \in Nat /\ j \in DOMAIN Inputs(w)[i].values
    BY <1>5
  <2>6. i \in Nat
    BY <1>2
  <2>4. slot[1] = i /\ slot[2] = j
    BY <2>2
  <2>5. slot \in Nat \X Nat
    BY <2>2, <2>3, <2>6
  <2> QED  BY <2>3, <2>4, <2>5
<1> QED  BY <1>2, <1>4, <1>8, <1>9, <1>11

\* Pairs of numbers are in order.
LEMMA PairsInOrder ==
  ASSUME NEW S \in SUBSET (Nat \X Nat)
  PROVE  Orders(Lexicographic(S), S)
<1>1. \A x \in S : x[1] \in Nat /\ x[2] \in Nat /\ x = <<x[1], x[2]>>
  OBVIOUS
<1>2. \A x, y \in S : <<x, y>> \in Lexicographic(S) <=> Earlier(x, y)
  BY DEF Lexicographic
<1>3. \A x \in S : ~Earlier(x, x)
  BY <1>1 DEF Earlier
<1>4. \A x, y \in S : x = y \/ Earlier(x, y) \/ Earlier(y, x)
  BY <1>1 DEF Earlier
<1>5. \A x, y, z \in S : Earlier(x, y) /\ Earlier(y, z) => Earlier(x, z)
  BY <1>1 DEF Earlier
<1> HIDE DEF Earlier
<1> QED  BY <1>2, <1>3, <1>4, <1>5 DEF Orders

\* A call uploads what its slots hold, and nothing else.
LEMMA PlannedIsWhatIsNeeded ==
  ASSUME TypeOK, NEW w \in Writers, Turn(w) <= Len(program[w])
  PROVE  /\ Planned(w) \in Seq(Reference)
         /\ \A slot \in Slots(w) : At(w, slot) \in Range(Planned(w))
         /\ \A slot \in Slots(w) : At(w, slot) \in Reference
<1> DEFINE F == First(w)
           order == Sorted(F, Lexicographic(F))
<1>1. /\ IsFiniteSet(Slots(w)) /\ Slots(w) \subseteq Nat \X Nat
      /\ \A slot \in Slots(w) : /\ slot[1] \in Sound(w) /\ slot[1] \in DOMAIN Inputs(w)
                                /\ slot[2] \in DOMAIN Inputs(w)[slot[1]].values
  BY SlotsFinite
<1>2. F \subseteq Slots(w)
  BY DEF First
<1>3. IsFiniteSet(F) /\ Orders(Lexicographic(F), F)
  BY <1>1, <1>2, FS_Subset, PairsInOrder
<1>4. \A slot \in Slots(w) : At(w, slot) \in Reference
  BY <1>1, RefType DEF At
<1>5. /\ Len(order) = Cardinality(F) /\ DOMAIN order = 1..Cardinality(F) /\ Cardinality(F) \in Nat
      /\ \A n \in DOMAIN order : order[n] \in F
      /\ \A x \in F : \E n \in DOMAIN order : order[n] = x
  <2> HIDE DEF F
  <2> QED  BY <1>3, SortedInOrder, FS_CardinalityType
<1>6. Planned(w) = [n \in DOMAIN order |-> At(w, order[n])]
  BY DEF Planned
<1> HIDE DEF order, F
<1>7. Planned(w) \in Seq(Reference)
  <2>1. \A n \in DOMAIN order : At(w, order[n]) \in Reference
    BY <1>5, <1>2, <1>4
  <2>2. Planned(w) \in [1..Cardinality(F) -> Reference]
    BY <2>1, <1>5, <1>6
  <2> QED  BY <2>2, <1>5
<1>8. ASSUME NEW slot \in Slots(w)
      PROVE  At(w, slot) \in Range(Planned(w))
  <2> DEFINE S == {q \in Slots(w) : At(w, q) = At(w, slot)}
  <2>1. IsFiniteSet(S) /\ Orders(Lexicographic(S), S) /\ S # {}
    BY <1>1, FS_Subset, PairsInOrder
  <2>2. PICK p \in S : Place(p, S, Lexicographic(S)) = 1
    <3> HIDE DEF S
    <3>1. Cardinality(S) \in Nat /\ Cardinality(S) # 0
      BY <2>1, FS_CardinalityType, FS_EmptySet
    <3> QED  BY <3>1, <2>1, PlacesAreTaken
  <2>3. \A q \in S : ~Earlier(q, p)
    <3> SUFFICES ASSUME NEW q \in S, Earlier(q, p) PROVE FALSE
      OBVIOUS
    <3>1. <<q, p>> \in Lexicographic(S)
      <4> HIDE DEF S
      <4> QED  BY DEF Lexicographic
    <3> HIDE DEF S
    <3>2. Place(q, S, Lexicographic(S)) < 1
      BY <3>1, <2>1, <2>2, PlacesGrow
    <3>3. Place(q, S, Lexicographic(S)) \in 1..Cardinality(S)
      BY <2>1, PlacesAreTaken
    <3>4. Cardinality(S) \in Nat
      BY <2>1, FS_CardinalityType
    <3> QED  BY <3>2, <3>3, <3>4
  <2>4. p \in Slots(w) /\ At(w, p) = At(w, slot)
    OBVIOUS
  <2>5. p \in F
    BY <2>3, <2>4 DEF F, First
  <2>6. PICK n \in DOMAIN order : order[n] = p
    BY <2>5, <1>5
  <2>7. n \in DOMAIN Planned(w) /\ Planned(w)[n] = At(w, p)
    BY <2>6, <1>6
  <2> QED  BY <2>4, <2>7 DEF Range
<1> QED  BY <1>4, <1>7, <1>8

\* A record that is sent is answered for at its own place, and so is one held back.
LEMMA MergeInPlace ==
  ASSUME TypeOK, NEW w \in Writers, Turn(w) <= Len(program[w])
  PROVE  /\ Merge(w) \in Seq(Result) /\ Invalid(w) \in Seq(Result)
         /\ Len(Merge(w)) = Len(Inputs(w)) /\ DOMAIN Merge(w) = DOMAIN Inputs(w)
         /\ Len(Invalid(w)) = Len(Inputs(w)) /\ DOMAIN Invalid(w) = DOMAIN Inputs(w)
         /\ \A i \in DOMAIN Inputs(w) :
              /\ Invalid(w)[i] = [id |-> RecordId(w, i), how |-> "invalid"]
              /\ Merge(w)[i] = [id |-> RecordId(w, i),
                                how |-> IF i \notin Sound(w) THEN "invalid"
                                        ELSE IF i \in Fit(w) THEN "ok" ELSE "refused"]
<1> DEFINE S == Sound(w)
           order == Sorted(S, Increasing(S))
           N == Len(Inputs(w))
<1>1. DOMAIN Inputs(w) = 1..N /\ N \in Nat /\ Turn(w) \in Nat
  BY CallType
<1>2. IsFiniteSet(S) /\ S \subseteq Nat
  BY SlotsFinite
<1>3. Orders(Increasing(S), S)
  <2> HIDE DEF S
  <2> QED  BY <1>2 DEF Orders, Increasing
<1>4. ASSUME NEW i \in S
      PROVE  /\ Cardinality({n \in S : n <= i}) = Place(i, S, Increasing(S))
             /\ Place(i, S, Increasing(S)) \in DOMAIN order
             /\ order[Place(i, S, Increasing(S))] = i
  <2> HIDE DEF S
  <2> DEFINE ahead == {n \in S : <<n, i>> \in Increasing(S)}
  <2>1. \A x, y \in S : <<x, y>> \in Increasing(S) <=> x < y
    BY DEF Increasing
  <2>6. \A n \in S : (n <= i <=> n < i \/ n = i) /\ ~(i < i)
    BY <1>2
  <2>7. \A n \in S : n <= i <=> n \in ahead \cup {i}
    BY <2>1, <2>6
  <2>8. i \notin ahead
    BY <2>1, <2>6
  <2>9. {n \in S : n <= i} = ahead \cup {i}
    BY <2>7
  <2>2. IsFiniteSet(ahead) /\ Cardinality(ahead) \in Nat
    BY <1>2, FS_Subset, FS_CardinalityType
  <2> HIDE DEF ahead
  <2>3. Cardinality(ahead \cup {i}) = Cardinality(ahead) + 1
    BY <2>8, <2>2, FS_AddElement
  <2>10. Cardinality({n \in S : n <= i}) = Cardinality(ahead \cup {i})
    BY <2>9
  <2>4. Cardinality({n \in S : n <= i}) = 1 + Cardinality(ahead)
    BY <2>10, <2>2, <2>3
  <2>5. Cardinality({n \in S : n <= i}) = Place(i, S, Increasing(S))
    BY <2>4 DEF Place, ahead
  <2> QED  BY <2>5, <1>2, <1>3, SortedInOrder
<1>5. Acks(w) = [j \in DOMAIN order |->
         [id |-> RecordId(w, order[j]), how |-> IF order[j] \in Fit(w) THEN "ok" ELSE "refused"]]
  BY DEF Acks
<1>6. Invalid(w) = [i \in 1..N |-> [id |-> RecordId(w, i), how |-> "invalid"]]
  BY <1>1 DEF Invalid
<1>7. Merge(w) = [i \in 1..N |-> IF i \notin S THEN Invalid(w)[i]
                               ELSE Acks(w)[Cardinality({n \in S : n <= i})]]
  BY <1>1 DEF Merge
<1>8. ASSUME NEW i \in 1..N
      PROVE  Merge(w)[i] = [id |-> RecordId(w, i),
                            how |-> IF i \notin S THEN "invalid"
                                    ELSE IF i \in Fit(w) THEN "ok" ELSE "refused"]
  <2> HIDE DEF S, order, N
  <2>1. CASE i \notin S
    BY <2>1, <1>6, <1>7
  <2>2. CASE i \in S
    <3>1. Merge(w)[i] = Acks(w)[Place(i, S, Increasing(S))]
      BY <2>2, <1>4, <1>7
    <3>2. Acks(w)[Place(i, S, Increasing(S))]
            = [id |-> RecordId(w, i), how |-> IF i \in Fit(w) THEN "ok" ELSE "refused"]
      BY <2>2, <1>4, <1>5
    <3> QED  BY <2>2, <3>1, <3>2
  <2> QED  BY <2>1, <2>2
<1>9. ASSUME NEW i \in 1..N PROVE Merge(w)[i] \in Result /\ Invalid(w)[i] \in Result
  <2>1. RecordId(w, i) \in Writers \X Nat \X Nat
    BY <1>1 DEF RecordId
  <2>2. \A how \in {"ok", "refused", "invalid"} : [id |-> RecordId(w, i), how |-> how] \in Result
    BY <2>1 DEF Result
  <2>3. Merge(w)[i] \in Result
    <3>1. CASE i \notin S
      BY <3>1, <1>8, <2>2
    <3>2. CASE i \in S /\ i \in Fit(w)
      BY <3>2, <1>8, <2>2
    <3>3. CASE i \in S /\ i \notin Fit(w)
      BY <3>3, <1>8, <2>2
    <3> QED  BY <3>1, <3>2, <3>3
  <2>4. Invalid(w)[i] = [id |-> RecordId(w, i), how |-> "invalid"]
    BY <1>6
  <2>5. Invalid(w)[i] \in Result
    BY <2>1, <2>4 DEF Result
  <2> QED  BY <2>3, <2>5
<1>10. Merge(w) \in [1..N -> Result] /\ Invalid(w) \in [1..N -> Result]
  BY <1>9, <1>6, <1>7
<1>11. /\ Merge(w) \in Seq(Result) /\ Invalid(w) \in Seq(Result)
       /\ Len(Merge(w)) = N /\ Len(Invalid(w)) = N
       /\ DOMAIN Merge(w) = 1..N /\ DOMAIN Invalid(w) = 1..N
  BY <1>10, <1>1
<1> QED  BY <1>1, <1>6, <1>8, <1>11

\* A key past the cursor is on the page, or past the cursor of the next one.
LEMMA PagesPassOverNothing ==
  ASSUME TypeOK, NEW cursor \in DataKeys \cup {None}
  PROVE  /\ KeysAfter(cursor).keys \subseteq DataKeys
         /\ KeysAfter(cursor).next \in DataKeys \cup {None}
         /\ \A k \in Registered : After(k, cursor) =>
              \/ k \in KeysAfter(cursor).keys
              \/ KeysAfter(cursor).next # None /\ After(k, KeysAfter(cursor).next)
<1> DEFINE S == {k \in Registered : After(k, cursor)}
           before == Ascending(Rank)
           rows == Sorted(S, before)
           N == Cardinality(S)
           M == Min({PageLimit, N})
<1>1. PageLimit \in Nat \ {0}
  BY UploadsAssumption
<1>2. IsFiniteSet(DataKeys)
  BY UploadsAssumption, FS_Product DEF DataKeys
<1>3. IsFiniteSet(S) /\ S \subseteq DataKeys
  BY <1>2, FS_Subset DEF Registered
<1>4. Orders(before, S)
  <2> HIDE DEF S
  <2>1. \A k \in S : Rank[k] \in Nat
    BY <1>3, UploadsAssumption
  <2>2. \A x, y \in S : <<x, y>> \in before <=> Rank[x] < Rank[y]
    BY <1>3, UploadsAssumption DEF Ascending
  <2>3. \A x, y \in S : Rank[x] = Rank[y] => x = y
    BY <1>3, UploadsAssumption
  <2> HIDE DEF before
  <2>4. \A x, y \in S : x = y \/ Rank[x] < Rank[y] \/ Rank[y] < Rank[x]
    BY <2>1, <2>3
  <2>5. \A x, y, z \in S : Rank[x] < Rank[y] /\ Rank[y] < Rank[z] => Rank[x] < Rank[z]
    BY <2>1
  <2>6. \A x \in S : ~(Rank[x] < Rank[x])
    BY <2>1
  <2> QED  BY <2>2, <2>4, <2>5, <2>6 DEF Orders
<1>5. /\ N \in Nat /\ DOMAIN rows = 1..N /\ Len(rows) = N
      /\ \A n \in 1..N : rows[n] \in S
      /\ \A k \in S : \E n \in 1..N : rows[n] = k
      /\ \A i, j \in 1..N : i < j => <<rows[i], rows[j]>> \in before
  <2> HIDE DEF S, before
  <2>1. N \in Nat
    BY <1>3, FS_CardinalityType
  <2>2. /\ DOMAIN rows = 1..N /\ Len(rows) = N
        /\ \A n \in DOMAIN rows : rows[n] \in S
        /\ \A k \in S : Place(k, S, before) \in DOMAIN rows /\ rows[Place(k, S, before)] = k
        /\ \A i, j \in DOMAIN rows : i < j => <<rows[i], rows[j]>> \in before
    BY <1>3, <1>4, SortedInOrder
  <2> HIDE DEF rows, N
  <2> QED  BY <2>1, <2>2
<1>6. KeysAfter(cursor) = [keys |-> {rows[n] : n \in 1..M},
                           next |-> IF N > PageLimit THEN rows[PageLimit] ELSE None]
  <2> HIDE DEF N
  <2>1. RowsAfter(cursor) = rows
    BY DEF RowsAfter
  <2> HIDE DEF rows
  <2> QED  BY <2>1, <1>5 DEF KeysAfter
<1>7. M = IF PageLimit <= N THEN PageLimit ELSE N
  <2> HIDE DEF N
  <2> QED  BY <1>1, <1>5 DEF Min
<1>8. \A i, j \in 1..N : i < j => Rank[rows[j]] > Rank[rows[i]]
  <2> HIDE DEF S, rows, N
  <2>1. \A i, j \in 1..N : i < j => Rank[rows[i]] < Rank[rows[j]]
    BY <1>5 DEF Ascending
  <2>2. \A i \in 1..N : Rank[rows[i]] \in Nat
    BY <1>3, <1>5, UploadsAssumption
  <2> QED  BY <2>1, <2>2
<1>9. \A k \in Registered : After(k, cursor) => k \in S
  OBVIOUS
<1> HIDE DEF S, before, rows, N, M
<1>10. KeysAfter(cursor).keys \subseteq DataKeys /\ KeysAfter(cursor).next \in DataKeys \cup {None}
  BY <1>1, <1>3, <1>5, <1>6, <1>7
<1>11. ASSUME NEW k \in S
       PROVE  \/ k \in KeysAfter(cursor).keys
              \/ KeysAfter(cursor).next # None /\ After(k, KeysAfter(cursor).next)
  <2>1. PICK n \in 1..N : rows[n] = k
    BY <1>5
  <2>2. CASE n <= M
    BY <2>1, <2>2, <1>6, <1>5
  <2>3. CASE ~(n <= M)
    <3>1. N > PageLimit /\ PageLimit \in 1..N /\ PageLimit < n
      BY <2>3, <1>1, <1>5, <1>7
    <3>2. Rank[k] > Rank[rows[PageLimit]]
      BY <3>1, <2>1, <1>8
    <3>3. KeysAfter(cursor).next = rows[PageLimit] /\ rows[PageLimit] \in DataKeys
      BY <3>1, <1>3, <1>5, <1>6
    <3>4. KeysAfter(cursor).next # None
      BY <3>3, UploadsAssumption
    <3> QED  BY <3>2, <3>3, <3>4 DEF After
  <2> QED  BY <2>2, <2>3
<1> QED  BY <1>9, <1>10, <1>11

-----------------------------------------------------------------------------
(***************************************************************************)
(* The types.                                                              *)
(***************************************************************************)

ClientType ==
  /\ at \in [Actors -> Where] /\ tries \in [Actors -> Nat]
  /\ answers \in [Writers -> Seq(Answer)]

\* A call returns, an actor goes on, and an attempt is followed by another.
LEMMA ReturnType ==
  ASSUME TypeOK, NEW w \in Writers, NEW results \in Seq(Result),
         NEW how \in {"raised", "returned", "refused", "unknown"}, Return(w, how, results)
  PROVE  ClientType'
<1>1. [how |-> how, results |-> results] \in Answer
  BY DEF Answer
<1>2. Append(answers[w], [how |-> how, results |-> results]) \in Seq(Answer)
  BY <1>1 DEF TypeOK
<1> QED  BY <1>2 DEF Return, TypeOK, ClientType, Where

LEMMA GoType ==
  ASSUME TypeOK, NEW a \in Actors, NEW where \in Where, Go(a, where)
  PROVE  ClientType'
BY DEF Go, TypeOK, ClientType

LEMMA RetryType ==
  ASSUME TypeOK, NEW a \in Actors, NEW where \in Where, Retry(a, where)
  PROVE  ClientType'
<1>1. CASE tries[a] + 1 < Attempts
  <2>1. /\ tries' = [tries EXCEPT ![a] = @ + 1] /\ at' = [at EXCEPT ![a] = where]
        /\ answers' = answers
    BY <1>1 DEF Retry
  <2>2. tries \in [Actors -> Nat] /\ tries[a] + 1 \in Nat
    BY DEF TypeOK
  <2>3. tries' \in [Actors -> Nat]
    BY <2>1, <2>2
  <2>4. at' \in [Actors -> Where] /\ answers' \in [Writers -> Seq(Answer)]
    BY <2>1 DEF TypeOK
  <2> QED  BY <2>3, <2>4 DEF ClientType
<1>2. CASE ~(tries[a] + 1 < Attempts) /\ a \in Writers
  <2>1. PICK how \in {"raised", "unknown"} : Return(a, how, <<>>)
    BY <1>2 DEF Retry
  <2>2. <<>> \in Seq(Result)
    OBVIOUS
  <2> QED  BY <2>1, <2>2, <1>2, ReturnType
<1>3. CASE ~(tries[a] + 1 < Attempts) /\ a \notin Writers
  <2>1. Go(a, "stopped") /\ "stopped" \in Where
    BY <1>3 DEF Retry, Where
  <2> QED  BY <2>1, GoType
<1> QED  BY <1>1, <1>2, <1>3

\* A request to put a key is sent.
LEMMA SendType ==
  ASSUME TypeOK, NEW a \in Actors, NEW k \in DataKeys, SendKey(a, k)
  PROVE  /\ sent' \in [Actors -> Nat] /\ puts' \subseteq Put
         /\ putting' \in [Actors -> DataKeys \cup {None}] /\ at' \in [Actors -> Where]
<1>1. sent[a] + 1 \in Nat
  BY DEF TypeOK
<1>2. [by |-> a, number |-> sent[a] + 1, key |-> k, master |-> Master(a), at |-> "find"] \in Put
  BY <1>1 DEF Put, Master
<1> QED  BY <1>1, <1>2 DEF SendKey, TypeOK, Where

LEMMA InitType == Init => TypeOK
<1> SUFFICES ASSUME Init PROVE TypeOK
  OBVIOUS
<1>1. wrapped \in [DataKeys -> {None, "old", "new"}] /\ objects = {} /\ stored = {} /\ puts = {}
  BY DEF Init
<1>2. sent \in [Actors -> Nat] /\ at \in [Actors -> Where] /\ tries \in [Actors -> Nat]
      /\ putting \in [Actors -> DataKeys \cup {None}]
  BY DEF Init, Where
<1>3. made \in [Writers -> SUBSET DataKeys] /\ registered \in [Writers -> SUBSET DataKeys]
      /\ uploads \in [Writers -> Seq(Reference)] /\ answers \in [Writers -> Seq(Answer)]
  BY DEF Init
<1>4. rotation \in [after : DataKeys \cup {None}, todo : SUBSET DataKeys,
                    had : SUBSET DataKeys, settled : SUBSET DataKeys]
  BY DEF Init
<1>5. page \in [at : {"idle", "keys", "end"}, session : Sessions \cup {None},
                refs : SUBSET Reference,
                keys : SUBSET [key : DataKeys, master : {None, "old", "new"}],
                begun : BOOLEAN, rotated : BOOLEAN]
  BY DEF Init
<1> QED  BY <1>1, <1>2, <1>3, <1>4, <1>5 DEF Init, TypeOK

\* The keys a call makes are data keys of its writer.
LEMMA KeysMadeType ==
  ASSUME TypeOK, NEW w \in Writers, Turn(w) <= Len(program[w])
  PROVE  KeysMade(w) \in SUBSET DataKeys /\ \A k \in KeysMade(w) : k[1] = w
<1>1. Inputs(w) \in Seq(InputRecord)
  BY CallType
<1>5. \A i \in DOMAIN Inputs(w) : Inputs(w)[i] \in InputRecord
  BY <1>1, InSequence
<1>2. \A i \in DOMAIN Inputs(w) : Inputs(w)[i].session \in Sessions
  BY <1>5 DEF InputRecord
<1>3. \A i \in DOMAIN Inputs(w) : <<w, Inputs(w)[i].session>> \in DataKeys
  BY <1>2 DEF DataKeys
<1>4. ASSUME NEW k \in KeysMade(w)
      PROVE  \E i \in DOMAIN Inputs(w) : k = <<w, Inputs(w)[i].session>>
  BY DEF KeysMade
<1> QED  BY <1>3, <1>4

\* What is stored of a call is of its type.
LEMMA TakenType ==
  ASSUME TypeOK, NEW w \in Writers, Turn(w) <= Len(program[w])
  PROVE  Taken(w) \subseteq StoredRecord
<1>1. Inputs(w) \in Seq(InputRecord) /\ Turn(w) \in Nat
  BY CallType
<1>2. ASSUME NEW i \in Fit(w)
      PROVE  [id |-> RecordId(w, i), session |-> Inputs(w)[i].session, refs |-> Refs(w, i)]
               \in StoredRecord
  <2>1. i \in DOMAIN Inputs(w)
    BY DEF Fit, Sound
  <2>2. i \in Nat /\ Inputs(w)[i] \in InputRecord
    BY <1>1, <2>1
  <2>3. RecordId(w, i) \in Writers \X Nat \X Nat
    BY <1>1, <2>2 DEF RecordId
  <2>4. Refs(w, i) \in SUBSET Reference
    BY <2>1, RefType DEF Refs
  <2>5. Inputs(w)[i].session \in Sessions
    BY <2>2 DEF InputRecord
  <2> QED  BY <2>3, <2>4, <2>5 DEF StoredRecord
<1> QED  BY <1>2 DEF Taken, TypeOK

\* Everything is of its type after every step.
LEMMA TypeStep ==
  ASSUME TypeOK, CallsUnderWay, PutsAreSent, [Next]_vars
  PROVE  TypeOK'
<1> USE DEF Actors
<1>1. ASSUME NEW w \in Writers, Plan(w) PROVE TypeOK'
  <2>1. Turn(w) <= Len(program[w])
    BY <1>1 DEF Plan
  <2>2. /\ KeysMade(w) \in SUBSET DataKeys /\ Planned(w) \in Seq(Reference)
        /\ Invalid(w) \in Seq(Result) /\ <<>> \in Seq(Result)
    BY <2>1, KeysMadeType, PlannedIsWhatIsNeeded, MergeInPlace
  <2>3. CASE Return(w, "raised", <<>>) /\ UNCHANGED uploads
    BY <2>3, <2>2, <1>1, ReturnType DEF Plan, TypeOK, ClientType, server
  <2>4. CASE Return(w, "returned", Invalid(w)) /\ UNCHANGED uploads
    BY <2>4, <2>2, <1>1, ReturnType DEF Plan, TypeOK, ClientType, server
  <2>5. CASE \E where \in {"post", "keys"} :
               uploads' = [uploads EXCEPT ![w] = Planned(w)] /\ Go(w, where)
    <3>1. ClientType'
      BY <2>5, GoType DEF Where
    <3>2. made' \in [Writers -> SUBSET DataKeys] /\ uploads' \in [Writers -> Seq(Reference)]
      BY <2>5, <2>2, <1>1 DEF Plan, TypeOK
    <3> QED  BY <3>1, <3>2, <1>1 DEF Plan, TypeOK, ClientType, server
  <2> QED  BY <2>3, <2>4, <2>5, <1>1 DEF Plan
<1>2. ASSUME NEW w \in Writers, NextKey(w) PROVE TypeOK'
  <2>1. CASE Go(w, "content") /\ UNCHANGED <<puts, sent, putting>>
    BY <2>1, <1>2, GoType DEF NextKey, TypeOK, ClientType, Where
  <2>2. CASE \E k \in made[w] \ registered[w] : SendKey(w, k) /\ UNCHANGED <<tries, answers>>
    <3>1. PICK k \in made[w] : SendKey(w, k) /\ UNCHANGED <<tries, answers>>
      BY <2>2
    <3>2. k \in DataKeys
      BY DEF TypeOK
    <3> QED  BY <3>1, <3>2, <1>2, SendType DEF NextKey, TypeOK
  <2> QED  BY <2>1, <2>2, <1>2 DEF NextKey
<1>3. ASSUME NEW w \in Writers, Upload(w) \/ LoseUpload(w) PROVE TypeOK'
  <2>1. at[w] = "content" /\ uploads[w] \in Seq(Reference) /\ uploads[w] # <<>>
    BY <1>3 DEF Upload, LoseUpload, CallsUnderWay, InCall, TypeOK
  <2>2. Head(uploads[w]) \in Reference /\ Tail(uploads[w]) \in Seq(Reference) /\ <<>> \in Seq(Result)
    BY <2>1
  <2>3. CASE Return(w, "raised", <<>>) /\ UNCHANGED <<objects, uploads>>
             /\ UNCHANGED <<program, wrapped, stored, puts, sent, putting, made, registered, rotation, page, faults>>
    BY <2>3, <2>2, ReturnType DEF TypeOK, ClientType
  <2>4. CASE /\ objects' = objects \cup {Head(uploads[w])}
             /\ uploads' = [uploads EXCEPT ![w] = Tail(@)]
             /\ \E where \in {"post", "content"} : Go(w, where)
             /\ UNCHANGED <<program, wrapped, stored, puts, sent, putting, made, registered, rotation, page, faults>>
    <3>1. ClientType'
      BY <2>4, GoType DEF Where
    <3>2. objects' \subseteq Reference /\ uploads' \in [Writers -> Seq(Reference)]
      BY <2>4, <2>2 DEF TypeOK
    <3> QED  BY <3>1, <3>2, <2>4 DEF TypeOK, ClientType
  <2>5. CASE LoseUpload(w)
    <3>1. ClientType'
      BY <2>5, RetryType DEF LoseUpload, Where
    <3>2. objects' \subseteq Reference
      BY <2>5, <2>2 DEF LoseUpload, TypeOK
    <3> QED  BY <3>1, <3>2, <2>5 DEF LoseUpload, TypeOK, ClientType
  <2> QED  BY <2>3, <2>4, <2>5, <1>3 DEF Upload
<1>4. ASSUME NEW w \in Writers, Post(w) \/ LosePost(w) PROVE TypeOK'
  <2>1. Turn(w) <= Len(program[w])
    BY <1>4 DEF Post, LosePost, CallsUnderWay, InCall
  <2>2. Taken(w) \subseteq StoredRecord /\ Merge(w) \in Seq(Result) /\ <<>> \in Seq(Result)
    BY <2>1, TakenType, MergeInPlace
  <2>3. ClientType'
    <3>1. CASE LosePost(w)
      BY <3>1, RetryType DEF LosePost, Where
    <3>2. CASE Return(w, "refused", <<>>)
      BY <3>2, <2>2, ReturnType
    <3>3. CASE Return(w, "returned", Merge(w))
      BY <3>3, <2>2, ReturnType
    <3> QED  BY <3>1, <3>2, <3>3, <1>4 DEF Post
  <2>4. stored' \subseteq StoredRecord
    BY <2>2, <1>4 DEF Post, LosePost, TypeOK
  <2> QED  BY <2>3, <2>4, <1>4 DEF Post, LosePost, TypeOK, ClientType
<1>5. ASSUME NEW a \in Actors, ResendKey(a) PROVE TypeOK'
  <2>1. putting[a] \in DataKeys
    BY <1>5 DEF ResendKey, PutsAreSent, Writing
  <2> QED  BY <2>1, <1>5, SendType DEF ResendKey, TypeOK
<1>6. ASSUME NEW a \in Actors, TimeOut(a) PROVE TypeOK'
  <2>1. ClientType'
    BY <1>6, RetryType DEF TimeOut, Where
  <2> QED  BY <2>1, <1>6 DEF TimeOut, TypeOK, ClientType
<1>7. ASSUME NEW q \in puts, FindKey(q) PROVE TypeOK'
  <2>1. q \in Put
    BY DEF TypeOK
  <2>2. \A where \in {"create", "update"} : [q EXCEPT !.at = where] \in Put
    BY <2>1 DEF Put
  <2>3. puts' \subseteq Put
    BY <2>2, <1>7 DEF FindKey, TypeOK
  <2> QED  BY <2>3, <1>7 DEF FindKey, TypeOK, client
<1>8. ASSUME NEW q \in puts, WriteKey(q) PROVE TypeOK'
  <2>1. q \in Put
    BY DEF TypeOK
  <2>2. q.by \in Actors /\ q.key \in DataKeys /\ q.master \in {"old", "new"}
    BY <2>1 DEF Put
  <2>3. wrapped' \in [DataKeys -> {None, "old", "new"}]
    BY <2>2, <1>8 DEF WriteKey, TypeOK
  <2>4. ClientType' /\ registered' \in [Writers -> SUBSET DataKeys]
    <3>1. CASE UNCHANGED <<at, tries, answers, registered>>
      BY <3>1 DEF TypeOK, ClientType
    <3>2. CASE Retry(q.by, "again") /\ UNCHANGED registered
      BY <3>2, <2>2, RetryType DEF TypeOK, Where
    <3>3. CASE /\ \E where \in {"keys", "wrap"} : Go(q.by, where)
               /\ registered' = IF q.by \in Writers THEN [registered EXCEPT ![q.by] = @ \cup {q.key}]
                                ELSE registered
      <4>1. ClientType'
        BY <3>3, <2>2, GoType DEF Where
      <4> QED  BY <4>1, <3>3, <2>2 DEF TypeOK
    <3>4. KeyAnswered(q, q.at = "update" \/ wrapped[q.key] = None)
      BY <1>8 DEF WriteKey
    <3> QED  BY <3>1, <3>2, <3>3, <3>4 DEF KeyAnswered
  <2> QED  BY <2>3, <2>4, <1>8 DEF WriteKey, TypeOK, ClientType
<1>9. CASE BeginRotation \/ ListKeys
  <2>1. /\ Registered \subseteq DataKeys /\ Settled \subseteq DataKeys
        /\ KeysAfter(rotation.after).keys \subseteq DataKeys
        /\ KeysAfter(rotation.after).next \in DataKeys \cup {None}
    <3>1. rotation.after \in DataKeys \cup {None}
      BY DEF TypeOK
    <3> QED  BY <3>1, PagesPassOverNothing DEF Registered, Settled
  <2> DEFINE R == [after : DataKeys \cup {None}, todo : SUBSET DataKeys,
                   had : SUBSET DataKeys, settled : SUBSET DataKeys]
  <2>2. rotation \in R
    BY DEF TypeOK
  <2>3. rotation' \in R
    BY <2>1, <2>2, <1>9 DEF BeginRotation, ListKeys
  <2>4. at' \in [Actors -> Where]
    BY <1>9 DEF BeginRotation, ListKeys, TypeOK, Where
  <2> HIDE DEF R
  <2> QED  BY <2>3, <2>4, <1>9 DEF BeginRotation, ListKeys, TypeOK, R, server
<1>10. CASE Rewrap
  <2>1. CASE \E where \in {"end", "list"} : /\ at' = [at EXCEPT !["rotator"] = where]
                                           /\ UNCHANGED <<puts, sent, putting, rotation>>
    BY <2>1, <1>10 DEF Rewrap, TypeOK, Where
  <2>2. CASE \E k \in rotation.todo :
               SendKey("rotator", k) /\ rotation' = [rotation EXCEPT !.todo = @ \ {k}]
    <3>1. PICK k \in rotation.todo :
            SendKey("rotator", k) /\ rotation' = [rotation EXCEPT !.todo = @ \ {k}]
      BY <2>2
    <3>2. k \in DataKeys
      BY DEF TypeOK
    <3> DEFINE R == [after : DataKeys \cup {None}, todo : SUBSET DataKeys,
                     had : SUBSET DataKeys, settled : SUBSET DataKeys]
    <3>3. rotation' \in R
      BY <3>1 DEF TypeOK
    <3>4. /\ sent' \in [Actors -> Nat] /\ puts' \subseteq Put
          /\ putting' \in [Actors -> DataKeys \cup {None}] /\ at' \in [Actors -> Where]
      BY <3>1, <3>2, SendType
    <3> HIDE DEF R
    <3> QED  BY <3>3, <3>4, <1>10 DEF Rewrap, TypeOK, R
  <2> QED  BY <2>1, <2>2, <1>10 DEF Rewrap
<1>11. CASE OpenPage \/ ReadKeys
  <2> DEFINE P == [at : {"idle", "keys", "end"}, session : Sessions \cup {None},
                   refs : SUBSET Reference,
                   keys : SUBSET [key : DataKeys, master : {None, "old", "new"}],
                   begun : BOOLEAN, rotated : BOOLEAN]
  <2>1. page \in P
    BY DEF TypeOK
  <2>2. CASE OpenPage
    <3>1. PICK s \in Sessions :
            page' = [page EXCEPT !.at = "keys", !.session = s,
                       !.refs = UNION {r.refs : r \in {x \in stored : x.session = s}},
                       !.rotated = at["rotator"] = "end"]
      BY <2>2 DEF OpenPage
    <3>2. UNION {r.refs : r \in {x \in stored : x.session = s}} \in SUBSET Reference
      BY DEF TypeOK, StoredRecord
    <3> DEFINE shown == UNION {r.refs : r \in {x \in stored : x.session = s}}
               rotated == (at["rotator"] = "end")
    <3>3. rotated \in BOOLEAN
      OBVIOUS
    <3> HIDE DEF shown, rotated
    <3>4. page' \in P
      BY <3>1, <3>2, <3>3, <2>1 DEF shown, rotated
    <3> HIDE DEF P
    <3> QED  BY <3>4, <2>2 DEF OpenPage, TypeOK, P, server, client
  <2>3. CASE ReadKeys
    <3> DEFINE keys == {[key |-> ref.key, master |-> wrapped[ref.key]] :
                          ref \in {x \in Encrypted(page.refs) : wrapped[x.key] # None}}
               begun == (at["rotator"] # "idle")
    <3>1. page' = [page EXCEPT !.at = "end", !.keys = keys, !.begun = begun]
      BY <2>3 DEF ReadKeys
    <3>2. \A ref \in Encrypted(page.refs) : ref.key \in DataKeys
      BY DEF TypeOK, Encrypted, Reference
    <3>3. \A k \in DataKeys : [key |-> k, master |-> wrapped[k]]
                                 \in [key : DataKeys, master : {None, "old", "new"}]
      BY DEF TypeOK
    <3>4. keys \in SUBSET [key : DataKeys, master : {None, "old", "new"}] /\ begun \in BOOLEAN
      BY <3>2, <3>3
    <3> HIDE DEF keys, begun
    <3>5. page' \in P
      BY <3>1, <3>4, <2>1
    <3> HIDE DEF P
    <3> QED  BY <3>5, <2>3 DEF ReadKeys, TypeOK, P, server, client
  <2> QED  BY <2>2, <2>3, <1>11
<1>12. CASE UNCHANGED vars
  BY <1>12 DEF vars, server, client, TypeOK
<1> QED  BY <1>1, <1>2, <1>3, <1>4, <1>5, <1>6, <1>7, <1>8, <1>9, <1>10, <1>11, <1>12
         DEF Next, WriterStep

-----------------------------------------------------------------------------
(***************************************************************************)
(* What a step leaves alone.                                               *)
(***************************************************************************)

Mine(a) == <<at[a], sent[a], putting[a]>>
Calling(w) == <<made[w], registered[w], uploads[w], answers[w]>>

\* An attempt leaves everyone else's alone.
LEMMA OthersWait ==
  ASSUME TypeOK, NEW a \in Actors
  PROVE  /\ \A where \in Where : Go(a, where) =>
              /\ at' = [at EXCEPT ![a] = where] /\ answers' = answers
         /\ \A where \in Where : Retry(a, where) =>
              \/ at' = [at EXCEPT ![a] = where] /\ answers' = answers
              \/ /\ a \in Writers
                 /\ Return(a, IF where = "post" THEN "unknown" ELSE "raised", <<>>)
              \/ a \notin Writers /\ at' = [at EXCEPT ![a] = "stopped"] /\ answers' = answers
BY DEF Go, Retry

\* What one actor goes on to, or is answered, is nothing to another.
LEMMA NotAnothers ==
  ASSUME TypeOK, NEW a \in Actors, NEW w \in Writers, a # w
  PROVE  /\ \A where \in Where : Go(a, where) => at'[w] = at[w] /\ answers'[w] = answers[w]
         /\ \A where \in Where : Retry(a, where) => at'[w] = at[w] /\ answers'[w] = answers[w]
         /\ \A how : \A results : Return(a, how, results) => at'[w] = at[w] /\ answers'[w] = answers[w]
<1>1. \A how : \A results : Return(a, how, results) => at'[w] = at[w] /\ answers'[w] = answers[w]
  BY DEF Return, TypeOK, Actors
<1>2. \A where \in Where : Go(a, where) => at'[w] = at[w] /\ answers'[w] = answers[w]
  BY DEF Go, TypeOK, Actors
<1>3. ASSUME NEW where \in Where, Retry(a, where)
      PROVE  at'[w] = at[w] /\ answers'[w] = answers[w]
  <2>1. \A there : at' = [at EXCEPT ![a] = there] => at'[w] = at[w]
    BY DEF TypeOK, Actors
  <2> QED  BY <2>1, <1>1, <1>3, OthersWait
<1> QED  BY <1>1, <1>2, <1>3

\* The call a writer is in stays what it is while it is not answered.
LEMMA SameCall ==
  ASSUME NEW w, program' = program, answers'[w] = answers[w]
  PROVE  /\ Turn(w)' = Turn(w) /\ Call(w)' = Call(w) /\ Inputs(w)' = Inputs(w)
         /\ Sound(w)' = Sound(w) /\ Slots(w)' = Slots(w)
         /\ \A slot : At(w, slot)' = At(w, slot)
         /\ \A i : Refs(w, i)' = Refs(w, i) /\ RecordId(w, i)' = RecordId(w, i)
<1>1. Turn(w)' = Turn(w)
  BY DEF Turn
<1>2. Call(w)' = Call(w) /\ Inputs(w)' = Inputs(w)
  BY <1>1 DEF Call, Inputs
<1>3. Sound(w)' = Sound(w)
  BY <1>2 DEF Sound, Unencodable
<1>4. \A i : Raw(w, i)' = Raw(w, i)
  BY <1>2 DEF Raw
<1>5. Slots(w)' = Slots(w)
  BY <1>3, <1>4 DEF Slots
<1>6. \A i : \A j : Ref(w, i, j)' = Ref(w, i, j)
  BY <1>1, <1>2 DEF Ref
<1>7. \A slot : At(w, slot)' = At(w, slot)
  BY <1>6 DEF At
<1>8. \A i : Refs(w, i)' = Refs(w, i) /\ RecordId(w, i)' = RecordId(w, i)
  BY <1>1, <1>2, <1>6 DEF Refs, RecordId
<1> QED  BY <1>1, <1>2, <1>3, <1>5, <1>7, <1>8

\* A step is a step of the one writer in whose call something happens, if any.
Own(w) ==
  \/ WriterStep(w) \/ ResendKey(w) \/ TimeOut(w)
  \/ \E q \in puts : q.by = w /\ Awaited(q) /\ WriteKey(q)

LEMMA OthersUnmoved ==
  ASSUME TypeOK, [Next]_vars, NEW w \in Writers, ~Own(w)
  PROVE  Mine(w)' = Mine(w) /\ Calling(w)' = Calling(w)
<1> USE DEF Actors
<1>1. w # "rotator" /\ w \in Actors
  BY UploadsAssumption
<1>2. ASSUME NEW v \in Writers, WriterStep(v) PROVE Mine(w)' = Mine(w) /\ Calling(w)' = Calling(w)
  <2>1. v # w
    BY <1>2 DEF Own
  <2>2. /\ \A where \in Where : Go(v, where) => at'[w] = at[w] /\ answers'[w] = answers[w]
        /\ \A where \in Where : Retry(v, where) => at'[w] = at[w] /\ answers'[w] = answers[w]
        /\ \A how : \A results : Return(v, how, results) => at'[w] = at[w] /\ answers'[w] = answers[w]
    BY <2>1, NotAnothers
  <2>3. \A k : SendKey(v, k) => at'[w] = at[w] /\ sent'[w] = sent[w] /\ putting'[w] = putting[w]
    BY <2>1 DEF SendKey, TypeOK
  <2>4. CASE Plan(v)
    BY <2>4, <2>1, <2>2 DEF Plan, TypeOK, Mine, Calling, server, Where
  <2>5. CASE NextKey(v)
    BY <2>5, <2>1, <2>2, <2>3 DEF NextKey, TypeOK, Mine, Calling, Where
  <2>6. CASE Upload(v) \/ LoseUpload(v)
    BY <2>6, <2>1, <2>2 DEF Upload, LoseUpload, TypeOK, Mine, Calling, Where
  <2>7. CASE Post(v) \/ LosePost(v)
    BY <2>7, <2>1, <2>2 DEF Post, LosePost, TypeOK, Mine, Calling, Where
  <2> QED  BY <1>2, <2>4, <2>5, <2>6, <2>7 DEF WriterStep
<1>3. ASSUME NEW a \in Actors, ResendKey(a) \/ TimeOut(a)
      PROVE  Mine(w)' = Mine(w) /\ Calling(w)' = Calling(w)
  <2>1. a # w
    BY <1>3 DEF Own
  <2>2. Retry(a, "again") => at'[w] = at[w] /\ answers'[w] = answers[w]
    BY <2>1, NotAnothers DEF Where
  <2>3. \A k : SendKey(a, k) => at'[w] = at[w] /\ sent'[w] = sent[w] /\ putting'[w] = putting[w]
    BY <2>1 DEF SendKey, TypeOK
  <2> QED  BY <1>3, <2>2, <2>3 DEF ResendKey, TimeOut, Mine, Calling
<1>4. ASSUME NEW q \in puts, WriteKey(q)
      PROVE  Mine(w)' = Mine(w) /\ Calling(w)' = Calling(w)
  <2>1. q.by \in Actors
    BY DEF TypeOK, Put
  <2>2. q.by # w \/ ~Awaited(q)
    BY <1>4 DEF Own
  <2>3. CASE ~Awaited(q)
    BY <2>3, <1>4 DEF WriteKey, KeyAnswered, Mine, Calling
  <2>4. CASE q.by # w
    <3>1. Retry(q.by, "again") => at'[w] = at[w] /\ answers'[w] = answers[w]
      BY <2>4, <2>1, NotAnothers DEF Where
    <3>2. \A where \in Where : Go(q.by, where) => at'[w] = at[w] /\ answers'[w] = answers[w]
      BY <2>4, <2>1, NotAnothers
    <3>3. at'[w] = at[w] /\ answers'[w] = answers[w] /\ registered'[w] = registered[w]
      BY <3>1, <3>2, <2>4, <2>1, <1>4 DEF WriteKey, KeyAnswered, TypeOK, Where
    <3> QED  BY <3>3, <1>4 DEF WriteKey, Mine, Calling
  <2> QED  BY <2>2, <2>3, <2>4
<1>5. CASE \/ \E q \in puts : FindKey(q)
           \/ OpenPage \/ ReadKeys
           \/ UNCHANGED vars
  BY <1>5 DEF FindKey, OpenPage, ReadKeys, vars, server, client, Mine, Calling
<1>6. CASE BeginRotation \/ ListKeys
  BY <1>1, <1>6 DEF BeginRotation, ListKeys, server, Mine, Calling, TypeOK
<1>7. CASE Rewrap
  BY <1>1, <1>7 DEF Rewrap, SendKey, Mine, Calling, TypeOK
<1> QED  BY <1>2, <1>3, <1>4, <1>5, <1>6, <1>7 DEF Next

\* Content, records and keys that are there stay there, and so do the keys a writer has.
LEMMA NothingIsLost ==
  ASSUME TypeOK, [Next]_vars
  PROVE  /\ program' = program
         /\ objects \subseteq objects' /\ stored \subseteq stored'
         /\ \A k \in DataKeys : wrapped[k] # None => wrapped'[k] # None
         /\ \A w \in Writers : made[w] \subseteq made'[w] /\ registered[w] \subseteq registered'[w]
<1> USE DEF Actors
<1>1. ASSUME NEW w \in Writers, WriterStep(w)
      PROVE  /\ program' = program /\ wrapped' = wrapped /\ registered' = registered
             /\ objects \subseteq objects' /\ stored \subseteq stored'
             /\ \A v \in Writers : made[v] \subseteq made'[v]
  <2>1. CASE Plan(w)
    BY <2>1 DEF Plan, server, TypeOK
  <2>2. CASE NextKey(w)
    BY <2>2 DEF NextKey
  <2>3. CASE Upload(w) \/ LoseUpload(w)
    BY <2>3 DEF Upload, LoseUpload
  <2>4. CASE Post(w) \/ LosePost(w)
    BY <2>4 DEF Post, LosePost, Taken
  <2> QED  BY <1>1, <2>1, <2>2, <2>3, <2>4 DEF WriterStep
<1>2. ASSUME NEW q \in puts, WriteKey(q)
      PROVE  /\ program' = program /\ made' = made /\ objects' = objects /\ stored' = stored
             /\ \A k \in DataKeys : wrapped[k] # None => wrapped'[k] # None
             /\ \A w \in Writers : registered[w] \subseteq registered'[w]
  <2>1. q.master # None
    BY UploadsAssumption DEF TypeOK, Put
  <2>2. \A k \in DataKeys : wrapped[k] # None => wrapped'[k] # None
    BY <2>1, <1>2 DEF WriteKey, TypeOK
  <2>3. \A w \in Writers : registered[w] \subseteq registered'[w]
    <3>1. \/ registered' = registered
          \/ \E v \in Writers : registered' = [registered EXCEPT ![v] = @ \cup {q.key}]
      BY <1>2 DEF WriteKey, KeyAnswered
    <3>2. registered \in [Writers -> SUBSET DataKeys]
      BY DEF TypeOK
    <3>3. ASSUME NEW v \in Writers, registered' = [registered EXCEPT ![v] = @ \cup {q.key}]
          PROVE  \A w \in Writers : registered[w] \subseteq registered'[w]
      BY <3>2, <3>3
    <3> QED  BY <3>1, <3>3
  <2> QED  BY <2>2, <2>3, <1>2 DEF WriteKey
<1>3. CASE \/ \E a \in Actors : ResendKey(a) \/ TimeOut(a)
           \/ \E q \in puts : FindKey(q)
           \/ BeginRotation \/ ListKeys \/ Rewrap
           \/ OpenPage \/ ReadKeys \/ UNCHANGED vars
  BY <1>3 DEF ResendKey, TimeOut, FindKey, BeginRotation, ListKeys, Rewrap, OpenPage, ReadKeys,
              vars, server, client
<1> QED  BY <1>1, <1>2, <1>3 DEF Next

\* A writer that is in a call after a step was not answered in it.
LEMMA StillInCall ==
  ASSUME TypeOK, [Next]_vars, NEW w \in Writers, at'[w] # "idle"
  PROVE  answers'[w] = answers[w]
<1> USE DEF Actors
<1>1. CASE ~Own(w)
  BY <1>1, OthersUnmoved DEF Calling
<1>2. CASE Own(w)
  <2>1. \A how : \A results : Return(w, how, results) => at'[w] = "idle"
    BY DEF Return, TypeOK
  <2>2. \A where \in Where : Go(w, where) \/ Retry(w, where) => answers' = answers
    BY <2>1, OthersWait
  <2>3. CASE WriterStep(w)
    BY <2>3, <2>1, <2>2 DEF WriterStep, Plan, NextKey, Upload, LoseUpload, Post, LosePost, Where
  <2>4. CASE ResendKey(w) \/ TimeOut(w)
    BY <2>4, <2>2 DEF ResendKey, TimeOut, Where
  <2>5. ASSUME NEW q \in puts, q.by = w, WriteKey(q) PROVE answers' = answers
    BY <2>5, <2>2 DEF WriteKey, KeyAnswered, Where
  <2> QED  BY <1>2, <2>3, <2>4, <2>5 DEF Own
<1> QED  BY <1>1, <1>2

-----------------------------------------------------------------------------
(***************************************************************************)
(* A call: what it is to upload, and its keys.                             *)
(***************************************************************************)

\* Every slot of a call that goes on has a key of the call's own, if it has one.
LEMMA SlotKeysAreMade ==
  ASSUME TypeOK, NEW w \in Writers, Turn(w) <= Len(program[w]), ~Raises(w), NEW slot \in Slots(w)
  PROVE  At(w, slot).key \in KeysMade(w) \cup {None}
<1> DEFINE i == slot[1]
           j == slot[2]
<1>1. /\ i \in Sound(w) /\ i \in DOMAIN Inputs(w) /\ j \in Raw(w, i)
      /\ j \in DOMAIN Inputs(w)[i].values
  BY SlotsFinite
<1>2. At(w, slot) = Ref(w, i, j)
  BY DEF At
<1> HIDE DEF i, j
<1>3. Ref(w, i, j).key # None => w \in Encrypting /\ Ref(w, i, j).key = <<w, Inputs(w)[i].session>>
  BY <1>1, RefType
<1>4. w \in Encrypting => Unencodable(w) = {}
  BY UploadsAssumption DEF Raises
<1>5. w \in Encrypting => <<w, Inputs(w)[i].session>> \in KeysMade(w)
  BY <1>1, <1>4 DEF KeysMade
<1> QED  BY <1>2, <1>3, <1>5

\* A call keeps what it is to upload until it is uploaded.
LEMMA CallsGoOn ==
  ASSUME TypeOK, CallsUnderWay, [Next]_vars
  PROVE  CallsUnderWay'
<1> USE DEF Actors
<1> SUFFICES ASSUME NEW w \in Writers, at'[w] \in InCall
             PROVE  /\ Turn(w)' <= Len(program'[w]) /\ Sound(w)' # {}
                    /\ at'[w] = "post" <=> uploads'[w] = <<>>
                    /\ \A slot \in Slots(w)' : At(w, slot)' \in objects' \cup Range(uploads'[w])
  BY DEF CallsUnderWay
<1>1. program' = program /\ objects \subseteq objects' /\ answers'[w] = answers[w]
  BY NothingIsLost, StillInCall DEF InCall
<1>2. /\ Turn(w)' = Turn(w) /\ Sound(w)' = Sound(w) /\ Slots(w)' = Slots(w)
      /\ \A slot : At(w, slot)' = At(w, slot)
  BY <1>1, SameCall
<1>3. SUFFICES /\ Turn(w) <= Len(program[w]) /\ Sound(w) # {}
               /\ at'[w] = "post" <=> uploads'[w] = <<>>
               /\ \A slot \in Slots(w) : At(w, slot) \in objects' \cup Range(uploads'[w])
  <2> DEFINE found(u) == \A slot \in Slots(w) : At(w, slot) \in objects' \cup Range(u)
  <2>1. \A slot \in Slots(w)' : At(w, slot)' = At(w, slot) /\ slot \in Slots(w)
    BY <1>2
  <2> QED  BY <2>1, <1>1, <1>2
<1>4. ASSUME at[w] \in InCall, uploads'[w] = uploads[w], at'[w] = "post" <=> at[w] = "post"
      PROVE  /\ Turn(w) <= Len(program[w]) /\ Sound(w) # {}
             /\ at'[w] = "post" <=> uploads'[w] = <<>>
             /\ \A slot \in Slots(w) : At(w, slot) \in objects' \cup Range(uploads'[w])
  BY <1>1, <1>4 DEF CallsUnderWay
<1>5. CASE ~Own(w)
  BY <1>4, <1>5, OthersUnmoved DEF Mine, Calling
<1>6. CASE Plan(w)
  <2>1. Turn(w) <= Len(program[w])
    BY <1>6 DEF Plan
  <2>2. \A how : \A results : ~Return(w, how, results)
    BY DEF Return, TypeOK, InCall
  <2>3. /\ Sound(w) # {} /\ uploads' = [uploads EXCEPT ![w] = Planned(w)]
        /\ Go(w, IF Planned(w) = <<>> THEN "post" ELSE "keys")
    BY <1>6, <2>2 DEF Plan
  <2>4. uploads'[w] = Planned(w)
    BY <2>3 DEF TypeOK
  <2>5. at'[w] = IF Planned(w) = <<>> THEN "post" ELSE "keys"
    BY <2>3 DEF Go, TypeOK
  <2> QED  BY <2>1, <2>3, <2>4, <2>5, PlannedIsWhatIsNeeded
<1>7. CASE NextKey(w)
  <2>1. at[w] = "keys" /\ uploads' = uploads
    BY <1>7 DEF NextKey
  <2>2. at'[w] # "post"
    BY <1>7 DEF NextKey, Go, SendKey, TypeOK
  <2> QED  BY <2>1, <2>2, <1>4 DEF InCall
<1>8. CASE Upload(w)
  <2>1. \A how : \A results : ~Return(w, how, results)
    BY DEF Return, TypeOK, InCall
  <2>2. /\ at[w] = "content" /\ objects' = objects \cup {Head(uploads[w])}
        /\ uploads' = [uploads EXCEPT ![w] = Tail(@)]
        /\ Go(w, IF Len(uploads[w]) = 1 THEN "post" ELSE "content")
    BY <1>8, <2>1 DEF Upload
  <2>3. /\ at'[w] = (IF Len(uploads[w]) = 1 THEN "post" ELSE "content")
        /\ uploads'[w] = Tail(uploads[w])
    BY <2>2 DEF Go, TypeOK
  <2>4. uploads[w] \in Seq(Reference) /\ uploads[w] # <<>>
    BY <2>2 DEF TypeOK, CallsUnderWay, InCall
  <2>5. Len(uploads[w]) = 1 <=> Tail(uploads[w]) = <<>>
    BY <2>4, TailOfOne
  <2>6. Range(uploads[w]) \subseteq {Head(uploads[w])} \cup Range(Tail(uploads[w]))
    <3> SUFFICES ASSUME NEW n \in DOMAIN uploads[w], n # 1
                 PROVE  uploads[w][n] \in Range(Tail(uploads[w]))
      BY <2>4 DEF Range
    <3>1. n - 1 \in DOMAIN Tail(uploads[w]) /\ Tail(uploads[w])[n - 1] = uploads[w][n]
      BY <2>4
    <3> QED  BY <3>1 DEF Range
  <2> QED  BY <2>2, <2>3, <2>5, <2>6 DEF CallsUnderWay, InCall
<1>9. CASE LoseUpload(w)
  <2>1. Retry(w, "content") /\ at[w] = "content" /\ uploads' = uploads
    BY <1>9 DEF LoseUpload
  <2>2. at'[w] # "post"
    BY <2>1, OthersWait DEF TypeOK, Where, Return
  <2> QED  BY <2>1, <2>2, <1>4 DEF InCall
<1>10. CASE Post(w)
  BY <1>10 DEF Post, Return, TypeOK, InCall
<1>11. CASE LosePost(w)
  <2>1. Retry(w, "post") /\ at[w] = "post" /\ uploads' = uploads
    BY <1>11 DEF LosePost
  <2>2. at'[w] = "post"
    BY <2>1, OthersWait DEF TypeOK, Where, Return, InCall
  <2> QED  BY <2>1, <2>2, <1>4 DEF InCall
<1>12. CASE ResendKey(w) \/ TimeOut(w)
  <2>1. at[w] \in InCall /\ at[w] # "post" /\ uploads' = uploads
    BY <1>12 DEF ResendKey, TimeOut, InCall
  <2>2. at'[w] # "post"
    <3>1. CASE ResendKey(w)
      BY <3>1 DEF ResendKey, SendKey, TypeOK
    <3>2. CASE TimeOut(w)
      BY <3>2, OthersWait DEF TimeOut, TypeOK, Where, Return
    <3> QED  BY <1>12, <3>1, <3>2
  <2> QED  BY <2>1, <2>2, <1>4
<1>13. ASSUME NEW q \in puts, q.by = w, Awaited(q), WriteKey(q)
       PROVE  at[w] \in InCall /\ at[w] # "post" /\ uploads' = uploads /\ at'[w] # "post"
  <2>1. at[w] = "wait" /\ uploads' = uploads
    BY <1>13 DEF Awaited, WriteKey
  <2>2. at'[w] # "post"
    BY <1>13, OthersWait DEF WriteKey, KeyAnswered, TypeOK, Where, Return, Go
  <2> QED  BY <2>1, <2>2 DEF InCall
<1> QED  BY <1>4, <1>5, <1>6, <1>7, <1>8, <1>9, <1>10, <1>11, <1>12, <1>13 DEF Own, WriterStep

\* A writer that is in a call was in it before the step, or has just planned it; it
\* comes to its content when its keys are registered.
LEMMA WasInCall ==
  ASSUME TypeOK, [Next]_vars, NEW w \in Writers, at'[w] \in InCall, ~Plan(w)
  PROVE  /\ at[w] \in InCall
         /\ at'[w] \in {"content", "post"} =>
              \/ at[w] \in {"content", "post"}
              \/ made[w] \subseteq registered[w]
<1> USE DEF Actors
<1>1. CASE ~Own(w)
  BY <1>1, OthersUnmoved DEF Mine
<1>2. CASE NextKey(w)
  BY <1>2 DEF NextKey, SendKey, TypeOK, InCall
<1>3. CASE Upload(w) \/ LoseUpload(w) \/ Post(w) \/ LosePost(w)
  BY <1>3 DEF Upload, LoseUpload, Post, LosePost, InCall
<1>4. CASE ResendKey(w)
  BY <1>4 DEF ResendKey, SendKey, TypeOK, InCall
<1>5. CASE TimeOut(w)
  BY <1>5, OthersWait DEF TimeOut, Return, TypeOK, Where, InCall
<1>6. ASSUME NEW q \in puts, q.by = w, Awaited(q), WriteKey(q)
      PROVE  at[w] \in InCall /\ at'[w] \notin {"content", "post"}
  <2>1. at[w] = "wait"
    BY <1>6 DEF Awaited
  <2>2. at'[w] \in {"keys", "again", "idle"}
    BY <1>6, OthersWait DEF WriteKey, KeyAnswered, TypeOK, Where, Return, Go
  <2> QED  BY <2>1, <2>2 DEF InCall
<1> QED  BY <1>1, <1>2, <1>3, <1>4, <1>5, <1>6 DEF Own, WriterStep

\* A call's keys are its writer's, and they are registered before its content is uploaded.
LEMMA KeysGoOn ==
  ASSUME TypeOK, CallsUnderWay, KeysUnderWay, [Next]_vars
  PROVE  KeysUnderWay'
<1> USE DEF Actors
<1> SUFFICES ASSUME NEW w \in Writers
             PROVE  /\ at'[w] \in InCall =>
                         \A slot \in Slots(w)' : At(w, slot)'.key \in made'[w] \cup {None}
                    /\ at'[w] \in {"content", "post"} =>
                         \A slot \in Slots(w)' : At(w, slot)'.key \in registered'[w] \cup {None}
  BY DEF KeysUnderWay
<1> SUFFICES ASSUME at'[w] \in InCall
             PROVE  /\ \A slot \in Slots(w)' : At(w, slot)'.key \in made'[w] \cup {None}
                    /\ at'[w] \in {"content", "post"} =>
                         \A slot \in Slots(w)' : At(w, slot)'.key \in registered'[w] \cup {None}
  BY DEF InCall
<1>1. /\ program' = program /\ answers'[w] = answers[w]
      /\ made[w] \subseteq made'[w] /\ registered[w] \subseteq registered'[w]
  BY NothingIsLost, StillInCall DEF InCall
<1>2. \A slot \in Slots(w)' : slot \in Slots(w) /\ At(w, slot)' = At(w, slot)
  BY <1>1, SameCall
<1>3. SUFFICES /\ \A slot \in Slots(w) : At(w, slot).key \in made'[w] \cup {None}
               /\ at'[w] \in {"content", "post"} =>
                    \A slot \in Slots(w) : At(w, slot).key \in registered'[w] \cup {None}
  BY <1>2
<1>4. CASE Plan(w)
  <2>1. Turn(w) <= Len(program[w])
    BY <1>4 DEF Plan
  <2>2. \A how : \A results : ~Return(w, how, results)
    BY DEF Return, TypeOK, InCall
  <2>3. /\ ~Raises(w) /\ made' = [made EXCEPT ![w] = @ \cup KeysMade(w)]
        /\ Go(w, IF Planned(w) = <<>> THEN "post" ELSE "keys")
    BY <1>4, <2>2 DEF Plan
  <2>4. made'[w] = made[w] \cup KeysMade(w)
    BY <2>3 DEF TypeOK
  <2>5. \A slot \in Slots(w) : At(w, slot).key \in made'[w] \cup {None}
    BY <2>1, <2>3, <2>4, SlotKeysAreMade
  <2>6. at'[w] \in {"content", "post"} => Planned(w) = <<>>
    BY <2>3 DEF Go, TypeOK
  <2>7. Planned(w) = <<>> => Slots(w) = {}
    BY <2>1, PlannedIsWhatIsNeeded DEF Range
  <2> QED  BY <2>5, <2>6, <2>7
<1>5. CASE ~Plan(w)
  <2>1. /\ at[w] \in InCall
        /\ at'[w] \in {"content", "post"} =>
             at[w] \in {"content", "post"} \/ made[w] \subseteq registered[w]
    BY <1>5, WasInCall
  <2> QED  BY <2>1, <1>1 DEF KeysUnderWay
<1> QED  BY <1>4, <1>5

\* A key that its writer knows is registered is there.
LEMMA KeysStayThere ==
  ASSUME TypeOK, KeysAreThere, PutsAreSent, [Next]_vars
  PROVE  KeysAreThere'
<1> USE DEF Actors
<1> SUFFICES ASSUME NEW w \in Writers
             PROVE  /\ \A k \in made'[w] \cup registered'[w] : k[1] = w
                    /\ \A k \in registered'[w] : wrapped'[k] # None
  BY DEF KeysAreThere
<1>1. /\ \A k \in made[w] \cup registered[w] : k[1] = w
      /\ \A k \in registered[w] : wrapped'[k] # None
  <2>1. \A k \in registered[w] : k \in DataKeys
    BY DEF TypeOK
  <2> QED  BY <2>1, NothingIsLost DEF KeysAreThere
<1>2. CASE made'[w] = made[w] /\ registered'[w] = registered[w]
  BY <1>1, <1>2
<1>3. CASE Plan(w)
  <2>1. Turn(w) <= Len(program[w])
    BY <1>3 DEF Plan
  <2>2. made'[w] = made[w] \cup KeysMade(w) /\ registered' = registered
    BY <1>3 DEF Plan, TypeOK
  <2> QED  BY <2>1, <2>2, <1>1, KeysMadeType
<1>4. ASSUME NEW q \in puts, q.by = w, Awaited(q), WriteKey(q)
      PROVE  /\ \A k \in made'[w] \cup registered'[w] : k[1] = w
             /\ \A k \in registered'[w] : wrapped'[k] # None
  <2>1. q.key \in DataKeys /\ q.master # None
    BY UploadsAssumption DEF TypeOK, Put
  <2>2. q.key[1] = w
    BY <1>4 DEF PutsAreSent
  <2>3. made' = made
    BY <1>4 DEF WriteKey
  <2>4. \/ registered' = registered
        \/ /\ registered' = [registered EXCEPT ![w] = @ \cup {q.key}]
           /\ q.at = "update" \/ wrapped[q.key] = None
    BY <1>4 DEF WriteKey, KeyAnswered
  <2>5. q.at = "update" \/ wrapped[q.key] = None => wrapped'[q.key] = q.master
    BY <2>1, <1>4 DEF WriteKey, TypeOK
  <2>6. \A k \in registered'[w] : k \in registered[w]
             \/ (k = q.key /\ (q.at = "update" \/ wrapped[q.key] = None))
    <3>1. registered \in [Writers -> SUBSET DataKeys]
      BY DEF TypeOK
    <3> QED  BY <3>1, <2>4
  <2> QED  BY <2>1, <2>2, <2>3, <2>5, <2>6, <1>1
<1>5. CASE ~Own(w)
  BY <1>2, <1>5, OthersUnmoved DEF Calling
<1>6. CASE NextKey(w) \/ Upload(w) \/ LoseUpload(w) \/ Post(w) \/ LosePost(w) \/ ResendKey(w) \/ TimeOut(w)
  BY <1>2, <1>6 DEF NextKey, Upload, LoseUpload, Post, LosePost, ResendKey, TimeOut
<1> QED  BY <1>3, <1>4, <1>5, <1>6 DEF Own, WriterStep

\* What is posted is there: content, and the keys it was encrypted with.
LEMMA PostedIsThere ==
  ASSUME TypeOK, CallsUnderWay, KeysUnderWay, KeysAreThere, NEW w \in Writers, at[w] = "post",
         NEW i \in Sound(w), NEW j \in Raw(w, i)
  PROVE  Present(Ref(w, i, j))
<1>1. Turn(w) <= Len(program[w]) /\ uploads[w] = <<>>
  BY DEF CallsUnderWay, InCall
<1>2. <<i, j>> \in Slots(w) /\ At(w, <<i, j>>) = Ref(w, i, j)
  BY <1>1, SlotsFinite DEF At
<1>3. Ref(w, i, j) \in objects
  <2>1. Range(uploads[w]) = {}
    BY <1>1 DEF Range
  <2> QED  BY <1>2, <2>1 DEF CallsUnderWay, InCall
<1>4. Ref(w, i, j).key \in registered[w] \cup {None}
  BY <1>2 DEF KeysUnderWay
<1> QED  BY <1>3, <1>4 DEF Present, KeysAreThere

\* A record that cannot be taken has a reference its caller brought along.
LEMMA OnlyGivenIsUnfit ==
  ASSUME TypeOK, CallsUnderWay, KeysUnderWay, KeysAreThere, NEW w \in Writers, at[w] = "post",
         NEW i \in Sound(w), i \notin Fit(w)
  PROVE  Given(w, Turn(w), i)
<1>1. Turn(w) <= Len(program[w])
  BY DEF CallsUnderWay, InCall
<1>2. PICK ref \in Refs(w, i) : ~Present(ref)
  BY DEF Fit
<1>3. PICK j \in DOMAIN Inputs(w)[i].values : ref = Ref(w, i, j)
  BY <1>2 DEF Refs
<1>4. j \notin Raw(w, i)
  BY <1>2, <1>3, PostedIsThere
<1>5. Inputs(w)[i].values[j].given
  BY <1>3, <1>4 DEF Raw
<1> QED  BY <1>3, <1>5 DEF Given, Inputs, Call

-----------------------------------------------------------------------------
(***************************************************************************)
(* Records and answers.                                                    *)
(***************************************************************************)

\* A record is stored by the post of its own call, when it is fit.
LEMMA NewRecords ==
  ASSUME [Next]_vars, NEW r \in stored' \ stored
  PROVE  \E w \in Writers : \E i \in Fit(w) :
           /\ Post(w) \/ LosePost(w)
           /\ r = [id |-> RecordId(w, i), session |-> Inputs(w)[i].session, refs |-> Refs(w, i)]
<1>1. ASSUME NEW w \in Writers, Post(w) \/ LosePost(w)
      PROVE  \E i \in Fit(w) :
               r = [id |-> RecordId(w, i), session |-> Inputs(w)[i].session, refs |-> Refs(w, i)]
  <2>1. r \in Taken(w)
    BY <1>1 DEF Post, LosePost
  <2> QED  BY <2>1 DEF Taken
<1>2. CASE \E w \in Writers : Plan(w) \/ NextKey(w) \/ Upload(w) \/ LoseUpload(w)
  BY <1>2 DEF Plan, NextKey, Upload, LoseUpload, server
<1>3. CASE \E a \in Actors : ResendKey(a) \/ TimeOut(a)
  BY <1>3 DEF ResendKey, TimeOut
<1>4. CASE \E q \in puts : FindKey(q) \/ WriteKey(q)
  BY <1>4 DEF FindKey, WriteKey
<1>5. CASE BeginRotation \/ ListKeys \/ Rewrap \/ OpenPage \/ ReadKeys \/ UNCHANGED vars
  BY <1>5 DEF BeginRotation, ListKeys, Rewrap, OpenPage, ReadKeys, server, vars
<1> QED  BY <1>1, <1>2, <1>3, <1>4, <1>5 DEF Next, WriterStep

\* A call that a client posts has no content the server refuses.
LEMMA PostedIsNotTooLarge ==
  ASSUME TypeOK, CallsUnderWay, KeysUnderWay, KeysAreThere, StoredIsSound,
         NEW w \in Writers, at[w] = "post"
  PROVE  Turn(w) \in DOMAIN program[w] /\ ~HasTooLarge(program[w][Turn(w)])
<1>1. Turn(w) <= Len(program[w])
  BY DEF CallsUnderWay, InCall
<1>2. Turn(w) \in DOMAIN program[w] /\ program[w][Turn(w)] = Call(w)
  BY <1>1, CallType
<1>3. ASSUME NEW i \in DOMAIN Inputs(w), NEW j \in DOMAIN Inputs(w)[i].values,
             Inputs(w)[i].valid, Inputs(w)[i].encodable, ~Inputs(w)[i].values[j].given
      PROVE  Inputs(w)[i].values[j].value \notin TooLarge
  <2>1. i \in Sound(w) /\ j \in Raw(w, i)
    BY <1>3 DEF Sound, Unencodable, Raw
  <2>2. Ref(w, i, j) \in objects
    BY <2>1, PostedIsThere DEF Present
  <2>3. Ref(w, i, j).value = Inputs(w)[i].values[j].value
    BY <1>1, RefType
  <2> QED  BY <2>2, <2>3 DEF StoredIsSound
<1>4. ~HasTooLarge(Call(w))
  BY <1>3 DEF HasTooLarge, Inputs
<1> QED  BY <1>2, <1>4

\* What is stored stays sound.
LEMMA StoredStaysSound ==
  ASSUME TypeOK, CallsUnderWay, KeysUnderWay, KeysAreThere, StoredIsSound, [Next]_vars
  PROVE  StoredIsSound'
<1>1. program' = program
      /\ \A k \in DataKeys : wrapped[k] # None => wrapped'[k] # None
  BY NothingIsLost
<1>2. ASSUME NEW ref \in objects' PROVE ref.value \notin TooLarge
  <2>1. CASE ref \in objects
    BY <2>1 DEF StoredIsSound
  <2>2. ASSUME NEW w \in Writers, Upload(w) \/ LoseUpload(w)
        PROVE  ref \in objects \/ ref.value \notin TooLarge
    BY <2>2 DEF Upload, LoseUpload
  <2>3. CASE objects' = objects
    BY <2>1, <2>3
  <2>4. CASE \/ \E w \in Writers : Plan(w) \/ NextKey(w) \/ Post(w) \/ LosePost(w)
             \/ \E a \in Actors : ResendKey(a) \/ TimeOut(a)
             \/ \E q \in puts : FindKey(q) \/ WriteKey(q)
             \/ BeginRotation \/ ListKeys \/ Rewrap \/ OpenPage \/ ReadKeys \/ UNCHANGED vars
    BY <2>3, <2>4 DEF Plan, NextKey, Post, LosePost, ResendKey, TimeOut, FindKey, WriteKey,
         BeginRotation, ListKeys, Rewrap, OpenPage, ReadKeys, server, vars
  <2> QED  BY <2>1, <2>2, <2>4 DEF Next, WriterStep
<1>3. ASSUME NEW r \in stored
      PROVE  /\ \A ref \in r.refs : ref.key # None => wrapped'[ref.key] # None
             /\ r.id[2] \in DOMAIN program'[r.id[1]]
             /\ ~HasTooLarge(program'[r.id[1]][r.id[2]])
  <2>1. \A ref \in r.refs : ref.key \in DataKeys \cup {None}
    BY DEF TypeOK, StoredRecord, Reference
  <2> QED  BY <2>1, <1>1 DEF StoredIsSound
<1>4. ASSUME NEW r \in stored' \ stored
      PROVE  /\ \A ref \in r.refs : ref.key # None => wrapped'[ref.key] # None
             /\ r.id[2] \in DOMAIN program'[r.id[1]]
             /\ ~HasTooLarge(program'[r.id[1]][r.id[2]])
  <2>1. PICK w \in Writers : \E i \in Fit(w) :
           /\ Post(w) \/ LosePost(w)
           /\ r = [id |-> RecordId(w, i), session |-> Inputs(w)[i].session, refs |-> Refs(w, i)]
    BY NewRecords
  <2>2. PICK i \in Fit(w) :
           r = [id |-> RecordId(w, i), session |-> Inputs(w)[i].session, refs |-> Refs(w, i)]
    BY <2>1
  <2>3. at[w] = "post" /\ wrapped' = wrapped
    BY <2>1 DEF Post, LosePost
  <2>4. r.id[1] = w /\ r.id[2] = Turn(w) /\ r.refs = Refs(w, i)
    BY <2>2 DEF RecordId
  <2>5. \A ref \in Refs(w, i) : ref.key # None => wrapped[ref.key] # None
    BY DEF Fit, Present
  <2> QED  BY <2>3, <2>4, <2>5, <1>1, PostedIsNotTooLarge
<1> QED  BY <1>2, <1>3, <1>4 DEF StoredIsSound, HasTooLarge

\* What was fit stays fit while the call goes on.
LEMMA FitStays ==
  ASSUME TypeOK, CallsUnderWay, [Next]_vars, NEW w \in Writers, answers'[w] = answers[w],
         at[w] = "post"
  PROVE  Fit(w) \subseteq Fit(w)'
<1>1. /\ program' = program /\ objects \subseteq objects'
      /\ \A k \in DataKeys : wrapped[k] # None => wrapped'[k] # None
  BY NothingIsLost
<1>2. Sound(w)' = Sound(w) /\ \A i : Refs(w, i)' = Refs(w, i)
  BY <1>1, SameCall
<1>3. Turn(w) <= Len(program[w])
  BY DEF CallsUnderWay, InCall
<1>4. \A i \in Sound(w) : Refs(w, i) \subseteq Reference
  BY <1>3, RefType DEF Refs, Sound
<1>5. ASSUME NEW ref \in Reference, Present(ref) PROVE Present(ref)'
  <2>1. ref.key \in DataKeys \cup {None}
    BY DEF Reference
  <2> QED  BY <2>1, <1>5, <1>1 DEF Present
<1>6. \A ref \in Reference : Present(ref) => Present(ref)'
  BY <1>5
<1> QED  BY <1>2, <1>4, <1>6 DEF Fit

\* A call is answered once, at the end of it.
HowAnswered(w, how, results) ==
  \/ /\ Plan(w)
     /\ \/ how = "raised" /\ results = <<>>
        \/ how = "returned" /\ Sound(w) = {} /\ results = Invalid(w)
  \/ at[w] \in {"wait", "content"} /\ how = "raised" /\ results = <<>> /\ stored' = stored
  \/ /\ Post(w)
     /\ \/ how = "refused" /\ ~Call(w).batch /\ Fit(w) = {} /\ results = <<>>
        \/ how = "returned" /\ results = Merge(w)
  \/ LosePost(w) /\ how = "unknown" /\ results = <<>>

LEMMA AnsweredOnce ==
  ASSUME TypeOK, CallsUnderWay, [Next]_vars, NEW w \in Writers, answers'[w] # answers[w]
  PROVE  /\ Turn(w) <= Len(program[w]) /\ at'[w] = "idle"
         /\ \E how : \E results : /\ answers'[w] = Append(answers[w], [how |-> how, results |-> results])
                                  /\ HowAnswered(w, how, results)
<1> USE DEF Actors
<1>1. at'[w] = "idle"
  BY StillInCall
<1>2. \A how : \A results : Return(w, how, results) =>
        answers'[w] = Append(answers[w], [how |-> how, results |-> results])
  BY DEF Return, TypeOK
<1>3. \A where \in Where : Go(w, where) => FALSE
  BY DEF Go
<1>4. \A where \in Where : Retry(w, where) =>
        Return(w, IF where = "post" THEN "unknown" ELSE "raised", <<>>)
  BY OthersWait
<1>5. CASE Plan(w)
  <2>1. Turn(w) <= Len(program[w])
    BY <1>5 DEF Plan
  <2>2. Return(w, "raised", <<>>) \/ (Sound(w) = {} /\ Return(w, "returned", Invalid(w)))
    BY <1>3, <1>5 DEF Plan, Where
  <2> QED  BY <2>1, <2>2, <1>1, <1>2, <1>5 DEF HowAnswered
<1>6. CASE NextKey(w) \/ ResendKey(w)
  BY <1>3, <1>6 DEF NextKey, ResendKey, SendKey, Where
<1>7. CASE Upload(w) \/ LoseUpload(w) \/ TimeOut(w)
  <2>1. at[w] \in {"wait", "content"} /\ stored' = stored
    BY <1>7 DEF Upload, LoseUpload, TimeOut
  <2>2. Return(w, "raised", <<>>)
    BY <1>3, <1>4, <1>7 DEF Upload, LoseUpload, TimeOut, Where
  <2>3. Turn(w) <= Len(program[w])
    BY <2>1 DEF CallsUnderWay, InCall
  <2> QED  BY <2>1, <2>2, <2>3, <1>1, <1>2 DEF HowAnswered
<1>8. ASSUME NEW q \in puts, q.by = w, Awaited(q), WriteKey(q)
      PROVE  at[w] \in {"wait", "content"} /\ stored' = stored /\ Return(w, "raised", <<>>)
  BY <1>3, <1>4, <1>8 DEF WriteKey, KeyAnswered, Awaited, Where
<1>9. CASE \E q \in puts : q.by = w /\ Awaited(q) /\ WriteKey(q)
  <2>1. Turn(w) <= Len(program[w])
    BY <1>8, <1>9 DEF CallsUnderWay, InCall
  <2> QED  BY <2>1, <1>1, <1>2, <1>8, <1>9 DEF HowAnswered
<1>10. CASE Post(w)
  <2>1. Turn(w) <= Len(program[w])
    BY <1>10 DEF Post, CallsUnderWay, InCall
  <2>2. \/ ~Call(w).batch /\ Fit(w) = {} /\ Return(w, "refused", <<>>)
        \/ Return(w, "returned", Merge(w))
    BY <1>10 DEF Post
  <2> QED  BY <2>1, <2>2, <1>1, <1>2, <1>10 DEF HowAnswered
<1>11. CASE LosePost(w)
  <2>1. Turn(w) <= Len(program[w])
    BY <1>11 DEF LosePost, CallsUnderWay, InCall
  <2>2. Return(w, "unknown", <<>>)
    BY <1>4, <1>11 DEF LosePost, Where
  <2> QED  BY <2>1, <2>2, <1>1, <1>2, <1>11 DEF HowAnswered
<1>12. Own(w)
  BY OthersUnmoved DEF Calling
<1> QED  BY <1>5, <1>6, <1>7, <1>9, <1>10, <1>11, <1>12 DEF Own, WriterStep

\* Records are stored in the turn of their call.
LEMMA StoredStaysInTurn ==
  ASSUME TypeOK, CallsUnderWay, StoredInTurn, [Next]_vars
  PROVE  StoredInTurn'
<1> USE DEF Actors
<1> SUFFICES ASSUME NEW r \in stored', NEW w \in Writers, w = r.id[1]
             PROVE  /\ r.id[2] <= Turn(w)'
                    /\ r.id[2] = Turn(w)' => at'[w] = "post" /\ r.id[3] \in Fit(w)'
  <2>1. \A r \in stored' : r.id[1] \in Writers
    <3>1. ASSUME NEW r \in stored PROVE r.id[1] \in Writers
      BY DEF TypeOK, StoredRecord
    <3>2. ASSUME NEW r \in stored' \ stored PROVE r.id[1] \in Writers
      BY NewRecords DEF RecordId
    <3> QED  BY <3>1, <3>2
  <2> QED  BY <2>1 DEF StoredInTurn
<1>1. Len(answers[w]) \in Nat /\ Turn(w) = Len(answers[w]) + 1
  BY DEF TypeOK, Turn
<1>2. /\ r.id[2] \in Nat /\ r.id[2] <= Turn(w)
      /\ r.id[2] = Turn(w) => at[w] = "post" /\ r.id[3] \in Fit(w)
      /\ r \notin stored => r.id[2] = Turn(w) /\ (Post(w) \/ LosePost(w))
  <2>1. CASE r \in stored
    BY <2>1 DEF StoredInTurn, TypeOK, StoredRecord
  <2>2. CASE r \notin stored
    <3>1. PICK v \in Writers : \E i \in Fit(v) :
            /\ Post(v) \/ LosePost(v)
            /\ r = [id |-> RecordId(v, i), session |-> Inputs(v)[i].session, refs |-> Refs(v, i)]
      BY <2>2, NewRecords
    <3>2. PICK i \in Fit(v) : r.id = <<v, Turn(v), i>>
      BY <3>1 DEF RecordId
    <3>3. v = w /\ r.id[2] = Turn(w) /\ r.id[3] = i
      BY <3>2
    <3> QED  BY <3>1, <3>2, <3>3, <1>1 DEF Post, LosePost
  <2> QED  BY <2>1, <2>2
<1>3. CASE answers'[w] # answers[w]
  <2>1. \E answer : answers'[w] = Append(answers[w], answer)
    BY <1>3, AnsweredOnce
  <2>2. Len(answers'[w]) = Len(answers[w]) + 1
    BY <2>1 DEF TypeOK
  <2>3. Turn(w)' = Turn(w) + 1
    BY <2>2, <1>1 DEF Turn
  <2> QED  BY <2>3, <1>1, <1>2
<1>4. CASE answers'[w] = answers[w]
  <2>1. Turn(w)' = Turn(w)
    BY <1>4 DEF Turn
  <2>2. CASE r.id[2] = Turn(w)
    <3>1. at[w] = "post" /\ r.id[3] \in Fit(w)'
      BY <2>2, <1>2, <1>4, FitStays
    <3>2. at'[w] = "post"
      <4>1. CASE Own(w)
        <5>1. Post(w) \/ LosePost(w)
          BY <4>1, <3>1 DEF Own, WriterStep, Plan, NextKey, Upload, LoseUpload, ResendKey, TimeOut, Awaited
        <5>2. \A how : \A results : Return(w, how, results) => answers'[w] # answers[w]
          <6>1. \A answer : Append(answers[w], answer) # answers[w]
            <7>1. Len(answers[w]) \in Nat /\ answers[w] \in Seq(Answer)
              BY DEF TypeOK
            <7> SUFFICES ASSUME NEW answer, Append(answers[w], answer) = answers[w] PROVE FALSE
              OBVIOUS
            <7>2. Len(Append(answers[w], answer)) = Len(answers[w]) + 1
              BY <7>1
            <7>3. Len(Append(answers[w], answer)) = Len(answers[w])
              OBVIOUS
            <7> QED  BY <7>1, <7>2, <7>3
          <6>2. \A how : \A results : Return(w, how, results) =>
                  answers'[w] = Append(answers[w], [how |-> how, results |-> results])
            BY DEF Return, TypeOK
          <6> QED  BY <6>1, <6>2
        <5>3. LosePost(w) /\ Retry(w, "post")
          BY <5>1, <5>2, <1>4 DEF Post, LosePost
        <5>4. at' = [at EXCEPT ![w] = "post"]
          BY <5>2, <5>3, <1>4, OthersWait DEF Where
        <5> QED  BY <5>4 DEF TypeOK
      <4>2. CASE ~Own(w)
        BY <4>2, <3>1, OthersUnmoved DEF Mine
      <4> QED  BY <4>1, <4>2
    <3> QED  BY <3>1, <3>2, <2>1, <1>1, <1>2
  <2> QED  BY <2>1, <2>2, <1>1, <1>2
<1> QED  BY <1>3, <1>4

\* There are no more answers than calls.
LEMMA AnswersStayOfCalls ==
  ASSUME TypeOK, CallsUnderWay, AnswersAreOfCalls, [Next]_vars
  PROVE  AnswersAreOfCalls'
<1> SUFFICES ASSUME NEW w \in Writers PROVE Len(answers'[w]) <= Len(program'[w])
  BY DEF AnswersAreOfCalls
<1>1. program' = program
  BY NothingIsLost
<1>2. CASE answers'[w] = answers[w]
  BY <1>1, <1>2 DEF AnswersAreOfCalls
<1>3. CASE answers'[w] # answers[w]
  <2>1. Turn(w) <= Len(program[w]) /\ \E answer : answers'[w] = Append(answers[w], answer)
    BY <1>3, AnsweredOnce
  <2>2. Len(answers'[w]) = Turn(w)
    BY <2>1 DEF Turn, TypeOK
  <2> QED  BY <2>1, <2>2, <1>1
<1> QED  BY <1>2, <1>3

\* Of a call that has been answered nothing more is stored.
LEMMA PostedIsOver ==
  ASSUME TypeOK, [Next]_vars, NEW w \in Writers, NEW n \in DOMAIN answers[w]
  PROVE  /\ Posted(w, n)' = Posted(w, n)
         /\ \A i : (\E r \in stored' : r.id = <<w, n, i>>) <=> (\E r \in stored : r.id = <<w, n, i>>)
<1>1. n # Turn(w)
  BY DEF Turn, TypeOK
<1>2. stored \subseteq stored'
  BY NothingIsLost
<1>3. ASSUME NEW r \in stored' \ stored, r.id[1] = w PROVE r.id[2] # n
  <2>1. PICK v \in Writers : \E i \in Fit(v) :
          r = [id |-> RecordId(v, i), session |-> Inputs(v)[i].session, refs |-> Refs(v, i)]
    BY NewRecords
  <2>2. r.id[1] = v /\ r.id[2] = Turn(v)
    BY <2>1 DEF RecordId
  <2> QED  BY <2>2, <1>1, <1>3
<1>4. \A i : \A r \in stored' : r.id = <<w, n, i>> => r.id[1] = w /\ r.id[2] = n
  OBVIOUS
<1> QED  BY <1>2, <1>3, <1>4 DEF Posted

\* An answer that is right for call n, and those that were given.
IsRight(w, n, how, results) ==
  /\ how = "refused" => Given(w, n, 1)
  /\ \A i \in DOMAIN results : results[i].how = "refused" => Given(w, n, i)
  /\ (how \in {"raised", "refused"} \/ HasTooLarge(program[w][n])) => Posted(w, n) = {}
  /\ how = "returned" =>
       /\ Len(results) = Len(program[w][n].inputs)
       /\ \A i \in DOMAIN results :
            /\ results[i].id = <<w, n, i>>
            /\ (results[i].how = "ok") <=> (\E r \in stored : r.id = <<w, n, i>>)
AnswerIsRight(w, n) == IsRight(w, n, answers[w][n].how, answers[w][n].results)

LEMMA AnsweredIsRight ==
  Answered <=> \A w \in Writers : \A n \in DOMAIN answers[w] : AnswerIsRight(w, n)
<1>1. NothingIsRefusedForUploads <=>
        \A w \in Writers : \A n \in DOMAIN answers[w] :
          /\ answers[w][n].how = "refused" => Given(w, n, 1)
          /\ \A i \in DOMAIN answers[w][n].results :
               answers[w][n].results[i].how = "refused" => Given(w, n, i)
  BY DEF NothingIsRefusedForUploads
<1>2. ResultsInPlace <=>
        \A w \in Writers : \A n \in DOMAIN answers[w] :
          answers[w][n].how = "returned" =>
            /\ Len(answers[w][n].results) = Len(program[w][n].inputs)
            /\ \A i \in DOMAIN answers[w][n].results :
                 /\ answers[w][n].results[i].id = <<w, n, i>>
                 /\ (answers[w][n].results[i].how = "ok") <=> (\E r \in stored : r.id = <<w, n, i>>)
  BY DEF ResultsInPlace
<1>3. FailedUploadsPostNothing <=>
        \A w \in Writers : \A n \in DOMAIN answers[w] :
          answers[w][n].how \in {"raised", "refused"} \/ HasTooLarge(program[w][n]) => Posted(w, n) = {}
  BY DEF FailedUploadsPostNothing
<1> QED  BY <1>1, <1>2, <1>3 DEF Answered, AnswerIsRight, IsRight

\* The answer to a call is right when it is given.
LEMMA NewAnswerIsRight ==
  ASSUME TypeOK, CallsUnderWay, KeysUnderWay, KeysAreThere, StoredIsSound, StoredInTurn,
         [Next]_vars, NEW w \in Writers, answers'[w] # answers[w],
         NEW how, NEW results, HowAnswered(w, how, results), NEW n, n = Turn(w)
  PROVE  IsRight(w, n, how, results)'
<1>0. SUFFICES /\ how = "refused" => Given(w, n, 1)
               /\ \A i \in DOMAIN results : results[i].how = "refused" => Given(w, n, i)
               /\ (how \in {"raised", "refused"} \/ HasTooLarge(program[w][n])) => Posted(w, n)' = {}
               /\ how = "returned" =>
                    /\ Len(results) = Len(program[w][n].inputs)
                    /\ \A i \in DOMAIN results :
                         /\ results[i].id = <<w, n, i>>
                         /\ (results[i].how = "ok") <=> (\E r \in stored' : r.id = <<w, n, i>>)
  <2>1. program' = program
    BY NothingIsLost
  <2>2. \A i : Given(w, n, i)' <=> Given(w, n, i)
    BY <2>1 DEF Given
  <2>3. HasTooLarge(program[w][n])' <=> HasTooLarge(program[w][n])
    BY <2>1 DEF HasTooLarge
  <2> QED  BY <2>1, <2>2, <2>3 DEF IsRight
<1>1. Turn(w) <= Len(program[w])
  BY AnsweredOnce
<1>2. /\ program[w][n] = Call(w) /\ program[w][n].inputs = Inputs(w)
      /\ Call(w).batch \/ Len(Inputs(w)) = 1
      /\ Len(Inputs(w)) \in Nat /\ DOMAIN Inputs(w) = 1..Len(Inputs(w))
  BY <1>1, CallType DEF Inputs
<1>3. \A i : RecordId(w, i) = <<w, n, i>>
  BY DEF RecordId
<1>4. /\ \A r \in stored : r.id[1] = w /\ r.id[2] = n => at[w] = "post" /\ r.id[3] \in Fit(w)
      /\ at[w] # "post" => \A r \in stored : ~(r.id[1] = w /\ r.id[2] = n)
  BY DEF StoredInTurn
<1>5. CASE Plan(w) \/ (at[w] \in {"wait", "content"} /\ stored' = stored)
  <2>1. at[w] # "post" /\ stored' = stored
    BY <1>5 DEF Plan, server
  <2>2. Posted(w, n)' = {} /\ \A i : ~\E r \in stored' : r.id = <<w, n, i>>
    <3>1. \A r \in stored' : ~(r.id[1] = w /\ r.id[2] = n)
      BY <2>1, <1>4
    <3>2. \A i : \A r : r.id = <<w, n, i>> => r.id[1] = w /\ r.id[2] = n
      OBVIOUS
    <3> QED  BY <3>1, <3>2 DEF Posted
  <2>3. \/ how = "raised" /\ results = <<>>
        \/ how = "returned" /\ Sound(w) = {} /\ results = Invalid(w)
    BY <1>5, <2>1 DEF HowAnswered, Post, LosePost, Plan
  <2>4. \A i \in DOMAIN Invalid(w) : i \in DOMAIN Inputs(w)
             /\ Invalid(w)[i] = [id |-> RecordId(w, i), how |-> "invalid"]
    BY <1>1, MergeInPlace
  <2>5. Len(Invalid(w)) = Len(Inputs(w))
    BY <1>1, MergeInPlace
  <2>6. \A i \in DOMAIN Invalid(w) : Invalid(w)[i].id = <<w, n, i>> /\ Invalid(w)[i].how = "invalid"
    BY <2>4, <1>3
  <2>7. CASE how = "raised" /\ results = <<>>
    BY <2>7, <2>2
  <2>8. CASE how = "returned" /\ Sound(w) = {} /\ results = Invalid(w)
    BY <2>8, <2>2, <2>5, <2>6, <1>2
  <2> QED  BY <2>3, <2>7, <2>8
<1>6. CASE Post(w) \/ LosePost(w)
  <2>1. at[w] = "post" /\ ~HasTooLarge(program[w][n])
    BY <1>6, PostedIsNotTooLarge DEF Post, LosePost
  <2>2. Sound(w) \subseteq DOMAIN Inputs(w) /\ Sound(w) # {}
    BY <2>1 DEF CallsUnderWay, InCall, Sound
  <2>3. CASE LosePost(w) /\ how = "unknown" /\ results = <<>>
    BY <2>3, <2>1
  <2>4. CASE Post(w) /\ how = "refused" /\ ~Call(w).batch /\ Fit(w) = {} /\ results = <<>>
    <3>1. 1 \in Sound(w) /\ 1 \notin Fit(w)
      BY <2>2, <2>4, <1>2
    <3>2. Given(w, n, 1)
      BY <3>1, <2>1, OnlyGivenIsUnfit
    <3>3. stored' = stored
      BY <2>4 DEF Post, Taken
    <3>4. Posted(w, n)' = {}
      BY <3>3, <2>4, <1>4 DEF Posted
    <3> QED  BY <3>2, <3>4, <2>4
  <2>5. CASE Post(w) /\ how = "returned" /\ results = Merge(w)
    <3>1. /\ Len(Merge(w)) = Len(Inputs(w)) /\ DOMAIN Merge(w) = DOMAIN Inputs(w)
          /\ \A i \in DOMAIN Inputs(w) :
               Merge(w)[i] = [id |-> RecordId(w, i),
                              how |-> IF i \notin Sound(w) THEN "invalid"
                                      ELSE IF i \in Fit(w) THEN "ok" ELSE "refused"]
      BY <1>1, MergeInPlace
    <3>2. \A i \in DOMAIN Inputs(w) :
            /\ Merge(w)[i].id = <<w, n, i>>
            /\ Merge(w)[i].how = "ok" <=> i \in Fit(w)
            /\ Merge(w)[i].how = "refused" => i \in Sound(w) /\ i \notin Fit(w)
      BY <3>1, <1>3 DEF Fit
    <3>3. ASSUME NEW i
          PROVE  (\E r \in stored' : r.id = <<w, n, i>>) <=> i \in Fit(w)
      <4>1. stored' = Taken(w)
        BY <2>5 DEF Post
      <4>2. ASSUME i \in Fit(w) PROVE \E r \in Taken(w) : r.id = <<w, n, i>>
        <5>1. [id |-> RecordId(w, i), session |-> Inputs(w)[i].session, refs |-> Refs(w, i)] \in Taken(w)
          BY <4>2 DEF Taken
        <5> QED  BY <5>1, <1>3
      <4>3. ASSUME NEW r \in Taken(w), r.id = <<w, n, i>> PROVE i \in Fit(w)
        <5>0. r.id[1] = w /\ r.id[2] = n /\ r.id[3] = i
          BY <4>3
        <5>1. CASE r \in stored
          BY <5>1, <5>0, <1>4
        <5>2. CASE r \notin stored
          <6>1. PICK k \in Fit(w) : r.id = <<w, n, k>>
            BY <5>2, <1>3 DEF Taken
          <6> QED  BY <6>1, <5>0
        <5> QED  BY <5>1, <5>2
      <4> QED  BY <4>1, <4>2, <4>3
    <3>4. \A i \in Sound(w) : i \notin Fit(w) => Given(w, n, i)
      BY <2>1, OnlyGivenIsUnfit
    <3>5. \A i \in DOMAIN results : results[i].how = "refused" => Given(w, n, i)
      BY <3>1, <3>2, <3>4, <2>5
    <3>6. /\ Len(results) = Len(program[w][n].inputs)
          /\ \A i \in DOMAIN results :
               /\ results[i].id = <<w, n, i>>
               /\ (results[i].how = "ok") <=> (\E r \in stored' : r.id = <<w, n, i>>)
      BY <3>1, <3>2, <3>3, <2>5, <1>2
    <3> QED  BY <3>5, <3>6, <2>1, <2>5
  <2> QED  BY <1>6, <2>1, <2>3, <2>4, <2>5 DEF HowAnswered, Plan, LosePost
<1> QED  BY <1>5, <1>6 DEF HowAnswered

\* Answers are right, and stay right.
LEMMA AnswersStayRight ==
  ASSUME TypeOK, CallsUnderWay, KeysUnderWay, KeysAreThere, StoredIsSound, StoredInTurn,
         Answered, [Next]_vars
  PROVE  Answered'
<1>1. program' = program
  BY NothingIsLost
<1>2. ASSUME NEW w \in Writers, NEW n \in DOMAIN answers'[w]
      PROVE  AnswerIsRight(w, n)'
  <2>0. answers[w] \in Seq(Answer)
    BY DEF TypeOK
  <2>1. CASE n \in DOMAIN answers[w]
    <3>1. answers'[w][n] = answers[w][n]
      <4>1. CASE answers'[w] = answers[w]
        BY <4>1
      <4>2. CASE answers'[w] # answers[w]
        <5>1. PICK answer : answers'[w] = Append(answers[w], answer)
          BY <4>2, AnsweredOnce
        <5> QED  BY <5>1, <2>0, <2>1
      <4> QED  BY <4>1, <4>2
    <3>2. AnswerIsRight(w, n)
      BY <2>1, AnsweredIsRight
    <3>3. /\ Posted(w, n)' = Posted(w, n)
          /\ \A i : (\E r \in stored' : r.id = <<w, n, i>>) <=> (\E r \in stored : r.id = <<w, n, i>>)
      BY <2>1, PostedIsOver
    <3>4. \A i : Given(w, n, i)' <=> Given(w, n, i)
      BY <1>1 DEF Given
    <3>5. HasTooLarge(program[w][n])' <=> HasTooLarge(program[w][n])
      BY <1>1 DEF HasTooLarge
    <3> QED  BY <3>1, <3>2, <3>3, <3>4, <3>5, <1>1 DEF AnswerIsRight, IsRight
  <2>2. CASE n \notin DOMAIN answers[w]
    <3>1. answers'[w] # answers[w]
      BY <2>2
    <3>2. PICK how : \E results : /\ answers'[w] = Append(answers[w], [how |-> how, results |-> results])
                                  /\ HowAnswered(w, how, results)
      BY <3>1, AnsweredOnce
    <3>3. PICK results : /\ answers'[w] = Append(answers[w], [how |-> how, results |-> results])
                         /\ HowAnswered(w, how, results)
      BY <3>2
    <3>4. n = Turn(w) /\ answers'[w][n] = [how |-> how, results |-> results]
      BY <3>3, <2>0, <2>2 DEF Turn
    <3>5. n = Turn(w)
      BY <3>4
    <3>6. HowAnswered(w, how, results)
      BY <3>3
    <3>7. IsRight(w, n, how, results)'
      BY <3>1, <3>5, <3>6, NewAnswerIsRight
    <3>8. answers'[w][n].how = how /\ answers'[w][n].results = results
      BY <3>4
    <3> QED  BY <3>7, <3>8 DEF AnswerIsRight
  <2> QED  BY <2>1, <2>2
<1>3. \A w \in Writers : \A n \in DOMAIN answers'[w] : AnswerIsRight(w, n)'
  BY <1>2
<1>4. (Answered <=> \A w \in Writers : \A n \in DOMAIN answers[w] : AnswerIsRight(w, n))'
  BY AnsweredIsRight, PTL
<1> QED  BY <1>3, <1>4
-----------------------------------------------------------------------------
(***************************************************************************)
(* Requests to put keys.                                                   *)
(***************************************************************************)

Same(p, q) == p.by = q.by /\ p.number = q.number /\ p.key = q.key /\ p.master = q.master

\* An actor sends a key: the last again, one of its own not registered yet, or one to
\* wrap again.
Sends(a, k) ==
  /\ SendKey(a, k)
  /\ UNCHANGED <<program, wrapped, stored, registered, page>>
  /\ \/ at[a] = "again" /\ k = putting[a] /\ UNCHANGED rotation
     \/ a \in Writers /\ k \in made[a] \ registered[a] /\ UNCHANGED rotation
     \/ /\ a = "rotator" /\ at[a] = "wrap" /\ k \in rotation.todo
        /\ rotation' = [rotation EXCEPT !.todo = @ \ {k}]

\* Or nobody sends one: then those that are served were being served.
Silent ==
  /\ sent' = sent /\ putting' = putting
  /\ \A p \in puts' : \E q \in puts : Same(p, q)
  /\ \A a \in Actors : /\ at'[a] = "wait" => at[a] = "wait"
                       /\ at'[a] = "again" => Writing(a)
  /\ \A w \in Writers : at'[w] \in {"wait", "again"} => registered'[w] = registered[w]

\* Where an actor goes, it is; everyone else is where they were.
LEMMA Elsewhere ==
  ASSUME TypeOK, NEW a \in Actors, NEW b \in Actors
  PROVE  /\ \A where \in Where : Go(a, where) => at'[b] = IF a = b THEN where ELSE at[b]
         /\ \A where \in Where : Retry(a, where) =>
              at'[b] \in IF a = b THEN {where, "idle", "stopped"} ELSE {at[b]}
         /\ \A how : \A results : Return(a, how, results) => at'[b] = IF a = b THEN "idle" ELSE at[b]
         /\ \A where : at' = [at EXCEPT ![a] = where] => at'[b] = IF a = b THEN where ELSE at[b]
<1>1. \A how : \A results : Return(a, how, results) => at'[b] = IF a = b THEN "idle" ELSE at[b]
  BY DEF Return, TypeOK
<1>2. \A where : at' = [at EXCEPT ![a] = where] => at'[b] = IF a = b THEN where ELSE at[b]
  BY DEF TypeOK
<1>3. \A where \in Where : Go(a, where) => at'[b] = IF a = b THEN where ELSE at[b]
  BY <1>2 DEF Go
<1>4. ASSUME NEW where \in Where, Retry(a, where)
      PROVE  at'[b] \in IF a = b THEN {where, "idle", "stopped"} ELSE {at[b]}
  <2>1. \/ at' = [at EXCEPT ![a] = where]
        \/ Return(a, IF where = "post" THEN "unknown" ELSE "raised", <<>>)
        \/ at' = [at EXCEPT ![a] = "stopped"]
    BY <1>4, OthersWait
  <2> QED  BY <2>1, <1>1, <1>2
<1> QED  BY <1>1, <1>2, <1>3, <1>4

\* A step sends a key or it does not.
LEMMA SendsOrNot ==
  ASSUME TypeOK, PutsAreSent, [Next]_vars
  PROVE  (\E a \in Actors : \E k \in DataKeys : Sends(a, k)) \/ Silent
<1> USE DEF Actors
<1>0. \A q : Same(q, q)
  BY DEF Same
<1>1. ASSUME NEW w \in Writers, Plan(w) \/ Upload(w) \/ LoseUpload(w) \/ Post(w) \/ LosePost(w)
      PROVE  Silent
  <2>1. UNCHANGED <<sent, putting, puts, registered>>
    BY <1>1 DEF Plan, Upload, LoseUpload, Post, LosePost, server
  <2>2. ASSUME NEW b \in Actors PROVE at'[b] \in {at[b], "idle", "post", "keys", "content", "stopped"}
    BY <1>1, Elsewhere DEF Plan, Upload, LoseUpload, Post, LosePost, Where
  <2> QED  BY <2>1, <2>2, <1>0 DEF Silent, Writing
<1>2. ASSUME NEW w \in Writers, NextKey(w)
      PROVE  (\E k \in DataKeys : Sends(w, k)) \/ Silent
  <2>1. CASE Go(w, "content") /\ UNCHANGED <<puts, sent, putting>>
    <3>1. ASSUME NEW b \in Actors PROVE at'[b] \in {at[b], "content"}
      BY <2>1, Elsewhere DEF Where
    <3>2. registered' = registered
      BY <1>2 DEF NextKey
    <3> QED  BY <2>1, <3>1, <3>2, <1>0 DEF Silent, Writing
  <2>2. CASE \E k \in made[w] \ registered[w] : SendKey(w, k)
    BY <2>2, <1>2 DEF NextKey, Sends, TypeOK
  <2> QED  BY <2>1, <2>2, <1>2 DEF NextKey
<1>3. ASSUME NEW a \in Actors, ResendKey(a)
      PROVE  \E k \in DataKeys : Sends(a, k)
  <2>1. putting[a] \in DataKeys
    BY <1>3 DEF ResendKey, PutsAreSent, Writing
  <2> QED  BY <2>1, <1>3 DEF ResendKey, Sends
<1>4. ASSUME NEW a \in Actors, TimeOut(a) PROVE Silent
  <2>1. at[a] = "wait" /\ puts' \subseteq puts /\ UNCHANGED <<sent, putting, registered>>
    BY <1>4 DEF TimeOut
  <2>2. ASSUME NEW b \in Actors
        PROVE  at'[b] \in IF a = b THEN {"again", "idle", "stopped"} ELSE {at[b]}
    BY <1>4, Elsewhere DEF TimeOut, Where
  <2> QED  BY <2>1, <2>2, <1>0 DEF Silent, Writing
<1>5. ASSUME NEW q \in puts, FindKey(q) PROVE Silent
  <2>1. \A where : Same([q EXCEPT !.at = where], q)
    BY DEF TypeOK, Put, Same
  <2>2. \A p \in puts' : p \in puts \/ \E where : p = [q EXCEPT !.at = where]
    BY <1>5 DEF FindKey
  <2>3. \A p \in puts' : \E o \in puts : Same(p, o)
    BY <2>1, <2>2, <1>0
  <2> QED  BY <2>3, <1>5 DEF FindKey, client, Silent, Writing
<1>6. ASSUME NEW q \in puts, WriteKey(q) PROVE Silent
  <2>1. puts' \subseteq puts /\ UNCHANGED <<sent, putting>>
    BY <1>6 DEF WriteKey
  <2>2. q.by \in Actors
    BY DEF TypeOK, Put
  <2>3. KeyAnswered(q, q.at = "update" \/ wrapped[q.key] = None)
    BY <1>6 DEF WriteKey
  <2>4. CASE UNCHANGED <<at, tries, answers, registered>>
    BY <2>1, <2>4, <1>0 DEF Silent, Writing
  <2>5. CASE at[q.by] = "wait" /\ Retry(q.by, "again") /\ UNCHANGED registered
    <3>1. ASSUME NEW b \in Actors
          PROVE  at'[b] \in IF q.by = b THEN {"again", "idle", "stopped"} ELSE {at[b]}
      BY <2>2, <2>5, Elsewhere DEF Where
    <3> QED  BY <2>1, <2>5, <3>1, <1>0 DEF Silent, Writing
  <2>6. CASE /\ \E where \in {"keys", "wrap"} : Go(q.by, where)
             /\ registered' = IF q.by \in Writers THEN [registered EXCEPT ![q.by] = @ \cup {q.key}]
                              ELSE registered
    <3>1. ASSUME NEW b \in Actors
          PROVE  at'[b] \in IF q.by = b THEN {"keys", "wrap"} ELSE {at[b]}
      <4>1. Go(q.by, "keys") \/ Go(q.by, "wrap")
        BY <2>6
      <4>2. \A where \in Where : Go(q.by, where) => at'[b] = IF q.by = b THEN where ELSE at[b]
        BY <2>2, Elsewhere
      <4>3. "keys" \in Where /\ "wrap" \in Where
        BY DEF Where
      <4> QED  BY <4>1, <4>2, <4>3
    <3>2. ASSUME NEW w \in Writers, w # q.by PROVE registered'[w] = registered[w]
      BY <2>6, <3>2 DEF TypeOK
    <3> QED  BY <2>1, <3>1, <3>2, <1>0 DEF Silent, Writing
  <2> QED  BY <2>3, <2>4, <2>5, <2>6 DEF KeyAnswered, Awaited
<1>7. CASE BeginRotation \/ ListKeys
  <2>1. UNCHANGED <<sent, putting, puts, registered>>
    BY <1>7 DEF BeginRotation, ListKeys, server
  <2>3. at' = [at EXCEPT !["rotator"] = "list"] \/ at' = [at EXCEPT !["rotator"] = "wrap"]
    BY <1>7 DEF BeginRotation, ListKeys
  <2>2. ASSUME NEW b \in Actors PROVE at'[b] \in {at[b], "list", "wrap"}
    BY <2>3, Elsewhere
  <2> QED  BY <2>1, <2>2, <1>0 DEF Silent, Writing
<1>8. CASE Rewrap
  <2>1. CASE /\ \E where \in {"end", "list"} : at' = [at EXCEPT !["rotator"] = where]
             /\ UNCHANGED <<puts, sent, putting, rotation>>
    <3>1. ASSUME NEW b \in Actors PROVE at'[b] \in {at[b], "end", "list"}
      BY <2>1, Elsewhere
    <3>2. registered' = registered
      BY <1>8 DEF Rewrap
    <3> QED  BY <2>1, <3>1, <3>2, <1>0 DEF Silent, Writing
  <2>2. CASE \E k \in rotation.todo :
               SendKey("rotator", k) /\ rotation' = [rotation EXCEPT !.todo = @ \ {k}]
    <3>1. PICK k \in rotation.todo :
               SendKey("rotator", k) /\ rotation' = [rotation EXCEPT !.todo = @ \ {k}]
      BY <2>2
    <3>2. k \in DataKeys
      BY DEF TypeOK
    <3>3. Sends("rotator", k)
      BY <3>1, <1>8 DEF Rewrap, Sends
    <3> QED  BY <3>2, <3>3
  <2> QED  BY <2>1, <2>2, <1>8 DEF Rewrap
<1>9. CASE OpenPage \/ ReadKeys \/ UNCHANGED vars
  BY <1>0, <1>9 DEF OpenPage, ReadKeys, vars, server, client, Silent, Writing
<1> QED  BY <1>1, <1>2, <1>3, <1>4, <1>5, <1>6, <1>7, <1>8, <1>9 DEF Next, WriterStep
\* Requests that put keys stay as they were sent, and who waits for one knows which.
LEMMA PutsStaySent ==
  ASSUME TypeOK, KeysAreThere, PutsAreSent, [Next]_vars
  PROVE  PutsAreSent'
<1> USE DEF Actors
<1>0. /\ \A a \in Actors : sent[a] \in Nat
      /\ \A q \in puts : q.by \in Actors /\ q.number \in Nat
  BY DEF TypeOK, Put
<1>1. ASSUME Silent PROVE PutsAreSent'
  <2>1. ASSUME NEW p \in puts'
        PROVE  /\ p.number <= sent'[p.by] /\ p.master = Master(p.by)
               /\ p.by \in Writers => p.key[1] = p.by
               /\ Awaited(p)' => p.key = putting'[p.by]
    <3>1. PICK q \in puts : Same(p, q)
      BY <1>1 DEF Silent
    <3>2. Awaited(p)' => Awaited(q)
      BY <1>1, <3>1, <1>0 DEF Silent, Same, Awaited
    <3> QED  BY <1>1, <3>1, <3>2 DEF Silent, Same, PutsAreSent
  <2>2. ASSUME NEW a \in Actors, at'[a] \in {"wait", "again"} PROVE Writing(a) /\ putting'[a] = putting[a]
    BY <1>1, <2>2 DEF Silent, Writing
  <2>3. ASSUME NEW w \in Writers, at'[w] \in {"wait", "again"} PROVE registered'[w] = registered[w]
    BY <1>1, <2>3 DEF Silent
  <2>4. \A a \in Actors : Writing(a)' => putting'[a] \in DataKeys
    BY <2>2 DEF PutsAreSent, Writing
  <2>5. \A w \in Writers : Writing(w)' => putting'[w] \notin registered'[w] /\ putting'[w][1] = w
    BY <2>2, <2>3 DEF PutsAreSent, Writing
  <2> QED  BY <2>1, <2>4, <2>5 DEF PutsAreSent
<1>2. ASSUME NEW a \in Actors, NEW k \in DataKeys, Sends(a, k) PROVE PutsAreSent'
  <2> DEFINE new == [by |-> a, number |-> sent[a] + 1, key |-> k, master |-> Master(a), at |-> "find"]
  <2>1. /\ sent' = [sent EXCEPT ![a] = @ + 1] /\ puts' = puts \cup {new}
        /\ putting' = [putting EXCEPT ![a] = k] /\ at' = [at EXCEPT ![a] = "wait"]
        /\ registered' = registered
    BY <1>2 DEF Sends, SendKey
  <2>2. \A b \in Actors : /\ sent'[b] = IF a = b THEN sent[a] + 1 ELSE sent[b]
                          /\ putting'[b] = IF a = b THEN k ELSE putting[b]
                          /\ at'[b] = IF a = b THEN "wait" ELSE at[b]
    BY <2>1 DEF TypeOK
  <2>3. a \in Writers => k[1] = a /\ k \notin registered[a]
    BY <1>2, UploadsAssumption DEF Sends, KeysAreThere, PutsAreSent, Writing
  <2>4. /\ new.by = a /\ new.number = sent[a] + 1 /\ new.key = k /\ new.master = Master(a)
    OBVIOUS
  <2> HIDE DEF new
  <2>5. ASSUME NEW p \in puts'
        PROVE  /\ p.number <= sent'[p.by] /\ p.master = Master(p.by)
               /\ p.by \in Writers => p.key[1] = p.by
               /\ Awaited(p)' => p.key = putting'[p.by]
    <3>1. CASE p = new
      BY <3>1, <2>2, <2>3, <2>4, <1>0
    <3>2. CASE p \in puts
      <4>1. p.by \in Actors /\ p.number \in Nat /\ p.number <= sent[p.by] /\ sent[p.by] \in Nat
        BY <3>2, <1>0 DEF PutsAreSent
      <4>2. p.number <= sent'[p.by] /\ (p.by = a => p.number # sent'[p.by])
        BY <4>1, <2>2
      <4>3. p.by # a => sent'[p.by] = sent[p.by] /\ at'[p.by] = at[p.by] /\ putting'[p.by] = putting[p.by]
        BY <4>1, <2>2
      <4> QED  BY <3>2, <4>1, <4>2, <4>3 DEF PutsAreSent, Awaited
    <3> QED  BY <2>1, <3>1, <3>2
  <2>6. \A b \in Actors : at'[b] \in {"wait", "again"} => putting'[b] \in DataKeys
    BY <2>2 DEF PutsAreSent, Writing
  <2>7. \A w \in Writers : at'[w] \in {"wait", "again"} => putting'[w] \notin registered'[w] /\ putting'[w][1] = w
    BY <2>1, <2>2, <2>3 DEF PutsAreSent, Writing
  <2> QED  BY <2>5, <2>6, <2>7 DEF PutsAreSent, Writing
<1> QED  BY <1>1, <1>2, SendsOrNot
-----------------------------------------------------------------------------
(***************************************************************************)
(* The rotation.                                                           *)
(***************************************************************************)

\* A key is wrapped otherwise only by a put of that key.
LEMMA WrappedByPuts ==
  ASSUME TypeOK, [Next]_vars, NEW k \in DataKeys, wrapped'[k] # wrapped[k]
  PROVE  \E q \in puts : WriteKey(q) /\ q.key = k /\ wrapped'[k] = q.master
<1>1. ASSUME NEW w \in Writers, WriterStep(w) PROVE wrapped' = wrapped
  BY <1>1 DEF WriterStep, Plan, NextKey, Upload, LoseUpload, Post, LosePost, server
<1>2. CASE \/ \E a \in Actors : ResendKey(a) \/ TimeOut(a)
           \/ \E q \in puts : FindKey(q)
           \/ BeginRotation \/ ListKeys \/ Rewrap \/ OpenPage \/ ReadKeys \/ UNCHANGED vars
  BY <1>2 DEF ResendKey, TimeOut, FindKey, BeginRotation, ListKeys, Rewrap, OpenPage, ReadKeys,
              server, vars
<1>3. ASSUME NEW q \in puts, WriteKey(q) PROVE q.key = k /\ wrapped'[k] = q.master
  BY <1>3 DEF WriteKey, TypeOK
<1> QED  BY <1>1, <1>2, <1>3 DEF Next

\* What the rotator does, if anything.
RotatorRests ==
  /\ at'["rotator"] = at["rotator"] /\ putting'["rotator"] = putting["rotator"]
  /\ rotation' = rotation
RotatorWaits ==
  /\ at["rotator"] \in {"wait", "again"} /\ at'["rotator"] \in {"wait", "again", "stopped"}
  /\ putting'["rotator"] = putting["rotator"] /\ rotation' = rotation
RotatorIsAnswered ==
  /\ at["rotator"] = "wait" /\ at'["rotator"] = "wrap" /\ rotation' = rotation
  /\ putting["rotator"] \in DataKeys /\ wrapped'[putting["rotator"]] = "new"

LEMMA RotatorMoves ==
  ASSUME TypeOK, PutsAreSent, [Next]_vars
  PROVE  BeginRotation \/ ListKeys \/ Rewrap \/ RotatorRests \/ RotatorWaits \/ RotatorIsAnswered
<1> USE DEF Actors
<1>1. "rotator" \notin Writers
  BY UploadsAssumption
<1>2. ASSUME NEW w \in Writers, WriterStep(w) PROVE RotatorRests
  <2>1. rotation' = rotation
    BY <1>2 DEF WriterStep, Plan, NextKey, Upload, LoseUpload, Post, LosePost
  <2>2. \A k : SendKey(w, k) => /\ at'["rotator"] = at["rotator"]
                               /\ putting'["rotator"] = putting["rotator"]
    BY <1>1 DEF SendKey, TypeOK
  <2> DEFINE r == "rotator"
  <2>9. w # r /\ r \in Actors /\ w \in Actors
    BY <1>1
  <2> HIDE DEF r
  <2>10. /\ \A where \in Where : Go(w, where) => at'[r] = at[r]
         /\ \A where \in Where : Retry(w, where) => at'[r] = at[r]
         /\ \A how : \A results : Return(w, how, results) => at'[r] = at[r]
    BY <2>9, Elsewhere
  <2>3. \A where \in Where : Go(w, where) \/ Retry(w, where) => at'["rotator"] = at["rotator"]
    BY <2>10 DEF r
  <2>4. \A how : \A results : Return(w, how, results) => at'["rotator"] = at["rotator"]
    BY <2>10 DEF r
  <2>5. CASE Plan(w)
    BY <2>5, <2>1, <2>3, <2>4 DEF Plan, RotatorRests, Where
  <2>6. CASE NextKey(w)
    BY <2>6, <2>1, <2>2, <2>3 DEF NextKey, RotatorRests, Where
  <2>7. CASE Upload(w) \/ LoseUpload(w)
    BY <2>7, <2>1, <2>3, <2>4 DEF Upload, LoseUpload, RotatorRests, Where
  <2>8. CASE Post(w) \/ LosePost(w)
    BY <2>8, <2>1, <2>3, <2>4 DEF Post, LosePost, RotatorRests, Where
  <2> QED  BY <1>2, <2>5, <2>6, <2>7, <2>8 DEF WriterStep
<1>3. ASSUME NEW a \in Actors, ResendKey(a) PROVE RotatorRests \/ RotatorWaits
  <2>1. /\ at[a] = "again" /\ rotation' = rotation
        /\ putting' = [putting EXCEPT ![a] = putting[a]] /\ at' = [at EXCEPT ![a] = "wait"]
    BY <1>3 DEF ResendKey, SendKey
  <2> QED  BY <2>1 DEF TypeOK, RotatorRests, RotatorWaits
<1>4. ASSUME NEW a \in Actors, TimeOut(a) PROVE RotatorRests \/ RotatorWaits
  <2>1. at[a] = "wait" /\ rotation' = rotation /\ putting' = putting /\ Retry(a, "again")
    BY <1>4 DEF TimeOut
  <2>2. CASE a = "rotator"
    <3>1. at' = [at EXCEPT ![a] = "again"] \/ at' = [at EXCEPT ![a] = "stopped"]
      BY <2>1, <2>2, <1>1, OthersWait DEF Where
    <3> QED  BY <2>1, <2>2, <3>1 DEF TypeOK, RotatorWaits
  <2>3. CASE a # "rotator"
    BY <2>1, <2>3, Elsewhere DEF Where, RotatorRests
  <2> QED  BY <2>2, <2>3
<1>5. ASSUME NEW q \in puts, WriteKey(q) PROVE RotatorRests \/ RotatorWaits \/ RotatorIsAnswered
  <2> DEFINE written == q.at = "update" \/ wrapped[q.key] = None
  <2>1. /\ rotation' = rotation /\ putting' = putting /\ KeyAnswered(q, written)
        /\ wrapped' = IF written THEN [wrapped EXCEPT ![q.key] = q.master] ELSE wrapped
    BY <1>5 DEF WriteKey
  <2>2. q.by \in Actors /\ q.key \in DataKeys /\ q.master = Master(q.by)
    BY DEF TypeOK, Put, PutsAreSent
  <2> HIDE DEF written
  <2>3. CASE ~Awaited(q)
    BY <2>1, <2>3 DEF KeyAnswered, RotatorRests
  <2>4. CASE Awaited(q) /\ q.by # "rotator"
    <3> DEFINE r == "rotator"
    <3>1. q.by # r /\ r \in Actors
      BY <2>4
    <3> HIDE DEF r
    <3>2. /\ \A where \in Where : Go(q.by, where) => at'[r] = at[r]
          /\ \A where \in Where : Retry(q.by, where) => at'[r] = at[r]
      BY <2>2, <3>1, Elsewhere
    <3>3. \A where \in Where : Go(q.by, where) \/ Retry(q.by, where) => at'["rotator"] = at["rotator"]
      BY <3>2 DEF r
    <3> QED  BY <2>1, <2>4, <3>3 DEF KeyAnswered, RotatorRests, Where
  <2>5. CASE Awaited(q) /\ q.by = "rotator" /\ ~written
    <3>1. at["rotator"] = "wait" /\ Retry("rotator", "again")
      BY <2>1, <2>5 DEF KeyAnswered, Awaited
    <3>2. at' = [at EXCEPT !["rotator"] = "again"] \/ at' = [at EXCEPT !["rotator"] = "stopped"]
      BY <3>1, <1>1, OthersWait DEF Where
    <3> QED  BY <2>1, <3>1, <3>2 DEF TypeOK, RotatorWaits
  <2>6. CASE Awaited(q) /\ q.by = "rotator" /\ written
    <3>1. at["rotator"] = "wait" /\ Go("rotator", "wrap")
      BY <2>1, <2>6, <1>1 DEF KeyAnswered, Awaited
    <3>2. at'["rotator"] = "wrap"
      BY <3>1, Elsewhere DEF Where
    <3>3. q.key = putting["rotator"] /\ q.master = "new"
      BY <2>2, <2>6 DEF PutsAreSent, Master
    <3>4. wrapped'[q.key] = "new"
      BY <2>1, <2>2, <2>6, <3>3 DEF TypeOK
    <3> QED  BY <2>1, <2>2, <3>1, <3>2, <3>3, <3>4 DEF RotatorIsAnswered
  <2> QED  BY <2>3, <2>4, <2>5, <2>6
<1>6. CASE (\E q \in puts : FindKey(q)) \/ OpenPage \/ ReadKeys \/ UNCHANGED vars
  BY <1>6 DEF FindKey, OpenPage, ReadKeys, vars, client, RotatorRests
<1> QED  BY <1>2, <1>3, <1>4, <1>5, <1>6 DEF Next

\* Before a rotation begins every key stays wrapped with the old master key.
LEMMA OldStaysBefore ==
  ASSUME TypeOK, PutsAreSent, OldBefore, [Next]_vars
  PROVE  OldBefore'
<1> USE DEF Actors
<1>1. CASE at'["rotator"] # "idle"
  <2>1. ASSUME BeginRotation \/ ListKeys PROVE at'["rotator"] \in Places
    BY <2>1 DEF BeginRotation, ListKeys, TypeOK, OldBefore, Places
  <2>2. ASSUME Rewrap PROVE at'["rotator"] \in Places
    <3>1. CASE \E k \in rotation.todo : SendKey("rotator", k)
      BY <3>1 DEF SendKey, TypeOK, Places
    <3>2. CASE at' = [at EXCEPT !["rotator"] = "end"] \/ at' = [at EXCEPT !["rotator"] = "list"]
      BY <3>2 DEF TypeOK, Places
    <3> QED  BY <2>2, <3>1, <3>2 DEF Rewrap
  <2>3. ASSUME RotatorRests \/ RotatorWaits \/ RotatorIsAnswered
        PROVE  at'["rotator"] \in Places
    BY <2>3 DEF RotatorRests, RotatorWaits, RotatorIsAnswered, OldBefore, Places
  <2>4. at'["rotator"] \in Places
    BY <2>1, <2>2, <2>3, RotatorMoves DEF OldBefore
  <2> QED  BY <2>4, <1>1 DEF OldBefore, Places
<1>2. CASE at'["rotator"] = "idle"
  <2>1. ~BeginRotation /\ ~ListKeys /\ ~Rewrap
    BY <1>2 DEF BeginRotation, ListKeys, Rewrap, SendKey, TypeOK
  <2>2. at["rotator"] = "idle" /\ rotation' = rotation
    BY <1>2, <2>1, RotatorMoves DEF RotatorRests, RotatorWaits, RotatorIsAnswered
  <2>3. \A k \in DataKeys : wrapped'[k] \in {None, "old"}
    <3> SUFFICES ASSUME NEW k \in DataKeys, wrapped'[k] # wrapped[k] PROVE wrapped'[k] = "old"
      BY <2>2 DEF OldBefore
    <3>1. PICK q \in puts : WriteKey(q) /\ q.key = k /\ wrapped'[k] = q.master
      BY WrappedByPuts
    <3> QED  BY <3>1, <2>2 DEF OldBefore, PutsAreSent, Master
  <2>4. \A p \in puts' : p.by # "rotator"
    <3>1. CASE Silent
      BY <3>1, <2>2 DEF Silent, Same, OldBefore
    <3>2. ASSUME NEW a \in Actors, NEW k \in DataKeys, Sends(a, k)
          PROVE  \A p \in puts' : p.by # "rotator"
      <4>1. at' = [at EXCEPT ![a] = "wait"]
        BY <3>2 DEF Sends, SendKey
      <4>2. a # "rotator"
        BY <4>1, <1>2 DEF TypeOK
      <4> QED  BY <3>2, <4>2, <2>2 DEF Sends, SendKey, OldBefore
    <3> QED  BY <3>1, <3>2, SendsOrNot
  <2> QED  BY <2>2, <2>3, <2>4, <1>2 DEF OldBefore, Places
<1> QED  BY <1>1, <1>2

\* A writer puts no key that it knows is registered: the rotator alone does.
LEMMA OnlyTheRotatorPutsAgain ==
  ASSUME TypeOK, KeysAreThere, PutsAreSent, [Next]_vars,
         NEW k \in DataKeys, k \in registered[k[1]],
         \A q \in puts : q.key = k => q.by = "rotator"
  PROVE  \A p \in puts' : p.key = k => p.by = "rotator"
<1> USE DEF Actors
<1>1. CASE Silent
  BY <1>1 DEF Silent, Same
<1>2. ASSUME NEW a \in Actors, NEW l \in DataKeys, Sends(a, l)
      PROVE  \A p \in puts' : p.key = k => p.by = "rotator"
  <2>1. a \in Writers /\ l = k => l \notin registered[a] /\ l[1] = a
    BY <1>2, UploadsAssumption DEF Sends, KeysAreThere, PutsAreSent, Writing
  <2> QED  BY <1>2, <2>1 DEF Sends, SendKey
<1> QED  BY <1>1, <1>2, SendsOrNot
\* A rotation passes over no key that was settled when it began.
LEMMA RotationStaysOn ==
  ASSUME TypeOK, KeysAreThere, PutsAreSent, OldBefore, RotationGoesOn, [Next]_vars
  PROVE  RotationGoesOn'
<1> USE DEF Actors
<1> SUFFICES ASSUME at'["rotator"] # "idle", NEW k \in rotation'.settled
             PROVE  /\ k \in registered'[k[1]]
                    /\ \A q \in puts' : q.key = k => q.by = "rotator"
                    /\ Reached(k)'
  BY DEF RotationGoesOn
<1>1. CASE BeginRotation
  <2>1. rotation'.settled = Settled /\ rotation'.after = rotation.after /\ at'["rotator"] = "list"
    BY <1>1 DEF BeginRotation, TypeOK
  <2>2. rotation.after = None /\ registered' = registered /\ puts' = puts
    BY <1>1 DEF BeginRotation, OldBefore, server
  <2>3. Reached(k)'
    BY <2>1, <2>2 DEF Reached, After
  <2> QED  BY <2>1, <2>2, <2>3 DEF Settled
<1>2. CASE ~BeginRotation
  <2>1. at["rotator"] # "idle" /\ rotation'.settled = rotation.settled
    <3>1. CASE ListKeys
      BY <3>1 DEF ListKeys, TypeOK
    <3>2. CASE Rewrap
      BY <3>2 DEF Rewrap, TypeOK
    <3>3. CASE RotatorRests \/ RotatorWaits \/ RotatorIsAnswered
      BY <3>3 DEF RotatorRests, RotatorWaits, RotatorIsAnswered
    <3> QED  BY <3>1, <3>2, <3>3, <1>2, RotatorMoves
  <2>2. /\ k \in DataKeys /\ k[1] \in Writers /\ k \in registered[k[1]]
        /\ \A q \in puts : q.key = k => q.by = "rotator"
        /\ Reached(k)
    BY <2>1 DEF RotationGoesOn, TypeOK, DataKeys
  <2>3. k \in registered'[k[1]]
    BY <2>2, NothingIsLost
  <2>4. \A q \in puts' : q.key = k => q.by = "rotator"
    BY <2>2, OnlyTheRotatorPutsAgain
  <2>5. wrapped[k] = "new" => wrapped'[k] = "new"
    <3> SUFFICES ASSUME wrapped'[k] # wrapped[k] PROVE wrapped'[k] = "new"
      OBVIOUS
    <3>1. PICK q \in puts : q.key = k /\ wrapped'[k] = q.master
      BY <2>2, WrappedByPuts
    <3> QED  BY <3>1, <2>2 DEF PutsAreSent, Master
  <2>6. Reached(k)'
    <3>1. CASE wrapped[k] = "new"
      BY <3>1, <2>5 DEF Reached
    <3>2. CASE ListKeys /\ wrapped[k] # "new"
      <4>1. /\ at["rotator"] = "list" /\ at'["rotator"] = "wrap"
            /\ rotation'.todo = KeysAfter(rotation.after).keys
            /\ rotation'.after = KeysAfter(rotation.after).next
        BY <3>2 DEF ListKeys, TypeOK
      <4>2. After(k, rotation.after)
        BY <4>1, <3>2, <2>2 DEF Reached, Writing
      <4>3. k \in Registered
        BY <2>2 DEF Registered, KeysAreThere
      <4>4. rotation.after \in DataKeys \cup {None}
        BY DEF TypeOK
      <4>5. \/ k \in KeysAfter(rotation.after).keys
            \/ /\ KeysAfter(rotation.after).next # None
               /\ After(k, KeysAfter(rotation.after).next)
        BY <4>2, <4>3, <4>4, PagesPassOverNothing
      <4> QED  BY <4>1, <4>5 DEF Reached, After
    <3>3. CASE Rewrap /\ wrapped[k] # "new"
      <4>1. at["rotator"] = "wrap"
        BY <3>3 DEF Rewrap
      <4>2. k \in rotation.todo \/ (rotation.after # None /\ After(k, rotation.after))
        BY <4>1, <3>3, <2>2 DEF Reached, Writing
      <4>3. CASE /\ rotation.todo = {} /\ rotation' = rotation
                 /\ at' = [at EXCEPT !["rotator"] = IF rotation.after = None THEN "end" ELSE "list"]
        <5>1. at'["rotator"] = "list"
          BY <4>2, <4>3 DEF TypeOK
        <5> QED  BY <5>1, <4>2, <4>3 DEF Reached, After
      <4>4. ASSUME NEW l \in rotation.todo, SendKey("rotator", l),
                   rotation' = [rotation EXCEPT !.todo = @ \ {l}]
            PROVE  Reached(k)'
        <5>1. at'["rotator"] = "wait" /\ putting'["rotator"] = l
          BY <4>4 DEF SendKey, TypeOK
        <5>2. rotation'.todo = rotation.todo \ {l} /\ rotation'.after = rotation.after
          BY <4>4 DEF TypeOK
        <5> QED  BY <5>1, <5>2, <4>2 DEF Reached, Writing, After
      <4> QED  BY <3>3, <4>3, <4>4 DEF Rewrap
    <3>4. CASE RotatorRests /\ wrapped[k] # "new"
      BY <3>4, <2>2 DEF RotatorRests, Reached, Writing, After
    <3>5. CASE RotatorWaits /\ wrapped[k] # "new"
      BY <3>5, <2>2 DEF RotatorWaits, Reached, Writing, After
    <3>6. CASE RotatorIsAnswered /\ wrapped[k] # "new"
      BY <3>6, <2>2 DEF RotatorIsAnswered, Reached, Writing, After
    <3> QED  BY <1>2, <3>1, <3>2, <3>3, <3>4, <3>5, <3>6, RotatorMoves
  <2> QED  BY <2>3, <2>4, <2>6
<1> QED  BY <1>1, <1>2

\* A rotation that is over has reached all that was settled.
LEMMA OverIsReached ==
  ASSUME RotationGoesOn
  PROVE  RotationReachesAll
BY DEF RotationGoesOn, RotationReachesAll, Reached, Writing

-----------------------------------------------------------------------------
(***************************************************************************)
(* The page.                                                               *)
(***************************************************************************)

\* A page is opened, its keys are read, or it stays what it is.
LEMMA PageMoves ==
  ASSUME [Next]_vars
  PROVE  OpenPage \/ ReadKeys \/ page' = page
<1>1. ASSUME NEW w \in Writers, WriterStep(w) PROVE page' = page
  BY <1>1 DEF WriterStep, Plan, NextKey, Upload, LoseUpload, Post, LosePost
<1>2. CASE \/ \E a \in Actors : ResendKey(a) \/ TimeOut(a)
           \/ \E q \in puts : FindKey(q) \/ WriteKey(q)
           \/ BeginRotation \/ ListKeys \/ Rewrap \/ UNCHANGED vars
  BY <1>2 DEF ResendKey, TimeOut, FindKey, WriteKey, BeginRotation, ListKeys, Rewrap, vars
<1> QED  BY <1>1, <1>2 DEF Next

\* A rotation that is over stays over, and what was settled when it began with it.
LEMMA OverIsOver ==
  ASSUME TypeOK, PutsAreSent, [Next]_vars, at["rotator"] = "end"
  PROVE  at'["rotator"] = "end" /\ rotation' = rotation
BY RotatorMoves DEF BeginRotation, ListKeys, Rewrap, RotatorRests, RotatorWaits, RotatorIsAnswered

\* A page has the keys of what it shows.
LEMMA PageKeepsKeys ==
  ASSUME TypeOK, StoredIsSound, PutsAreSent, PageHasKeys, [Next]_vars
  PROVE  PageHasKeys'
<1>1. CASE OpenPage
  <2>1. PICK s \in Sessions :
          page' = [page EXCEPT !.at = "keys", !.session = s,
                     !.refs = UNION {r.refs : r \in {x \in stored : x.session = s}},
                     !.rotated = at["rotator"] = "end"]
    BY <1>1 DEF OpenPage
  <2>2. wrapped' = wrapped /\ at' = at
    BY <1>1 DEF OpenPage, server, client
  <2>3. /\ page'.refs = UNION {r.refs : r \in {x \in stored : x.session = s}}
        /\ page'.rotated = (at["rotator"] = "end")
    BY <2>1 DEF TypeOK
  <2>4. \A ref \in page'.refs : ref.key # None => wrapped'[ref.key] # None
    BY <2>2, <2>3 DEF StoredIsSound
  <2> QED  BY <2>2, <2>3, <2>4 DEF PageHasKeys, Encrypted
<1>2. CASE ReadKeys
  <2>1. page'.at = "end" /\ page'.rotated = page.rotated /\ page.at # "idle" /\ at' = at
    BY <1>2 DEF ReadKeys, TypeOK, client
  <2> QED  BY <2>1 DEF PageHasKeys
<1>3. CASE page' = page
  <2>1. \A ref \in page.refs : ref.key \in DataKeys \cup {None}
    BY DEF TypeOK, Reference
  <2>2. page.at = "keys" => \A ref \in Encrypted(page.refs) : wrapped'[ref.key] # None
    BY <2>1, NothingIsLost DEF PageHasKeys, Encrypted
  <2>3. page.at # "idle" /\ page.rotated => at'["rotator"] = "end"
    BY OverIsOver DEF PageHasKeys
  <2> QED  BY <1>3, <2>2, <2>3 DEF PageHasKeys, Encrypted
<1> QED  BY <1>1, <1>2, <1>3, PageMoves

\* A page that has been read opens, and stays open.
LEMMA PagesStayOpen ==
  ASSUME TypeOK, PutsAreSent, OldBefore, RotationGoesOn, PageHasKeys, PagesOpen, [Next]_vars
  PROVE  PagesOpen'
<1>1. CASE OpenPage
  BY <1>1 DEF OpenPage, TypeOK, PagesOpen
<1>2. CASE ReadKeys
  <2> DEFINE keys == {[key |-> ref.key, master |-> wrapped[ref.key]] :
                        ref \in {x \in Encrypted(page.refs) : wrapped[x.key] # None}}
  <2>1. /\ page.at = "keys"
        /\ page'.refs = page.refs /\ page'.keys = keys /\ page'.rotated = page.rotated
        /\ page'.begun = (at["rotator"] # "idle") /\ rotation' = rotation
    BY <1>2 DEF ReadKeys, TypeOK
  <2>2. ASSUME NEW ref \in Encrypted(page.refs)
        PROVE  \E k \in keys : /\ k.key = ref.key
                               /\ ~page'.begun => k.master = "old"
                               /\ page'.rotated /\ ref.key \in rotation'.settled => k.master = "new"
    <3>1. ref.key \in DataKeys /\ wrapped[ref.key] # None
      BY <2>1 DEF Encrypted, TypeOK, Reference, PageHasKeys
    <3>2. [key |-> ref.key, master |-> wrapped[ref.key]] \in keys
      BY <3>1
    <3>3. ~page'.begun => wrapped[ref.key] = "old"
      BY <2>1, <3>1 DEF OldBefore
    <3>4. page'.rotated /\ ref.key \in rotation'.settled => wrapped[ref.key] = "new"
      BY <2>1, OverIsReached DEF PageHasKeys, RotationReachesAll
    <3> QED  BY <3>2, <3>3, <3>4
  <2> QED  BY <2>1, <2>2 DEF PagesOpen, Encrypted
<1>3. CASE page' = page
  <2>1. page.at = "end" /\ page.rotated => rotation' = rotation
    BY OverIsOver DEF PageHasKeys
  <2> QED  BY <1>3, <2>1 DEF PagesOpen, Encrypted
<1> QED  BY <1>1, <1>2, <1>3, PageMoves

-----------------------------------------------------------------------------
(***************************************************************************)
(* The invariant, and what it implies.                                     *)
(***************************************************************************)

\* In every initial state.
LEMMA UploadsInit == Init => UploadsInv
<1> SUFFICES ASSUME Init PROVE UploadsInv
  OBVIOUS
<1>1. TypeOK
  BY InitType
<1>2. /\ \A a \in Actors : at[a] = "idle"
      /\ \A w \in Writers : /\ at[w] = "idle" /\ answers[w] = <<>>
                            /\ made[w] = {} /\ registered[w] = {}
      /\ at["rotator"] = "idle" /\ rotation.after = None
      /\ \A k \in DataKeys : wrapped[k] = None
      /\ objects = {} /\ stored = {} /\ puts = {} /\ page.at = "idle"
  BY DEF Init, Actors
<1>3. CallsUnderWay /\ KeysUnderWay /\ KeysAreThere
  BY <1>2 DEF CallsUnderWay, KeysUnderWay, KeysAreThere, InCall
<1>4. StoredIsSound /\ StoredInTurn
  BY <1>2 DEF StoredIsSound, StoredInTurn
<1>5. AnswersAreOfCalls
  <2>1. \A w \in Writers : program[w] \in Seq(Calls)
    BY <1>1, UploadsAssumption DEF TypeOK
  <2>2. \A w \in Writers : Len(program[w]) \in Nat
    BY <2>1
  <2>3. \A w \in Writers : Len(answers[w]) = 0
    BY <1>2
  <2> QED  BY <2>2, <2>3 DEF AnswersAreOfCalls
<1>6. Answered
  BY <1>2 DEF Answered, NothingIsRefusedForUploads, FailedUploadsPostNothing, ResultsInPlace
<1>7. PutsAreSent
  BY <1>2 DEF PutsAreSent, Writing, Actors
<1>8. OldBefore /\ RotationGoesOn
  BY <1>2 DEF OldBefore, RotationGoesOn, Places
<1>9. PageHasKeys /\ PagesOpen
  BY <1>2 DEF PageHasKeys, PagesOpen
<1> QED  BY <1>1, <1>3, <1>4, <1>5, <1>6, <1>7, <1>8, <1>9 DEF UploadsInv

\* And after every step.
LEMMA UploadsStep == UploadsInv /\ [Next]_vars => UploadsInv'
<1> SUFFICES ASSUME UploadsInv, [Next]_vars PROVE UploadsInv'
  OBVIOUS
<1>1. TypeOK /\ CallsUnderWay /\ KeysUnderWay /\ KeysAreThere /\ PutsAreSent
  BY DEF UploadsInv
<1>2. TypeOK'
  BY <1>1, TypeStep
<1>3. CallsUnderWay' /\ KeysUnderWay'
  BY <1>1, CallsGoOn, KeysGoOn
<1>4. KeysAreThere' /\ PutsAreSent'
  BY <1>1, KeysStayThere, PutsStaySent
<1>5. StoredIsSound' /\ StoredInTurn'
  BY <1>1, StoredStaysSound, StoredStaysInTurn DEF UploadsInv
<1>6. AnswersAreOfCalls' /\ Answered'
  BY <1>1, AnswersStayOfCalls, AnswersStayRight DEF UploadsInv
<1>7. OldBefore' /\ RotationGoesOn'
  BY <1>1, OldStaysBefore, RotationStaysOn DEF UploadsInv
<1>8. PageHasKeys' /\ PagesOpen'
  BY <1>1, PageKeepsKeys, PagesStayOpen DEF UploadsInv
<1> QED  BY <1>2, <1>3, <1>4, <1>5, <1>6, <1>7, <1>8 DEF UploadsInv

\* The invariant holds of every behaviour: clients, server, rotator and page are in
\* states of their types that fit each other, whatever is lost and however it interleaves.
THEOREM UploadsInvariant == Spec => []UploadsInv
BY UploadsInit, UploadsStep, PTL DEF Spec

\* A record is not refused for content or a key that its client was to upload, for any
\* programs of the clients and any lost answers.
THEOREM NeverRefusedForUploads == Spec => []NothingIsRefusedForUploads
<1>1. UploadsInv => NothingIsRefusedForUploads
  BY DEF UploadsInv, Answered
<1> QED  BY <1>1, UploadsInvariant, PTL

\* A call that raises, or had content the server refuses, has stored no record of it.
THEOREM FailedUploadsNeverPost == Spec => []FailedUploadsPostNothing
<1>1. UploadsInv => FailedUploadsPostNothing
  BY DEF UploadsInv, Answered
<1> QED  BY <1>1, UploadsInvariant, PTL

\* A batch answers for every record at its own place, and says "ok" of those stored
\* and of no other.
THEOREM ResultsAlwaysInPlace == Spec => []ResultsInPlace
<1>1. UploadsInv => ResultsInPlace
  BY DEF UploadsInv, Answered
<1> QED  BY <1>1, UploadsInvariant, PTL

\* A rotation that is over has wrapped every key that was settled when it began with
\* the new master key, for pages of any size and whatever keys were added meanwhile.
THEOREM RotationAlwaysReachesAll == Spec => []RotationReachesAll
<1>1. UploadsInv => RotationReachesAll
  BY OverIsReached DEF UploadsInv
<1> QED  BY <1>1, UploadsInvariant, PTL

\* The owner's page has the keys of all it shows, and opens it with the master key
\* that goes with the state of the rotation.
THEOREM PagesAlwaysOpen == Spec => []PagesOpen
<1>1. UploadsInv => PagesOpen
  BY DEF UploadsInv
<1> QED  BY <1>1, UploadsInvariant, PTL
=============================================================================
