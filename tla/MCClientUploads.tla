-------------------------- MODULE MCClientUploads --------------------------
(* Small instances of ClientUploads: what one or two clients are asked to submit. *)
EXTENDS ClientUploads, TLC

MCSdk == [w \in Writers |-> IF w = "ts" THEN "typescript" ELSE "python"]
\* The order of the key ids is not that in which the keys are made.
MCRank == [k \in DataKeys |-> (IF k[1] = "py" THEN 0 ELSE 2) + (IF k[2] = "s1" THEN 2 ELSE 1)]

Value(v) == [value |-> v, given |-> FALSE]
Brought(v) == [value |-> v, given |-> TRUE]
Input(session, values) ==
  [valid |-> TRUE, encodable |-> TRUE, session |-> session, values |-> values]
Invalid1(input) == [input EXCEPT !.valid = FALSE]
Unfit(input) == [input EXCEPT !.encodable = FALSE]

Single(input) == [batch |-> FALSE, fits |-> TRUE, inputs |-> <<input>>]
Batch(inputs) == [batch |-> TRUE, fits |-> TRUE, inputs |-> inputs]

A == Input("s1", <<Value("a")>>)
B == Input("s2", <<Value("b"), Value("b")>>)
Empty == Input("s1", <<>>)

\* A client alone: two sessions, a call that fails at an upload and the one after it,
\* inputs that are invalid, cannot be encoded, are too many, or refer to what is there or not.
Alone == {
  <<Batch(<<Invalid1(A), B, Invalid1(B), A>>)>>,
  <<Batch(<<A, Input("s2", <<Value("huge")>>)>>), Single(B), Single(A)>>,
  <<Batch(<<A, Unfit(B), A>>), Single(Unfit(A)), Batch(<<Unfit(A), Invalid1(B)>>)>>,
  <<[Batch(<<A, B>>) EXCEPT !.fits = FALSE], Single(A), Batch(<<Invalid1(A)>>)>>,
  <<Single(Input("s1", <<Brought("a")>>)), Batch(<<Empty, Input("s1", <<Brought("a")>>), A>>)>>}

Only(v, calls) == [w \in Writers |-> IF w = v THEN calls ELSE <<>>]
Each == {Only(v, calls) : v \in Writers, calls \in Alone}

\* Two clients at once; and one that makes two keys while they are rotated.
Two == {[w \in Writers |-> IF w = "py" THEN <<Batch(<<A, B>>)>> ELSE <<Batch(<<A>>)>>]}
MCWatched == {Only("py", <<Single(A), Single(B)>>)}
MCPrograms == Each \cup Two \cup MCWatched
=============================================================================
