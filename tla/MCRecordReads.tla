--------------------------- MODULE MCRecordReads ---------------------------
(* Small instances of RecordReads: four records of two agents of one owner. *)
EXTENDS RecordReads

MCOwnerOf == ("planner" :> "alice") @@ ("helper" :> "alice") @@ ("other" :> "bob")

Rec(agent, id, behavior, kind, tags) ==
  [agent |-> agent, id |-> id, behavior |-> behavior, kind |-> kind, tags |-> tags]
Plain(agent, id) == Rec(agent, id, "Thinking", None, <<>>)
Link(d) == [how |-> "link", of |-> d]
Fork(c) == [how |-> "fork", of |-> c]
HandsOut(agent, id, kind, d) == Rec(agent, id, "Delegating", kind, <<Link(d)>>)
Opens(agent, id, tags) == Rec(agent, id, "Observing", None, tags)

Four(r1, r2, r3, r4) == ("r1" :> r1) @@ ("r2" :> r2) @@ ("r3" :> r3) @@ ("r4" :> r4)

Trace(limit, scope) ==
  [op |-> "trace", scope |-> scope, agent |-> "planner", limit |-> limit, again |-> TRUE]
Session(id) == [op |-> "session", scope |-> "alice", agent |-> "planner", id |-> id]
List(only, limit) == [op |-> "list", scope |-> "alice", only |-> only, limit |-> limit]
One(ask1) == "p" :> ask1

A1 == <<"a", "t1">>
A2 == <<"a", "t2">>
Sub == <<"a", "sub", "s", "t1">>
B1 == <<"b", "t1">>
C == <<"c">>

Traces ==
  {Four(Plain("planner", A1), Plain("planner", A1), Plain("planner", A2), Plain(a, A1)) :
     a \in {"planner", "helper"}}

Linked == {
  \* a hands out to b, and b to a again, with a lane in a.
  Four(HandsOut("planner", A1, "spawn", "d1"), Opens("helper", B1, <<Link("d1")>>),
       HandsOut("helper", B1, "handoff", "d2"), Opens("planner", Sub, <<Link("d2")>>)),
  \* Three that began one another in a circle, and a fourth that one of them began.
  Four(Opens("planner", A1, <<Fork(<<"b">>)>>), Opens("planner", B1, <<Fork(C)>>),
       Opens("planner", C, <<Fork(<<"a">>)>>), Opens("helper", C, <<Fork(<<"b">>), Fork(<<"a">>)>>)),
  \* A message only counts; a fork of a conversation nobody lists; one's own link.
  Four(HandsOut("planner", A1, "message", "d1"), Opens("helper", B1, <<Link("d1"), Fork(<<"x">>)>>),
       HandsOut("helper", C, "spawn", "d2"), Opens("helper", C, <<Link("d2"), Link("d1")>>))}

\* Readers do not touch one another, so one at a time is enough.
MCScenarios ==
  (Traces \X {One(Trace(1, "alice")), One(Trace(2, None)), One(Trace(1, "bob")), One(Session(A1))})
    \cup (Linked \X {One(List(None, 10)), One(List({A1, B1}, 2))})
=============================================================================
