---------------------------- MODULE MCAccessGate ----------------------------
(* Small instances of AccessGate over Accounts: what four requests to each may be. *)
EXTENDS AccessGate, TLC

MCMaxUses == [c \in Codes |-> IF c = "twice" THEN 2 ELSE 1]
MCLife == [c \in Codes |-> IF c = "brief" THEN 1 ELSE MaxTime + 1]

Task(op, key, email, code, name, agentId, operator) ==
  [op |-> op, key |-> key, email |-> email, code |-> code, name |-> name,
   agent |-> agentId, operator |-> operator]
Register(email, code) == Task("register", None, email, code, None, None, FALSE)
ByOperator(email, code) == Task("register", None, email, code, None, None, TRUE)
Mint(code) == Task("invite", None, None, code, None, None, TRUE)
RevokeCode(code) == Task("revoke", None, None, code, None, None, TRUE)
ClaimEmail(key, email) == Task("claim", key, email, None, None, None, FALSE)
Rotate(key) == Task("rotate", key, None, None, None, None, FALSE)
Agent(key, name) == Task("agent", key, None, None, name, None, FALSE)
RenameAgent(key, id, name) == Task("rename", key, None, None, name, id, FALSE)

\* With a key nobody has been given, a request that is never made.
Never == Rotate("r4")
NeverGate == [op |-> "token", key |-> "r4", resource |-> "share", scopes |-> None, sound |-> TRUE]

Four(t1, t2, t3, t4) == ("r1" :> t1) @@ ("r2" :> t2) @@ ("r3" :> t3) @@ ("r4" :> t4)
FourGate(t1, t2, t3, t4) == ("g1" :> t1) @@ ("g2" :> t2) @@ ("g3" :> t3) @@ ("g4" :> t4)

NoGate == FourGate(NeverGate, NeverGate, NeverGate, NeverGate)
Rotates == <<"open", Four(Rotate("alice"), Never, Never, Never)>>
NoAccounts == <<"open", Four(Never, Never, Never, Never)>>

AccountScenarios == {
  \* Three registrations with a code of one use, two of them of one e-mail; it is revoked.
  <<"invite", Four(Register("e1", "once"), Register("e1", "once"), Register("e2", "once"),
                   RevokeCode("once"))>>,
  \* One e-mail is registered and claimed, or registered twice.
  <<"open", Four(Register(None, "twice"), ClaimEmail("r1", "e1"), Register("e1", "twice"), Never)>>,
  <<"admin", Four(Register("e1", "once"), ByOperator("e1", "once"), RevokeCode("once"), Never)>>,
  <<"invite", Four(Register("e1", None), Register("e1", "twice"), Register("e1", "twice"), Never)>>,
  \* A code that expires is made, spent and revoked.
  <<"invite", Four(Mint("brief"), Register("e1", "brief"), Register("e2", "brief"),
                   RevokeCode("brief"))>>,
  \* A key is rotated while an agent is registered with it, and twice at once.
  <<"open", Four(Rotate("alice"), Rotate("alice"), Agent("alice", "n1"), Agent("r1", "n1"))>>,
  \* One name is registered twice while the agent that has it is renamed; another owner's.
  <<"open", Four(Agent("alice", "n1"), Agent("alice", "n1"), RenameAgent("alice", "r1", "n2"),
                 Agent("alice", "n2"))>>,
  <<"open", Four(Agent("alice", "n1"), RenameAgent("bob", "r1", "n2"), Agent("bob", "n1"),
                 RenameAgent("bob", "r3", "n1"))>>}

Give(o, scopes) == [op |-> "grant", owner |-> o, resource |-> "share", scopes |-> scopes, sound |-> TRUE]
Drop(g) == [op |-> "revoke", grant |-> g]
Token(key, scopes) ==
  [op |-> "token", key |-> key, resource |-> "share", scopes |-> scopes, sound |-> TRUE]
SetTo(o, h, replace) == [op |-> "handle", owner |-> o, handle |-> h, replace |-> replace]

\* A grant is replaced and revoked while its owner asks for a token, and rotates the key.
Replaced == {
  FourGate(Give("alice", {"write"}), Give("alice", {"read"}), Token("alice", None), Drop("g1")),
  FourGate(Give("alice", {"write"}), Give("alice", {"read"}), Give("alice", {"read"}), NeverGate)}
Asked == {
  FourGate(Give("alice", {"write"}), Token("alice", {"write"}), Token("alice", {"read"}), NeverGate),
  \* Handles: taken, wanted by another, cleared, reserved; and what is refused at once.
  FourGate(SetTo("alice", "h1", FALSE), SetTo("bob", "h1", FALSE), SetTo("alice", None, TRUE),
           SetTo("bob", "www", FALSE)),
  FourGate(SetTo("alice", "h1", FALSE), SetTo("alice", "h2", FALSE), SetTo("alice", "h2", TRUE),
           [Give("r1", {"read"}) EXCEPT !.sound = FALSE]),
  FourGate(Give("r1", {"read"}), Drop("g1"), [Token("alice", {}) EXCEPT !.sound = FALSE],
           Token("alice", {}))}

MCScenarios == AccountScenarios \cup {Rotates, NoAccounts}
MCGateScenarios ==
  (AccountScenarios \X {NoGate}) \cup ({NoAccounts} \X Replaced) \cup ({Rotates} \X Asked)
=============================================================================
