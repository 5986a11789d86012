-------------------------- MODULE MCViewerSessions --------------------------
(* Small instances of ViewerSessions: what five requests may be about. *)
EXTENDS ViewerSessions, TLC

ByKey(op, owner, item) == [op |-> op, owner |-> owner, browser |-> None, item |-> item]
ByBrowser(op, browser, item) == [op |-> op, owner |-> None, browser |-> browser, item |-> item]
SignIn(owner, browser) == [op |-> "signin", owner |-> owner, browser |-> browser, item |-> None]

Issue == ByKey("issue", "alice", None)
Grant == ByKey("grant", "alice", None)
Page == ByBrowser("page", "b1", None)

Scenario(t1, t2, t3, t4, t5) ==
  ("r1" :> t1) @@ ("r2" :> t2) @@ ("r3" :> t3) @@ ("r4" :> t4) @@ ("r5" :> t5)

MCScenarios == {
  \* A grant is opened twice and revoked while one of the browsers reads.
  Scenario(Grant, ByBrowser("link", "b1", "r1"), Page, ByKey("revoke", "alice", "r1"),
           ByBrowser("link", "b2", "r1")),
  \* A ticket is opened twice, once by a browser that may be signed in.
  Scenario(Issue, ByBrowser("ticket", "b1", "r1"), Page, SignIn("bob", "b1"),
           ByBrowser("ticket", "b2", "r1")),
  \* A browser opens a grant and a ticket of the same owner.
  Scenario(Grant, ByBrowser("link", "b1", "r1"), Issue, ByBrowser("ticket", "b1", "r3"), Page),
  \* An owner who does not have the grant revokes it; grants are listed.
  Scenario(Grant, ByBrowser("link", "b1", "r1"), Page, ByKey("revoke", "bob", "r1"),
           ByKey("list", "bob", None)),
  \* The administrator signs in, reads and signs out; old tickets are cleared.
  Scenario(SignIn(Admin, "b1"), Page, ByBrowser("logout", "b1", None), Issue, Issue)}
=============================================================================
