--------------------------- MODULE AccessGateProofs ---------------------------
(***************************************************************************)
(* Proofs about Accounts, for every set of requests, owners, e-mails,      *)
(* names and codes, whatever the requests are, and any number of restarts; *)
(* and, on top of them, about the AccessGate that runs beside Accounts,    *)
(* for every set of owners, grants, handles and scopes.                    *)
(***************************************************************************)
EXTENDS AccessGate, FiniteSetTheorems, TLAPS

-----------------------------------------------------------------------------
(***************************************************************************)
(*                          PART I.  ACCOUNTS                              *)
(***************************************************************************)

-----------------------------------------------------------------------------
(* Types. *)

LEMMA TaskTyping ==
  ASSUME TypeOK, NEW r \in Requests
  PROVE  /\ Op(r) \in {"register", "invite", "revoke"} \cup ByKey
         /\ Email(r) \in Emails \cup {None}
         /\ Code(r) \in Codes \cup {None}
         /\ Op(r) \in {"invite", "revoke"} => Code(r) \in Codes
         /\ Op(r) = "claim" => Email(r) \in Emails
         /\ Op(r) \in {"agent", "rename"} => Name(r) \in Names
         /\ Op(r) = "rename" => task[r].agent \in Requests
         /\ Op(r) \in ByKey => task[r].key \in Rows
<1>1. task[r] \in Tasks  BY DEF TypeOK
<1> QED  BY <1>1 DEF Tasks, Op, Email, Code, Name, ByKey

LEMMA TypeInit == Init => TypeOK
<1> SUFFICES ASSUME Init  PROVE TypeOK
  OBVIOUS
<1>1. owner \in [Rows -> OwnerRows \cup {None}]  BY DEF Init, OwnerRows, Rows
<1>2. invite \in [Codes -> InviteRows \cup {None}]
  BY AccountsAssumption DEF Init, InviteRows
<1>3. policy \in Policies /\ task \in [Requests -> Tasks]  BY AccountsAssumption DEF Init
<1> QED  BY <1>1, <1>2, <1>3 DEF Init, TypeOK, PC

\* What every answer and every move to another statement keeps of the types.
LEMMA MovesTyping ==
  ASSUME TypeOK, NEW r \in Requests
  PROVE  /\ \A where \in PC : Goto(r, where) =>
              /\ pc' \in [Requests -> PC]
              /\ outcome' \in [Requests -> {"none", "ok", "refused", "failed", "lost"}]
              /\ told' \in [Requests -> Rows \cup {None}]
         /\ \A how \in {"ok", "refused", "failed"}, row \in Rows \cup {None} : Reply(r, how, row) =>
              /\ pc' \in [Requests -> PC]
              /\ outcome' \in [Requests -> {"none", "ok", "refused", "failed", "lost"}]
              /\ told' \in [Requests -> Rows \cup {None}]
         /\ ReadClock(r) => clock' \in [Requests -> Nat]
<1>1. ASSUME NEW where \in PC, Goto(r, where)
      PROVE  /\ pc' \in [Requests -> PC]
             /\ outcome' \in [Requests -> {"none", "ok", "refused", "failed", "lost"}]
             /\ told' \in [Requests -> Rows \cup {None}]
  BY <1>1 DEF TypeOK, Goto, answers
<1>2. ASSUME NEW how \in {"ok", "refused", "failed"}, NEW row \in Rows \cup {None},
             Reply(r, how, row)
      PROVE  /\ pc' \in [Requests -> PC]
             /\ outcome' \in [Requests -> {"none", "ok", "refused", "failed", "lost"}]
             /\ told' \in [Requests -> Rows \cup {None}]
  BY <1>2 DEF TypeOK, Reply, PC
<1>3. ReadClock(r) => clock' \in [Requests -> Nat]  BY DEF TypeOK, ReadClock
<1> QED  BY <1>1, <1>2, <1>3

\* The variables a move or an answer is about.
Moving ==
  /\ pc' \in [Requests -> PC]
  /\ outcome' \in [Requests -> {"none", "ok", "refused", "failed", "lost"}]
  /\ told' \in [Requests -> Rows \cup {None}]
Resting ==
  /\ now' \in Nat /\ owner' \in [Rows -> OwnerRows \cup {None}]
  /\ agent' \in [Requests -> AgentRows \cup {None}]
  /\ invite' \in [Codes -> InviteRows \cup {None}]
  /\ attempts' \subseteq [by : Requests, at : Nat] /\ restarts' \in Nat
  /\ policy' \in Policies /\ task' \in [Requests -> Tasks]
  /\ clock' \in [Requests -> Nat] /\ who' \in [Requests -> Rows \cup {None}]
  /\ stale' \in [Requests -> BOOLEAN] /\ earlier' \in [Requests -> SUBSET Rows]

LEMMA TypesByParts == Moving /\ Resting => TypeOK'
BY DEF Moving, Resting, TypeOK

LEMMA StepMoving ==
  ASSUME TypeOK, RequestsInv, NEW r \in Requests, Step(r)
  PROVE  Moving
<1>1. \A where : where \in PC /\ Goto(r, where) => Moving  BY MovesTyping DEF Moving
<1>2. \A how, row : how \in {"ok", "refused", "failed"} /\ row \in Rows \cup {None}
        /\ Reply(r, how, row) => Moving
  BY MovesTyping DEF Moving
<1>3. Refuse(r) => Moving  BY <1>2 DEF Refuse
<1>4. Admitted(r) => Moving  BY <1>1 DEF Admitted, PC
<1>5. r \in Rows  BY DEF Rows
<1>6. who[r] \in Rows \cup {None}  BY DEF TypeOK
<1>7. Placed(r)  BY DEF RequestsInv
<1> HIDE DEF Moving, Goto, Reply, Refuse, Admitted
<1>8. CASE AdmitOperator(r) \/ AdmitSelf(r)  BY <1>8, <1>3, <1>4 DEF AdmitOperator, AdmitSelf
<1>9. CASE AssertUsable(r) \/ Begin(r) \/ ConsumeInvite(r)
  BY <1>9, <1>1, <1>3 DEF AssertUsable, Begin, ConsumeInvite, PC
<1>10. CASE Lookup(r)
  <2>1. WithEmail(Email(r)) \subseteq Rows  BY DEF WithEmail
  <2> QED  BY <1>10, <2>1, <1>1, <1>2 DEF Lookup, PC
<1>11. CASE CreateOwner(r)  BY <1>11, <1>2, <1>5 DEF CreateOwner
<1>12. CASE ArriveInvite(r) \/ ArriveRevoke(r) \/ ArriveWithKey(r)
  BY <1>12, <1>1 DEF ArriveInvite, ArriveRevoke, ArriveWithKey, PC
<1>13. CASE CreateInvite(r) \/ RevokeInvite(r)  BY <1>13, <1>2 DEF CreateInvite, RevokeInvite
<1>14. CASE FindInvite(r)  BY <1>14, <1>1, <1>2, <1>3 DEF FindInvite, PC
<1>15. CASE Auth(r)
  <2>1. First(Op(r)) \in PC  BY DEF First, PC
  <2> QED  BY <1>15, <2>1, <1>1, <1>3 DEF Auth
<1>16. CASE Holder(r) \/ CheckName(r)  BY <1>16, <1>1, <1>3 DEF Holder, CheckName, PC
<1>17. CASE Claim(r) \/ RotateKey(r)  BY <1>17, <1>2, <1>6 DEF Claim, RotateKey
<1>18. CASE FindAgent(r)
  <2>1. Called(who[r], Name(r)) \subseteq Rows  BY DEF Called, Rows
  <2> QED  BY <1>18, <2>1, <1>1, <1>2 DEF FindAgent, PC
<1>19. CASE CreateAgent(r)  BY <1>19, <1>2, <1>5 DEF CreateAgent
<1>20. CASE OwnAgent(r)  BY <1>20, <1>1, <1>3 DEF OwnAgent, PC
<1>21. CASE Rename(r)
  <2>1. task[r].agent \in Rows  BY <1>21, <1>7, TaskTyping DEF Rename, Placed, Rows
  <2> QED  BY <1>21, <2>1, <1>2 DEF Rename
<1> QED
  BY <1>8, <1>9, <1>10, <1>11, <1>12, <1>13, <1>14, <1>15, <1>16, <1>17, <1>18, <1>19, <1>20,
     <1>21 DEF Step

LEMMA StepResting ==
  ASSUME TypeOK, RequestsInv, NEW r \in Requests, Step(r)
  PROVE  Resting
<1> USE DEF Resting
<1>0. Placed(r)  BY DEF RequestsInv
<1>1. \A op : Arrives(r, op) => Resting \/ ~(attempts' \subseteq [by : Requests, at : Nat])
  <2>1. \A e : WithEmail(e) \subseteq Rows  BY DEF WithEmail
  <2> QED  BY <2>1 DEF TypeOK, Arrives, ReadClock, accounts
<1>2. CASE AdmitOperator(r) \/ ArriveInvite(r) \/ ArriveRevoke(r) \/ ArriveWithKey(r)
  BY <1>1, <1>2 DEF AdmitOperator, ArriveInvite, ArriveRevoke, ArriveWithKey, TypeOK
<1>3. CASE AdmitSelf(r)
  <2>1. attempts' \subseteq [by : Requests, at : Nat]
    <3>1. [by |-> r, at |-> now] \in [by : Requests, at : Nat]  BY DEF TypeOK
    <3> QED  BY <1>3, <3>1 DEF AdmitSelf, Recent, TypeOK
  <2>2. Arrives(r, "register")  BY <1>3 DEF AdmitSelf
  <2> QED  BY <1>1, <2>1, <2>2
<1>4. CASE AssertUsable(r) \/ Lookup(r) \/ ConsumeInvite(r) \/ Holder(r) \/ FindAgent(r)
           \/ OwnAgent(r) \/ CheckName(r)
  BY <1>4 DEF AssertUsable, Lookup, ConsumeInvite, Holder, FindAgent, OwnAgent, CheckName,
     SameTables, accounts, fixed, TypeOK
<1>5. CASE Begin(r) \/ FindInvite(r)
  BY <1>5 DEF Begin, FindInvite, ReadClock, SameTables, accounts, fixed, TypeOK
<1>6. CASE Auth(r)
  <2>1. who' \in [Requests -> Rows \cup {None}]  BY <1>6 DEF Auth, HeldBy, TypeOK
  <2>2. earlier' \in [Requests -> SUBSET Rows]
    <3>1. \A o : Called(o, Name(r)) \subseteq Rows  BY DEF Called, Rows
    <3> QED  BY <1>6, <3>1 DEF Auth, TypeOK
  <2> QED  BY <1>6, <2>1, <2>2 DEF Auth, accounts, TypeOK
<1>7. CASE CreateOwner(r)
  <2>1. OwnerOf(r) \in OwnerRows  BY TaskTyping DEF OwnerOf, OwnerRows, Rows
  <2>2. owner' \in [Rows -> OwnerRows \cup {None}]
    BY <1>7, <2>1 DEF CreateOwner, TypeOK, Rows
  <2>3. Code(r) # None => invite[Code(r)] \in InviteRows
    <3>1. Spending(r) /\ pc[r] = "create"  BY <1>7 DEF RequestsInv, CreateOwner
    <3> QED  BY <3>1, TaskTyping DEF Spending, TypeOK
  <2>4. invite' \in [Codes -> InviteRows \cup {None}]
    <3>1. Code(r) # None => [invite[Code(r)] EXCEPT !.uses = @ + 1] \in InviteRows
      BY <2>3 DEF InviteRows
    <3>2. Code(r) # None => Spent(Code(r)) \in [Codes -> InviteRows \cup {None}]
      BY <3>1, TaskTyping DEF Spent, TypeOK
    <3> QED  BY <1>7, <3>2 DEF CreateOwner, TypeOK
  <2> QED  BY <1>7, <2>2, <2>4 DEF CreateOwner, fixed, TypeOK
<1>8. CASE CreateInvite(r)
  <2>1. Code(r) \in Codes  BY <1>0, <1>8, TaskTyping DEF Placed, CreateInvite
  <2>2. clock[r] + Life[Code(r)] \in Nat  BY <2>1, AccountsAssumption DEF TypeOK
  <2>3. [uses |-> 0, expires |-> clock[r] + Life[Code(r)], revoked |-> None] \in InviteRows
    BY <2>2 DEF InviteRows
  <2> QED  BY <1>8, <2>3 DEF CreateInvite, fixed, TypeOK
<1>9. CASE RevokeInvite(r)
  <2>1. Code(r) \in Codes /\ invite[Code(r)] # None
    BY <1>0, <1>9, TaskTyping DEF Placed, RevokeInvite
  <2>2. [invite[Code(r)] EXCEPT !.revoked = clock[r]] \in InviteRows
    BY <2>1 DEF InviteRows, TypeOK
  <2>3. invite' = [invite EXCEPT ![Code(r)] = [invite[Code(r)] EXCEPT !.revoked = clock[r]]]
    BY <1>9 DEF RevokeInvite
  <2>4. invite' \in [Codes -> InviteRows \cup {None}]  BY <2>2, <2>3 DEF TypeOK
  <2> QED  BY <1>9, <2>4 DEF RevokeInvite, fixed, TypeOK
<1>10. CASE Claim(r)
  <2>1. who[r] \in Rows /\ owner[who[r]] \in OwnerRows
    BY <1>0, <1>10 DEF Placed, Claim, TypeOK
  <2>2. [owner[who[r]] EXCEPT !.email = Email(r)] \in OwnerRows
    BY <2>1, TaskTyping DEF OwnerRows
  <2>3. owner' = owner
          \/ owner' = [owner EXCEPT ![who[r]] = [owner[who[r]] EXCEPT !.email = Email(r)]]
    BY <1>10 DEF Claim
  <2>4. owner' \in [Rows -> OwnerRows \cup {None}]  BY <2>2, <2>3 DEF TypeOK
  <2> QED  BY <1>10, <2>4 DEF Claim, fixed, TypeOK
<1>11. CASE RotateKey(r)
  <2>1. who[r] \in Rows /\ owner[who[r]] \in OwnerRows
    BY <1>0, <1>11 DEF Placed, RotateKey, TypeOK
  <2>2. [owner[who[r]] EXCEPT !.key = r] \in OwnerRows  BY <2>1 DEF OwnerRows, Rows
  <2>3. owner' = [owner EXCEPT ![who[r]] = [owner[who[r]] EXCEPT !.key = r]]
    BY <1>11 DEF RotateKey
  <2>4. owner' \in [Rows -> OwnerRows \cup {None}]  BY <2>2, <2>3 DEF TypeOK
  <2> QED  BY <1>11, <2>4 DEF RotateKey, fixed, TypeOK
<1>12. CASE CreateAgent(r)
  <2>1. who[r] \in Rows  BY <1>0, <1>12 DEF Placed, CreateAgent, TypeOK
  <2>2. Name(r) \in Names  BY <1>0, <1>12, TaskTyping DEF Placed, CreateAgent
  <2>3. [owner |-> who[r], name |-> Name(r)] \in AgentRows  BY <2>1, <2>2 DEF AgentRows
  <2>4. agent' \in [Requests -> AgentRows \cup {None}]
    BY <1>12, <2>3 DEF CreateAgent, TypeOK
  <2> QED  BY <1>12, <2>4 DEF CreateAgent, fixed, TypeOK
<1>13. CASE Rename(r)
  <2>1. task[r].agent \in Requests /\ Name(r) \in Names
    BY <1>0, <1>13, TaskTyping DEF Placed, Rename
  <2>2. agent[task[r].agent] \in AgentRows  BY <1>0, <1>13, <2>1 DEF Placed, Rename, TypeOK
  <2>3. [agent[task[r].agent] EXCEPT !.name = Name(r)] \in AgentRows
    BY <2>1, <2>2 DEF AgentRows
  <2>4. agent' = agent \/ agent' = [agent EXCEPT ![task[r].agent] =
                                      [agent[task[r].agent] EXCEPT !.name = Name(r)]]
    BY <1>13 DEF Rename
  <2>5. agent' \in [Requests -> AgentRows \cup {None}]  BY <2>3, <2>4 DEF TypeOK
  <2> QED  BY <1>13, <2>5 DEF Rename, fixed, TypeOK
<1> QED
  BY <1>2, <1>3, <1>4, <1>5, <1>6, <1>7, <1>8, <1>9, <1>10, <1>11, <1>12, <1>13 DEF Step

LEMMA TypeStep ==
  ASSUME TypeOK, RequestsInv, [Next]_vars
  PROVE  TypeOK'
<1>1. ASSUME NEW r \in Requests, Step(r)  PROVE TypeOK'
  BY <1>1, StepMoving, StepResting, TypesByParts
<1>2. CASE Tick  BY <1>2 DEF Tick, TypeOK, accounts, answers, fixed
<1>3. CASE Restart
  <2>1. pc' \in [Requests -> PC]  BY <1>3 DEF Restart, TypeOK, PC
  <2>2. outcome' \in [Requests -> {"none", "ok", "refused", "failed", "lost"}]
    BY <1>3 DEF Restart, TypeOK
  <2> QED  BY <1>3, <2>1, <2>2 DEF Restart, TypeOK, accounts, fixed
<1>4. CASE UNCHANGED vars  BY <1>4 DEF vars, TypeOK, accounts, answers, fixed
<1> QED  BY <1>1, <1>2, <1>3, <1>4 DEF Next

-----------------------------------------------------------------------------
(* What a step of one request does, and what it leaves. *)

\* The statements that write a table; each is one action.
Writing == {"create", "mint", "revokeInvite", "claim", "rotate", "createAgent", "rename"}

LEMMA Writers ==
  ASSUME NEW r \in Requests, Step(r)
  PROVE  /\ pc[r] = "create" => CreateOwner(r)
         /\ pc[r] = "mint" => CreateInvite(r)
         /\ pc[r] = "revokeInvite" => RevokeInvite(r)
         /\ pc[r] = "claim" => Claim(r)
         /\ pc[r] = "rotate" => RotateKey(r)
         /\ pc[r] = "createAgent" => CreateAgent(r)
         /\ pc[r] = "rename" => Rename(r)
<1>1. ASSUME NEW op, Arrives(r, op)  PROVE pc[r] = "idle"  BY <1>1 DEF Arrives
<1>2. AdmitOperator(r) \/ AdmitSelf(r) \/ ArriveInvite(r) \/ ArriveRevoke(r) \/ ArriveWithKey(r)
        => pc[r] = "idle"
  BY <1>1 DEF AdmitOperator, AdmitSelf, ArriveInvite, ArriveRevoke, ArriveWithKey
<1>3. AssertUsable(r) \/ Lookup(r) \/ Begin(r) \/ ConsumeInvite(r) \/ FindInvite(r) \/ Auth(r)
        \/ Holder(r) \/ FindAgent(r) \/ OwnAgent(r) \/ CheckName(r)
        => pc[r] \in {"assert", "lookup", "begin", "consume", "findInvite", "auth", "holder",
                      "findAgent", "ownAgent", "checkName"}
  BY DEF AssertUsable, Lookup, Begin, ConsumeInvite, FindInvite, Auth, Holder, FindAgent,
     OwnAgent, CheckName
<1>4. /\ CreateOwner(r) => pc[r] = "create"
      /\ CreateInvite(r) => pc[r] = "mint"
      /\ RevokeInvite(r) => pc[r] = "revokeInvite"
      /\ Claim(r) => pc[r] = "claim"
      /\ RotateKey(r) => pc[r] = "rotate"
      /\ CreateAgent(r) => pc[r] = "createAgent"
      /\ Rename(r) => pc[r] = "rename"
  BY DEF CreateOwner, CreateInvite, RevokeInvite, Claim, RotateKey, CreateAgent, Rename
<1> QED  BY <1>2, <1>3, <1>4 DEF Step

LEMMA OnlyWritersWrite ==
  ASSUME NEW r \in Requests, Step(r), pc[r] \notin Writing
  PROVE  owner' = owner /\ agent' = agent /\ invite' = invite
<1>1. \A op : Arrives(r, op) => owner' = owner /\ agent' = agent /\ invite' = invite
  BY DEF Arrives, accounts
<1>2. CASE AdmitOperator(r) \/ AdmitSelf(r) \/ ArriveInvite(r) \/ ArriveRevoke(r)
           \/ ArriveWithKey(r)
  BY <1>1, <1>2 DEF AdmitOperator, AdmitSelf, ArriveInvite, ArriveRevoke, ArriveWithKey
<1>3. CASE AssertUsable(r) \/ Lookup(r) \/ Begin(r) \/ ConsumeInvite(r) \/ FindInvite(r)
           \/ Auth(r) \/ Holder(r) \/ FindAgent(r) \/ OwnAgent(r) \/ CheckName(r)
  BY <1>3 DEF AssertUsable, Lookup, Begin, ConsumeInvite, FindInvite, Auth, Holder, FindAgent,
     OwnAgent, CheckName, SameTables, accounts
<1>4. CASE CreateOwner(r) \/ CreateInvite(r) \/ RevokeInvite(r) \/ Claim(r) \/ RotateKey(r)
           \/ CreateAgent(r) \/ Rename(r)
  BY <1>4 DEF CreateOwner, CreateInvite, RevokeInvite, Claim, RotateKey, CreateAgent, Rename,
     Writing
<1> QED  BY <1>2, <1>3, <1>4 DEF Step

\* The other requests stay where they are, and a request that is answered is done.
Elsewhere(r) ==
  \A q \in Requests \ {r} :
    pc'[q] = pc[q] /\ outcome'[q] = outcome[q] /\ told'[q] = told[q]
AnsweredOnce(r) ==
  \/ pc'[r] # "done" /\ outcome'[r] = outcome[r] /\ told'[r] = told[r]
  \/ pc'[r] = "done" /\ outcome'[r] # "none"

LEMMA MovesOne ==
  ASSUME TypeOK, NEW r \in Requests
  PROVE  /\ \A where \in PC \ {"done"} : Goto(r, where) => Elsewhere(r) /\ AnsweredOnce(r)
         /\ \A how \in {"ok", "refused", "failed"} : \A row : Reply(r, how, row) =>
              Elsewhere(r) /\ AnsweredOnce(r)
<1>1. ASSUME NEW where \in PC \ {"done"}, Goto(r, where)
      PROVE  Elsewhere(r) /\ AnsweredOnce(r)
  BY <1>1 DEF Goto, answers, TypeOK, Elsewhere, AnsweredOnce
<1>2. ASSUME NEW how \in {"ok", "refused", "failed"}, NEW row, Reply(r, how, row)
      PROVE  Elsewhere(r) /\ AnsweredOnce(r)
  BY <1>2 DEF Reply, TypeOK, Elsewhere, AnsweredOnce
<1> QED  BY <1>1, <1>2

LEMMA StepAnswers ==
  ASSUME TypeOK, NEW r \in Requests, Step(r)
  PROVE  Elsewhere(r) /\ AnsweredOnce(r)
<1> DEFINE Fine == Elsewhere(r) /\ AnsweredOnce(r)
<1> SUFFICES Fine  OBVIOUS
<1>1. \A where : where \in PC /\ where # "done" /\ Goto(r, where) => Fine  BY MovesOne
<1>2. \A how, row : how \in {"ok", "refused", "failed"} /\ Reply(r, how, row) => Fine
  BY MovesOne
<1>3. Refuse(r) => Fine  BY <1>2 DEF Refuse
<1>4. Admitted(r) => Fine  BY <1>1 DEF Admitted, PC
<1> HIDE DEF Fine, Goto, Reply, Refuse, Admitted
<1>5. CASE AdmitOperator(r) \/ AdmitSelf(r)  BY <1>5, <1>3, <1>4 DEF AdmitOperator, AdmitSelf
<1>6. CASE AssertUsable(r) \/ Begin(r) \/ ConsumeInvite(r)
  BY <1>6, <1>1, <1>3 DEF AssertUsable, Begin, ConsumeInvite, PC
<1>7. CASE Lookup(r) \/ FindAgent(r)  BY <1>7, <1>1, <1>2 DEF Lookup, FindAgent, PC
<1>8. CASE CreateOwner(r) \/ CreateInvite(r) \/ RevokeInvite(r) \/ Claim(r) \/ RotateKey(r)
           \/ CreateAgent(r) \/ Rename(r)
  BY <1>8, <1>2
     DEF CreateOwner, CreateInvite, RevokeInvite, Claim, RotateKey, CreateAgent, Rename
<1>9. CASE ArriveInvite(r) \/ ArriveRevoke(r) \/ ArriveWithKey(r)
  BY <1>9, <1>1 DEF ArriveInvite, ArriveRevoke, ArriveWithKey, PC
<1>10. CASE FindInvite(r)  BY <1>10, <1>1, <1>2, <1>3 DEF FindInvite, PC
<1>11. CASE Auth(r)
  <2>1. First(Op(r)) \in PC \ {"done"}  BY DEF First, PC
  <2> QED  BY <1>11, <2>1, <1>1, <1>3 DEF Auth
<1>12. CASE Holder(r) \/ CheckName(r) \/ OwnAgent(r)
  BY <1>12, <1>1, <1>3 DEF Holder, CheckName, OwnAgent, PC
<1> QED
  BY <1>5, <1>6, <1>7, <1>8, <1>9, <1>10, <1>11, <1>12 DEF Step

\* What a request read of the clock and the keys, and what it is, only its own step changes.
LEMMA StepReads ==
  ASSUME TypeOK, NEW r \in Requests, Step(r)
  PROVE  /\ now' = now /\ policy' = policy /\ task' = task
         /\ \A q \in Requests \ {r} :
              /\ clock'[q] = clock[q] /\ who'[q] = who[q]
              /\ stale'[q] = stale[q] /\ earlier'[q] = earlier[q]
         /\ clock'[r] = clock[r] \/ clock'[r] = now
         /\ pc[r] # "done"
<1> DEFINE Fine == /\ now' = now /\ policy' = policy /\ task' = task
                   /\ \A q \in Requests \ {r} :
                        /\ clock'[q] = clock[q] /\ who'[q] = who[q]
                        /\ stale'[q] = stale[q] /\ earlier'[q] = earlier[q]
                   /\ clock'[r] = clock[r] \/ clock'[r] = now
                   /\ pc[r] # "done"
<1>1. ASSUME NEW op, Arrives(r, op)  PROVE Fine
  BY <1>1 DEF Arrives, ReadClock, accounts, TypeOK
<1>2. CASE AdmitOperator(r) \/ AdmitSelf(r) \/ ArriveInvite(r) \/ ArriveRevoke(r)
           \/ ArriveWithKey(r)
  BY <1>1, <1>2 DEF AdmitOperator, AdmitSelf, ArriveInvite, ArriveRevoke, ArriveWithKey
<1>3. CASE AssertUsable(r) \/ Lookup(r) \/ ConsumeInvite(r) \/ Holder(r) \/ FindAgent(r)
           \/ OwnAgent(r) \/ CheckName(r)
  BY <1>3 DEF AssertUsable, Lookup, ConsumeInvite, Holder, FindAgent, OwnAgent, CheckName,
     SameTables, accounts, fixed
<1>4. CASE Begin(r) \/ FindInvite(r)
  BY <1>4 DEF Begin, FindInvite, ReadClock, SameTables, accounts, fixed, TypeOK
<1>5. CASE Auth(r)  BY <1>5 DEF Auth, SameTables, accounts, fixed, TypeOK
<1>6. CASE CreateOwner(r) \/ CreateInvite(r) \/ RevokeInvite(r) \/ Claim(r) \/ RotateKey(r)
           \/ CreateAgent(r) \/ Rename(r)
  BY <1>6 DEF CreateOwner, CreateInvite, RevokeInvite, Claim, RotateKey, CreateAgent, Rename,
     fixed
<1> QED  BY <1>2, <1>3, <1>4, <1>5, <1>6 DEF Step

-----------------------------------------------------------------------------
(* What a step of one request does to the tables. *)

\* An owner stays, under its code; a rotation gives it a new key, a claim an e-mail.
OwnerStays(r, o) ==
  owner[o] # None =>
    /\ owner'[o] # None /\ owner'[o].invite = owner[o].invite
    /\ \/ owner'[o].key = owner[o].key
       \/ pc[r] = "rotate" /\ o = who[r] /\ owner'[o].key = r
            /\ outcome'[r] = "ok" /\ told'[r] = o
    /\ \/ owner'[o].email = owner[o].email
       \/ pc[r] = "claim" /\ o = who[r] /\ owner'[o].email = Email(r)
            /\ WithEmail(Email(r)) \subseteq {o} /\ outcome'[r] = "ok" /\ told'[r] = o

\* A new owner is the one that the request itself registers.
OwnerComes(r, o) ==
  owner[o] = None /\ owner'[o] # None =>
    /\ o = r /\ pc[r] = "create" /\ owner'[o] = OwnerOf(r) /\ WithEmail(Email(r)) = {}
    /\ outcome'[r] = "ok" /\ told'[r] = r
    /\ invite' = IF Code(r) = None THEN invite ELSE Spent(Code(r))

LEMMA Owners ==
  ASSUME TypeOK, RequestsInv, NEW r \in Requests, Step(r), NEW o \in Rows
  PROVE  OwnerStays(r, o) /\ OwnerComes(r, o)
<1> USE DEF OwnerStays, OwnerComes
<1>1. CASE owner' = owner  BY <1>1
<1>2. CASE pc[r] = "create"
  <2>1. CreateOwner(r)  BY <1>2, Writers
  <2>2. CASE owner' = [owner EXCEPT ![r] = OwnerOf(r)] /\ WithEmail(Email(r)) = {}
    <3>1. owner[r] = None
      BY <1>2 DEF RequestsInv, Made
    <3>2. o # r => owner'[o] = owner[o]  BY <2>2 DEF TypeOK
    <3>3. owner'[r] = OwnerOf(r)  BY <2>2 DEF TypeOK, Rows
    <3>4. outcome'[r] = "ok" /\ told'[r] = r
            /\ invite' = IF Code(r) = None THEN invite ELSE Spent(Code(r))
      <4>1. Reply(r, "ok", r)  BY <2>1, <2>2 DEF CreateOwner
      <4>2. invite' = IF Code(r) = None THEN invite ELSE Spent(Code(r))
        BY <2>1, <2>2 DEF CreateOwner
      <4> QED  BY <4>1, <4>2 DEF Reply, TypeOK
    <3> QED  BY <1>2, <2>2, <3>1, <3>2, <3>3, <3>4
  <2> QED  BY <1>1, <2>1, <2>2 DEF CreateOwner
<1>3. CASE pc[r] = "claim"
  <2>1. Claim(r)  BY <1>3, Writers
  <2>2. CASE WithEmail(Email(r)) \subseteq {who[r]}
    <3>1. Reply(r, "ok", who[r]) /\ owner' = [owner EXCEPT ![who[r]].email = Email(r)]
      BY <2>1, <2>2 DEF Claim
    <3>2. who[r] \in Rows /\ owner[who[r]] # None /\ owner[who[r]] \in OwnerRows
      BY <1>3 DEF RequestsInv, Placed, TypeOK
    <3>3. o # who[r] => owner'[o] = owner[o]  BY <3>1 DEF TypeOK
    <3>4. owner'[who[r]] = [owner[who[r]] EXCEPT !.email = Email(r)]
      BY <3>1, <3>2 DEF TypeOK
    <3>5. [owner[who[r]] EXCEPT !.email = Email(r)] \in OwnerRows
      <4>1. Email(r) \in Emails \cup {None}  BY TaskTyping
      <4> QED  BY <3>2, <4>1 DEF OwnerRows
    <3>6. owner'[who[r]] # None  BY <3>4, <3>5, AccountNamesAssumption
    <3>7. owner'[who[r]].invite = owner[who[r]].invite /\ owner'[who[r]].key = owner[who[r]].key
            /\ owner'[who[r]].email = Email(r)
      BY <3>2, <3>4 DEF OwnerRows
    <3>8. outcome'[r] = "ok" /\ told'[r] = who[r]  BY <3>1 DEF Reply, TypeOK
    <3>9. CASE o = who[r]  BY <3>9, <1>3, <2>2, <3>2, <3>6, <3>7, <3>8
    <3>10. CASE o # who[r]  BY <3>10, <3>3
    <3> QED  BY <3>9, <3>10
  <2> QED  BY <1>1, <2>1, <2>2 DEF Claim
<1>4. CASE pc[r] = "rotate"
  <2>1. RotateKey(r)  BY <1>4, Writers
  <2>2. Reply(r, "ok", who[r]) /\ owner' = [owner EXCEPT ![who[r]].key = r]
    BY <2>1 DEF RotateKey
  <2>3. who[r] \in Rows /\ owner[who[r]] # None /\ owner[who[r]] \in OwnerRows
    BY <1>4 DEF RequestsInv, Placed, TypeOK
  <2>4. o # who[r] => owner'[o] = owner[o]  BY <2>2 DEF TypeOK
  <2>5. owner'[who[r]] = [owner[who[r]] EXCEPT !.key = r]  BY <2>2, <2>3 DEF TypeOK
  <2>6. [owner[who[r]] EXCEPT !.key = r] \in OwnerRows  BY <2>3 DEF OwnerRows, Rows
  <2>7. owner'[who[r]] # None  BY <2>5, <2>6, AccountNamesAssumption
  <2>8. owner'[who[r]].invite = owner[who[r]].invite /\ owner'[who[r]].key = r
          /\ owner'[who[r]].email = owner[who[r]].email
    BY <2>3, <2>5 DEF OwnerRows
  <2>9. outcome'[r] = "ok" /\ told'[r] = who[r]  BY <2>2 DEF Reply, TypeOK
  <2>10. CASE o = who[r]  BY <2>10, <1>4, <2>3, <2>7, <2>8, <2>9
  <2>11. CASE o # who[r]  BY <2>11, <2>4
  <2> QED  BY <2>10, <2>11
<1>5. CASE pc[r] \notin {"create", "claim", "rotate"}
  <2>1. owner' = owner
    BY <1>5, Writers, OnlyWritersWrite
       DEF Writing, CreateInvite, RevokeInvite, CreateAgent, Rename
  <2> QED  BY <1>1, <2>1
<1> QED  BY <1>2, <1>3, <1>4, <1>5

\* An agent stays, with its owner; only a renaming changes its name.
AgentStays(r, a) ==
  agent[a] # None =>
    /\ agent'[a] # None /\ agent'[a].owner = agent[a].owner
    /\ \/ agent'[a] = agent[a]
       \/ /\ pc[r] = "rename" /\ a = task[r].agent
          /\ agent'[a] = [owner |-> who[r], name |-> Name(r)]
          /\ Called(who[r], Name(r)) \subseteq {a} /\ outcome'[r] = "ok" /\ told'[r] = a

\* A new agent is the one that the request itself registers.
AgentComes(r, a) ==
  agent[a] = None /\ agent'[a] # None =>
    /\ a = r /\ pc[r] = "createAgent" /\ agent'[a] = [owner |-> who[r], name |-> Name(r)]
    /\ Called(who[r], Name(r)) = {} /\ outcome'[r] = "ok" /\ told'[r] = r

LEMMA Agents ==
  ASSUME TypeOK, RequestsInv, NEW r \in Requests, Step(r), NEW a \in Requests
  PROVE  AgentStays(r, a) /\ AgentComes(r, a)
<1> USE DEF AgentStays, AgentComes
<1>1. CASE agent' = agent  BY <1>1
<1>2. CASE pc[r] = "createAgent"
  <2>1. CreateAgent(r)  BY <1>2, Writers
  <2>2. CASE Called(who[r], Name(r)) = {}
    <3>1. Reply(r, "ok", r) /\ agent' = [agent EXCEPT ![r] = [owner |-> who[r], name |-> Name(r)]]
      BY <2>1, <2>2 DEF CreateAgent
    <3>2. agent[r] = None  BY <1>2 DEF RequestsInv, Made
    <3>3. a # r => agent'[a] = agent[a]  BY <3>1 DEF TypeOK
    <3>4. agent'[r] = [owner |-> who[r], name |-> Name(r)]  BY <3>1 DEF TypeOK
    <3>5. outcome'[r] = "ok" /\ told'[r] = r  BY <3>1 DEF Reply, TypeOK
    <3> QED  BY <1>2, <2>2, <3>2, <3>3, <3>4, <3>5
  <2> QED  BY <1>1, <2>1, <2>2 DEF CreateAgent
<1>3. CASE pc[r] = "rename"
  <2>1. Rename(r)  BY <1>3, Writers
  <2>2. CASE Called(who[r], Name(r)) \subseteq {task[r].agent}
    <3>1. /\ Reply(r, "ok", task[r].agent)
          /\ agent' = [agent EXCEPT ![task[r].agent].name = Name(r)]
      BY <2>1, <2>2 DEF Rename
    <3>2. Placed(r)  BY DEF RequestsInv
    <3>3. task[r].agent \in Requests /\ Name(r) \in Names
      BY <1>3, <3>2, TaskTyping DEF Placed
    <3>4. /\ agent[task[r].agent] \in AgentRows /\ agent[task[r].agent] # None
          /\ agent[task[r].agent].owner = who[r]
      BY <1>3, <3>2, <3>3 DEF Placed, TypeOK
    <3>5. a # task[r].agent => agent'[a] = agent[a]  BY <3>1 DEF TypeOK
    <3>6. agent'[task[r].agent] = [agent[task[r].agent] EXCEPT !.name = Name(r)]
      BY <3>1, <3>3 DEF TypeOK
    <3>7. [agent[task[r].agent] EXCEPT !.name = Name(r)] = [owner |-> who[r], name |-> Name(r)]
      BY <3>4 DEF AgentRows
    <3>8. [owner |-> who[r], name |-> Name(r)] \in AgentRows
      <4>1. who[r] \in Rows  BY <3>4 DEF AgentRows
      <4> QED  BY <3>3, <4>1 DEF AgentRows
    <3>9. agent'[task[r].agent] # None  BY <3>6, <3>7, <3>8, AccountNamesAssumption
    <3>10. outcome'[r] = "ok" /\ told'[r] = task[r].agent  BY <3>1 DEF Reply, TypeOK
    <3>11. CASE a = task[r].agent
      BY <3>11, <1>3, <2>2, <3>4, <3>6, <3>7, <3>9, <3>10
    <3>12. CASE a # task[r].agent  BY <3>12, <3>5
    <3> QED  BY <3>11, <3>12
  <2> QED  BY <1>1, <2>1, <2>2 DEF Rename
<1>4. CASE pc[r] \notin {"createAgent", "rename"}
  <2>1. agent' = agent
    BY <1>4, Writers, OnlyWritersWrite
       DEF Writing, CreateInvite, RevokeInvite, CreateOwner, Claim, RotateKey
  <2> QED  BY <1>1, <2>1
<1> QED  BY <1>2, <1>3, <1>4

\* The request registers an owner.
Created(r) == owner[r] = None /\ owner'[r] # None

\* A code stays, with its expiry; a use is spent with the owner it admits, and
\* nobody revokes it while a transaction has it locked.
InviteStays(r, c) ==
  invite[c] # None =>
    /\ invite'[c] # None /\ invite'[c].expires = invite[c].expires
    /\ \/ invite'[c].revoked = invite[c].revoked
       \/ pc[r] = "revokeInvite" /\ c = Code(r) /\ ~Locked(c)
    /\ \/ invite'[c].uses = invite[c].uses /\ ~(Created(r) /\ c = Code(r))
       \/ invite'[c].uses = invite[c].uses + 1 /\ Created(r) /\ c = Code(r)

\* A new code has not been used.
InviteComes(r, c) ==
  invite[c] = None =>
    /\ ~(Created(r) /\ c = Code(r))
    /\ invite'[c] # None => invite'[c].uses = 0 /\ invite'[c].revoked = None

LEMMA Creating ==
  ASSUME TypeOK, RequestsInv, NEW r \in Requests, Step(r), Created(r)
  PROVE  /\ pc[r] = "create" /\ owner'[r] = OwnerOf(r)
         /\ invite' = IF Code(r) = None THEN invite ELSE Spent(Code(r))
BY Owners DEF OwnerComes, Created, Rows

LEMMA Invites ==
  ASSUME TypeOK, RequestsInv, NEW r \in Requests, Step(r), NEW c \in Codes
  PROVE  InviteStays(r, c) /\ InviteComes(r, c)
<1> USE DEF InviteStays, InviteComes
<1>1. CASE invite' = invite /\ ~Created(r)  BY <1>1
<1>2. CASE Created(r)
  <2>1. pc[r] = "create" /\ invite' = IF Code(r) = None THEN invite ELSE Spent(Code(r))
    BY <1>2, Creating
  <2>2. Spending(r)  BY DEF RequestsInv
  <2>3. CASE c # Code(r)
    <3>1. invite'[c] = invite[c]  BY <2>1, <2>3 DEF Spent, TypeOK
    <3> QED  BY <2>3, <3>1
  <2>4. CASE c = Code(r)
    <3>1. c # None  BY AccountNamesAssumption
    <3>2. invite[c] # None /\ invite[c] \in InviteRows
      BY <2>1, <2>2, <2>4, <3>1 DEF Spending, TypeOK
    <3>3. invite'[c] = [invite[c] EXCEPT !.uses = @ + 1]
      BY <2>1, <2>4, <3>1 DEF Spent, TypeOK
    <3>4. [invite[c] EXCEPT !.uses = @ + 1] \in InviteRows  BY <3>2 DEF InviteRows
    <3>5. invite'[c] # None  BY <3>3, <3>4, AccountNamesAssumption
    <3>6. invite'[c].uses = invite[c].uses + 1 /\ invite'[c].expires = invite[c].expires
            /\ invite'[c].revoked = invite[c].revoked
      BY <3>2, <3>3 DEF InviteRows
    <3> QED  BY <1>2, <2>4, <3>2, <3>5, <3>6
  <2> QED  BY <2>3, <2>4
<1>3. CASE pc[r] = "create" /\ ~Created(r)
  <2>1. CreateOwner(r)  BY <1>3, Writers
  <2>2. owner[r] = None  BY <1>3 DEF RequestsInv, Made
  <2>3. owner' # [owner EXCEPT ![r] = OwnerOf(r)]
    <3>1. SUFFICES ASSUME owner' = [owner EXCEPT ![r] = OwnerOf(r)]  PROVE FALSE
      OBVIOUS
    <3>2. owner'[r] = OwnerOf(r)  BY <3>1 DEF TypeOK, Rows
    <3>3. OwnerOf(r) \in OwnerRows  BY TaskTyping DEF OwnerOf, OwnerRows, Rows
    <3> QED  BY <1>3, <2>2, <3>2, <3>3, AccountNamesAssumption DEF Created
  <2> QED  BY <1>1, <1>3, <2>1, <2>3 DEF CreateOwner
<1>4. CASE pc[r] = "mint"
  <2>1. CreateInvite(r)  BY <1>4, Writers
  <2>2. ~Created(r)  BY <2>1 DEF CreateInvite, Created
  <2>3. invite[Code(r)] = None  BY <2>1 DEF CreateInvite
  <2>4. CASE c # Code(r)
    <3>1. invite'[c] = invite[c]  BY <2>1, <2>4 DEF CreateInvite, TypeOK
    <3> QED  BY <2>2, <3>1
  <2>5. CASE c = Code(r)
    <3>1. invite'[c] = [uses |-> 0, expires |-> clock[r] + Life[c], revoked |-> None]
      BY <2>1, <2>5 DEF CreateInvite, TypeOK
    <3> QED  BY <2>2, <2>3, <2>5, <3>1
  <2> QED  BY <2>4, <2>5
<1>5. CASE pc[r] = "revokeInvite"
  <2>1. RevokeInvite(r)  BY <1>5, Writers
  <2>2. ~Created(r)  BY <2>1 DEF RevokeInvite, Created
  <2>3. CASE c # Code(r)
    <3>1. invite'[c] = invite[c]  BY <2>1, <2>3 DEF RevokeInvite, TypeOK
    <3> QED  BY <2>2, <3>1
  <2>4. CASE c = Code(r)
    <3>1. invite[c] # None /\ invite[c] \in InviteRows
      BY <1>5, <2>4 DEF RequestsInv, Placed, TypeOK
    <3>2. invite' = [invite EXCEPT ![c] = [invite[c] EXCEPT !.revoked = clock[r]]]
      BY <2>1, <2>4 DEF RevokeInvite
    <3>3. invite'[c] = [invite[c] EXCEPT !.revoked = clock[r]]  BY <3>2 DEF TypeOK
    <3>4. [invite[c] EXCEPT !.revoked = clock[r]] \in InviteRows
      BY <3>1 DEF InviteRows, TypeOK
    <3>5. invite'[c] # None  BY <3>3, <3>4, AccountNamesAssumption
    <3>6. invite'[c].uses = invite[c].uses /\ invite'[c].expires = invite[c].expires
      BY <3>1, <3>3 DEF InviteRows
    <3>7. ~Locked(c)  BY <2>1, <2>4 DEF RevokeInvite
    <3> QED  BY <1>5, <2>2, <2>4, <3>1, <3>5, <3>6, <3>7
  <2> QED  BY <2>3, <2>4
<1>6. CASE pc[r] \notin {"create", "mint", "revokeInvite"} /\ ~Created(r)
  <2>1. invite' = invite
    BY <1>6, Writers, OnlyWritersWrite
       DEF Writing, Claim, RotateKey, CreateAgent, Rename
  <2> QED  BY <1>1, <1>6, <2>1
<1> QED  BY <1>2, <1>3, <1>4, <1>5, <1>6

-----------------------------------------------------------------------------
(* Answers, and the steps that are no request's. *)

\* What a registration that succeeds is told of.
LEMMA Registering ==
  ASSUME TypeOK, RequestsInv, NEW r \in Requests, Step(r), outcome'[r] = "ok",
         pc[r] # "done"
  PROVE  /\ who'[r] = who[r]
         /\ Op(r) = "register" =>
              \/ told'[r] \in WithEmail(Email(r)) /\ owner' = owner
              \/ told'[r] = r /\ owner'[r] = OwnerOf(r)
         /\ Op(r) = "agent" =>
              \/ told'[r] \in Called(who[r], Name(r)) /\ agent' = agent
              \/ /\ pc[r] = "createAgent" /\ told'[r] = r
                 /\ agent'[r] = [owner |-> who[r], name |-> Name(r)]
         /\ stale[r] /\ Op(r) \in ByKey => pc[r] # "auth"
<1> DEFINE Fine ==
      /\ who'[r] = who[r]
      /\ Op(r) = "register" =>
           \/ told'[r] \in WithEmail(Email(r)) /\ owner' = owner
           \/ told'[r] = r /\ owner'[r] = OwnerOf(r)
      /\ Op(r) = "agent" =>
           \/ told'[r] \in Called(who[r], Name(r)) /\ agent' = agent
           \/ /\ pc[r] = "createAgent" /\ told'[r] = r
              /\ agent'[r] = [owner |-> who[r], name |-> Name(r)]
      /\ stale[r] /\ Op(r) \in ByKey => pc[r] # "auth"
<1>1. outcome[r] = "none" /\ Placed(r)  BY DEF RequestsInv, Made
<1>2. \A where : ~Goto(r, where)  BY <1>1 DEF Goto, answers
<1>3. \A how, row : Reply(r, how, row) => how = "ok" /\ told'[r] = row
  BY DEF Reply, TypeOK
<1>4. ~Refuse(r)  BY <1>3 DEF Refuse
<1>5. ~Admitted(r)  BY <1>2 DEF Admitted
<1>6. pc[r] \in {"claim", "rotate", "rename", "mint", "findInvite", "revokeInvite"}
        => Op(r) \notin {"register", "agent"}
  BY <1>1 DEF Placed
<1> HIDE DEF Goto, Reply, Refuse, Admitted
<1>7. CASE Lookup(r)
  <2>1. PICK o \in WithEmail(Email(r)) : Reply(r, "ok", o)  BY <1>7, <1>2 DEF Lookup
  <2>2. Op(r) = "register"  BY <1>1, <1>7 DEF Placed, Lookup
  <2>3. who' = who /\ owner' = owner /\ pc[r] = "lookup"
    BY <1>7 DEF Lookup, SameTables, accounts
  <2> QED  BY <1>3, <2>1, <2>2, <2>3
<1>8. CASE CreateOwner(r)
  <2>1. Reply(r, "ok", r) /\ owner' = [owner EXCEPT ![r] = OwnerOf(r)]
    BY <1>8, <1>3 DEF CreateOwner
  <2>2. owner'[r] = OwnerOf(r)  BY <2>1 DEF TypeOK, Rows
  <2>3. Op(r) = "register"  BY <1>1, <1>8 DEF Placed, CreateOwner
  <2>4. who' = who /\ pc[r] = "create"  BY <1>8 DEF CreateOwner
  <2> QED  BY <1>3, <2>1, <2>2, <2>3, <2>4
<1>9. CASE FindAgent(r)
  <2>1. PICK a \in Called(who[r], Name(r)) : Reply(r, "ok", a)  BY <1>9, <1>2 DEF FindAgent
  <2>2. Op(r) = "agent"  BY <1>1, <1>9 DEF Placed, FindAgent
  <2>3. who' = who /\ agent' = agent /\ pc[r] = "findAgent"
    BY <1>9 DEF FindAgent, SameTables, accounts
  <2> QED  BY <1>3, <2>1, <2>2, <2>3
<1>10. CASE CreateAgent(r)
  <2>1. Reply(r, "ok", r) /\ agent' = [agent EXCEPT ![r] = [owner |-> who[r], name |-> Name(r)]]
    BY <1>10, <1>3 DEF CreateAgent
  <2>2. agent'[r] = [owner |-> who[r], name |-> Name(r)]  BY <2>1 DEF TypeOK
  <2>3. Op(r) = "agent"  BY <1>1, <1>10 DEF Placed, CreateAgent
  <2>4. who' = who /\ pc[r] = "createAgent"  BY <1>10 DEF CreateAgent
  <2> QED  BY <1>3, <2>1, <2>2, <2>3, <2>4
<1>11. CASE Claim(r) \/ RotateKey(r) \/ Rename(r) \/ CreateInvite(r) \/ RevokeInvite(r)
            \/ FindInvite(r)
  <2>1. /\ pc[r] \in {"claim", "rotate", "rename", "mint", "findInvite", "revokeInvite"}
        /\ who' = who
    BY <1>11 DEF Claim, RotateKey, Rename, CreateInvite, RevokeInvite, FindInvite
  <2> QED  BY <1>6, <2>1
<1>12. ~(AdmitOperator(r) \/ AdmitSelf(r) \/ AssertUsable(r) \/ Begin(r) \/ ConsumeInvite(r)
         \/ ArriveInvite(r) \/ ArriveRevoke(r) \/ ArriveWithKey(r) \/ Auth(r) \/ Holder(r)
         \/ OwnAgent(r) \/ CheckName(r))
  BY <1>2, <1>4, <1>5 DEF AdmitOperator, AdmitSelf, AssertUsable, Begin, ConsumeInvite,
     ArriveInvite, ArriveRevoke, ArriveWithKey, Auth, Holder, OwnAgent, CheckName
<1> QED  BY <1>7, <1>8, <1>9, <1>10, <1>11, <1>12 DEF Step

\* Time passes, or the process restarts: tables stay, and requests in flight are lost.
Aside ==
  /\ owner' = owner /\ agent' = agent /\ invite' = invite
  /\ clock' = clock /\ who' = who /\ told' = told /\ stale' = stale /\ earlier' = earlier
  /\ task' = task /\ now' \in Nat /\ now <= now'
  /\ \A q \in Requests :
       \/ pc'[q] = pc[q] /\ outcome'[q] = outcome[q]
       \/ pc[q] # "done" /\ pc'[q] = "done" /\ outcome'[q] = "lost"

LEMMA AsideSteps ==
  ASSUME TypeOK, Tick \/ Restart \/ UNCHANGED vars
  PROVE  Aside
<1>1. CASE Tick  BY <1>1 DEF Tick, Aside, TypeOK, accounts, answers, fixed
<1>2. CASE Restart
  <2>1. \A q \in Requests :
          \/ pc'[q] = pc[q] /\ outcome'[q] = outcome[q]
          \/ pc[q] # "done" /\ pc'[q] = "done" /\ outcome'[q] = "lost"
    BY <1>2 DEF Restart, TypeOK
  <2> QED  BY <1>2, <2>1 DEF Restart, Aside, TypeOK, accounts, fixed
<1>3. CASE UNCHANGED vars  BY <1>3 DEF vars, Aside, TypeOK, accounts, answers, fixed
<1> QED  BY <1>1, <1>2, <1>3

LEMMA Steps ==
  ASSUME TypeOK, [Next]_vars
  PROVE  Aside \/ \E r \in Requests : Step(r)
BY AsideSteps DEF Next

\* A success is never taken back.
LEMMA SuccessStays ==
  ASSUME TypeOK, RequestsInv, [Next]_vars
  PROVE  /\ task' = task
         /\ \A q \in Requests : outcome[q] = "ok" => outcome'[q] = "ok" /\ told'[q] = told[q]
<1>1. \A q \in Requests : outcome[q] # "none" => pc[q] = "done"  BY DEF RequestsInv, Made
<1>2. CASE Aside  BY <1>1, <1>2 DEF Aside
<1>3. ASSUME NEW r \in Requests, Step(r)
      PROVE  /\ task' = task
             /\ \A q \in Requests : outcome[q] = "ok" => outcome'[q] = "ok" /\ told'[q] = told[q]
  <2>1. task' = task /\ pc[r] # "done"  BY <1>3, StepReads
  <2>2. Elsewhere(r)  BY <1>3, StepAnswers
  <2> QED  BY <1>1, <2>1, <2>2 DEF Elsewhere
<1> QED  BY <1>2, <1>3, Steps

LEMMA IssuedStays ==
  ASSUME TypeOK, RequestsInv, [Next]_vars, NEW k \in Rows, Issued(k)
  PROVE  Issued(k)'
BY SuccessStays DEF Issued, Op

LEMMA MovedStays ==
  ASSUME TypeOK, RequestsInv, [Next]_vars, NEW o, NEW op, Moved(o, op)
  PROVE  Moved(o, op)'
BY SuccessStays DEF Moved, Op

-----------------------------------------------------------------------------
(* Each part of the invariant is kept. *)

LEMMA PlacedElsewhere ==
  ASSUME TypeOK, RequestsInv, NEW r \in Requests, Step(r), NEW q \in Requests \ {r}
  PROVE  Placed(q)'
<1>1. Placed(q)  BY DEF RequestsInv
<1>2. pc'[q] = pc[q] /\ task' = task /\ who'[q] = who[q]
  BY StepAnswers, StepReads DEF Elsewhere
<1>3. who[q] # None /\ owner[who[q]] # None => owner'[who[q]] # None
  <2>1. who[q] \in Rows \cup {None}  BY DEF TypeOK
  <2> QED  BY <2>1, Owners DEF OwnerStays
<1>4. Op(q) = "rename" /\ agent[task[q].agent] # None =>
        /\ agent'[task[q].agent] # None
        /\ agent'[task[q].agent].owner = agent[task[q].agent].owner
  <2>1. Op(q) = "rename" => task[q].agent \in Requests  BY TaskTyping
  <2> QED  BY <2>1, Agents DEF AgentStays
<1>5. Code(q) \in Codes /\ invite[Code(q)] # None => invite'[Code(q)] # None
  BY Invites DEF InviteStays
<1>6. pc[q] = "revokeInvite" => Code(q) \in Codes  BY <1>1, TaskTyping DEF Placed
<1> QED  BY <1>1, <1>2, <1>3, <1>4, <1>5, <1>6 DEF Placed, Op, Code

LEMMA PlacedOwn ==
  ASSUME TypeOK, RequestsInv, NEW r \in Requests, Step(r)
  PROVE  Placed(r)'
<1>1. Placed(r)  BY DEF RequestsInv
<1>2. task' = task  BY StepReads
<1>3. \A where \in PC : Goto(r, where) => pc'[r] = where  BY DEF Goto, TypeOK
<1>4. \A how, row : Reply(r, how, row) => pc'[r] = "done"  BY DEF Reply, TypeOK
<1>5. Refuse(r) => pc'[r] = "done"  BY <1>4 DEF Refuse
<1>6. pc'[r] = "done" => Placed(r)'  BY DEF Placed
<1>7. Admitted(r) => \/ pc'[r] = "lookup"
                     \/ pc'[r] = "assert" /\ Code(r) # None
  BY <1>3 DEF Admitted, PC
<1>8. pc'[r] \in {"idle", "lookup", "begin"} /\ Op(r) = "register" => Placed(r)'
  BY <1>2 DEF Placed, Op
<1>9. pc'[r] \in {"assert", "consume"} /\ Op(r) = "register" /\ Code(r) # None => Placed(r)'
  BY <1>2 DEF Placed, Op, Code
<1>10. pc'[r] = "create" /\ Op(r) = "register" => Placed(r)'
  BY <1>2 DEF Placed, Op
<1> HIDE DEF Goto, Reply, Refuse, Admitted
<1>11. CASE AdmitOperator(r) \/ AdmitSelf(r)
  <2>1. Op(r) = "register"  BY <1>11 DEF AdmitOperator, AdmitSelf, Arrives
  <2> QED  BY <1>11, <2>1, <1>5, <1>6, <1>7, <1>8, <1>9 DEF AdmitOperator, AdmitSelf
<1>12. CASE AssertUsable(r) \/ Lookup(r)
  <2>1. Op(r) = "register"  BY <1>1, <1>12 DEF Placed, AssertUsable, Lookup
  <2> QED  BY <1>12, <2>1, <1>3, <1>4, <1>5, <1>6, <1>8 DEF AssertUsable, Lookup, PC
<1>13. CASE Begin(r) \/ ConsumeInvite(r)
  <2>1. Op(r) = "register"  BY <1>1, <1>13 DEF Placed, Begin, ConsumeInvite
  <2> QED  BY <1>13, <2>1, <1>3, <1>5, <1>6, <1>9, <1>10 DEF Begin, ConsumeInvite, PC
<1>14. CASE CreateOwner(r) \/ CreateInvite(r) \/ RevokeInvite(r) \/ Claim(r) \/ RotateKey(r)
            \/ CreateAgent(r) \/ Rename(r)
  BY <1>14, <1>4, <1>6
     DEF CreateOwner, CreateInvite, RevokeInvite, Claim, RotateKey, CreateAgent, Rename
<1>15. CASE ArriveInvite(r) \/ ArriveRevoke(r) \/ ArriveWithKey(r)
  <2>1. \/ pc'[r] = "mint" /\ Op(r) = "invite"
        \/ pc'[r] = "findInvite" /\ Op(r) = "revoke"
        \/ pc'[r] = "auth" /\ Op(r) \in ByKey
    BY <1>15, <1>3 DEF ArriveInvite, ArriveRevoke, ArriveWithKey, Arrives, PC
  <2> QED  BY <2>1, <1>2 DEF Placed, Op
<1>16. CASE FindInvite(r)
  <2>1. pc'[r] = "done" \/ (pc'[r] = "revokeInvite" /\ invite[Code(r)] # None)
    BY <1>16, <1>3, <1>4, <1>5 DEF FindInvite, PC
  <2>2. Op(r) = "revoke" /\ invite' = invite
    BY <1>1, <1>16 DEF Placed, FindInvite, SameTables, accounts
  <2> QED  BY <2>1, <2>2, <1>2, <1>6 DEF Placed, Op, Code
<1>17. CASE Auth(r)
  <2>1. Op(r) \in ByKey /\ owner' = owner
    BY <1>1, <1>17 DEF Placed, Auth, SameTables, accounts
  <2>2. CASE Refuse(r)  BY <2>2, <1>5, <1>6
  <2>3. ASSUME NEW o \in HeldBy(task[r].key),
               who' = [who EXCEPT ![r] = o], Goto(r, First(Op(r)))
        PROVE  Placed(r)'
    <3>1. who'[r] = o /\ o # None /\ owner[o] # None
      BY <2>3, AccountNamesAssumption DEF HeldBy, TypeOK
    <3>2. pc'[r] = First(Op(r))  BY <2>3, <1>3 DEF First, PC
    <3>3. \/ pc'[r] = "holder" /\ Op(r) = "claim"
          \/ pc'[r] = "rotate" /\ Op(r) = "rotate"
          \/ pc'[r] = "findAgent" /\ Op(r) = "agent"
          \/ pc'[r] = "ownAgent" /\ Op(r) = "rename"
      BY <2>1, <3>2 DEF First, ByKey
    <3> QED  BY <2>1, <3>1, <3>3, <1>2 DEF Placed, Op
  <2> QED  BY <1>17, <2>2, <2>3 DEF Auth
<1>18. CASE Holder(r) \/ FindAgent(r)
  <2>1. /\ who' = who /\ owner' = owner /\ who[r] # None /\ owner[who[r]] # None
        /\ pc[r] = "holder" => Op(r) = "claim"
        /\ pc[r] = "findAgent" => Op(r) = "agent"
    BY <1>1, <1>18 DEF Placed, Holder, FindAgent, SameTables, accounts
  <2>2. \/ pc'[r] = "done"
        \/ pc[r] = "holder" /\ pc'[r] = "claim"
        \/ pc[r] = "findAgent" /\ pc'[r] = "createAgent"
    BY <1>18, <1>3, <1>4, <1>5 DEF Holder, FindAgent, PC
  <2> QED  BY <2>1, <2>2, <1>2, <1>6 DEF Placed, Op
<1>19. CASE OwnAgent(r) \/ CheckName(r)
  <2>1. /\ who' = who /\ owner' = owner /\ agent' = agent
        /\ who[r] # None /\ owner[who[r]] # None /\ Op(r) = "rename"
    BY <1>1, <1>19 DEF Placed, OwnAgent, CheckName, SameTables, accounts
  <2>2. \/ pc'[r] = "done"
        \/ /\ pc'[r] \in {"checkName", "rename"}
           /\ agent[task[r].agent] # None /\ agent[task[r].agent].owner = who[r]
    BY <1>19, <1>1, <1>3, <1>5 DEF OwnAgent, CheckName, PC, Placed
  <2> QED  BY <2>1, <2>2, <1>2, <1>6 DEF Placed, Op
<1> QED
  BY <1>11, <1>12, <1>13, <1>14, <1>15, <1>16, <1>17, <1>18, <1>19 DEF Step

LEMMA PlacedAside ==
  ASSUME RequestsInv, Aside, NEW q \in Requests
  PROVE  Placed(q)'
<1>1. Placed(q)  BY DEF RequestsInv
<1>2. pc'[q] = pc[q] \/ pc'[q] = "done"  BY DEF Aside
<1>3. owner' = owner /\ agent' = agent /\ invite' = invite /\ who' = who /\ task' = task
  BY DEF Aside
<1> QED  BY <1>1, <1>2, <1>3 DEF Placed, Op, Code

LEMMA MadeStep ==
  ASSUME TypeOK, RequestsInv, NEW r \in Requests, Step(r), NEW q \in Requests
  PROVE  Made(q)'
<1>1. Made(q) /\ Made(r) /\ Placed(r)  BY DEF RequestsInv
<1>2. task' = task /\ pc[r] # "done"  BY StepReads
<1>3. q \in Rows /\ r \in Rows  BY DEF Rows
<1>4. OwnerStays(r, q) /\ OwnerComes(r, q)  BY <1>3, Owners
<1>5. AgentStays(r, q) /\ AgentComes(r, q)  BY Agents
<1>6. CASE q # r
  <2>1. pc'[q] = pc[q] /\ outcome'[q] = outcome[q] /\ told'[q] = told[q]
    BY <1>6, StepAnswers DEF Elsewhere
  <2>2. owner'[q] # None => owner[q] # None /\ owner'[q].invite = owner[q].invite
    BY <1>4, <1>6 DEF OwnerStays, OwnerComes
  <2>3. agent'[q] # None => agent[q] # None  BY <1>5, <1>6 DEF AgentComes
  <2> QED  BY <1>1, <1>2, <2>1, <2>2, <2>3 DEF Made, Op, Code
<1>7. CASE q = r
  <2>1. outcome[r] = "none" /\ owner[r] = None /\ agent[r] = None
    BY <1>1, <1>2 DEF Made
  <2>2. pc'[r] = "done" <=> outcome'[r] # "none"  BY <2>1, StepAnswers DEF AnsweredOnce
  <2>3. owner'[r] # None =>
          Op(r) = "register" /\ outcome'[r] = "ok" /\ told'[r] = r /\ owner'[r].invite = Code(r)
    BY <1>1, <1>4, <1>7, <2>1 DEF OwnerComes, OwnerOf, Placed
  <2>4. agent'[r] # None => Op(r) = "agent" /\ outcome'[r] = "ok" /\ told'[r] = r
    BY <1>1, <1>5, <1>7, <2>1 DEF AgentComes, Placed
  <2> QED  BY <1>2, <1>7, <2>2, <2>3, <2>4 DEF Made, Op, Code
<1> QED  BY <1>6, <1>7

LEMMA MadeAside ==
  ASSUME RequestsInv, Aside, NEW q \in Requests
  PROVE  Made(q)'
<1>1. Made(q)  BY DEF RequestsInv
<1>2. \/ pc'[q] = pc[q] /\ outcome'[q] = outcome[q]
      \/ pc[q] # "done" /\ pc'[q] = "done" /\ outcome'[q] = "lost"
  BY DEF Aside
<1>3. owner' = owner /\ agent' = agent /\ told' = told /\ task' = task  BY DEF Aside
<1> QED  BY <1>1, <1>2, <1>3 DEF Made, Op, Code

\* The owner a success named keeps its e-mail, unless a claim changes it.
LEMMA ToldOwnerStays ==
  ASSUME TypeOK, RequestsInv, NEW r \in Requests, Step(r), NEW o \in Rows, owner[o] # None,
         NEW e, owner[o].email # e => Moved(o, "claim")
  PROVE  owner'[o] # None /\ (owner'[o].email # e => Moved(o, "claim")')
<1>1. OwnerStays(r, o)  BY Owners
<1>2. Moved(o, "claim") => Moved(o, "claim")'  BY MovedStays DEF Next
<1>3. CASE owner'[o].email = owner[o].email  BY <1>1, <1>2, <1>3 DEF OwnerStays
<1>4. CASE pc[r] = "claim" /\ outcome'[r] = "ok" /\ told'[r] = o
  <2>1. Op(r) = "claim" /\ task' = task
    BY <1>4, StepReads DEF RequestsInv, Placed
  <2>2. Moved(o, "claim")'  BY <1>4, <2>1 DEF Moved, Op
  <2> QED  BY <1>1, <2>2 DEF OwnerStays
<1> QED  BY <1>1, <1>3, <1>4 DEF OwnerStays

LEMMA ToldAgentStays ==
  ASSUME TypeOK, RequestsInv, NEW r \in Requests, Step(r), NEW a \in Requests, agent[a] # None,
         NEW n, agent[a].name # n => Moved(a, "rename")
  PROVE  /\ agent'[a] # None /\ agent'[a].owner = agent[a].owner
         /\ agent'[a].name # n => Moved(a, "rename")'
<1>1. AgentStays(r, a)  BY Agents
<1>2. Moved(a, "rename") => Moved(a, "rename")'  BY MovedStays DEF Next
<1>3. CASE agent'[a] = agent[a]  BY <1>1, <1>2, <1>3 DEF AgentStays
<1>4. CASE pc[r] = "rename" /\ outcome'[r] = "ok" /\ told'[r] = a
  <2>1. Op(r) = "rename" /\ task' = task
    BY <1>4, StepReads DEF RequestsInv, Placed
  <2>2. Moved(a, "rename")'  BY <1>4, <2>1 DEF Moved, Op
  <2> QED  BY <1>1, <2>2 DEF AgentStays
<1> QED  BY <1>1, <1>3, <1>4 DEF AgentStays

LEMMA ToldElsewhere ==
  ASSUME TypeOK, RequestsInv, NEW r \in Requests, Step(r), NEW q \in Requests \ {r}
  PROVE  Told(q)'
<1>1. Told(q)  BY DEF RequestsInv
<1>2. outcome'[q] = outcome[q] /\ told'[q] = told[q] /\ who'[q] = who[q] /\ task' = task
  BY StepAnswers, StepReads DEF Elsewhere
<1>3. ASSUME outcome[q] = "ok", Op(q) = "register"
      PROVE  /\ told'[q] # None /\ owner'[told'[q]] # None
             /\ Email(q) # None /\ owner'[told'[q]].email # Email(q)
                  => Moved(told[q], "claim")'
  <2>1. PICK o \in Rows : o = told[q]  BY <1>1, <1>3 DEF Told, TypeOK
  <2>2. PICK e : e = Email(q)  OBVIOUS
  <2>3. owner[o] # None /\ o # None  BY <1>1, <1>3, <2>1 DEF Told
  <2>4. CASE e = None
    BY <1>2, <2>1, <2>2, <2>3, <2>4, Owners DEF OwnerStays
  <2>5. CASE e # None
    <3>1. owner[o].email # e => Moved(o, "claim")  BY <1>1, <1>3, <2>1, <2>2, <2>5 DEF Told
    <3>2. owner'[o] # None /\ (owner'[o].email # e => Moved(o, "claim")')
      BY <2>3, <3>1, ToldOwnerStays
    <3>3. Moved(o, "claim")' => Moved(told[q], "claim")'  BY <1>2, <2>1 DEF Moved
    <3> QED  BY <1>2, <2>1, <2>2, <2>3, <3>2, <3>3
  <2> QED  BY <2>4, <2>5
<1>4. ASSUME outcome[q] = "ok", Op(q) = "agent"
      PROVE  /\ told'[q] \in Requests /\ agent'[told'[q]] # None
             /\ agent'[told'[q]].owner = who[q]
             /\ agent'[told'[q]].name # Name(q) => Moved(told[q], "rename")'
  <2>1. PICK a \in Requests : a = told[q]  BY <1>1, <1>4 DEF Told
  <2>2. PICK n : n = Name(q)  OBVIOUS
  <2>3. agent[a] # None /\ agent[a].owner = who[q]  BY <1>1, <1>4, <2>1 DEF Told
  <2>4. agent[a].name # n => Moved(a, "rename")  BY <1>1, <1>4, <2>1, <2>2 DEF Told
  <2>5. /\ agent'[a] # None /\ agent'[a].owner = agent[a].owner
        /\ agent'[a].name # n => Moved(a, "rename")'
    BY <2>3, <2>4, ToldAgentStays
  <2>6. Moved(a, "rename")' => Moved(told[q], "rename")'  BY <1>2, <2>1 DEF Moved
  <2> QED  BY <1>2, <2>1, <2>2, <2>3, <2>5, <2>6
<1> QED  BY <1>2, <1>3, <1>4 DEF Told, Op, Email, Name

LEMMA ToldOwn ==
  ASSUME TypeOK, RequestsInv, NEW r \in Requests, Step(r)
  PROVE  Told(r)'
<1>1. task' = task /\ pc[r] # "done"  BY StepReads
<1>2. SUFFICES ASSUME outcome'[r] = "ok"  PROVE Told(r)'
  BY DEF Told
<1>3. who'[r] = who[r]  BY <1>1, <1>2, Registering
<1>4. ASSUME Op(r) = "register"
      PROVE  told'[r] # None /\ owner'[told'[r]] # None
               /\ (Email(r) # None => owner'[told'[r]].email = Email(r))
  <2>1. CASE told'[r] \in WithEmail(Email(r)) /\ owner' = owner
    BY <2>1, AccountNamesAssumption DEF WithEmail
  <2>2. CASE told'[r] = r /\ owner'[r] = OwnerOf(r)
    <3>1. OwnerOf(r) \in OwnerRows  BY TaskTyping DEF OwnerOf, OwnerRows, Rows
    <3> QED  BY <2>2, <3>1, AccountNamesAssumption DEF OwnerOf, Rows
  <2> QED  BY <1>1, <1>2, <1>4, <2>1, <2>2, Registering
<1>5. ASSUME Op(r) = "agent"
      PROVE  told'[r] \in Requests /\ agent'[told'[r]] # None
               /\ agent'[told'[r]] = [owner |-> who[r], name |-> Name(r)]
  <2>1. CASE told'[r] \in Called(who[r], Name(r)) /\ agent' = agent
    BY <2>1 DEF Called
  <2>2. CASE /\ pc[r] = "createAgent" /\ told'[r] = r
             /\ agent'[r] = [owner |-> who[r], name |-> Name(r)]
    <3>1. who[r] \in Rows  BY <2>2 DEF RequestsInv, Placed, TypeOK
    <3>2. Name(r) \in Names  BY <1>5, TaskTyping
    <3>3. [owner |-> who[r], name |-> Name(r)] \in AgentRows  BY <3>1, <3>2 DEF AgentRows
    <3> QED  BY <2>2, <3>3, AccountNamesAssumption
  <2> QED  BY <1>1, <1>2, <1>5, <2>1, <2>2, Registering
<1> QED  BY <1>1, <1>2, <1>3, <1>4, <1>5 DEF Told, Op, Email, Name

LEMMA ToldAside ==
  ASSUME TypeOK, RequestsInv, Aside, NEW q \in Requests
  PROVE  Told(q)'
<1>1. Told(q)  BY DEF RequestsInv
<1>2. outcome'[q] = outcome[q] \/ outcome'[q] = "lost"  BY DEF Aside
<1>3. owner' = owner /\ agent' = agent /\ told' = told /\ who' = who /\ task' = task
  BY DEF Aside
<1>4. \A o, op : Moved(o, op) => \E x \in Requests : Op(x) = op /\ outcome'[x] = "ok" /\ told'[x] = o
  <2>1. \A x \in Requests : outcome[x] = "ok" => outcome'[x] = "ok"
    BY DEF RequestsInv, Made, Aside
  <2> QED  BY <2>1, <1>3 DEF Moved
<1>5. \A op : Moved(told[q], op) => Moved(told[q], op)'
  BY <1>3, <1>4 DEF Moved, Op
<1> QED  BY <1>1, <1>2, <1>3, <1>5 DEF Told, Op, Email, Name

\* What a request is to find is fixed when it arrives or its key is looked up.
LEMMA StepFinds ==
  ASSUME TypeOK, NEW r \in Requests, Step(r), pc[r] \notin {"idle", "auth"}
  PROVE  who' = who /\ earlier' = earlier
<1>1. ~(AdmitOperator(r) \/ AdmitSelf(r) \/ ArriveInvite(r) \/ ArriveRevoke(r)
        \/ ArriveWithKey(r) \/ Auth(r))
  BY DEF AdmitOperator, AdmitSelf, ArriveInvite, ArriveRevoke, ArriveWithKey, Arrives, Auth
<1>2. CASE AssertUsable(r) \/ Lookup(r) \/ Begin(r) \/ ConsumeInvite(r) \/ FindInvite(r)
           \/ Holder(r) \/ FindAgent(r) \/ OwnAgent(r) \/ CheckName(r)
  BY <1>2 DEF AssertUsable, Lookup, Begin, ConsumeInvite, FindInvite, Holder, FindAgent,
     OwnAgent, CheckName, SameTables, fixed
<1>3. CASE CreateOwner(r) \/ CreateInvite(r) \/ RevokeInvite(r) \/ Claim(r) \/ RotateKey(r)
           \/ CreateAgent(r) \/ Rename(r)
  BY <1>3 DEF CreateOwner, CreateInvite, RevokeInvite, Claim, RotateKey, CreateAgent, Rename,
     fixed
<1> QED  BY <1>1, <1>2, <1>3 DEF Step

\* What a registration finds stays, under its name, unless that is changed.
LEMMA FoundStays ==
  ASSUME TypeOK, RequestsInv, NEW r \in Requests, Step(r), NEW q \in Requests,
         NEW x \in earlier[q], who'[q] = who[q]
  PROVE  /\ Op(q) \in {"register", "agent"}
         /\ Op(q) = "register" => Email(q) # None /\ owner'[x] # None
         /\ Op(q) = "agent" => x \in Requests /\ agent'[x] # None /\ agent'[x].owner = who'[q]
         /\ Moved(x, ChangedBy(Op(q))) => Moved(x, ChangedBy(Op(q)))'
         /\ \/ Op(q) = "register" => owner'[x].email = Email(q)
            \/ Moved(x, ChangedBy(Op(q)))'
         /\ \/ Op(q) = "agent" => agent'[x].name = Name(q)
            \/ Moved(x, ChangedBy(Op(q)))'
<1>1. Found(q)  BY DEF RequestsInv
<1>2. task' = task  BY StepReads
<1>3. x \in Rows  BY DEF TypeOK
<1>4. \A op : Moved(x, op) => Moved(x, op)'  BY MovedStays DEF Next
<1>5. ASSUME Op(q) = "register"
      PROVE  /\ Email(q) # None /\ owner'[x] # None
             /\ owner'[x].email = Email(q) \/ Moved(x, "claim")'
  <2>1. PICK e : e = Email(q)  OBVIOUS
  <2>2. /\ e # None /\ owner[x] # None
        /\ owner[x].email # e => Moved(x, "claim")
    BY <1>1, <1>5, <2>1 DEF Found, ChangedBy
  <2>3. owner'[x] # None /\ (owner'[x].email # e => Moved(x, "claim")')
    BY <1>3, <2>2, ToldOwnerStays
  <2> QED  BY <2>1, <2>2, <2>3
<1>6. ASSUME Op(q) = "agent"
      PROVE  /\ x \in Requests /\ agent'[x] # None /\ agent'[x].owner = who[q]
             /\ agent'[x].name = Name(q) \/ Moved(x, "rename")'
  <2>1. PICK n : n = Name(q)  OBVIOUS
  <2>2. /\ x \in Requests /\ agent[x] # None /\ agent[x].owner = who[q]
        /\ agent[x].name # n => Moved(x, "rename")
    BY <1>1, <1>6, <2>1 DEF Found, ChangedBy
  <2>3. /\ agent'[x] # None /\ agent'[x].owner = agent[x].owner
        /\ agent'[x].name # n => Moved(x, "rename")'
    BY <2>2, ToldAgentStays
  <2> QED  BY <2>1, <2>2, <2>3
<1>7. Op(q) \in {"register", "agent"}  BY <1>1 DEF Found
<1>8. Moved(x, ChangedBy(Op(q))) => Moved(x, ChangedBy(Op(q)))'
  <2>1. CASE Op(q) = "register"  BY <1>2, <1>4, <2>1 DEF ChangedBy, Op, Moved
  <2>2. CASE Op(q) = "agent"  BY <1>2, <1>4, <2>2 DEF ChangedBy, Op, Moved
  <2> QED  BY <1>7, <2>1, <2>2
<1>9. /\ Op(q) = "register" /\ Moved(x, "claim")' => Moved(x, ChangedBy(Op(q)))'
      /\ Op(q) = "agent" /\ Moved(x, "rename")' => Moved(x, ChangedBy(Op(q)))'
  BY <1>2 DEF ChangedBy, Op, Moved
<1> QED  BY <1>5, <1>6, <1>7, <1>8, <1>9

LEMMA FoundElsewhere ==
  ASSUME TypeOK, RequestsInv, NEW r \in Requests, Step(r), NEW q \in Requests \ {r}
  PROVE  Found(q)'
<1>1. Found(q)  BY DEF RequestsInv
<1>2. /\ pc'[q] = pc[q] /\ outcome'[q] = outcome[q] /\ told'[q] = told[q]
      /\ who'[q] = who[q] /\ earlier'[q] = earlier[q] /\ task' = task
  BY StepAnswers, StepReads DEF Elsewhere
<1> SUFFICES ASSUME NEW x \in earlier[q]
             PROVE  /\ Op(q) \in {"register", "agent"}
                    /\ Op(q) = "register" => Email(q) # None /\ owner'[x] # None
                    /\ Op(q) = "agent" =>
                         x \in Requests /\ agent'[x] # None /\ agent'[x].owner = who'[q]
                    /\ \/ /\ Op(q) = "register" => owner'[x].email = Email(q)
                          /\ Op(q) = "agent" => agent'[x].name = Name(q)
                          /\ pc'[q] \notin {"begin", "consume", "create", "createAgent"}
                          /\ outcome'[q] # "failed" /\ (outcome'[q] = "ok" => told'[q] = x)
                       \/ Moved(x, ChangedBy(Op(q)))'
  BY <1>2 DEF Found, Op, Email, Name
<1>3. \/ /\ pc[q] \notin {"begin", "consume", "create", "createAgent"}
         /\ outcome[q] # "failed" /\ (outcome[q] = "ok" => told[q] = x)
      \/ Moved(x, ChangedBy(Op(q)))
  BY <1>1 DEF Found
<1> QED  BY <1>2, <1>3, FoundStays

\* A request that arrives has not failed, and what it is to find is there.
LEMMA FoundArriving ==
  ASSUME TypeOK, RequestsInv, NEW r \in Requests, Step(r), pc[r] = "idle"
  PROVE  Found(r)'
<1>1. outcome[r] = "none"  BY DEF RequestsInv, Made
<1>2. task' = task  BY StepReads
<1>3. AdmitOperator(r) \/ AdmitSelf(r) \/ ArriveInvite(r) \/ ArriveRevoke(r) \/ ArriveWithKey(r)
  <2>1. ~(AssertUsable(r) \/ Lookup(r) \/ Begin(r) \/ ConsumeInvite(r) \/ FindInvite(r)
          \/ Auth(r) \/ Holder(r) \/ FindAgent(r) \/ OwnAgent(r) \/ CheckName(r))
    BY DEF AssertUsable, Lookup, Begin, ConsumeInvite, FindInvite, Auth, Holder, FindAgent,
       OwnAgent, CheckName
  <2>2. ~(CreateOwner(r) \/ CreateInvite(r) \/ RevokeInvite(r) \/ Claim(r) \/ RotateKey(r)
          \/ CreateAgent(r) \/ Rename(r))
    BY DEF CreateOwner, CreateInvite, RevokeInvite, Claim, RotateKey, CreateAgent, Rename
  <2> QED  BY <2>1, <2>2 DEF Step
<1>4. PICK op : Arrives(r, op)
  BY <1>3 DEF AdmitOperator, AdmitSelf, ArriveInvite, ArriveRevoke, ArriveWithKey
<1>5. /\ owner' = owner /\ op = Op(r)
      /\ earlier'[r] = IF op = "register" THEN WithEmail(Email(r)) ELSE {}
  BY <1>4 DEF Arrives, accounts, TypeOK
<1>6. Op(r) = "register" =>
        /\ pc'[r] \in {"lookup", "assert", "done"}
        /\ outcome'[r] \in {"none", "refused"}
  <2>1. Op(r) = "register" => AdmitOperator(r) \/ AdmitSelf(r)
    BY <1>3 DEF ArriveInvite, ArriveRevoke, ArriveWithKey, Arrives, ByKey
  <2>2. AdmitOperator(r) \/ AdmitSelf(r) => Refuse(r) \/ Admitted(r)
    BY DEF AdmitOperator, AdmitSelf
  <2>3. Refuse(r) => pc'[r] = "done" /\ outcome'[r] = "refused"
    BY DEF Refuse, Reply, TypeOK
  <2>4. Admitted(r) => pc'[r] \in {"lookup", "assert"} /\ outcome'[r] = "none"
    BY <1>1 DEF Admitted, Goto, answers, TypeOK
  <2> QED  BY <2>1, <2>2, <2>3, <2>4
<1>7. \A x \in WithEmail(Email(r)) :
        Email(r) # None /\ owner'[x] # None /\ owner'[x].email = Email(r)
  BY <1>5 DEF WithEmail
<1> QED  BY <1>2, <1>5, <1>6, <1>7 DEF Found, Op, Email, Name

\* The agents the owner behind the key has by then are there to be found.
LEMMA FoundByKey ==
  ASSUME TypeOK, RequestsInv, NEW r \in Requests, Step(r), pc[r] = "auth"
  PROVE  Found(r)'
<1>1. outcome[r] = "none" /\ Op(r) \in ByKey /\ Found(r)  BY DEF RequestsInv, Made, Placed
<1>2. task' = task  BY StepReads
<1>3. Auth(r)
  <2>1. ~(AdmitOperator(r) \/ AdmitSelf(r) \/ ArriveInvite(r) \/ ArriveRevoke(r)
          \/ ArriveWithKey(r))
    BY DEF AdmitOperator, AdmitSelf, ArriveInvite, ArriveRevoke, ArriveWithKey, Arrives
  <2>2. ~(AssertUsable(r) \/ Lookup(r) \/ Begin(r) \/ ConsumeInvite(r) \/ FindInvite(r)
          \/ Holder(r) \/ FindAgent(r) \/ OwnAgent(r) \/ CheckName(r))
    BY DEF AssertUsable, Lookup, Begin, ConsumeInvite, FindInvite, Holder, FindAgent,
       OwnAgent, CheckName
  <2>3. ~(CreateOwner(r) \/ CreateInvite(r) \/ RevokeInvite(r) \/ Claim(r) \/ RotateKey(r)
          \/ CreateAgent(r) \/ Rename(r))
    BY DEF CreateOwner, CreateInvite, RevokeInvite, Claim, RotateKey, CreateAgent, Rename
  <2> QED  BY <2>1, <2>2, <2>3 DEF Step
<1>4. owner' = owner /\ agent' = agent  BY <1>3 DEF Auth, accounts
<1>5. CASE Refuse(r) /\ UNCHANGED <<who, earlier>>
  <2>1. pc'[r] = "done" /\ outcome'[r] = "refused"  BY <1>5 DEF Refuse, Reply, TypeOK
  <2> SUFFICES ASSUME NEW x \in earlier[r]
               PROVE  /\ Op(r) \in {"register", "agent"}
                      /\ Op(r) = "register" => Email(r) # None /\ owner'[x] # None
                      /\ Op(r) = "agent" =>
                           x \in Requests /\ agent'[x] # None /\ agent'[x].owner = who'[r]
                      /\ \/ /\ Op(r) = "register" => owner'[x].email = Email(r)
                            /\ Op(r) = "agent" => agent'[x].name = Name(r)
                         \/ Moved(x, ChangedBy(Op(r)))'
    BY <1>2, <1>5, <2>1 DEF Found, Op, Email, Name
  <2> QED  BY <1>5, FoundStays
<1>6. ASSUME NEW o \in HeldBy(task[r].key), who' = [who EXCEPT ![r] = o],
             Goto(r, First(Op(r))),
             earlier' = [earlier EXCEPT ![r] = IF Op(r) = "agent" THEN Called(o, Name(r)) ELSE {}]
      PROVE  Found(r)'
  <2>1. who'[r] = o  BY <1>6 DEF TypeOK
  <2>2. earlier'[r] = IF Op(r) = "agent" THEN Called(o, Name(r)) ELSE {}  BY <1>6 DEF TypeOK
  <2>3. Op(r) = "agent" => pc'[r] = "findAgent" /\ outcome'[r] = "none"
    BY <1>1, <1>6 DEF Goto, First, answers, TypeOK
  <2>4. \A x \in Called(o, Name(r)) :
          x \in Requests /\ agent'[x] # None /\ agent'[x].owner = o /\ agent'[x].name = Name(r)
    BY <1>4 DEF Called
  <2> QED  BY <1>2, <2>1, <2>2, <2>3, <2>4 DEF Found, Op, Email, Name
<1> QED  BY <1>3, <1>5, <1>6 DEF Auth

\* The look-up that finds the row answers with it: there is no other by that name.
LEMMA FoundOwn ==
  ASSUME TypeOK, RequestsInv, Unique, NEW r \in Requests, Step(r)
  PROVE  Found(r)'
<1>1. CASE pc[r] \in {"idle", "auth"}  BY <1>1, FoundArriving, FoundByKey
<1>2. SUFFICES ASSUME pc[r] \notin {"idle", "auth"}  PROVE Found(r)'
  BY <1>1
<1>3. who' = who /\ earlier' = earlier /\ task' = task  BY <1>2, StepFinds, StepReads
<1>4. Found(r) /\ Placed(r) /\ outcome[r] = "none" /\ pc[r] # "done"
  BY StepReads DEF RequestsInv, Made
<1> SUFFICES ASSUME NEW x \in earlier[r]
             PROVE  /\ Op(r) \in {"register", "agent"}
                    /\ Op(r) = "register" => Email(r) # None /\ owner'[x] # None
                    /\ Op(r) = "agent" =>
                         x \in Requests /\ agent'[x] # None /\ agent'[x].owner = who'[r]
                    /\ \/ /\ Op(r) = "register" => owner'[x].email = Email(r)
                          /\ Op(r) = "agent" => agent'[x].name = Name(r)
                          /\ pc'[r] \notin {"begin", "consume", "create", "createAgent"}
                          /\ outcome'[r] # "failed" /\ (outcome'[r] = "ok" => told'[r] = x)
                       \/ Moved(x, ChangedBy(Op(r)))'
  BY <1>3 DEF Found, Op, Email, Name
<1> SUFFICES ASSUME ~Moved(x, ChangedBy(Op(r)))'
             PROVE  /\ pc'[r] \notin {"begin", "consume", "create", "createAgent"}
                    /\ outcome'[r] # "failed" /\ (outcome'[r] = "ok" => told'[r] = x)
  BY <1>3, FoundStays
<1>5. /\ Op(r) \in {"register", "agent"} /\ ~Moved(x, ChangedBy(Op(r)))
  BY <1>3, FoundStays
<1>6. /\ x \in Rows
      /\ Op(r) = "register" => owner[x] # None /\ owner[x].email = Email(r) /\ Email(r) # None
      /\ Op(r) = "agent" =>
           x \in Requests /\ agent[x] # None /\ agent[x].owner = who[r] /\ agent[x].name = Name(r)
      /\ pc[r] \notin {"begin", "consume", "create", "createAgent"}
  BY <1>4, <1>5 DEF Found, TypeOK
<1>7. AssertUsable(r) \/ Lookup(r) \/ FindAgent(r)
  <2>1. pc[r] \in {"assert", "lookup", "findAgent"}
    BY <1>2, <1>4, <1>5, <1>6 DEF Placed, TypeOK, PC, ByKey
  <2>2. ~(AdmitOperator(r) \/ AdmitSelf(r) \/ ArriveInvite(r) \/ ArriveRevoke(r)
          \/ ArriveWithKey(r))
    BY <1>2 DEF AdmitOperator, AdmitSelf, ArriveInvite, ArriveRevoke, ArriveWithKey, Arrives
  <2>3. ~(Begin(r) \/ ConsumeInvite(r) \/ FindInvite(r) \/ Auth(r) \/ Holder(r) \/ OwnAgent(r)
          \/ CheckName(r))
    BY <2>1 DEF Begin, ConsumeInvite, FindInvite, Auth, Holder, OwnAgent, CheckName
  <2>4. ~(CreateOwner(r) \/ CreateInvite(r) \/ RevokeInvite(r) \/ Claim(r) \/ RotateKey(r)
          \/ CreateAgent(r) \/ Rename(r))
    BY <2>1 DEF CreateOwner, CreateInvite, RevokeInvite, Claim, RotateKey, CreateAgent, Rename
  <2> QED  BY <2>2, <2>3, <2>4 DEF Step
<1>8. CASE AssertUsable(r)
  <2>1. Refuse(r) => pc'[r] = "done" /\ outcome'[r] = "refused"  BY DEF Refuse, Reply, TypeOK
  <2>2. Goto(r, "lookup") => pc'[r] = "lookup" /\ outcome'[r] = "none"
    BY <1>4 DEF Goto, answers, TypeOK
  <2> QED  BY <1>8, <2>1, <2>2 DEF AssertUsable
<1>9. CASE Lookup(r)
  <2>1. Op(r) = "register"  BY <1>4, <1>9 DEF Lookup, Placed
  <2>2. x \in WithEmail(Email(r))  BY <1>6, <2>1 DEF WithEmail
  <2>3. \A o \in WithEmail(Email(r)) : o = x  BY <2>2 DEF WithEmail, Unique
  <2>4. Reply(r, "ok", x)  BY <1>9, <2>2, <2>3 DEF Lookup
  <2> QED  BY <2>4 DEF Reply, TypeOK
<1>10. CASE FindAgent(r)
  <2>1. Op(r) = "agent"  BY <1>4, <1>10 DEF FindAgent, Placed
  <2>2. agent[x] = [owner |-> who[r], name |-> Name(r)]
    <3>1. agent[x] \in AgentRows  BY <1>6, <2>1 DEF TypeOK
    <3> QED  BY <1>6, <2>1, <3>1 DEF AgentRows
  <2>3. x \in Called(who[r], Name(r))  BY <1>6, <2>1, <2>2 DEF Called
  <2>4. \A a \in Called(who[r], Name(r)) : a = x  BY <2>3 DEF Called, Unique
  <2>5. Reply(r, "ok", x)  BY <1>10, <2>3, <2>4 DEF FindAgent
  <2> QED  BY <2>5 DEF Reply, TypeOK
<1> QED  BY <1>7, <1>8, <1>9, <1>10

LEMMA FoundAside ==
  ASSUME TypeOK, RequestsInv, Aside, NEW q \in Requests
  PROVE  Found(q)'
<1>1. Found(q)  BY DEF RequestsInv
<1>2. \/ pc'[q] = pc[q] /\ outcome'[q] = outcome[q]
      \/ pc'[q] = "done" /\ outcome'[q] = "lost"
  BY DEF Aside
<1>3. /\ owner' = owner /\ agent' = agent /\ told' = told /\ who' = who /\ task' = task
      /\ earlier' = earlier
  BY DEF Aside
<1>4. \A x, op : Moved(x, op) =>
        \E y \in Requests : Op(y) = op /\ outcome'[y] = "ok" /\ told'[y] = x
  <2>1. \A y \in Requests : outcome[y] = "ok" => outcome'[y] = "ok"
    BY DEF RequestsInv, Made, Aside
  <2> QED  BY <2>1, <1>3 DEF Moved
<1>5. \A x : Moved(x, ChangedBy(Op(q))) => Moved(x, ChangedBy(Op(q)))'
  BY <1>3, <1>4 DEF Moved, ChangedBy, Op
<1> QED  BY <1>1, <1>2, <1>3, <1>5 DEF Found, Op, Email, Name

\* A key that was issued and is no owner's stays so.
LEMMA DeadStays ==
  ASSUME TypeOK, RequestsInv, NEW r \in Requests, Step(r), NEW k \in Rows, Issued(k),
         HeldBy(k) = {}
  PROVE  HeldBy(k)' = {}
<1>1. k # r
  <2>1. outcome[r] = "none"  BY StepReads DEF RequestsInv, Made
  <2> QED  BY <2>1, AccountsAssumption DEF Issued
<1>2. ASSUME NEW o \in Rows, owner'[o] # None, owner'[o].key = k  PROVE FALSE
  <2>1. OwnerStays(r, o) /\ OwnerComes(r, o)  BY Owners
  <2>2. CASE owner[o] = None  BY <2>2, <2>1, <1>1, <1>2 DEF OwnerComes, OwnerOf
  <2>3. CASE owner[o] # None  BY <2>3, <2>1, <1>1, <1>2 DEF OwnerStays, HeldBy
  <2> QED  BY <2>2, <2>3
<1> QED  BY <1>2 DEF HeldBy

LEMMA DatedElsewhere ==
  ASSUME TypeOK, RequestsInv, NEW r \in Requests, Step(r), NEW q \in Requests \ {r}
  PROVE  Dated(q)'
<1>1. Dated(q)  BY DEF RequestsInv
<1>2. /\ pc'[q] = pc[q] /\ task' = task /\ clock'[q] = clock[q] /\ stale'[q] = stale[q]
      /\ now' = now
  BY StepAnswers, StepReads DEF Elsewhere
<1>3. ASSUME stale[q], Op(q) \in ByKey
      PROVE  Issued(task[q].key)' /\ HeldBy(task[q].key)' = {}
  <2>1. PICK k \in Rows : k = task[q].key  BY <1>3, TaskTyping
  <2>2. Issued(k) /\ HeldBy(k) = {}  BY <1>1, <1>3, <2>1 DEF Dated
  <2>3. Issued(k)'  BY <2>2, IssuedStays DEF Next
  <2>4. HeldBy(k)' = {}  BY <2>2, DeadStays
  <2> QED  BY <2>1, <2>3, <2>4, <1>2 DEF Issued, HeldBy
<1> QED  BY <1>1, <1>2, <1>3 DEF Dated, Op

LEMMA DatedOwn ==
  ASSUME TypeOK, RequestsInv, NEW r \in Requests, Step(r)
  PROVE  Dated(r)' /\ (stale'[r] /\ Op(r) \in ByKey => outcome'[r] # "ok")
<1>1. Dated(r) /\ Placed(r) /\ outcome[r] = "none"  BY StepReads DEF RequestsInv, Made
<1>2. task' = task /\ now' = now  BY StepReads
<1>3. clock'[r] <= now'
  BY <1>1, <1>2, StepReads DEF Dated, TypeOK
<1>4. CASE ArriveWithKey(r)
  <2>1. Issued(task[r].key) /\ pc'[r] = "auth" /\ outcome'[r] = "none"
    BY <1>4, <1>1 DEF ArriveWithKey, Goto, answers, TypeOK
  <2>2. stale'[r] = (HeldBy(task[r].key) = {}) /\ owner' = owner
    BY <1>4 DEF ArriveWithKey, Arrives, accounts, TypeOK
  <2>3. Op(r) \in ByKey  BY <1>4 DEF ArriveWithKey, Arrives
  <2>4. PICK k \in Rows : k = task[r].key  BY <2>3, TaskTyping
  <2>5. Issued(k)'  BY <2>1, <2>4, IssuedStays DEF Next
  <2>6. stale'[r] => HeldBy(k)' = {}  BY <2>2, <2>4 DEF HeldBy
  <2>7. Issued(task[r].key)' /\ (stale'[r] => HeldBy(task[r].key)' = {})
    BY <2>4, <2>5, <2>6, <1>2 DEF Issued, HeldBy
  <2> QED  BY <1>2, <1>3, <2>1, <2>7 DEF Dated
<1>5. CASE Op(r) \notin ByKey
  BY <1>2, <1>3, <1>5 DEF Dated, Op
<1>6. CASE Op(r) \in ByKey /\ ~ArriveWithKey(r) /\ ~stale[r]
  <2>1. stale'[r] = stale[r]
    <3>1. ~(AdmitOperator(r) \/ AdmitSelf(r) \/ ArriveInvite(r) \/ ArriveRevoke(r))
      BY <1>6 DEF AdmitOperator, AdmitSelf, ArriveInvite, ArriveRevoke, Arrives, ByKey
    <3>2. AssertUsable(r) \/ Lookup(r) \/ Begin(r) \/ ConsumeInvite(r) \/ FindInvite(r)
            \/ Auth(r) \/ Holder(r) \/ FindAgent(r) \/ OwnAgent(r) \/ CheckName(r)
            => stale' = stale
      BY DEF AssertUsable, Lookup, Begin, ConsumeInvite, FindInvite, Auth, Holder, FindAgent,
         OwnAgent, CheckName, SameTables, fixed
    <3>3. CreateOwner(r) \/ CreateInvite(r) \/ RevokeInvite(r) \/ Claim(r) \/ RotateKey(r)
            \/ CreateAgent(r) \/ Rename(r) => stale' = stale
      BY DEF CreateOwner, CreateInvite, RevokeInvite, Claim, RotateKey, CreateAgent, Rename,
         fixed
    <3> QED  BY <1>6, <3>1, <3>2, <3>3 DEF Step
  <2> QED  BY <1>6, <1>3, <2>1 DEF Dated
<1>7. CASE Op(r) \in ByKey /\ ~ArriveWithKey(r) /\ stale[r]
  <2>1. pc[r] = "auth" /\ HeldBy(task[r].key) = {} /\ Issued(task[r].key)
    BY <1>1, <1>7, StepReads DEF Dated
  <2>2. Auth(r)
    <3>1. ~(AdmitOperator(r) \/ AdmitSelf(r) \/ ArriveInvite(r) \/ ArriveRevoke(r))
      BY <2>1 DEF AdmitOperator, AdmitSelf, ArriveInvite, ArriveRevoke, Arrives
    <3>2. ~(AssertUsable(r) \/ Lookup(r) \/ Begin(r) \/ ConsumeInvite(r) \/ FindInvite(r)
            \/ Holder(r) \/ FindAgent(r) \/ OwnAgent(r) \/ CheckName(r))
      BY <2>1 DEF AssertUsable, Lookup, Begin, ConsumeInvite, FindInvite, Holder, FindAgent,
         OwnAgent, CheckName
    <3>3. ~(CreateOwner(r) \/ CreateInvite(r) \/ RevokeInvite(r) \/ Claim(r) \/ RotateKey(r)
            \/ CreateAgent(r) \/ Rename(r))
      BY <2>1
         DEF CreateOwner, CreateInvite, RevokeInvite, Claim, RotateKey, CreateAgent, Rename
    <3> QED  BY <1>7, <3>1, <3>2, <3>3 DEF Step
  <2>3. Refuse(r) /\ owner' = owner  BY <2>1, <2>2 DEF Auth, SameTables, accounts
  <2>4. pc'[r] = "done" /\ outcome'[r] = "refused"  BY <2>3 DEF Refuse, Reply, TypeOK
  <2>5. PICK k \in Rows : k = task[r].key  BY <1>7, TaskTyping
  <2>6. Issued(k)'  BY <2>1, <2>5, IssuedStays DEF Next
  <2>7. HeldBy(k)' = {}  BY <2>1, <2>3, <2>5 DEF HeldBy
  <2>8. Issued(task[r].key)' /\ HeldBy(task[r].key)' = {}
    BY <2>5, <2>6, <2>7, <1>2 DEF Issued, HeldBy
  <2> QED  BY <1>3, <2>4, <2>8 DEF Dated
<1> QED  BY <1>4, <1>5, <1>6, <1>7 DEF TypeOK

LEMMA DatedAside ==
  ASSUME TypeOK, RequestsInv, Aside, NEW q \in Requests
  PROVE  Dated(q)'
<1>1. Dated(q)  BY DEF RequestsInv
<1>2. owner' = owner /\ clock' = clock /\ stale' = stale /\ task' = task /\ told' = told
        /\ now' \in Nat /\ now <= now'
  BY DEF Aside
<1>3. pc'[q] = pc[q] \/ pc'[q] = "done"  BY DEF Aside
<1>4. clock'[q] <= now'  BY <1>1, <1>2 DEF Dated, TypeOK
<1>5. Issued(task[q].key) => Issued(task[q].key)'
  <2>1. \A x \in Requests : outcome[x] = "ok" => outcome'[x] = "ok"
    BY DEF RequestsInv, Made, Aside
  <2> QED  BY <1>2, <2>1 DEF Issued, Op
<1>6. HeldBy(task[q].key)' = HeldBy(task[q].key)  BY <1>2 DEF HeldBy
<1> QED  BY <1>1, <1>2, <1>3, <1>4, <1>5, <1>6 DEF Dated, Op

\* Who comes to the insert under a code has just found it usable and locks it.
LEMMA ToCreate ==
  ASSUME TypeOK, NEW r \in Requests, Step(r), pc'[r] = "create", Code(r) # None
  PROVE  /\ ~Locked(Code(r)) /\ ~Problem(Code(r), clock[r])
         /\ invite' = invite /\ clock' = clock /\ pc[r] = "consume"
<1> DEFINE Fine == /\ ~Locked(Code(r)) /\ ~Problem(Code(r), clock[r])
                   /\ invite' = invite /\ clock' = clock /\ pc[r] = "consume"
<1>1. \A where \in PC \ {"create"} : ~Goto(r, where)  BY DEF Goto, TypeOK
<1>2. \A how, row : ~Reply(r, how, row)  BY DEF Reply, TypeOK
<1>3. ~Refuse(r)  BY <1>2 DEF Refuse
<1>4. ~Admitted(r)  BY <1>1 DEF Admitted, PC
<1> HIDE DEF Goto, Reply, Refuse, Admitted
<1>5. CASE ConsumeInvite(r)
  BY <1>5, <1>3 DEF ConsumeInvite, SameTables, accounts
<1>6. ~(AdmitOperator(r) \/ AdmitSelf(r))  BY <1>3, <1>4 DEF AdmitOperator, AdmitSelf
<1>7. ~(AssertUsable(r) \/ Lookup(r) \/ Begin(r) \/ Holder(r) \/ FindAgent(r) \/ OwnAgent(r)
        \/ CheckName(r))
  BY <1>1, <1>2, <1>3
     DEF AssertUsable, Lookup, Begin, Holder, FindAgent, OwnAgent, CheckName, PC
<1>8. ~(ArriveInvite(r) \/ ArriveRevoke(r) \/ ArriveWithKey(r) \/ FindInvite(r))
  BY <1>1, <1>2, <1>3 DEF ArriveInvite, ArriveRevoke, ArriveWithKey, FindInvite, PC
<1>9. ~Auth(r)
  <2>1. First(Op(r)) \in PC \ {"create"}  BY DEF First, PC
  <2> QED  BY <2>1, <1>1, <1>3 DEF Auth
<1>10. ~(CreateOwner(r) \/ CreateInvite(r) \/ RevokeInvite(r) \/ Claim(r) \/ RotateKey(r)
         \/ CreateAgent(r) \/ Rename(r))
  BY <1>2 DEF CreateOwner, CreateInvite, RevokeInvite, Claim, RotateKey, CreateAgent, Rename
<1> QED  BY <1>5, <1>6, <1>7, <1>8, <1>9, <1>10 DEF Step

LEMMA SpendingElsewhere ==
  ASSUME TypeOK, RequestsInv, NEW r \in Requests, Step(r), NEW q \in Requests \ {r}
  PROVE  Spending(q)'
<1>1. /\ task' = task /\ clock'[q] = clock[q]
      /\ \A p \in Requests \ {r} : pc'[p] = pc[p]
  BY StepAnswers, StepReads DEF Elsewhere
<1>2. SUFFICES ASSUME pc[q] = "create", Code(q) # None  PROVE Spending(q)'
  BY <1>1 DEF Spending, Code
<1>3. /\ invite[Code(q)] # None /\ invite[Code(q)].revoked = None
      /\ clock[q] < invite[Code(q)].expires
      /\ invite[Code(q)].uses < MaxUses[Code(q)]
      /\ \A p \in Requests : pc[p] = "create" /\ Code(p) = Code(q) => p = q
  BY <1>2 DEF RequestsInv, Spending
<1>4. PICK c \in Codes : c = Code(q)  BY <1>2, TaskTyping
<1>5. InviteStays(r, c)  BY Invites
<1>6. Locked(c)  BY <1>2, <1>4 DEF Locked
<1>7. ~(Created(r) /\ c = Code(r))  BY <1>3, <1>4, Creating
<1>8. /\ invite'[c] # None /\ invite'[c].revoked = invite[c].revoked
      /\ invite'[c].expires = invite[c].expires /\ invite'[c].uses = invite[c].uses
  BY <1>3, <1>4, <1>5, <1>6, <1>7 DEF InviteStays
<1>9. \A p \in Requests : pc'[p] = "create" /\ Code(p) = c => p = q
  <2>1. ~(pc'[r] = "create" /\ Code(r) = c)  BY <1>2, <1>4, <1>6, ToCreate
  <2> QED  BY <1>1, <1>3, <1>4, <2>1
<1> QED  BY <1>1, <1>2, <1>3, <1>4, <1>8, <1>9 DEF Spending, Code

LEMMA SpendingOwn ==
  ASSUME TypeOK, RequestsInv, NEW r \in Requests, Step(r)
  PROVE  Spending(r)'
<1>1. task' = task /\ \A p \in Requests \ {r} : pc'[p] = pc[p]
  BY StepAnswers, StepReads DEF Elsewhere
<1>2. SUFFICES ASSUME pc'[r] = "create", Code(r) # None  PROVE Spending(r)'
  BY <1>1 DEF Spending, Code
<1>3. /\ ~Locked(Code(r)) /\ ~Problem(Code(r), clock[r])
      /\ invite' = invite /\ clock' = clock
  BY <1>2, ToCreate
<1>4. Code(r) \in Codes  BY <1>2, TaskTyping
<1>5. invite[Code(r)] # None /\ invite[Code(r)] \in InviteRows
  BY <1>3, <1>4 DEF Problem, TypeOK
<1>6. invite[Code(r)].revoked = None  BY <1>3 DEF Problem
<1>7. clock[r] < invite[Code(r)].expires
  <2>1. clock[r] \in Nat /\ invite[Code(r)].expires \in Nat  BY <1>5 DEF TypeOK, InviteRows
  <2>2. ~(invite[Code(r)].expires <= clock[r])  BY <1>3 DEF Problem
  <2> QED  BY <2>1, <2>2
<1>8. invite[Code(r)].uses < MaxUses[Code(r)]
  <2>1. invite[Code(r)].uses \in Nat /\ MaxUses[Code(r)] \in Nat
    BY <1>4, <1>5, AccountsAssumption DEF InviteRows
  <2>2. ~(invite[Code(r)].uses >= MaxUses[Code(r)])  BY <1>3 DEF Problem
  <2> QED  BY <2>1, <2>2
<1>9. \A p \in Requests : pc'[p] = "create" /\ Code(p) = Code(r) => p = r
  BY <1>1, <1>3 DEF Locked
<1> QED  BY <1>1, <1>2, <1>3, <1>5, <1>6, <1>7, <1>8, <1>9 DEF Spending, Code

LEMMA SpendingAside ==
  ASSUME RequestsInv, Aside, NEW q \in Requests
  PROVE  Spending(q)'
<1>1. Spending(q)  BY DEF RequestsInv
<1>2. invite' = invite /\ clock' = clock /\ task' = task
        /\ \A p \in Requests : pc'[p] = "create" => pc[p] = "create"
  BY DEF Aside
<1> QED  BY <1>1, <1>2 DEF Spending, Code

LEMMA RequestsStep ==
  ASSUME TypeOK, RequestsInv, Unique, [Next]_vars
  PROVE  RequestsInv'
<1>1. CASE Aside
  BY <1>1, PlacedAside, MadeAside, ToldAside, FoundAside, DatedAside, SpendingAside DEF RequestsInv
<1>2. ASSUME NEW r \in Requests, Step(r), NEW q \in Requests
      PROVE  Placed(q)' /\ Made(q)' /\ Told(q)' /\ Found(q)' /\ Dated(q)' /\ Spending(q)'
  <2>1. CASE q = r  BY <1>2, <2>1, PlacedOwn, MadeStep, ToldOwn, FoundOwn, DatedOwn, SpendingOwn
  <2>2. CASE q # r
    BY <1>2, <2>2, PlacedElsewhere, MadeStep, ToldElsewhere, FoundElsewhere, DatedElsewhere,
       SpendingElsewhere
  <2> QED  BY <2>1, <2>2
<1> QED  BY <1>1, <1>2, Steps DEF RequestsInv

LEMMA DeadStep ==
  ASSUME TypeOK, RequestsInv, DeadKeysDoNothing, [Next]_vars
  PROVE  DeadKeysDoNothing'
<1>1. CASE Aside  BY <1>1 DEF Aside, DeadKeysDoNothing, Op
<1>2. ASSUME NEW r \in Requests, Step(r)  PROVE DeadKeysDoNothing'
  <2>1. task' = task /\ Elsewhere(r) /\ \A q \in Requests \ {r} : stale'[q] = stale[q]
    BY <1>2, StepAnswers, StepReads
  <2>2. stale'[r] /\ Op(r) \in ByKey => outcome'[r] # "ok"  BY <1>2, DatedOwn
  <2> QED  BY <2>1, <2>2 DEF DeadKeysDoNothing, Elsewhere, Op
<1> QED  BY <1>1, <1>2, Steps

-----------------------------------------------------------------------------
(* The unique indexes. *)

LEMMA NewKeysAreNew ==
  ASSUME TypeOK, RequestsInv, Unique, NEW r \in Requests, Step(r), NEW o \in Rows, owner[o] # None
  PROVE  owner[o].key # r
<1>1. outcome[r] = "none"  BY StepReads DEF RequestsInv, Made
<1>2. ~Issued(r)  BY <1>1, AccountsAssumption DEF Issued
<1> QED  BY <1>2 DEF Unique

LEMMA KeysIssued ==
  ASSUME TypeOK, RequestsInv, Unique, NEW r \in Requests, Step(r), NEW o \in Rows, owner'[o] # None
  PROVE  Issued(owner[o].key)'
<1>1. OwnerStays(r, o) /\ OwnerComes(r, o) /\ Placed(r) /\ task' = task
  BY Owners, StepReads DEF RequestsInv
<1>2. CASE owner'[o].key = r
  <2>1. \/ pc[r] = "rotate" /\ outcome'[r] = "ok"
        \/ pc[r] = "create" /\ outcome'[r] = "ok" /\ told'[r] = r
    BY <1>1, <1>2, NewKeysAreNew DEF OwnerStays, OwnerComes
  <2> QED  BY <1>1, <1>2, <2>1 DEF Placed, Issued, Op
<1>3. CASE owner'[o].key # r
  <2>1. owner[o] # None /\ owner'[o].key = owner[o].key
    BY <1>1, <1>3 DEF OwnerStays, OwnerComes, OwnerOf
  <2>2. PICK k \in Rows : k = owner[o].key
    BY <2>1 DEF TypeOK, OwnerRows
  <2>3. Issued(k)  BY <2>1, <2>2 DEF Unique
  <2>4. Issued(k)'  BY <2>3, IssuedStays DEF Next
  <2> QED  BY <2>1, <2>2, <2>4 DEF Issued
<1> QED  BY <1>2, <1>3

LEMMA KeysDiffer ==
  ASSUME TypeOK, RequestsInv, Unique, NEW r \in Requests, Step(r),
         NEW o \in Rows, NEW p \in Rows, o # p, owner'[o] # None, owner'[p] # None
  PROVE  owner'[o].key # owner'[p].key
<1>1. OwnerStays(r, o) /\ OwnerComes(r, o) /\ OwnerStays(r, p) /\ OwnerComes(r, p)
  BY Owners
<1>2. pc[r] = "create" => pc[r] # "rotate"  OBVIOUS
<1>3. owner[o] # None /\ owner[p] # None => owner[o].key # owner[p].key  BY DEF Unique
<1>4. \A x \in {o, p} : owner[x] # None => owner[x].key # r  BY NewKeysAreNew
<1>5. CASE owner[o] = None
  BY <1>1, <1>4, <1>5 DEF OwnerComes, OwnerStays, OwnerOf
<1>6. CASE owner[p] = None
  BY <1>1, <1>4, <1>6 DEF OwnerComes, OwnerStays, OwnerOf
<1>7. CASE owner[o] # None /\ owner[p] # None
  BY <1>1, <1>3, <1>4, <1>7 DEF OwnerStays
<1> QED  BY <1>5, <1>6, <1>7

LEMMA EmailsDiffer ==
  ASSUME TypeOK, RequestsInv, Unique, NEW r \in Requests, Step(r),
         NEW o \in Rows, NEW p \in Rows, o # p, owner'[o] # None, owner'[p] # None,
         owner'[o].email # None
  PROVE  owner'[o].email # owner'[p].email
<1>1. OwnerStays(r, o) /\ OwnerComes(r, o) /\ OwnerStays(r, p) /\ OwnerComes(r, p)
  BY Owners
<1>2. owner[o] # None /\ owner[p] # None /\ owner[o].email # None => owner[o].email # owner[p].email
  BY DEF Unique
<1>3. \A x \in Rows : \A e : owner[x] # None /\ e # None /\ owner[x].email = e => x \in WithEmail(e)
  BY DEF WithEmail
<1>4. CASE owner[o] = None
  <2>1. owner'[o].email = Email(r) /\ WithEmail(Email(r)) = {} /\ o = r /\ pc[r] = "create"
    BY <1>1, <1>4 DEF OwnerComes, OwnerOf
  <2>2. owner[p] # None /\ owner'[p].email = owner[p].email
    BY <1>1, <2>1 DEF OwnerComes, OwnerStays
  <2> QED  BY <1>3, <2>1, <2>2
<1>5. CASE owner[p] = None
  <2>1. owner'[p].email = Email(r) /\ WithEmail(Email(r)) = {} /\ p = r /\ pc[r] = "create"
    BY <1>1, <1>5 DEF OwnerComes, OwnerOf
  <2>2. owner[o] # None /\ owner'[o].email = owner[o].email
    BY <1>1, <2>1 DEF OwnerComes, OwnerStays
  <2> QED  BY <1>3, <2>1, <2>2
<1>6. CASE owner[o] # None /\ owner[p] # None
  <2>1. CASE owner'[o].email # owner[o].email
    <3>1. owner'[o].email = Email(r) /\ WithEmail(Email(r)) \subseteq {o} /\ o = who[r]
      BY <1>1, <1>6, <2>1 DEF OwnerStays
    <3>2. owner'[p].email = owner[p].email  BY <1>1, <1>6, <3>1 DEF OwnerStays
    <3> QED  BY <1>3, <1>6, <3>1, <3>2
  <2>2. CASE owner'[p].email # owner[p].email
    <3>1. owner'[p].email = Email(r) /\ WithEmail(Email(r)) \subseteq {p} /\ p = who[r]
      BY <1>1, <1>6, <2>2 DEF OwnerStays
    <3>2. owner'[o].email = owner[o].email  BY <1>1, <1>6, <3>1 DEF OwnerStays
    <3> QED  BY <1>3, <1>6, <3>1, <3>2
  <2> QED  BY <1>2, <1>6, <2>1, <2>2
<1> QED  BY <1>4, <1>5, <1>6

LEMMA AgentsDiffer ==
  ASSUME TypeOK, RequestsInv, Unique, NEW r \in Requests, Step(r),
         NEW a \in Requests, NEW b \in Requests, a # b, agent'[a] # None, agent'[b] # None
  PROVE  agent'[a] # agent'[b]
<1>1. AgentStays(r, a) /\ AgentComes(r, a) /\ AgentStays(r, b) /\ AgentComes(r, b)
  BY Agents
<1>2. agent[a] # None /\ agent[b] # None => agent[a] # agent[b]  BY DEF Unique
<1> DEFINE new == [owner |-> who[r], name |-> Name(r)]
<1>3. \A x \in Requests : agent[x] # None /\ agent[x] = new => x \in Called(who[r], Name(r))
  BY DEF Called
<1>4. CASE agent[a] = None
  <2>1. agent'[a] = new /\ Called(who[r], Name(r)) = {} /\ a = r /\ pc[r] = "createAgent"
    BY <1>1, <1>4 DEF AgentComes
  <2>2. agent[b] # None /\ agent'[b] = agent[b]  BY <1>1, <2>1 DEF AgentComes, AgentStays
  <2> QED  BY <1>3, <2>1, <2>2
<1>5. CASE agent[b] = None
  <2>1. agent'[b] = new /\ Called(who[r], Name(r)) = {} /\ b = r /\ pc[r] = "createAgent"
    BY <1>1, <1>5 DEF AgentComes
  <2>2. agent[a] # None /\ agent'[a] = agent[a]  BY <1>1, <2>1 DEF AgentComes, AgentStays
  <2> QED  BY <1>3, <2>1, <2>2
<1>6. CASE agent[a] # None /\ agent[b] # None
  <2>1. CASE agent'[a] # agent[a]
    <3>1. agent'[a] = new /\ Called(who[r], Name(r)) \subseteq {a} /\ a = task[r].agent
      BY <1>1, <1>6, <2>1 DEF AgentStays
    <3>2. agent'[b] = agent[b]  BY <1>1, <1>6, <3>1 DEF AgentStays
    <3> QED  BY <1>3, <1>6, <3>1, <3>2
  <2>2. CASE agent'[b] # agent[b]
    <3>1. agent'[b] = new /\ Called(who[r], Name(r)) \subseteq {b} /\ b = task[r].agent
      BY <1>1, <1>6, <2>2 DEF AgentStays
    <3>2. agent'[a] = agent[a]  BY <1>1, <1>6, <3>1 DEF AgentStays
    <3> QED  BY <1>3, <1>6, <3>1, <3>2
  <2> QED  BY <1>2, <1>6, <2>1, <2>2
<1> QED  BY <1>4, <1>5, <1>6

LEMMA UniqueStep ==
  ASSUME TypeOK, RequestsInv, Unique, [Next]_vars
  PROVE  Unique'
<1>1. CASE Aside
  <2>1. owner' = owner /\ agent' = agent  BY <1>1 DEF Aside
  <2>2. \A k \in Rows : Issued(k) => Issued(k)'  BY IssuedStays
  <2>3. ASSUME NEW o \in Rows, owner[o] # None  PROVE Issued(owner[o].key)'
    <3>1. PICK k \in Rows : k = owner[o].key  BY <2>3 DEF TypeOK, OwnerRows
    <3>2. Issued(k)'  BY <2>2, <2>3, <3>1 DEF Unique
    <3> QED  BY <2>1, <3>1, <3>2 DEF Issued
  <2> QED  BY <2>1, <2>3 DEF Unique
<1>2. ASSUME NEW r \in Requests, Step(r)  PROVE Unique'
  <2>1. \A o \in Rows : owner'[o] # None => Issued(owner[o].key)'  BY <1>2, KeysIssued
  <2>2. \A o, p \in Rows : owner'[o] # None /\ owner'[p] # None /\ o # p =>
          /\ owner'[o].key # owner'[p].key
          /\ owner'[o].email = None \/ owner'[o].email # owner'[p].email
    BY <1>2, KeysDiffer, EmailsDiffer
  <2>3. \A a, b \in Requests : agent'[a] # None /\ agent'[b] # None /\ a # b => agent'[a] # agent'[b]
    BY <1>2, AgentsDiffer
  <2> QED  BY <2>1, <2>2, <2>3 DEF Unique
<1> QED  BY <1>1, <1>2, Steps

-----------------------------------------------------------------------------
(* Uses and admissions. *)

LEMMA FewOwners ==
  ASSUME NEW c
  PROVE  IsFiniteSet(AdmittedBy(c))
<1>1. IsFiniteSet(Rows)  BY AccountsAssumption, FS_Union DEF Rows
<1>2. AdmittedBy(c) \subseteq Rows  BY DEF AdmittedBy
<1> QED  BY <1>1, <1>2, FS_Subset

LEMMA AdmissionsStep ==
  ASSUME TypeOK, RequestsInv, Admissions, [Next]_vars
  PROVE  Admissions'
<1>1. CASE Aside
  BY <1>1 DEF Aside, Admissions, InvitesAdmitTheirUses, AdmittedBy
<1>2. ASSUME NEW r \in Requests, Step(r), NEW c \in Codes
      PROVE  /\ invite'[c] # None =>
                  invite'[c].uses = Cardinality(AdmittedBy(c)') /\ invite'[c].uses <= MaxUses[c]
             /\ invite'[c] = None => AdmittedBy(c)' = {}
  <2>1. InviteStays(r, c) /\ InviteComes(r, c)  BY <1>2, Invites
  <2>2. \A o \in Rows : OwnerStays(r, o) /\ OwnerComes(r, o)  BY <1>2, Owners
  <2>3. /\ invite[c] # None =>
             invite[c].uses = Cardinality(AdmittedBy(c)) /\ invite[c].uses <= MaxUses[c]
        /\ invite[c] = None => AdmittedBy(c) = {}
    BY DEF Admissions, InvitesAdmitTheirUses
  <2>4. CASE ~(Created(r) /\ c = Code(r))
    <3>1. AdmittedBy(c)' = AdmittedBy(c)
      <4>1. ASSUME NEW o \in Rows
            PROVE  owner'[o] # None /\ owner'[o].invite = c
                     <=> owner[o] # None /\ owner[o].invite = c
        BY <2>2, <2>4 DEF OwnerStays, OwnerComes, Created, OwnerOf
      <4> QED  BY <4>1 DEF AdmittedBy
    <3>2. Cardinality({}) = 0  BY FS_EmptySet
    <3>3. MaxUses[c] \in Nat  BY AccountsAssumption
    <3>4. CASE invite[c] # None
      BY <2>1, <2>3, <2>4, <3>1, <3>4 DEF InviteStays
    <3>5. CASE invite[c] = None
      <4>1. AdmittedBy(c)' = {}  BY <2>3, <3>1, <3>5
      <4>2. invite'[c] # None => invite'[c].uses = 0  BY <2>1, <3>5 DEF InviteComes
      <4> QED  BY <3>2, <3>3, <4>1, <4>2
    <3> QED  BY <3>4, <3>5
  <2>5. CASE Created(r) /\ c = Code(r)
    <3>1. pc[r] = "create" /\ owner'[r] = OwnerOf(r)  BY <1>2, <2>5, Creating
    <3>2. c # None  BY AccountNamesAssumption
    <3>3. invite[c] # None /\ invite[c].uses < MaxUses[c]
      BY <2>5, <3>1, <3>2 DEF RequestsInv, Spending
    <3>4. invite'[c] # None /\ invite'[c].uses = invite[c].uses + 1
      BY <2>1, <2>5, <3>3 DEF InviteStays
    <3>5. AdmittedBy(c)' = AdmittedBy(c) \cup {r} /\ r \notin AdmittedBy(c)
      <4>1. ASSUME NEW o \in Rows, o # r
            PROVE  owner'[o] # None /\ owner'[o].invite = c
                     <=> owner[o] # None /\ owner[o].invite = c
        BY <2>2, <4>1 DEF OwnerStays, OwnerComes
      <4>2. owner[r] = None /\ owner'[r] # None /\ owner'[r].invite = c
        BY <2>5, <3>1 DEF Created, OwnerOf
      <4> QED  BY <4>1, <4>2 DEF AdmittedBy, Rows
    <3>6. Cardinality(AdmittedBy(c)') = Cardinality(AdmittedBy(c)) + 1
      BY <3>5, FewOwners, FS_AddElement
    <3>7. invite[c].uses \in Nat /\ MaxUses[c] \in Nat
      BY <3>3, AccountsAssumption DEF TypeOK, InviteRows
    <3>8. invite[c].uses + 1 <= MaxUses[c]  BY <3>3, <3>7
    <3> QED  BY <2>3, <3>3, <3>4, <3>6, <3>8
  <2> QED  BY <2>4, <2>5
<1>3. ASSUME NEW r \in Requests, Step(r)  PROVE Admissions'
  BY <1>2, <1>3 DEF Admissions, InvitesAdmitTheirUses
<1> QED  BY <1>1, <1>3, Steps

-----------------------------------------------------------------------------
(* The invariant. *)

LEMMA FoundAgree ==
  ASSUME TypeOK, RequestsInv, NEW r \in Requests, NEW x \in earlier[r]
  PROVE  \/ outcome[r] # "failed" /\ (outcome[r] = "ok" => told[r] = x)
         \/ Moved(x, ChangedBy(Op(r)))
BY DEF RequestsInv, Found

LEMMA Agreement ==
  TypeOK /\ RequestsInv /\ Unique => RegistrationsAgree
<1> SUFFICES ASSUME TypeOK, RequestsInv, Unique,
                    NEW q \in Requests, NEW r \in Requests,
                    outcome[q] = "ok", outcome[r] = "ok", told[q] # told[r]
             PROVE  /\ Op(q) = "register" /\ Op(r) = "register" /\ Email(q) = Email(r)
                       /\ Email(q) # None => Moved(told[q], "claim") \/ Moved(told[r], "claim")
                    /\ Op(q) = "agent" /\ Op(r) = "agent" /\ who[q] = who[r] /\ Name(q) = Name(r)
                         => Moved(told[q], "rename") \/ Moved(told[r], "rename")
  BY FoundAgree DEF RegistrationsAgree
<1>1. Told(q) /\ Told(r)  BY DEF RequestsInv
<1>2. CASE /\ Op(q) = "register" /\ Op(r) = "register" /\ Email(q) = Email(r)
           /\ Email(q) # None
  <2>1. told[q] \in Rows /\ told[r] \in Rows /\ owner[told[q]] # None /\ owner[told[r]] # None
    BY <1>1, <1>2 DEF Told, TypeOK
  <2>2. owner[told[q]].email = None \/ owner[told[q]].email # owner[told[r]].email
    BY <2>1 DEF Unique
  <2> QED  BY <1>1, <1>2, <2>1, <2>2 DEF Told
<1>3. CASE Op(q) = "agent" /\ Op(r) = "agent" /\ who[q] = who[r] /\ Name(q) = Name(r)
  <2>1. /\ told[q] \in Requests /\ told[r] \in Requests
        /\ agent[told[q]] # None /\ agent[told[r]] # None
        /\ agent[told[q]].owner = agent[told[r]].owner
    BY <1>1, <1>3 DEF Told
  <2>2. agent[told[q]] # agent[told[r]]  BY <2>1 DEF Unique
  <2>3. agent[told[q]] \in AgentRows /\ agent[told[r]] \in AgentRows  BY <2>1 DEF TypeOK
  <2>4. agent[told[q]].name # agent[told[r]].name  BY <2>1, <2>2, <2>3 DEF AgentRows
  <2> QED  BY <1>1, <1>3, <2>4 DEF Told
<1> QED  BY <1>2, <1>3

\* The inductive part of AccountsInv; agreement follows from it.
Inductive == TypeOK /\ RequestsInv /\ Unique /\ Admissions /\ DeadKeysDoNothing

LEMMA InductiveInit == Init => Inductive
<1> SUFFICES ASSUME Init  PROVE Inductive
  OBVIOUS
<1>1. TypeOK  BY TypeInit
<1>2. \A o \in Rows : owner[o] # None =>
        o \in Known /\ owner[o].key = o /\ owner[o].email = None /\ owner[o].invite = None
  <2> SUFFICES ASSUME NEW o \in Rows, owner[o] # None
               PROVE  o \in Known /\ owner[o].key = o /\ owner[o].email = None
                        /\ owner[o].invite = None
    OBVIOUS
  <2>1. o \in Known /\ owner[o] = [email |-> None, key |-> o, invite |-> None]
    BY DEF Init
  <2> QED  BY <2>1
<1>3. \A r \in Requests : /\ pc[r] = "idle" /\ outcome[r] = "none" /\ agent[r] = None
                          /\ clock[r] = 0 /\ stale[r] = FALSE /\ earlier[r] = {}
  BY DEF Init
<1>4. now = 0  BY DEF Init
<1>5. \A r \in Requests : owner[r] = None  BY <1>2, AccountsAssumption DEF Rows
<1>6. RequestsInv
  BY <1>3, <1>4, <1>5 DEF RequestsInv, Placed, Made, Told, Found, Dated, Spending
<1>7. Unique
  <2>1. \A o \in Rows : owner[o] # None => Issued(owner[o].key)  BY <1>2 DEF Issued
  <2> QED  BY <1>2, <1>3, <2>1 DEF Unique
<1>8. \A c \in Codes : AdmittedBy(c) = {}
  <2>1. None \notin Codes  BY AccountNamesAssumption
  <2> QED  BY <1>2, <2>1 DEF AdmittedBy
<1>9. Admissions
  <2> SUFFICES ASSUME NEW c \in Codes
               PROVE  /\ invite[c] # None =>
                           invite[c].uses = Cardinality(AdmittedBy(c)) /\ invite[c].uses <= MaxUses[c]
                      /\ invite[c] = None => AdmittedBy(c) = {}
    BY DEF Admissions, InvitesAdmitTheirUses
  <2>1. invite[c] = IF c \in Minted THEN [uses |-> 0, expires |-> Life[c], revoked |-> None]
                    ELSE None
    BY DEF Init
  <2>2. invite[c] # None => invite[c].uses = 0  BY <2>1
  <2>3. MaxUses[c] \in Nat  BY AccountsAssumption
  <2>4. 0 <= MaxUses[c]  BY <2>3
  <2>5. AdmittedBy(c) = {} /\ Cardinality(AdmittedBy(c)) = 0  BY <1>8, FS_EmptySet
  <2> QED  BY <2>2, <2>4, <2>5
<1>10. DeadKeysDoNothing  BY <1>3 DEF DeadKeysDoNothing
<1> QED  BY <1>1, <1>6, <1>7, <1>9, <1>10 DEF Inductive

LEMMA InductiveStep == Inductive /\ [Next]_vars => Inductive'
BY TypeStep, RequestsStep, UniqueStep, AdmissionsStep, DeadStep DEF Inductive

LEMMA AlwaysInductive == Spec => []Inductive
BY InductiveInit, InductiveStep, PTL DEF Spec

LEMMA InductiveImplies == Inductive => AccountsInv
BY Agreement DEF Inductive, AccountsInv

\* Whatever the requests are and however they interleave: requests come to the
\* statements they should, a success is told of a row that is there, a transaction
\* that spends a use is alone, and e-mails, keys and an owner's names are unique.
THEOREM AccountsInvariant == Spec => []AccountsInv
BY AlwaysInductive, InductiveImplies, PTL

\* The UPDATE that spends a use judges it by the row as it stands, and the lock on
\* the row lasts to the commit: of any number of registrations, no more get in than
\* the code admits, and every use spent is an owner.
THEOREM InvitesAdmit == Spec => []InvitesAdmitTheirUses
<1>1. AccountsInv => InvitesAdmitTheirUses  BY DEF AccountsInv, Admissions
<1> QED  BY <1>1, AccountsInvariant, PTL

\* However the look-ups and the inserts of the requests interleave: who registers an
\* e-mail or a name that was there when the request came fails never and is told of
\* that row, and registrations that succeed are told of one row.  Of two first ones at
\* once the last to commit may fail; nothing is claimed of it.
THEOREM Agree == Spec => []RegistrationsAgree
<1>1. AccountsInv => RegistrationsAgree  BY DEF AccountsInv
<1> QED  BY <1>1, AccountsInvariant, PTL

\* A rotated key gets nothing done from the rotation on.
THEOREM DeadKeys == Spec => []DeadKeysDoNothing
<1>1. AccountsInv => DeadKeysDoNothing  BY DEF AccountsInv
<1> QED  BY <1>1, AccountsInvariant, PTL

LEMMA AdmitsWhileUsable ==
  ASSUME Inductive, [Next]_vars
  PROVE  \A r \in Requests : owner[r] = None /\ owner'[r] # None /\ Code(r) # None =>
           invite[Code(r)].revoked = None /\ clock[r] < invite[Code(r)].expires
<1> SUFFICES ASSUME NEW o \in Requests, owner[o] = None, owner'[o] # None, Code(o) # None
             PROVE  invite[Code(o)].revoked = None /\ clock[o] < invite[Code(o)].expires
  OBVIOUS
<1>1. ~Aside  BY DEF Aside
<1>2. PICK r \in Requests : Step(r)  BY <1>1, Steps DEF Inductive
<1>3. o = r /\ pc[r] = "create"  BY <1>2, Owners DEF OwnerComes, Inductive, Rows
<1> QED  BY <1>3 DEF Inductive, RequestsInv, Spending

\* A code admits nobody from its revocation on, nor after its expiry as the
\* transaction's clock has it, though registrations look at it several times.
THEOREM AdmitWhileUsable == Spec => CodesAdmitWhileUsable
BY AlwaysInductive, AdmitsWhileUsable, PTL DEF Spec, CodesAdmitWhileUsable

-----------------------------------------------------------------------------
(***************************************************************************)
(*                       PART II.  THE ACCESS GATE                         *)
(***************************************************************************)

-----------------------------------------------------------------------------
(* The gate runs next to Accounts. *)

LEMMA GateImplementsAccounts == GateSpec => Spec
<1>1. GateInit => Init  BY DEF GateInit
<1>2. [GateNext]_<<vars, gateVars>> => [Next]_vars
  <2>1. CASE \E g \in GateRequests : GateStep(g) /\ UNCHANGED vars  BY <2>1
  <2>2. CASE AccountsStep  BY <2>2 DEF AccountsStep, Next
  <2>3. CASE Tick /\ UNCHANGED gateVars  BY <2>3 DEF Next
  <2>4. CASE GateRestart  BY <2>4 DEF GateRestart, Next
  <2>5. CASE UNCHANGED <<vars, gateVars>>  BY <2>5
  <2> QED  BY <2>1, <2>2, <2>3, <2>4, <2>5 DEF GateNext
<1> QED  BY <1>1, <1>2, PTL DEF GateSpec, Spec

-----------------------------------------------------------------------------
(* Types. *)

LEMMA GateTaskTyping ==
  ASSUME GateTypeOK, NEW g \in GateRequests
  PROVE  /\ GateOp(g) \in {"handle", "grant", "revoke", "token"}
         /\ GateOp(g) = "handle" => Want(g).owner \in Rows /\ Want(g).handle \in Handles \cup {None}
         /\ GateOp(g) = "grant" =>
              Want(g).owner \in Rows /\ Want(g).resource \in Resources
                /\ Want(g).scopes \in SUBSET Scopes
         /\ GateOp(g) = "revoke" => Want(g).grant \in GateRequests
         /\ GateOp(g) = "token" =>
              Want(g).key \in Rows /\ Want(g).resource \in Resources
                /\ Want(g).scopes \in {None} \cup SUBSET Scopes
<1>1. gateTask[g] \in GateTasks  BY DEF GateTypeOK
<1> QED  BY <1>1 DEF GateTasks, GateOp, Want

LEMMA GateTypeInit == GateInit => GateTypeOK
<1> SUFFICES ASSUME GateInit  PROVE GateTypeOK
  OBVIOUS
<1>1. gateTask \in [GateRequests -> GateTasks]  BY GateAssumption DEF GateInit
<1> QED  BY <1>1 DEF GateInit, GateTypeOK, GatePC

\* The statements that write a table; each is one action.
GateWriters(g) ==
  /\ gatePc[g] = "setHandle" => SetHandle(g)
  /\ gatePc[g] = "insert" => InsertGrant(g)
  /\ gatePc[g] = "revoke" => RevokeGrant(g)
  /\ gatePc[g] = "sign" => SignToken(g)

LEMMA GateWriting ==
  ASSUME NEW g \in GateRequests, GateStep(g)
  PROVE  /\ GateWriters(g)
         /\ gatePc[g] \notin {"setHandle", "insert", "revoke", "sign"} =>
              UNCHANGED <<handle, access, token, ended>>
         /\ UNCHANGED <<gateTask, keyEnded>>
<1>1. CASE GateArrive(g)
  BY <1>1 DEF GateArrive, GateWriters, gateTables
<1>2. CASE ReadOwner(g) \/ HandleHolder(g) \/ CheckOwner(g) \/ FindReplaced(g)
           \/ ClaimReplaced(g) \/ FindGrant(g) \/ CheckKey(g) \/ FindLive(g)
  BY <1>2 DEF ReadOwner, HandleHolder, CheckOwner, FindReplaced, ClaimReplaced, FindGrant,
     CheckKey, FindLive, SameGate, GateWriters, gateTables
<1>3. CASE SetHandle(g) \/ InsertGrant(g) \/ RevokeGrant(g) \/ SignToken(g)
  BY <1>3 DEF SetHandle, InsertGrant, RevokeGrant, SignToken, GateWriters
<1> QED  BY <1>1, <1>2, <1>3 DEF GateStep

\* The other requests stay where they are, with what they have in hand.
GateElsewhere(g) ==
  \A h \in GateRequests \ {g} :
    /\ gatePc'[h] = gatePc[h] /\ done'[h] = done[h] /\ gateClock'[h] = gateClock[h]
    /\ subject'[h] = subject[h] /\ rows'[h] = rows[h] /\ token'[h] = token[h]
    /\ there'[h] = there[h] /\ over'[h] = over[h]

\* The types of what a step moves on.
GateMoving ==
  /\ gatePc' \in [GateRequests -> GatePC] /\ done' \in [GateRequests -> BOOLEAN]
  /\ gateClock' \in [GateRequests -> Nat] /\ subject' \in [GateRequests -> Rows \cup {None}]
  /\ rows' \in [GateRequests -> SUBSET GateRequests]
  /\ there' \in [GateRequests -> SUBSET GateRequests]
  /\ over' \in [GateRequests -> SUBSET GateRequests]

LEMMA GateMoves ==
  ASSUME GateTypeOK, NEW g \in GateRequests
  PROVE  /\ \A where \in GatePC \ {"end"} : GateGoto(g, where) =>
              /\ gatePc' \in [GateRequests -> GatePC] /\ done' \in [GateRequests -> BOOLEAN]
              /\ \A h \in GateRequests \ {g} : gatePc'[h] = gatePc[h] /\ done'[h] = done[h]
              /\ gatePc'[g] = where /\ done'[g] = done[g]
         /\ \A good \in BOOLEAN : Answer(g, good) =>
              /\ gatePc' \in [GateRequests -> GatePC] /\ done' \in [GateRequests -> BOOLEAN]
              /\ \A h \in GateRequests \ {g} : gatePc'[h] = gatePc[h] /\ done'[h] = done[h]
              /\ gatePc'[g] = "end" /\ done'[g] = good
<1>1. ASSUME NEW where \in GatePC \ {"end"}, GateGoto(g, where)
      PROVE  /\ gatePc' \in [GateRequests -> GatePC] /\ done' \in [GateRequests -> BOOLEAN]
             /\ \A h \in GateRequests \ {g} : gatePc'[h] = gatePc[h] /\ done'[h] = done[h]
             /\ gatePc'[g] = where /\ done'[g] = done[g]
  BY <1>1 DEF GateGoto, GateTypeOK
<1>2. ASSUME NEW good \in BOOLEAN, Answer(g, good)
      PROVE  /\ gatePc' \in [GateRequests -> GatePC] /\ done' \in [GateRequests -> BOOLEAN]
             /\ \A h \in GateRequests \ {g} : gatePc'[h] = gatePc[h] /\ done'[h] = done[h]
             /\ gatePc'[g] = "end" /\ done'[g] = good
  <2>1. "end" \in GatePC  BY DEF GatePC
  <2> QED  BY <1>2, <2>1 DEF Answer, GateTypeOK
<1> QED  BY <1>1, <1>2

\* What a request has in hand, by the statement it is at.
GateKeeps(g) ==
  /\ gatePc[g] # "end"
  /\ gatePc[g] # "idle" => there'[g] = there[g] /\ over'[g] = over[g]
  /\ gateClock'[g] = gateClock[g] \/ gateClock'[g] = now
  /\ gatePc[g] \notin {"idle", "find", "findGrant"} => gateClock'[g] = gateClock[g]
  /\ gatePc[g] # "key" => subject'[g] = subject[g]
  /\ gatePc[g] \notin {"find", "claim", "live"} => rows'[g] = rows[g]
  /\ gatePc[g] # "sign" => token'[g] = token[g]

LEMMA GateStepKeeps ==
  ASSUME GateTypeOK, TypeOK, NEW g \in GateRequests, GateStep(g)
  PROVE  GateKeeps(g) /\ GateElsewhere(g) /\ GateMoving
<1> DEFINE Moves == /\ gatePc' \in [GateRequests -> GatePC] /\ done' \in [GateRequests -> BOOLEAN]
                    /\ \A h \in GateRequests \ {g} : gatePc'[h] = gatePc[h] /\ done'[h] = done[h]
<1> DEFINE Rest == /\ GateKeeps(g)
                   /\ gateClock' \in [GateRequests -> Nat] /\ subject' \in [GateRequests -> Rows \cup {None}]
                   /\ rows' \in [GateRequests -> SUBSET GateRequests]
                   /\ there' \in [GateRequests -> SUBSET GateRequests]
                   /\ over' \in [GateRequests -> SUBSET GateRequests]
                   /\ \A h \in GateRequests \ {g} :
                        /\ gateClock'[h] = gateClock[h] /\ subject'[h] = subject[h]
                        /\ rows'[h] = rows[h] /\ token'[h] = token[h]
                        /\ there'[h] = there[h] /\ over'[h] = over[h]
<1>1. \A where : where \in GatePC /\ where # "end" /\ GateGoto(g, where) => Moves  BY GateMoves
<1>2. \A good : good \in BOOLEAN /\ Answer(g, good) => Moves  BY GateMoves
<1>3. Moves
  <2> HIDE DEF Moves, GateGoto, Answer
  <2>1. CASE GateArrive(g)  BY <2>1, <1>1, <1>2 DEF GateArrive, GatePC
  <2>2. CASE ReadOwner(g)  BY <2>2, <1>1, <1>2 DEF ReadOwner, GatePC
  <2>3. CASE HandleHolder(g) \/ CheckOwner(g)
    BY <2>3, <1>1, <1>2 DEF HandleHolder, CheckOwner, GatePC
  <2>4. CASE FindReplaced(g) \/ ClaimReplaced(g)
    BY <2>4, <1>1 DEF FindReplaced, ClaimReplaced, GatePC
  <2>5. CASE FindGrant(g)  BY <2>5, <1>1, <1>2 DEF FindGrant, GatePC
  <2>6. CASE CheckKey(g)  BY <2>6, <1>1, <1>2 DEF CheckKey, GatePC
  <2>7. CASE FindLive(g)  BY <2>7, <1>1, <1>2 DEF FindLive, GatePC
  <2>8. CASE SetHandle(g) \/ InsertGrant(g) \/ RevokeGrant(g) \/ SignToken(g)
    BY <2>8, <1>2 DEF SetHandle, InsertGrant, RevokeGrant, SignToken
  <2> QED  BY <2>1, <2>2, <2>3, <2>4, <2>5, <2>6, <2>7, <2>8 DEF GateStep
<1>4. Rest
  <2> USE DEF GateKeeps
  <2>1. CASE GateArrive(g)
    <3>1. /\ gateClock' = [gateClock EXCEPT ![g] = now]
          /\ there' = [there EXCEPT ![g] = {a \in GateRequests : access[a] # None}]
          /\ over' = [over EXCEPT ![g] = {a \in GateRequests : access[a] # None /\ ~Live(a)}]
          /\ subject' = subject /\ rows' = rows /\ token' = token /\ gatePc[g] = "idle"
      BY <2>1 DEF GateArrive, gateTables
    <3> QED  BY <3>1 DEF GateTypeOK, TypeOK
  <2>2. CASE ReadOwner(g) \/ HandleHolder(g) \/ CheckOwner(g)
    BY <2>2 DEF ReadOwner, HandleHolder, CheckOwner, SameGate, gateTables, gateHistory, GateTypeOK
  <2>3. CASE FindReplaced(g)
    <3>1. LiveFor(Want(g).owner, Want(g).resource) \subseteq GateRequests  BY DEF LiveFor
    <3> QED
      BY <2>3, <3>1 DEF FindReplaced, SameGate, gateTables, gateHistory, GateTypeOK, TypeOK
  <2>4. CASE ClaimReplaced(g)
    <3>1. {a \in rows[g] : Live(a)} \subseteq GateRequests  BY DEF GateTypeOK
    <3> QED  BY <2>4, <3>1 DEF ClaimReplaced, SameGate, gateTables, gateHistory, GateTypeOK
  <2>5. CASE FindGrant(g)
    <3>1. gateClock' = gateClock \/ gateClock' = [gateClock EXCEPT ![g] = now]
      BY <2>5 DEF FindGrant
    <3>2. /\ gatePc[g] = "findGrant" /\ UNCHANGED <<subject, rows, token, there, over>>
      BY <2>5 DEF FindGrant, SameGate, gateTables, gateHistory
    <3>3. gateClock' \in [GateRequests -> Nat] /\ (gateClock'[g] = gateClock[g] \/ gateClock'[g] = now)
            /\ \A h \in GateRequests \ {g} : gateClock'[h] = gateClock[h]
      BY <3>1 DEF GateTypeOK, TypeOK
    <3> QED  BY <3>2, <3>3 DEF GateTypeOK
  <2>6. CASE CheckKey(g)
    <3>1. subject' = subject \/ \E o \in Rows : subject' = [subject EXCEPT ![g] = o]
      BY <2>6 DEF CheckKey, HeldBy
    <3> QED  BY <2>6, <3>1 DEF CheckKey, SameGate, gateTables, gateHistory, GateTypeOK
  <2>7. CASE FindLive(g)
    <3>1. rows' = rows \/ \E a \in GateRequests : rows' = [rows EXCEPT ![g] = {a}]
      BY <2>7 DEF FindLive, LiveFor
    <3> QED  BY <2>7, <3>1 DEF FindLive, SameGate, gateTables, gateHistory, GateTypeOK
  <2>8. CASE SetHandle(g) \/ InsertGrant(g) \/ RevokeGrant(g)
    BY <2>8 DEF SetHandle, InsertGrant, RevokeGrant, gateHistory, GateTypeOK
  <2>9. CASE SignToken(g)
    <3>1. \E t : token' = [token EXCEPT ![g] = t]  BY <2>9 DEF SignToken
    <3> QED  BY <2>9, <3>1 DEF SignToken, gateHistory, GateTypeOK
  <2> QED
    BY <2>1, <2>2, <2>3, <2>4, <2>5, <2>6, <2>7, <2>8, <2>9 DEF GateStep
<1> QED  BY <1>3, <1>4 DEF GateElsewhere, GateMoving

-----------------------------------------------------------------------------
(* What a step does to the grants. *)

\* A grant stays what it is; its revocation takes effect the first time it is revoked,
\* and nobody revokes what another transaction has locked.
GrantStays(g, a) ==
  access[a] # None =>
    /\ access'[a] # None /\ access'[a].owner = access[a].owner
    /\ access'[a].resource = access[a].resource /\ access'[a].scopes = access[a].scopes
    /\ \/ access'[a].revoked = access[a].revoked /\ ended'[a] = ended[a]
       \/ /\ access'[a].revoked # None
          /\ \A h \in GateRequests \ {g} : gatePc[h] = "insert" => a \notin rows[h]
          /\ ended'[a] = now \/ (ended[a] # None /\ ended'[a] = ended[a])

\* A new grant is the request's own.
GrantComes(g, a) ==
  access[a] = None =>
    /\ ended'[a] = ended[a]
    /\ access'[a] # None =>
         /\ a = g /\ gatePc[g] = "insert" /\ access'[g].revoked = None
         /\ access'[g].owner = Want(g).owner /\ access'[g].resource = Want(g).resource
         /\ access'[g].scopes = Want(g).scopes

LEMMA Grants ==
  ASSUME TypeOK, GateTypeOK, GateRequestsInv, NEW g \in GateRequests, GateStep(g),
         NEW a \in GateRequests
  PROVE  GrantStays(g, a) /\ GrantComes(g, a)
<1> USE DEF GrantStays, GrantComes
<1>1. CASE access'[a] = access[a] /\ ended'[a] = ended[a]  BY <1>1
<1>2. CASE gatePc[g] = "insert"
  <2>1. InsertGrant(g)  BY <1>2, GateWriting DEF GateWriters
  <2>2. PICK time \in gateClock[g]..now : access' = [b \in GateRequests |->
          IF b = g THEN NewGrant(g, time)
          ELSE IF b \in rows[g] THEN [access[b] EXCEPT !.revoked = gateClock[g]] ELSE access[b]]
    BY <2>1 DEF InsertGrant
  <2>3. ended' = [b \in GateRequests |-> IF b \in rows[g] THEN now ELSE ended[b]]
    BY <2>1 DEF InsertGrant
  <2>4. access[g] = None  BY <1>2 DEF GateRequestsInv, GatePlaced
  <2>5. \A b \in rows[g] : access[b] # None
    BY <1>2 DEF GateRequestsInv, Replacing, Live
  <2>6. CASE a = g
    <3>1. access'[g] = NewGrant(g, time)  BY <2>2
    <3>2. ended'[g] = ended[g]  BY <2>3, <2>4, <2>5
    <3> QED  BY <1>2, <2>4, <2>6, <3>1, <3>2 DEF NewGrant
  <2>7. CASE a # g /\ a \in rows[g]
    <3>1. access[a] # None /\ access[a] \in GrantRows  BY <2>5, <2>7 DEF GateTypeOK
    <3>2. access'[a] = [access[a] EXCEPT !.revoked = gateClock[g]] /\ ended'[a] = now
      BY <2>2, <2>3, <2>7
    <3>3. gateClock[g] \in Nat  BY DEF GateTypeOK
    <3>4. access'[a] \in GrantRows  BY <3>1, <3>2, <3>3 DEF GrantRows
    <3>5. access'[a] # None  BY <3>4, GateNamesAssumption
    <3>6. /\ access'[a].owner = access[a].owner /\ access'[a].resource = access[a].resource
          /\ access'[a].scopes = access[a].scopes /\ access'[a].revoked = gateClock[g]
      BY <3>1, <3>2 DEF GrantRows
    <3>7. gateClock[g] # None  BY <3>3, AccountNamesAssumption
    <3>8. \A h \in GateRequests \ {g} : gatePc[h] = "insert" => a \notin rows[h]
      BY <1>2, <2>7 DEF GateRequestsInv, Replacing
    <3> QED  BY <3>1, <3>2, <3>5, <3>6, <3>7, <3>8
  <2>8. CASE a # g /\ a \notin rows[g]  BY <2>8, <2>2, <2>3, <1>1
  <2> QED  BY <2>6, <2>7, <2>8
<1>3. CASE gatePc[g] = "revoke"
  <2>1. RevokeGrant(g)  BY <1>3, GateWriting DEF GateWriters
  <2>2. CASE a # Want(g).grant
    <3>1. access'[a] = access[a] /\ ended'[a] = ended[a]
      BY <2>1, <2>2 DEF RevokeGrant, GateTypeOK
    <3> QED  BY <3>1, <1>1
  <2>3. CASE a = Want(g).grant
    <3>1. access[a] # None /\ access[a] \in GrantRows
      BY <1>3, <2>3 DEF GateRequestsInv, GatePlaced, GateTypeOK
    <3>2. access' = [access EXCEPT ![a] = [access[a] EXCEPT !.revoked = gateClock[g]]]
      BY <2>1, <2>3 DEF RevokeGrant
    <3>3. access'[a] = [access[a] EXCEPT !.revoked = gateClock[g]]
      BY <3>2 DEF GateTypeOK
    <3>4. ended'[a] = IF ended[a] = None THEN now ELSE ended[a]
      BY <2>1, <2>3 DEF RevokeGrant, GateTypeOK
    <3>5. gateClock[g] \in Nat  BY DEF GateTypeOK
    <3>6. access'[a] \in GrantRows  BY <3>1, <3>3, <3>5 DEF GrantRows
    <3>7. access'[a] # None  BY <3>6, GateNamesAssumption
    <3>8. /\ access'[a].owner = access[a].owner /\ access'[a].resource = access[a].resource
          /\ access'[a].scopes = access[a].scopes /\ access'[a].revoked = gateClock[g]
      BY <3>1, <3>3 DEF GrantRows
    <3>9. gateClock[g] # None  BY <3>5, AccountNamesAssumption
    <3>10. \A h \in GateRequests : gatePc[h] = "insert" => a \notin rows[h]
      BY <2>1, <2>3 DEF RevokeGrant, GrantLocked
    <3> QED  BY <3>1, <3>4, <3>7, <3>8, <3>9, <3>10
  <2> QED  BY <2>2, <2>3
<1>4. CASE gatePc[g] \notin {"insert", "revoke"}
  <2>1. access' = access /\ ended' = ended
    BY <1>4, GateWriting DEF GateWriters, SetHandle, SignToken
  <2> QED  BY <2>1, <1>1
<1> QED  BY <1>2, <1>3, <1>4

\* The tokens: one is made by its own request, from the grant it has in hand.
LEMMA TokenComes ==
  ASSUME GateTypeOK, GateRequestsInv, NEW g \in GateRequests, GateStep(g), token'[g] # token[g]
  PROVE  /\ gatePc[g] = "sign" /\ token[g] = None
         /\ \E a \in rows[g] : token'[g] = TokenFor(g, a, gateClock[g])
<1>1. gatePc[g] = "sign"
  BY GateWriting DEF GateWriters, SetHandle, InsertGrant, RevokeGrant
<1>2. SignToken(g)  BY <1>1, GateWriting DEF GateWriters
<1>3. token[g] = None  BY <1>1 DEF GateRequestsInv, GatePlaced
<1>4. \E a \in rows[g] : token'[g] = TokenFor(g, a, gateClock[g])
  BY <1>2 DEF SignToken, GateTypeOK
<1> QED  BY <1>1, <1>3, <1>4

\* Handles: one is written while its owner is there and nobody else has it.
LEMMA HandleWritten ==
  ASSUME GateTypeOK, GateRequestsInv, NEW g \in GateRequests, GateStep(g), handle' # handle
  PROVE  /\ gatePc[g] = "setHandle" /\ handle' = [handle EXCEPT ![Want(g).owner] = Want(g).handle]
         /\ Want(g).owner \in Rows /\ owner[Want(g).owner] # None
         /\ Want(g).handle \in Handles \cup {None}
         /\ HandleHolders(Want(g).handle) \subseteq {Want(g).owner}
<1>1. gatePc[g] = "setHandle"
  BY GateWriting DEF GateWriters, InsertGrant, RevokeGrant, SignToken
<1>2. SetHandle(g)  BY <1>1, GateWriting DEF GateWriters
<1>3. GateOp(g) = "handle" /\ owner[Want(g).owner] # None
  BY <1>1 DEF GateRequestsInv, GatePlaced
<1>4. Want(g).owner \in Rows /\ Want(g).handle \in Handles \cup {None}
  BY <1>3, GateTaskTyping
<1> QED  BY <1>1, <1>2, <1>3, <1>4 DEF SetHandle

LEMMA GateTypeStep ==
  ASSUME TypeOK, GateTypeOK, GateRequestsInv, NEW g \in GateRequests, GateStep(g)
  PROVE  GateTypeOK'
<1>1. GateMoving /\ GateElsewhere(g)  BY GateStepKeeps
<1>2. gateTask' = gateTask /\ keyEnded' = keyEnded  BY GateWriting
<1>3. handle' \in [Rows -> Handles \cup {None}]
  <2>1. CASE handle' = handle  BY <2>1 DEF GateTypeOK
  <2>2. CASE handle' # handle  BY <2>2, HandleWritten DEF GateTypeOK
  <2> QED  BY <2>1, <2>2
<1>4. token' \in [GateRequests -> Tokens \cup {None}]
  <2>1. CASE gatePc[g] = "sign"
    <3>1. PICK a \in rows[g] : token' = [token EXCEPT ![g] = TokenFor(g, a, gateClock[g])]
      BY <2>1, GateWriting DEF GateWriters, SignToken
    <3>2. PICK b \in GateRequests : rows[g] = {b} /\ access[b] # None
      BY <2>1 DEF GateRequestsInv, Signing
    <3>3. a = b /\ access[a] \in GrantRows  BY <3>1, <3>2 DEF GateTypeOK
    <3>4. subject[g] \in Rows /\ GateOp(g) = "token"
      BY <2>1 DEF GateRequestsInv, GatePlaced, GateTypeOK
    <3>5. TokenFor(g, a, gateClock[g]) \in Tokens
      <4>1. Want(g).resource \in Resources /\ Want(g).scopes \in {None} \cup SUBSET Scopes
        BY <3>4, GateTaskTyping
      <4>2. (IF Want(g).scopes = None THEN access[a].scopes ELSE Want(g).scopes) \in SUBSET Scopes
        BY <4>1, <3>3 DEF GrantRows
      <4>3. handle[subject[g]] \in Handles \cup {None} /\ gateClock[g] + Ttl \in Nat
        BY <3>4, GateAssumption DEF GateTypeOK
      <4> QED  BY <4>1, <4>2, <4>3, <3>3, <3>2, <3>4 DEF TokenFor, Tokens
    <3> QED  BY <3>1, <3>5 DEF GateTypeOK
  <2>2. CASE gatePc[g] # "sign"
    <3>1. token' = token
      BY <2>2, GateWriting DEF GateWriters, SetHandle, InsertGrant, RevokeGrant
    <3> QED  BY <3>1 DEF GateTypeOK
  <2> QED  BY <2>1, <2>2
<1>5. access' \in [GateRequests -> GrantRows \cup {None}]
      /\ ended' \in [GateRequests -> Nat \cup {None}]
  <2>1. CASE gatePc[g] = "insert"
    <3>1. InsertGrant(g) /\ GateOp(g) = "grant"
      BY <2>1, GateWriting DEF GateWriters, GateRequestsInv, GatePlaced
    <3>2. PICK time \in gateClock[g]..now : access' = [b \in GateRequests |->
            IF b = g THEN NewGrant(g, time)
            ELSE IF b \in rows[g] THEN [access[b] EXCEPT !.revoked = gateClock[g]] ELSE access[b]]
      BY <3>1 DEF InsertGrant
    <3>3. NewGrant(g, time) \in GrantRows
      <4>1. time \in Nat  BY DEF GateTypeOK, TypeOK
      <4> QED  BY <4>1, <3>1, GateTaskTyping DEF NewGrant, GrantRows
    <3>4. \A b \in rows[g] : [access[b] EXCEPT !.revoked = gateClock[g]] \in GrantRows
      <4> SUFFICES ASSUME NEW b \in rows[g]
                   PROVE  [access[b] EXCEPT !.revoked = gateClock[g]] \in GrantRows
        OBVIOUS
      <4>1. b \in GateRequests /\ access[b] # None
        BY <2>1 DEF GateRequestsInv, Replacing, Live, GateTypeOK
      <4>2. access[b] \in GrantRows /\ gateClock[g] \in Nat  BY <4>1 DEF GateTypeOK
      <4> QED  BY <4>2 DEF GrantRows
    <3>5. access' \in [GateRequests -> GrantRows \cup {None}]
      BY <3>2, <3>3, <3>4 DEF GateTypeOK
    <3>6. ended' = [a \in GateRequests |-> IF a \in rows[g] THEN now ELSE ended[a]]
      BY <3>1 DEF InsertGrant
    <3> QED  BY <3>5, <3>6 DEF GateTypeOK, TypeOK
  <2>2. CASE gatePc[g] = "revoke"
    <3>1. RevokeGrant(g) /\ GateOp(g) = "revoke" /\ access[Want(g).grant] # None
      BY <2>2, GateWriting DEF GateWriters, GateRequestsInv, GatePlaced
    <3>2. Want(g).grant \in GateRequests  BY <3>1, GateTaskTyping
    <3>3. access[Want(g).grant] \in GrantRows /\ gateClock[g] \in Nat
      BY <3>1, <3>2 DEF GateTypeOK
    <3>4. [access[Want(g).grant] EXCEPT !.revoked = gateClock[g]] \in GrantRows
      BY <3>3 DEF GrantRows
    <3>5. access' \in [GateRequests -> GrantRows \cup {None}]
      BY <3>1, <3>2, <3>4 DEF RevokeGrant, GateTypeOK
    <3> QED  BY <3>1, <3>2, <3>5 DEF RevokeGrant, GateTypeOK, TypeOK
  <2>3. CASE gatePc[g] \notin {"insert", "revoke"}
    <3>1. access' = access /\ ended' = ended
      BY <2>3, GateWriting DEF GateWriters, SetHandle, SignToken
    <3> QED  BY <3>1 DEF GateTypeOK
  <2> QED  BY <2>1, <2>2, <2>3
<1> QED  BY <1>1, <1>2, <1>3, <1>4, <1>5 DEF GateTypeOK, GateMoving

-----------------------------------------------------------------------------
(* How a request comes to a statement, and with what in hand. *)

GateReaches(g) ==
  /\ gatePc'[g] # "idle"
  /\ gatePc'[g] = "readOwner" => GateOp(g) = "handle"
  /\ gatePc'[g] = "holder" => gatePc[g] = "readOwner" /\ owner[Want(g).owner] # None
  /\ gatePc'[g] = "setHandle" =>
       \/ gatePc[g] = "readOwner" /\ owner[Want(g).owner] # None
       \/ gatePc[g] = "holder"
  /\ gatePc'[g] = "checkOwner" => GateOp(g) = "grant"
  /\ gatePc'[g] = "find" => gatePc[g] = "checkOwner"
  /\ gatePc'[g] = "claim" =>
       gatePc[g] = "find" /\ rows'[g] = LiveFor(Want(g).owner, Want(g).resource)
  /\ gatePc'[g] = "insert" =>
       /\ gatePc[g] = "claim" /\ rows'[g] = {a \in rows[g] : Live(a)}
       /\ \A a \in rows[g] : ~GrantLocked(a)
  /\ gatePc'[g] = "findGrant" => GateOp(g) = "revoke"
  /\ gatePc'[g] = "revoke" => gatePc[g] = "findGrant" /\ access[Want(g).grant] # None
  /\ gatePc'[g] = "key" => GateOp(g) = "token"
  /\ gatePc'[g] = "live" => gatePc[g] = "key" /\ subject'[g] \in HeldBy(Want(g).key)
  /\ gatePc'[g] = "sign" =>
       /\ gatePc[g] = "live"
       /\ \E a \in LiveFor(subject[g], Want(g).resource) : rows'[g] = {a} /\ Granted(g, a)
  /\ done'[g] => gatePc'[g] = "end"
       /\ gatePc[g] \in {"readOwner", "setHandle", "insert", "findGrant", "revoke", "sign"}

LEMMA GateReaching ==
  ASSUME TypeOK, GateTypeOK, GateRequestsInv, NEW g \in GateRequests, GateStep(g)
  PROVE  GateReaches(g)
<1>1. ~done[g]
  BY GateStepKeeps DEF GateKeeps, GateRequestsInv, GatePlaced
<1>2. \A where : where \in GatePC \ {"end"} /\ GateGoto(g, where) =>
        gatePc'[g] = where /\ ~done'[g]
  BY <1>1, GateMoves
<1>3. \A good : good \in BOOLEAN /\ Answer(g, good) => gatePc'[g] = "end" /\ done'[g] = good
  BY GateMoves
<1> HIDE DEF GateGoto, Answer
<1> USE DEF GateReaches
<1>4. CASE GateArrive(g)
  <2>1. CASE \E good \in BOOLEAN : good = FALSE /\ Answer(g, good)  BY <2>1, <1>3
  <2>2. CASE GateOp(g) = "handle" /\ GateGoto(g, "readOwner")  BY <2>2, <1>2 DEF GatePC
  <2>3. CASE GateOp(g) = "grant" /\ GateGoto(g, "checkOwner")  BY <2>3, <1>2 DEF GatePC
  <2>4. CASE GateOp(g) = "revoke" /\ GateGoto(g, "findGrant")  BY <2>4, <1>2 DEF GatePC
  <2>5. CASE GateOp(g) = "token" /\ GateGoto(g, "key")  BY <2>5, <1>2 DEF GatePC
  <2> QED  BY <1>4, <2>1, <2>2, <2>3, <2>4, <2>5 DEF GateArrive
<1>5. CASE ReadOwner(g)
  <2>1. /\ gatePc[g] = "readOwner" /\ gatePc'[g] \in {"holder", "setHandle", "end"}
        /\ gatePc'[g] # "end" => ~done'[g] /\ owner[Want(g).owner] # None
    BY <1>5, <1>2, <1>3 DEF ReadOwner, GatePC
  <2> QED  BY <2>1
<1>6. CASE HandleHolder(g)
  <2>1. gatePc[g] = "holder" /\ gatePc'[g] \in {"setHandle", "end"} /\ ~done'[g]
    BY <1>6, <1>2, <1>3 DEF HandleHolder, GatePC
  <2> QED  BY <2>1
<1>7. CASE CheckOwner(g)
  <2>1. gatePc[g] = "checkOwner" /\ gatePc'[g] \in {"find", "end"} /\ ~done'[g]
    BY <1>7, <1>2, <1>3 DEF CheckOwner, GatePC
  <2> QED  BY <2>1
<1>8. CASE FindReplaced(g)
  <2>1. /\ gatePc[g] = "find" /\ gatePc'[g] = "claim" /\ ~done'[g]
        /\ rows' = [rows EXCEPT ![g] = LiveFor(Want(g).owner, Want(g).resource)]
    BY <1>8, <1>2 DEF FindReplaced, GatePC
  <2>2. rows'[g] = LiveFor(Want(g).owner, Want(g).resource)  BY <2>1 DEF GateTypeOK
  <2> QED  BY <2>1, <2>2
<1>9. CASE ClaimReplaced(g)
  <2>1. /\ gatePc[g] = "claim" /\ gatePc'[g] = "insert" /\ ~done'[g]
        /\ \A a \in rows[g] : ~GrantLocked(a)
        /\ rows' = [rows EXCEPT ![g] = {a \in @ : Live(a)}]
    BY <1>9, <1>2 DEF ClaimReplaced, GatePC
  <2>2. rows'[g] = {a \in rows[g] : Live(a)}  BY <2>1 DEF GateTypeOK
  <2> QED  BY <2>1, <2>2
<1>10. CASE FindGrant(g)
  <2>1. /\ gatePc[g] = "findGrant" /\ gatePc'[g] \in {"revoke", "end"}
        /\ gatePc'[g] = "revoke" => ~done'[g] /\ access[Want(g).grant] # None
    BY <1>10, <1>2, <1>3 DEF FindGrant, GatePC
  <2> QED  BY <2>1
<1>11. CASE CheckKey(g)
  <2>1. gatePc[g] = "key"  BY <1>11 DEF CheckKey
  <2>2. CASE Answer(g, FALSE)  BY <2>1, <2>2, <1>3
  <2>3. CASE \E o \in HeldBy(Want(g).key) :
               subject' = [subject EXCEPT ![g] = o] /\ GateGoto(g, "live")
    <3>1. gatePc'[g] = "live" /\ ~done'[g]  BY <2>3, <1>2 DEF GatePC
    <3>2. subject'[g] \in HeldBy(Want(g).key)  BY <2>3 DEF GateTypeOK
    <3> QED  BY <2>1, <3>1, <3>2
  <2> QED  BY <1>11, <2>2, <2>3 DEF CheckKey
<1>12. CASE FindLive(g)
  <2>1. gatePc[g] = "live"  BY <1>12 DEF FindLive
  <2>2. CASE Answer(g, FALSE)  BY <2>1, <2>2, <1>3
  <2>3. CASE ~Answer(g, FALSE)
    <3>1. PICK a \in LiveFor(subject[g], Want(g).resource) :
            Granted(g, a) /\ GateGoto(g, "sign") /\ rows' = [rows EXCEPT ![g] = {a}]
      BY <1>12, <2>3 DEF FindLive
    <3>2. gatePc'[g] = "sign" /\ ~done'[g]  BY <3>1, <1>2 DEF GatePC
    <3>3. rows'[g] = {a}  BY <3>1 DEF GateTypeOK
    <3> QED  BY <2>1, <3>1, <3>2, <3>3
  <2> QED  BY <2>2, <2>3
<1>13. CASE SetHandle(g) \/ InsertGrant(g) \/ RevokeGrant(g) \/ SignToken(g)
  <2>1. gatePc[g] \in {"setHandle", "insert", "revoke", "sign"} /\ gatePc'[g] = "end"
    BY <1>13, <1>3 DEF SetHandle, InsertGrant, RevokeGrant, SignToken
  <2> QED  BY <2>1
<1> QED
  BY <1>4, <1>5, <1>6, <1>7, <1>8, <1>9, <1>10, <1>11, <1>12, <1>13 DEF GateStep

-----------------------------------------------------------------------------
(* The request that takes the step. *)

\* What is and is not there, whichever request moves.
LEMMA GrantFacts ==
  ASSUME TypeOK, GateTypeOK, GateRequestsInv, NEW g \in GateRequests, GateStep(g),
         NEW a \in GateRequests
  PROVE  /\ access[a] # None => access'[a] # None
         /\ access[a] # None =>
              /\ access'[a].owner = access[a].owner /\ access'[a].resource = access[a].resource
              /\ access'[a].scopes = access[a].scopes
         /\ access[a] # None /\ ~Live(a) => ~Live(a)'
         /\ access[a] # None => ended'[a] = ended[a] \/ (ended'[a] = now /\ ended[a] = None)
                                  \/ (ended[a] # None /\ ended'[a] = now)
BY Grants DEF GrantStays, GrantComes, Live

LEMMA GatePlacedOwn ==
  ASSUME TypeOK, GateTypeOK, GateRequestsInv, NEW g \in GateRequests, GateStep(g), UNCHANGED vars
  PROVE  GatePlaced(g)'
<1>1. gateTask' = gateTask /\ owner' = owner
  BY GateWriting DEF vars, accounts
<1>2. GatePlaced(g) /\ GateReaches(g) /\ GateKeeps(g)
  BY GateReaching, GateStepKeeps DEF GateRequestsInv
<1>3. GateOp(g)' = GateOp(g) /\ Want(g)' = Want(g)  BY <1>1 DEF GateOp, Want
<1>4. access'[g] # None => GateOp(g) = "grant" /\ gatePc'[g] = "end"
  <2>1. access[g] = None  BY <1>2 DEF GatePlaced, GateKeeps
  <2>2. CASE access'[g] # None
    <3>1. gatePc[g] = "insert"  BY <2>1, <2>2, Grants DEF GrantComes
    <3>2. InsertGrant(g)  BY <3>1, GateWriting DEF GateWriters
    <3> QED  BY <3>1, <3>2, <1>2 DEF InsertGrant, Answer, GatePlaced, GateTypeOK
  <2> QED  BY <2>2
<1>5. token'[g] # None => GateOp(g) = "token" /\ gatePc'[g] = "end"
  <2>1. token[g] = None  BY <1>2 DEF GatePlaced, GateKeeps
  <2>2. CASE token'[g] # None
    <3>1. gatePc[g] = "sign"  BY <2>1, <2>2, TokenComes
    <3>2. SignToken(g)  BY <3>1, GateWriting DEF GateWriters
    <3> QED  BY <3>1, <3>2, <1>2 DEF SignToken, Answer, GatePlaced, GateTypeOK
  <2> QED  BY <2>2
<1>6. gatePc'[g] = "revoke" => access'[Want(g).grant] # None
  <2>1. CASE gatePc'[g] = "revoke"
    <3>1. gatePc[g] = "findGrant" /\ access[Want(g).grant] # None  BY <1>2, <2>1 DEF GateReaches
    <3>2. access' = access  BY <3>1, GateWriting
    <3> QED  BY <3>1, <3>2
  <2> QED  BY <2>1
<1>7. gatePc'[g] \in {"live", "sign"} => subject'[g] # None
  <2>1. CASE gatePc'[g] = "live"
    <3>1. subject'[g] \in Rows  BY <1>2, <2>1 DEF GateReaches, HeldBy
    <3> QED  BY <3>1, AccountNamesAssumption DEF Rows
  <2>2. CASE gatePc'[g] = "sign"  BY <1>2, <2>2 DEF GateReaches, GatePlaced, GateKeeps
  <2> QED  BY <2>1, <2>2
<1> QED
  BY <1>1, <1>2, <1>3, <1>4, <1>5, <1>6, <1>7 DEF GatePlaced, GateReaches

LEMMA ReplacingOwn ==
  ASSUME TypeOK, GateTypeOK, GateRequestsInv, NEW g \in GateRequests, GateStep(g)
  PROVE  Replacing(g)'
<1>1. GateReaches(g) /\ GateKeeps(g) /\ GateElsewhere(g)  BY GateReaching, GateStepKeeps
<1>2. gateTask' = gateTask  BY GateWriting
<1>3. Want(g)' = Want(g)  BY <1>2 DEF Want
<1>4. CASE gatePc'[g] = "claim"
  <2>1. gatePc[g] = "find" /\ rows'[g] = LiveFor(Want(g).owner, Want(g).resource)
    BY <1>1, <1>4 DEF GateReaches
  <2>2. access' = access /\ there'[g] = there[g]
    BY <2>1, <1>1, GateWriting DEF GateKeeps
  <2>3. there[g] \subseteq {a \in GateRequests : access[a] # None}
    BY DEF GateRequestsInv, GateDated
  <2> QED  BY <1>3, <1>4, <2>1, <2>2, <2>3 DEF Replacing, LiveFor, Live
<1>5. CASE gatePc'[g] = "insert"
  <2>1. gatePc[g] = "claim" /\ rows'[g] = {a \in rows[g] : Live(a)}
          /\ \A a \in rows[g] : ~GrantLocked(a)
    BY <1>1, <1>5 DEF GateReaches
  <2>2. access' = access /\ there'[g] = there[g]
    BY <2>1, <1>1, GateWriting DEF GateKeeps
  <2>3. \A a : Live(a)' = Live(a)  BY <2>2 DEF Live
  <2>4. Replacing(g) /\ rows[g] \subseteq GateRequests  BY DEF GateRequestsInv, GateTypeOK
  <2>5. \A h \in GateRequests : gatePc'[h] = "insert" /\ h # g => rows'[g] \cap rows'[h] = {}
    BY <1>1, <2>1 DEF GateElsewhere, GrantLocked
  <2> QED  BY <1>3, <1>5, <2>1, <2>2, <2>3, <2>4, <2>5 DEF Replacing
<1> QED  BY <1>4, <1>5 DEF Replacing

LEMMA SigningOwn ==
  ASSUME TypeOK, GateTypeOK, GateRequestsInv, NEW g \in GateRequests, GateStep(g)
  PROVE  Signing(g)'
<1>1. CASE gatePc'[g] = "sign"
  <2>1. GateReaches(g) /\ GateKeeps(g)  BY GateReaching, GateStepKeeps
  <2>2. PICK a \in LiveFor(subject[g], Want(g).resource) : rows'[g] = {a} /\ Granted(g, a)
    BY <1>1, <2>1 DEF GateReaches
  <2>3. gatePc[g] = "live"  BY <1>1, <2>1 DEF GateReaches
  <2>4. access' = access /\ ended' = ended /\ gateTask' = gateTask
          /\ over'[g] = over[g] /\ subject'[g] = subject[g]
    BY <2>1, <2>3, GateWriting DEF GateKeeps
  <2>5. a \in GateRequests /\ Live(a) /\ access[a].owner = subject[g]
          /\ access[a].resource = Want(g).resource /\ access[a] # None
    BY <2>2 DEF LiveFor, Live
  <2>6. a \notin over[g] /\ ended[a] = None
    BY <2>5 DEF GateRequestsInv, GateDated
  <2>7. Want(g)' = Want(g) /\ Granted(g, a)'  BY <2>2, <2>4 DEF Granted, Want
  <2> QED  BY <2>2, <2>4, <2>5, <2>6, <2>7 DEF Signing
<1> QED  BY <1>1 DEF Signing

LEMMA TimePasses ==
  ASSUME TypeOK, GateTypeOK
  PROVE  /\ now \in Nat /\ now # None
         /\ \A g \in GateRequests : gateClock[g] \in Nat /\ gateClock[g] # None
BY AccountNamesAssumption DEF TypeOK, GateTypeOK

LEMMA GrantDated ==
  ASSUME TypeOK, GateTypeOK, GateRequestsInv, NEW g \in GateRequests, GateStep(g),
         NEW a \in GateRequests
  PROVE  /\ access'[a] # None => (ended'[a] = None <=> Live(a)')
         /\ access'[a] = None => ended'[a] = None
<1>1. GrantStays(g, a) /\ GrantComes(g, a) /\ GateDated(a)  BY Grants DEF GateRequestsInv
<1>2. CASE access[a] = None  BY <1>1, <1>2 DEF GrantComes, GateDated, Live
<1>3. CASE access[a] # None  BY <1>1, <1>3, TimePasses DEF GrantStays, GateDated, Live
<1> QED  BY <1>2, <1>3

LEMMA GateDatedOwn ==
  ASSUME TypeOK, GateTypeOK, GateRequestsInv, KeysInv, NEW g \in GateRequests, GateStep(g),
         UNCHANGED vars
  PROVE  GateDated(g)'
<1>1. GateReaches(g) /\ GateKeeps(g) /\ GatePlaced(g) /\ GateDated(g)
  BY GateReaching, GateStepKeeps DEF GateRequestsInv
<1>2. gateTask' = gateTask /\ keyEnded' = keyEnded /\ now' = now  BY GateWriting DEF vars
<1>3. Want(g)' = Want(g)  BY <1>2 DEF Want
<1>4. gateClock'[g] <= now'  BY <1>1, <1>2, TimePasses DEF GateKeeps, GateDated
<1>5. there'[g] \subseteq {a \in GateRequests : access'[a] # None}
      /\ over'[g] \subseteq {a \in GateRequests : access'[a] # None /\ ~Live(a)'}
  <2>1. CASE gatePc[g] = "idle"
    <3>1. GateArrive(g)
      BY <2>1 DEF GateStep, ReadOwner, HandleHolder, SetHandle, CheckOwner, FindReplaced,
         ClaimReplaced, InsertGrant, FindGrant, RevokeGrant, CheckKey, FindLive, SignToken
    <3>2. /\ there'[g] = {a \in GateRequests : access[a] # None}
          /\ over'[g] = {a \in GateRequests : access[a] # None /\ ~Live(a)}
          /\ access' = access
      BY <3>1 DEF GateArrive, gateTables, GateTypeOK
    <3> QED  BY <3>2 DEF Live
  <2>2. CASE gatePc[g] # "idle"
    <3>1. there'[g] = there[g] /\ over'[g] = over[g]  BY <2>2, <1>1 DEF GateKeeps
    <3> QED  BY <3>1, <1>1, GrantFacts DEF GateDated
  <2> QED  BY <2>1, <2>2
<1>6. gatePc'[g] \in {"live", "sign"} /\ keyEnded'[Want(g).key] # None =>
        gateClock'[g] <= keyEnded'[Want(g).key]
  <2>1. CASE gatePc'[g] = "live"
    <3>1. gatePc[g] = "key" /\ HeldBy(Want(g).key) # {}  BY <1>1, <2>1 DEF GateReaches
    <3>2. Want(g).key \in Rows  BY <3>1, <1>1, GateTaskTyping DEF GatePlaced
    <3>3. Held(Want(g).key)  BY <3>1 DEF Held, HeldBy
    <3>4. keyEnded[Want(g).key] = None  BY <3>2, <3>3 DEF KeysInv
    <3> QED  BY <3>4, <1>2
  <2>2. CASE gatePc'[g] = "sign"
    <3>1. gatePc[g] = "live"  BY <1>1, <2>2 DEF GateReaches
    <3>2. gateClock'[g] = gateClock[g]  BY <3>1, <1>1 DEF GateKeeps
    <3> QED  BY <3>1, <3>2, <1>1, <1>2 DEF GateDated
  <2> QED  BY <2>1, <2>2
<1>7. token'[g] # None => token'[g].expires = gateClock'[g] + Ttl
  <2>1. token[g] = None  BY <1>1 DEF GateKeeps, GatePlaced
  <2>2. CASE token'[g] # None
    <3>1. gatePc[g] = "sign" /\ \E a \in rows[g] : token'[g] = TokenFor(g, a, gateClock[g])
      BY <2>1, <2>2, TokenComes
    <3>2. gateClock'[g] = gateClock[g]  BY <3>1, <1>1 DEF GateKeeps
    <3> QED  BY <3>1, <3>2 DEF TokenFor
  <2> QED  BY <2>2
<1>8. /\ access'[g] # None => (ended'[g] = None <=> Live(g)')
      /\ access'[g] = None => ended'[g] = None
  BY GrantDated
<1> QED  BY <1>3, <1>4, <1>5, <1>6, <1>7, <1>8 DEF GateDated

-----------------------------------------------------------------------------
(* The requests that stay where they are. *)

LEMMA GatePlacedElsewhere ==
  ASSUME TypeOK, GateTypeOK, GateRequestsInv, NEW g \in GateRequests, GateStep(g), UNCHANGED vars,
         NEW h \in GateRequests \ {g}
  PROVE  GatePlaced(h)'
<1>1. gateTask' = gateTask /\ owner' = owner /\ GateElsewhere(g) /\ GatePlaced(h)
  BY GateWriting, GateStepKeeps DEF vars, accounts, GateRequestsInv
<1>2. GateOp(h)' = GateOp(h) /\ Want(h)' = Want(h)  BY <1>1 DEF GateOp, Want
<1>3. access'[h] # None => access[h] # None  BY Grants DEF GrantComes
<1>4. gatePc[h] = "revoke" => access'[Want(h).grant] # None
  <2>1. CASE gatePc[h] = "revoke"
    <3>1. Want(h).grant \in GateRequests /\ access[Want(h).grant] # None
      BY <2>1, <1>1, GateTaskTyping DEF GatePlaced
    <3> QED  BY <3>1, GrantFacts
  <2> QED  BY <2>1
<1> QED  BY <1>1, <1>2, <1>3, <1>4 DEF GatePlaced, GateElsewhere

LEMMA ReplacingElsewhere ==
  ASSUME TypeOK, GateTypeOK, GateRequestsInv, NEW g \in GateRequests, GateStep(g),
         NEW h \in GateRequests \ {g}
  PROVE  Replacing(h)'
<1>1. gateTask' = gateTask /\ GateElsewhere(g) /\ Replacing(h) /\ GateDated(h)
  BY GateWriting, GateStepKeeps DEF GateRequestsInv
<1>2. /\ gatePc'[h] = gatePc[h] /\ rows'[h] = rows[h] /\ there'[h] = there[h]
      /\ Want(h)' = Want(h)
  BY <1>1 DEF GateElsewhere, Want
<1>3. gatePc[h] \in {"claim", "insert"} =>
        \A a \in GateRequests : a \in there[h] /\ access'[a].owner = Want(h).owner
           /\ access'[a].resource = Want(h).resource => a \in rows[h] \/ ~Live(a)'
  BY <1>1, GrantFacts DEF Replacing, GateDated
<1>4. gatePc[h] = "insert" => \A a \in rows[h] : Live(a)'
  <2> SUFFICES ASSUME gatePc[h] = "insert", NEW a \in rows[h]  PROVE Live(a)'
    OBVIOUS
  <2>1. a \in GateRequests /\ Live(a)  BY <1>1 DEF GateTypeOK, Replacing
  <2> QED  BY <2>1, Grants DEF GrantStays, Live
<1>5. gatePc[h] = "insert" =>
        \A x \in GateRequests : gatePc'[x] = "insert" /\ x # h => rows'[h] \cap rows'[x] = {}
  <2> SUFFICES ASSUME gatePc[h] = "insert", NEW x \in GateRequests, gatePc'[x] = "insert", x # h
               PROVE  rows'[h] \cap rows'[x] = {}
    OBVIOUS
  <2>1. CASE x = g
    <3>1. rows'[g] = {a \in rows[g] : Live(a)} /\ \A a \in rows[g] : ~GrantLocked(a)
      BY <2>1, GateReaching DEF GateReaches
    <3> QED  BY <2>1, <3>1, <1>2 DEF GrantLocked
  <2>2. CASE x # g  BY <2>2, <1>1 DEF GateElsewhere, Replacing
  <2> QED  BY <2>1, <2>2
<1> QED  BY <1>2, <1>3, <1>4, <1>5 DEF Replacing

LEMMA SigningElsewhere ==
  ASSUME TypeOK, GateTypeOK, GateRequestsInv, NEW g \in GateRequests, GateStep(g),
         NEW h \in GateRequests \ {g}
  PROVE  Signing(h)'
<1>1. gateTask' = gateTask /\ GateElsewhere(g) /\ Signing(h) /\ GateDated(h)
  BY GateWriting, GateStepKeeps DEF GateRequestsInv
<1>2. CASE gatePc'[h] = "sign"
  <2>1. gatePc[h] = "sign"  BY <1>1, <1>2 DEF GateElsewhere
  <2>2. PICK a \in GateRequests :
          /\ rows[h] = {a} /\ access[a] # None /\ a \notin over[h]
          /\ access[a].owner = subject[h] /\ access[a].resource = Want(h).resource
          /\ Granted(h, a)
          /\ ended[a] # None => gateClock[h] <= ended[a]
    BY <1>1, <2>1 DEF Signing
  <2>3. Want(h)' = Want(h)  BY <1>1 DEF Want
  <2>4. /\ access'[a] # None /\ access'[a].owner = access[a].owner
        /\ access'[a].resource = access[a].resource /\ access'[a].scopes = access[a].scopes
        /\ ended'[a] = ended[a] \/ ended'[a] = now
    BY <2>2, GrantFacts
  <2>5. Granted(h, a)'  BY <2>2, <2>3, <2>4 DEF Granted
  <2>6. ended'[a] # None => gateClock[h] <= ended'[a]
    BY <2>2, <2>4, <1>1, TimePasses DEF GateDated
  <2>7. rows'[h] = rows[h] /\ over'[h] = over[h] /\ subject'[h] = subject[h]
          /\ gateClock'[h] = gateClock[h]
    BY <1>1 DEF GateElsewhere
  <2> QED  BY <2>2, <2>3, <2>4, <2>5, <2>6, <2>7 DEF Signing
<1> QED  BY <1>2 DEF Signing

LEMMA GateDatedElsewhere ==
  ASSUME TypeOK, GateTypeOK, GateRequestsInv, NEW g \in GateRequests, GateStep(g), UNCHANGED vars,
         NEW h \in GateRequests \ {g}
  PROVE  GateDated(h)'
<1>1. /\ gateTask' = gateTask /\ keyEnded' = keyEnded /\ now' = now /\ GateElsewhere(g)
      /\ GateDated(h)
  BY GateWriting, GateStepKeeps DEF GateRequestsInv, vars
<1>2. Want(h)' = Want(h)  BY <1>1 DEF Want
<1>3. there[h] \subseteq {a \in GateRequests : access'[a] # None}
      /\ over[h] \subseteq {a \in GateRequests : access'[a] # None /\ ~Live(a)'}
  BY <1>1, GrantFacts DEF GateDated
<1>4. /\ access'[h] # None => (ended'[h] = None <=> Live(h)')
      /\ access'[h] = None => ended'[h] = None
  BY GrantDated
<1> QED  BY <1>1, <1>2, <1>3, <1>4 DEF GateDated, GateElsewhere

LEMMA GateRequestsStep ==
  ASSUME TypeOK, GateTypeOK, GateRequestsInv, KeysInv, NEW g \in GateRequests, GateStep(g),
         UNCHANGED vars
  PROVE  GateRequestsInv'
<1>1. GatePlaced(g)' /\ Replacing(g)' /\ Signing(g)' /\ GateDated(g)'
  BY GatePlacedOwn, ReplacingOwn, SigningOwn, GateDatedOwn
<1>2. \A h \in GateRequests \ {g} :
        GatePlaced(h)' /\ Replacing(h)' /\ Signing(h)' /\ GateDated(h)'
  BY GatePlacedElsewhere, ReplacingElsewhere, SigningElsewhere, GateDatedElsewhere
<1> QED  BY <1>1, <1>2 DEF GateRequestsInv

-----------------------------------------------------------------------------
(* What the properties say, through a step of the gate. *)

HandlesInv == (\A o \in Rows : handle[o] # None => owner[o] # None) /\ HandlesAreHeldOnce

LEMMA HandlesStep ==
  ASSUME TypeOK, GateTypeOK, GateRequestsInv, HandlesInv, NEW g \in GateRequests, GateStep(g),
         UNCHANGED vars
  PROVE  HandlesInv'
<1>1. owner' = owner  BY DEF vars, accounts
<1>2. CASE handle' = handle  BY <1>1, <1>2 DEF HandlesInv, HandlesAreHeldOnce
<1>3. CASE handle' # handle
  <2>1. /\ handle' = [handle EXCEPT ![Want(g).owner] = Want(g).handle]
        /\ Want(g).owner \in Rows /\ owner[Want(g).owner] # None
        /\ HandleHolders(Want(g).handle) \subseteq {Want(g).owner}
    BY <1>3, HandleWritten
  <2>2. /\ handle'[Want(g).owner] = Want(g).handle
        /\ \A o \in Rows : o # Want(g).owner => handle'[o] = handle[o]
    BY <2>1 DEF GateTypeOK
  <2>3. \A o \in Rows : handle'[o] # None => owner'[o] # None
    BY <1>1, <2>1, <2>2 DEF HandlesInv
  <2>4. ASSUME NEW o \in Rows, NEW p \in Rows, handle'[o] # None, handle'[o] = handle'[p]
        PROVE  o = p
    BY <2>1, <2>2, <2>4 DEF HandlesInv, HandlesAreHeldOnce, HandleHolders
  <2> QED  BY <2>3, <2>4 DEF HandlesInv, HandlesAreHeldOnce
<1> QED  BY <1>2, <1>3

LEMMA ReplacesStep ==
  ASSUME TypeOK, GateTypeOK, GateRequestsInv, NewGrantReplaces, NEW g \in GateRequests,
         GateStep(g)
  PROVE  NewGrantReplaces'
<1>1. gateTask' = gateTask /\ GateElsewhere(g) /\ GateReaches(g) /\ GateKeeps(g)
  BY GateWriting, GateStepKeeps, GateReaching
<1>2. ASSUME NEW h \in GateRequests, GateOp(h) = "grant", done'[h], NEW a \in there'[h],
             access'[a].owner = Want(h).owner, access'[a].resource = Want(h).resource
      PROVE  ~Live(a)'
  <2>1. CASE h = g
    <3>1. InsertGrant(g) /\ gatePc[g] = "insert"
      BY <1>1, <1>2, <2>1, GateWriting
         DEF GateReaches, GateRequestsInv, GatePlaced, GateWriters
    <3>2. a \in there[g] /\ a \in GateRequests /\ access[a] # None
      BY <1>1, <1>2, <2>1, <3>1 DEF GateKeeps, GateRequestsInv, GateDated
    <3>3. access[a].owner = Want(g).owner /\ access[a].resource = Want(g).resource
      BY <1>2, <2>1, <3>2, GrantFacts
    <3>4. a \in rows[g] \/ ~Live(a)  BY <3>1, <3>2, <3>3 DEF GateRequestsInv, Replacing
    <3>5. CASE ~Live(a)  BY <3>2, <3>5, GrantFacts
    <3>6. CASE a \in rows[g]
      <4>1. ended'[a] = now  BY <3>1, <3>2, <3>6 DEF InsertGrant
      <4> QED  BY <3>2, <4>1, GrantFacts, GrantDated, TimePasses
    <3> QED  BY <3>4, <3>5, <3>6
  <2>2. CASE h # g
    <3>1. done[h] /\ a \in there[h]  BY <1>1, <1>2, <2>2 DEF GateElsewhere
    <3>2. a \in GateRequests /\ access[a] # None  BY <3>1 DEF GateRequestsInv, GateDated
    <3>3. access[a].owner = Want(h).owner /\ access[a].resource = Want(h).resource
      BY <1>2, <3>2, GrantFacts
    <3>4. ~Live(a)  BY <1>2, <3>1, <3>3 DEF NewGrantReplaces
    <3> QED  BY <3>2, <3>4, GrantFacts
  <2> QED  BY <2>1, <2>2
<1>3. \A h : GateOp(h)' = GateOp(h) /\ Want(h)' = Want(h)  BY <1>1 DEF GateOp, Want
<1> QED  BY <1>2, <1>3 DEF NewGrantReplaces

\* Tokens, one at a time.
TokenWithin(h) ==
  token[h] # None =>
    /\ token[h].grant \in GateRequests /\ access[token[h].grant] # None
    /\ token[h].grant \notin over[h]
    /\ token[h].owner = access[token[h].grant].owner
    /\ token[h].resource = access[token[h].grant].resource
    /\ token[h].scopes \subseteq access[token[h].grant].scopes
    /\ token[h].resource = Want(h).resource
TokenInTime(h) ==
  token[h] # None =>
    /\ ended[token[h].grant] # None => token[h].expires <= ended[token[h].grant] + Ttl
    /\ keyEnded[Want(h).key] # None => token[h].expires <= keyEnded[Want(h).key] + Ttl

LEMMA TokensOneByOne ==
  ASSUME GateTypeOK
  PROVE  /\ TokensWithinGrants <=> \A h \in GateRequests : TokenWithin(h)
         /\ TokensEndInTime <=> \A h \in GateRequests : TokenInTime(h)
<1>1. \A h \in GateRequests : token[h] # None => token[h].grant \in GateRequests
  BY DEF GateTypeOK, Tokens
<1> QED
  BY <1>1 DEF TokensWithinGrants, TokenWithin, TokensEndInTime, TokenInTime

LEMMA TokenNew ==
  ASSUME TypeOK, GateTypeOK, GateRequestsInv, NEW g \in GateRequests, GateStep(g),
         token'[g] # token[g], token'[g] # None
  PROVE  TokenWithin(g)' /\ TokenInTime(g)'
<1>1. gatePc[g] = "sign"  BY TokenComes
<1>2. PICK a \in rows[g] : token'[g] = TokenFor(g, a, gateClock[g])  BY TokenComes
<1>3. /\ access' = access /\ ended' = ended /\ keyEnded' = keyEnded /\ gateTask' = gateTask
      /\ over'[g] = over[g]
  <2>1. SignToken(g)  BY <1>1, GateWriting DEF GateWriters
  <2> QED  BY <2>1, GateWriting, GateStepKeeps, <1>1 DEF SignToken, GateKeeps
<1>4. Want(g)' = Want(g)  BY <1>3 DEF Want
<1>5. PICK b \in GateRequests :
        /\ rows[g] = {b} /\ access[b] # None /\ b \notin over[g]
        /\ access[b].owner = subject[g] /\ access[b].resource = Want(g).resource
        /\ Granted(g, b)
        /\ ended[b] # None => gateClock[g] <= ended[b]
  BY <1>1 DEF GateRequestsInv, Signing
<1>6. a = b  BY <1>2, <1>5
<1>7. /\ token'[g].grant = a /\ token'[g].owner = subject[g]
      /\ token'[g].resource = Want(g).resource /\ token'[g].expires = gateClock[g] + Ttl
      /\ token'[g].scopes = IF Want(g).scopes = None THEN access[a].scopes ELSE Want(g).scopes
  BY <1>2 DEF TokenFor
<1>8. token'[g].scopes \subseteq access[a].scopes
  BY <1>5, <1>6, <1>7 DEF Granted
<1>9. TokenWithin(g)'
  BY <1>3, <1>4, <1>5, <1>6, <1>7, <1>8 DEF TokenWithin
<1>10. ended[a] # None => ended[a] \in Nat  BY <1>5, <1>6 DEF GateTypeOK
<1>11. GateOp(g) = "token"  BY <1>1 DEF GateRequestsInv, GatePlaced
<1>12. keyEnded[Want(g).key] # None => keyEnded[Want(g).key] \in Nat
  BY <1>11, GateTaskTyping DEF GateTypeOK
<1>13. keyEnded[Want(g).key] # None => gateClock[g] <= keyEnded[Want(g).key]
  BY <1>1 DEF GateRequestsInv, GateDated
<1>14. ended[a] # None => gateClock[g] <= ended[a]  BY <1>5, <1>6
<1>15. gateClock[g] \in Nat /\ Ttl \in Nat  BY GateAssumption DEF GateTypeOK
<1>16. TokenInTime(g)'
  BY <1>3, <1>4, <1>7, <1>10, <1>12, <1>13, <1>14, <1>15 DEF TokenInTime
<1> QED  BY <1>9, <1>16

LEMMA TokenOld ==
  ASSUME TypeOK, GateTypeOK, GateRequestsInv, NEW g \in GateRequests, GateStep(g),
         NEW h \in GateRequests, token'[h] = token[h], TokenWithin(h), TokenInTime(h)
  PROVE  TokenWithin(h)' /\ TokenInTime(h)'
<1>1. CASE token[h] = None  BY <1>1 DEF TokenWithin, TokenInTime
<1>2. CASE token[h] # None
  <2>1. gateTask' = gateTask /\ keyEnded' = keyEnded  BY GateWriting
  <2>2. over'[h] = over[h]
    <3>1. CASE h = g
      <4>1. gatePc[g] # "end"  BY GateStepKeeps DEF GateKeeps
      <4> QED  BY <1>2, <3>1, <4>1 DEF GateRequestsInv, GatePlaced
    <3>2. CASE h # g  BY <3>2, GateStepKeeps DEF GateElsewhere
    <3> QED  BY <3>1, <3>2
  <2>3. Want(h)' = Want(h)  BY <2>1 DEF Want
  <2>4. PICK a \in GateRequests : a = token[h].grant  BY <1>2 DEF TokenWithin
  <2>5. access[a] # None  BY <1>2, <2>4 DEF TokenWithin
  <2>6. /\ access'[a] # None /\ access'[a].owner = access[a].owner
        /\ access'[a].resource = access[a].resource /\ access'[a].scopes = access[a].scopes
        /\ ended'[a] = ended[a] \/ ended'[a] = now
    BY <2>5, GrantFacts
  <2>7. TokenWithin(h)'  BY <1>2, <2>2, <2>3, <2>4, <2>6 DEF TokenWithin
  <2>8. token[h].expires = gateClock[h] + Ttl /\ gateClock[h] <= now
    BY <1>2 DEF GateRequestsInv, GateDated
  <2>9. gateClock[h] \in Nat /\ Ttl \in Nat /\ now \in Nat  BY GateAssumption, TimePasses
  <2>10. ended'[a] # None => token[h].expires <= ended'[a] + Ttl
    BY <1>2, <2>4, <2>6, <2>8, <2>9 DEF TokenInTime
  <2> QED  BY <1>2, <2>1, <2>3, <2>4, <2>7, <2>10 DEF TokenInTime
<1> QED  BY <1>1, <1>2

GateInvariants ==
  /\ GateTypeOK
  /\ GateRequestsInv
  /\ KeysInv
  /\ HandlesInv
  /\ NewGrantReplaces
  /\ \A h \in GateRequests : TokenWithin(h) /\ TokenInTime(h)

LEMMA GateInvStep ==
  ASSUME TypeOK, GateInvariants, NEW g \in GateRequests, GateStep(g), UNCHANGED vars
  PROVE  GateInvariants'
<1> USE DEF GateInvariants
<1>1. GateTypeOK' /\ GateRequestsInv' /\ HandlesInv' /\ NewGrantReplaces'
  BY GateTypeStep, GateRequestsStep, HandlesStep, ReplacesStep
<1>2. KeysInv'
  <2>1. keyEnded' = keyEnded /\ owner' = owner /\ outcome' = outcome /\ told' = told
          /\ task' = task
    BY GateWriting DEF vars, accounts, answers, fixed
  <2> QED  BY <2>1 DEF KeysInv, Held, Issued, Op
<1>3. ASSUME NEW h \in GateRequests  PROVE TokenWithin(h)' /\ TokenInTime(h)'
  <2>1. CASE token'[h] = token[h]  BY <2>1, TokenOld
  <2>2. CASE token'[h] # token[h]
    <3>1. h = g  BY <2>2, GateStepKeeps DEF GateElsewhere
    <3>2. CASE token'[h] = None  BY <3>2 DEF TokenWithin, TokenInTime
    <3>3. CASE token'[h] # None  BY <2>2, <3>1, <3>3, TokenNew
    <3> QED  BY <3>2, <3>3
  <2> QED  BY <2>1, <2>2
<1> QED  BY <1>1, <1>2, <1>3

-----------------------------------------------------------------------------
(* What happens beside the gate. *)

\* Owners stay, time passes, keys end now, and a restart cuts requests short.
GateBeside ==
  /\ UNCHANGED <<gateTables, gateTask, gateClock, subject, rows, done, gateHistory, ended>>
  /\ gatePc' \in [GateRequests -> GatePC]
  /\ \A h \in GateRequests : gatePc'[h] = gatePc[h] \/ gatePc'[h] = "end"
  /\ now' \in Nat /\ now <= now'
  /\ \A o \in Rows : owner[o] # None => owner'[o] # None
  /\ keyEnded' \in [Rows -> Nat \cup {None}]
  /\ \A k \in Rows : keyEnded'[k] = keyEnded[k] \/ keyEnded'[k] = now
  /\ KeysInv'

LEMMA BesideTheGate ==
  ASSUME TypeOK, GateInvariants, GateBeside
  PROVE  GateInvariants'
<1> USE DEF GateInvariants
<1>1. /\ handle' = handle /\ access' = access /\ token' = token /\ gateTask' = gateTask
      /\ gateClock' = gateClock /\ subject' = subject /\ rows' = rows /\ done' = done
      /\ there' = there /\ over' = over /\ ended' = ended
  BY DEF GateBeside, gateTables, gateHistory
<1>2. GateTypeOK'  BY <1>1 DEF GateTypeOK, GateBeside
<1>3. \A h : Want(h)' = Want(h) /\ GateOp(h)' = GateOp(h) /\ Live(h)' = Live(h)
  BY <1>1 DEF Want, GateOp, Live
<1>4. HandlesInv'  BY <1>1 DEF HandlesInv, HandlesAreHeldOnce, GateBeside
<1>5. NewGrantReplaces'  BY <1>1, <1>3 DEF NewGrantReplaces
<1>6. ASSUME NEW h \in GateRequests
      PROVE  GatePlaced(h)' /\ Replacing(h)' /\ Signing(h)' /\ GateDated(h)'
               /\ TokenWithin(h)' /\ TokenInTime(h)'
  <2>1. /\ GatePlaced(h) /\ Replacing(h) /\ Signing(h) /\ GateDated(h)
        /\ gatePc'[h] = gatePc[h] \/ gatePc'[h] = "end"
    BY DEF GateRequestsInv, GateBeside
  <2>2. GatePlaced(h)'
    <3>1. gatePc[h] \in {"holder", "setHandle"} => owner'[Want(h).owner] # None
      <4>1. gatePc[h] \in {"holder", "setHandle"} =>
              Want(h).owner \in Rows /\ owner[Want(h).owner] # None
        BY <2>1, GateTaskTyping DEF GatePlaced
      <4> QED  BY <4>1 DEF GateBeside
    <3> QED  BY <1>1, <1>3, <2>1, <3>1 DEF GatePlaced
  <2>3. Replacing(h)'
    <3>1. \A x \in GateRequests : gatePc'[x] = "insert" => gatePc[x] = "insert"
      BY DEF GateBeside
    <3> QED  BY <1>1, <1>3, <2>1, <3>1 DEF Replacing
  <2>4. Signing(h)'
    <3>1. \A a : Granted(h, a)' = Granted(h, a)  BY <1>1, <1>3 DEF Granted
    <3> QED  BY <1>1, <1>3, <2>1, <3>1 DEF Signing
  <2>5. now \in Nat /\ now' \in Nat /\ now <= now' /\ gateClock[h] \in Nat /\ gateClock[h] <= now
    BY <2>1, TimePasses DEF GateBeside, GateDated
  <2>6. GateOp(h) = "token" =>
          keyEnded'[Want(h).key] = keyEnded[Want(h).key] \/ keyEnded'[Want(h).key] = now
    BY GateTaskTyping DEF GateBeside
  <2>7. GateDated(h)'
    <3>1. gatePc'[h] \in {"live", "sign"} /\ keyEnded'[Want(h).key] # None =>
            gateClock[h] <= keyEnded'[Want(h).key]
      BY <2>1, <2>5, <2>6 DEF GatePlaced, GateDated
    <3> QED  BY <1>1, <1>3, <2>1, <2>5, <3>1 DEF GateDated
  <2>8. TokenWithin(h)'  BY <1>1, <1>3 DEF TokenWithin
  <2>9. TokenInTime(h)'
    <3>1. CASE token[h] = None  BY <1>1, <3>1 DEF TokenInTime
    <3>2. CASE token[h] # None
      <4>1. GateOp(h) = "token" /\ token[h].expires = gateClock[h] + Ttl
        BY <2>1, <3>2 DEF GatePlaced, GateDated
      <4>2. keyEnded'[Want(h).key] # None => token[h].expires <= keyEnded'[Want(h).key] + Ttl
        BY <2>5, <2>6, <3>2, <4>1, GateAssumption DEF TokenInTime
      <4> QED  BY <1>1, <1>3, <3>2, <4>2 DEF TokenInTime
    <3> QED  BY <3>1, <3>2
  <2> QED  BY <2>2, <2>3, <2>4, <2>7, <2>8, <2>9
<1>7. KeysInv'  BY DEF GateBeside
<1> QED  BY <1>2, <1>4, <1>5, <1>6, <1>7 DEF GateRequestsInv

LEMMA AccountsBeside ==
  ASSUME Inductive, GateInvariants, AccountsStep
  PROVE  GateBeside
<1> USE DEF Inductive, GateInvariants
<1>1. PICK r \in Requests : Step(r)  BY DEF AccountsStep
<1>2. /\ UNCHANGED <<gateTables, gateTask, gatePc, gateClock, subject, rows, done, gateHistory, ended>>
      /\ keyEnded' = [k \in Rows |-> IF Held(k) /\ ~Held(k)' THEN now ELSE keyEnded[k]]
  BY DEF AccountsStep
<1>3. now' = now /\ now \in Nat  BY <1>1, StepReads, TimePasses
<1>4. \A o \in Rows : owner[o] # None => owner'[o] # None
  BY <1>1, Owners DEF OwnerStays
<1>5. [Next]_vars  BY <1>1 DEF Next
<1>6. ASSUME NEW k \in Rows, keyEnded'[k] # None  PROVE Issued(k)' /\ ~Held(k)'
  <2>1. CASE Held(k) /\ ~Held(k)'
    <3>1. Issued(k)  BY <2>1 DEF Held, Unique
    <3> QED  BY <2>1, <3>1, <1>5, IssuedStays
  <2>2. CASE ~(Held(k) /\ ~Held(k)')
    <3>1. keyEnded[k] # None  BY <1>2, <1>6, <2>2
    <3>2. Issued(k) /\ ~Held(k)  BY <3>1 DEF KeysInv
    <3>3. HeldBy(k) = {}  BY <3>2 DEF Held, HeldBy
    <3>4. HeldBy(k)' = {}  BY <1>1, <3>2, <3>3, DeadStays
    <3>5. ~Held(k)'  BY <3>4 DEF Held, HeldBy
    <3> QED  BY <3>2, <3>5, <1>5, IssuedStays
  <2> QED  BY <2>1, <2>2
<1>7. KeysInv'  BY <1>6 DEF KeysInv
<1>8. /\ keyEnded' \in [Rows -> Nat \cup {None}]
      /\ \A k \in Rows : keyEnded'[k] = keyEnded[k] \/ keyEnded'[k] = now
  BY <1>2, <1>3 DEF GateTypeOK
<1>9. gatePc' = gatePc /\ gatePc \in [GateRequests -> GatePC]  BY <1>2 DEF GateTypeOK
<1> QED  BY <1>2, <1>3, <1>4, <1>7, <1>8, <1>9 DEF GateBeside

LEMMA ClockBeside ==
  ASSUME Inductive, GateInvariants,
         \/ Tick /\ UNCHANGED gateVars
         \/ GateRestart
         \/ UNCHANGED <<vars, gateVars>>
  PROVE  GateBeside
<1> USE DEF Inductive, GateInvariants
<1>1. /\ UNCHANGED <<gateTables, gateTask, gateClock, subject, rows, done, gateHistory, ended>>
      /\ keyEnded' = keyEnded /\ owner' = owner
  BY DEF gateVars, GateRestart, Tick, Restart, vars, accounts
<1>2. now' \in Nat /\ now <= now'
  <2>1. now' = now \/ now' = now + 1  BY DEF Tick, GateRestart, Restart, vars
  <2> QED  BY <2>1, TimePasses
<1>3. gatePc' = gatePc \/ gatePc' = [g \in GateRequests |-> IF gatePc[g] = "idle" THEN "idle" ELSE "end"]
  BY DEF gateVars, GateRestart
<1>4. gatePc' \in [GateRequests -> GatePC]
      /\ \A h \in GateRequests : gatePc'[h] = gatePc[h] \/ gatePc'[h] = "end"
  BY <1>3 DEF GateTypeOK, GatePC
<1>5. [Next]_vars  BY DEF Next, GateRestart
<1>6. KeysInv'
  <2>1. \A k \in Rows : keyEnded'[k] # None => Issued(k) /\ ~Held(k)  BY <1>1 DEF KeysInv
  <2>2. \A k \in Rows : Issued(k) => Issued(k)'  BY <1>5, IssuedStays
  <2>3. \A k \in Rows : Held(k)' = Held(k)  BY <1>1 DEF Held
  <2> QED  BY <2>1, <2>2, <2>3 DEF KeysInv
<1>7. keyEnded \in [Rows -> Nat \cup {None}]  BY DEF GateTypeOK
<1> QED  BY <1>1, <1>2, <1>4, <1>6, <1>7 DEF GateBeside

LEMMA GateInvInit == Init /\ GateInit => GateInvariants
<1> SUFFICES ASSUME GateInit  PROVE GateInvariants
  OBVIOUS
<1>1. GateTypeOK  BY GateTypeInit
<1>2. /\ handle = [o \in Rows |-> None] /\ access = [g \in GateRequests |-> None]
      /\ token = [g \in GateRequests |-> None] /\ gatePc = [g \in GateRequests |-> "idle"]
      /\ gateClock = [g \in GateRequests |-> 0] /\ done = [g \in GateRequests |-> FALSE]
      /\ there = [g \in GateRequests |-> {}] /\ over = [g \in GateRequests |-> {}]
      /\ ended = [g \in GateRequests |-> None] /\ keyEnded = [o \in Rows |-> None]
      /\ now = 0
  BY DEF GateInit, Init
<1>3. GateRequestsInv
  BY <1>2 DEF GateRequestsInv, GatePlaced, Replacing, Signing, GateDated
<1>4. KeysInv /\ HandlesInv /\ NewGrantReplaces
  BY <1>2 DEF KeysInv, HandlesInv, HandlesAreHeldOnce, NewGrantReplaces
<1>5. \A h \in GateRequests : TokenWithin(h) /\ TokenInTime(h)
  BY <1>2 DEF TokenWithin, TokenInTime
<1> QED  BY <1>1, <1>3, <1>4, <1>5 DEF GateInvariants

LEMMA GateInvNext ==
  Inductive /\ GateInvariants /\ [GateNext]_<<vars, gateVars>> => GateInvariants'
<1> SUFFICES ASSUME Inductive, GateInvariants, [GateNext]_<<vars, gateVars>>
             PROVE  GateInvariants'
  OBVIOUS
<1>1. TypeOK  BY DEF Inductive
<1>2. CASE \E g \in GateRequests : GateStep(g) /\ UNCHANGED vars  BY <1>1, <1>2, GateInvStep
<1>3. CASE AccountsStep  BY <1>1, <1>3, AccountsBeside, BesideTheGate
<1>4. CASE \/ Tick /\ UNCHANGED gateVars
           \/ GateRestart
           \/ UNCHANGED <<vars, gateVars>>
  BY <1>1, <1>4, ClockBeside, BesideTheGate
<1> QED  BY <1>2, <1>3, <1>4 DEF GateNext

LEMMA GateAlways == GateSpec => []GateInvariants
<1>1. GateSpec => []Inductive  BY GateImplementsAccounts, AlwaysInductive
<1>2. GateInit => GateInvariants  BY GateInvInit DEF GateInit
<1> QED  BY <1>1, <1>2, GateInvNext, PTL DEF GateSpec

LEMMA GateInvariantsImply == GateInvariants => GateInv
<1> SUFFICES ASSUME GateInvariants  PROVE GateInv
  OBVIOUS
<1> QED  BY TokensOneByOne DEF GateInvariants, GateInv, HandlesInv

-----------------------------------------------------------------------------
(* The theorems. *)

\* The gate runs next to the accounts without disturbing them: with its requests
\* left out, every behaviour is one of Accounts, whose theorems hold here too.
THEOREM GateLeavesAccounts == GateSpec => []AccountsInv
BY GateImplementsAccounts, AccountsInvariant

\* Everything the gate's tables and its requests in flight have in common
\* (lib/access.ts), whatever interleaves and wherever the process restarts.
THEOREM GateInvariant == GateSpec => []GateInv
BY GateAlways, GateInvariantsImply, PTL

\* A new grant replaces every grant that was there when it was asked for
\* (createAccessGrant), even one that another transaction is just ending.
THEOREM GrantReplaces == GateSpec => []NewGrantReplaces
BY GateInvariant, PTL DEF GateInv

\* A token says no more than the live grant it was issued under, though key, grant
\* and handle are read one after the other (exchangeToken).
THEOREM TokensWithin == GateSpec => []TokensWithinGrants
BY GateInvariant, PTL DEF GateInv

\* A token outlives neither its grant nor the key it was exchanged for by more than
\* its lifetime (exchangeToken, signGateToken).
THEOREM TokensEnd == GateSpec => []TokensEndInTime
BY GateInvariant, PTL DEF GateInv
===============================================================================
