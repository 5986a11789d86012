------------------------------ MODULE Accounts ------------------------------
(***************************************************************************)
(* Owners, their agents and the invite codes that admit them               *)
(* (routes/owners.ts, agents.ts and admin.ts, lib/registration.ts,         *)
(* invites.ts and auth.ts).  Every statement of a request is an action of  *)
(* its own.  Only the creation of an owner holds a transaction: it keeps   *)
(* the invite's row locked from the UPDATE that spends a use to its end.   *)
(* Ids and keys are random, so a row or a key is named by the request that *)
(* made it, or by the owner who was there from the start.                  *)
(***************************************************************************)
EXTENDS Naturals, FiniteSets

CONSTANTS
  Requests, Known,    \* requests; owners registered earlier, each with a key of its name
  Emails, Names,      \* e-mails and names of agents
  Codes, Minted,      \* invite codes, and the ones there from the start
  MaxUses, Life,      \* of each code: registrations it admits, and how long it lives
  Policies,           \* the values of RL_REGISTRATION
  Scenarios,          \* pairs of a policy and what the requests are, from Requests to Tasks
  Limit, Window,      \* registrations per client address, and the time they count
  MaxTime, MaxRestarts,
  None

Rows == Known \cup Requests
Tasks ==
  [op : {"register"}, key : {None}, email : Emails \cup {None}, code : Codes \cup {None},
   name : {None}, agent : {None}, operator : BOOLEAN]
    \cup [op : {"invite", "revoke"}, key : {None}, email : {None}, code : Codes,
          name : {None}, agent : {None}, operator : {TRUE}]
    \cup [op : {"claim"}, key : Rows, email : Emails, code : {None},
          name : {None}, agent : {None}, operator : {FALSE}]
    \cup [op : {"rotate"}, key : Rows, email : {None}, code : {None},
          name : {None}, agent : {None}, operator : {FALSE}]
    \cup [op : {"agent"}, key : Rows, email : {None}, code : {None},
          name : Names, agent : {None}, operator : {FALSE}]
    \cup [op : {"rename"}, key : Rows, email : {None}, code : {None},
          name : Names, agent : Requests, operator : {FALSE}]

OwnerRows == [email : Emails \cup {None}, key : Rows, invite : Codes \cup {None}]
AgentRows == [owner : Rows, name : Names]
InviteRows == [uses : Nat, expires : Nat, revoked : Nat \cup {None}]

ASSUME AccountsAssumption ==
  /\ IsFiniteSet(Requests) /\ IsFiniteSet(Known) /\ Known \cap Requests = {}
  /\ Minted \subseteq Codes
  /\ MaxUses \in [Codes -> Nat \ {0}] /\ Life \in [Codes -> Nat]
  /\ Policies \subseteq {"admin", "invite", "open"}
  /\ Scenarios \subseteq Policies \X [Requests -> Tasks]
  /\ Limit \in Nat /\ Window \in Nat /\ MaxTime \in Nat /\ MaxRestarts \in Nat
ASSUME AccountNamesAssumption ==
  /\ None \notin Rows \cup Emails \cup Names \cup Codes \cup Nat
  /\ None \notin OwnerRows /\ None \notin AgentRows /\ None \notin InviteRows

VARIABLES
  now,
  owner, agent, invite,   \* the tables: owners, agents, invites
  attempts,               \* the registrations the process remembers, and when they came
  restarts,
  policy, task,           \* RL_REGISTRATION, and what each request is
  pc,                     \* the statement each request is at
  clock,                  \* the clock as the request last read it
  who,                    \* the owner behind its API key
  outcome, told,          \* how it was answered, and which owner or agent it was told of
  stale,                  \* whether its key was no owner's when it came, and what had the
  earlier                 \* e-mail or name it registers; no code keeps these, properties do

accounts == <<owner, agent, invite>>
answers == <<outcome, told>>
fixed == <<policy, task, stale, earlier>>
vars == <<now, accounts, attempts, restarts, pc, clock, who, answers, fixed>>

PC == {"idle", "assert", "lookup", "begin", "consume", "create", "mint", "findInvite",
       "revokeInvite", "auth", "holder", "claim", "rotate", "findAgent", "createAgent",
       "ownAgent", "checkName", "rename", "done"}

TypeOK ==
  /\ now \in Nat
  /\ owner \in [Rows -> OwnerRows \cup {None}]
  /\ agent \in [Requests -> AgentRows \cup {None}]
  /\ invite \in [Codes -> InviteRows \cup {None}]
  /\ attempts \subseteq [by : Requests, at : Nat]
  /\ restarts \in Nat
  /\ policy \in Policies
  /\ task \in [Requests -> Tasks]
  /\ pc \in [Requests -> PC]
  /\ clock \in [Requests -> Nat]
  /\ who \in [Requests -> Rows \cup {None}]
  /\ outcome \in [Requests -> {"none", "ok", "refused", "failed", "lost"}]
  /\ told \in [Requests -> Rows \cup {None}]
  /\ stale \in [Requests -> BOOLEAN]
  /\ earlier \in [Requests -> SUBSET Rows]

Init ==
  /\ now = 0
  /\ owner = [o \in Rows |->
       IF o \in Known THEN [email |-> None, key |-> o, invite |-> None] ELSE None]
  /\ agent = [r \in Requests |-> None]
  /\ invite = [c \in Codes |-> IF c \in Minted
       THEN [uses |-> 0, expires |-> Life[c], revoked |-> None] ELSE None]
  /\ attempts = {}
  /\ restarts = 0
  /\ \E s \in Scenarios : policy = s[1] /\ task = s[2]
  /\ pc = [r \in Requests |-> "idle"]
  /\ clock = [r \in Requests |-> 0]
  /\ who = [r \in Requests |-> None]
  /\ outcome = [r \in Requests |-> "none"]
  /\ told = [r \in Requests |-> None]
  /\ stale = [r \in Requests |-> FALSE]
  /\ earlier = [r \in Requests |-> {}]

Op(r) == task[r].op
Email(r) == task[r].email
Code(r) == task[r].code
Name(r) == task[r].name

Goto(r, where) == pc' = [pc EXCEPT ![r] = where] /\ UNCHANGED answers
Reply(r, how, row) ==
  /\ pc' = [pc EXCEPT ![r] = "done"]
  /\ outcome' = [outcome EXCEPT ![r] = how]
  /\ told' = [told EXCEPT ![r] = row]
Refuse(r) == Reply(r, "refused", None)

ReadClock(r) == clock' = [clock EXCEPT ![r] = now]
SameTables == UNCHANGED <<now, accounts, attempts, restarts, fixed>>

-----------------------------------------------------------------------------
(***************************************************************************)
(* Registering an owner.                                                   *)
(***************************************************************************)

\* Why a code cannot admit anyone: unknown, revoked, expired or used up.
Problem(c, time) ==
  \/ invite[c] = None
  \/ invite[c].revoked # None
  \/ invite[c].expires <= time
  \/ invite[c].uses >= MaxUses[c]

HeldBy(k) == {o \in Rows : owner[o] # None /\ owner[o].key = k}
WithEmail(e) == {o \in Rows : owner[o] # None /\ e # None /\ owner[o].email = e}
Called(o, n) == {a \in Requests : agent[a] # None /\ agent[a] = [owner |-> o, name |-> n]}

\* Every request is dated.
Arrives(r, op) ==
  /\ pc[r] = "idle"
  /\ Op(r) = op
  /\ ReadClock(r)
  /\ stale' = [stale EXCEPT ![r] = HeldBy(task[r].key) = {}]
  /\ earlier' = [earlier EXCEPT ![r] = IF op = "register" THEN WithEmail(Email(r)) ELSE {}]
  /\ UNCHANGED <<now, accounts, restarts, policy, task, who>>

\* The rate limit counts before the code is looked at, and drops what is too old.
Recent == {a \in attempts : now < a.at + Window}

Admitted(r) == Goto(r, IF Code(r) = None THEN "lookup" ELSE "assert")

AdmitOperator(r) ==
  /\ Arrives(r, "register") /\ task[r].operator
  /\ Admitted(r)
  /\ UNCHANGED attempts

AdmitSelf(r) ==
  /\ Arrives(r, "register") /\ ~task[r].operator
  /\ IF policy = "admin" \/ Cardinality(Recent) >= Limit
     THEN Refuse(r) /\ UNCHANGED attempts
     ELSE /\ attempts' = Recent \cup {[by |-> r, at |-> now]}
          /\ IF policy = "invite" /\ Code(r) = None THEN Refuse(r) ELSE Admitted(r)

AssertUsable(r) ==
  /\ pc[r] = "assert"
  /\ IF Problem(Code(r), now) THEN Refuse(r) ELSE Goto(r, "lookup")
  /\ UNCHANGED <<clock, who>> /\ SameTables

Lookup(r) ==
  /\ pc[r] = "lookup"
  /\ \/ WithEmail(Email(r)) = {} /\ Goto(r, "begin")
     \/ \E o \in WithEmail(Email(r)) : Reply(r, "ok", o)
  /\ UNCHANGED <<clock, who>> /\ SameTables

\* NOW() in a transaction is the time it began.
Begin(r) ==
  /\ pc[r] = "begin"
  /\ Goto(r, IF Code(r) = None THEN "create" ELSE "consume")
  /\ ReadClock(r)
  /\ UNCHANGED who /\ SameTables

Locked(c) == \E q \in Requests : pc[q] = "create" /\ Code(q) = c

\* Faulty: the UPDATE that spends a use does not look at the row again.
ConsumeBlindly(r) ==
  /\ pc[r] = "consume" /\ ~Locked(Code(r))
  /\ Goto(r, "create")
  /\ UNCHANGED <<clock, who>> /\ SameTables

ConsumeInvite(r) ==
  /\ pc[r] = "consume" /\ ~Locked(Code(r))
  /\ IF Problem(Code(r), clock[r]) THEN Refuse(r) ELSE Goto(r, "create")
  /\ UNCHANGED <<clock, who>> /\ SameTables

OwnerOf(r) == [email |-> Email(r), key |-> r, invite |-> Code(r)]
Spent(c) == [invite EXCEPT ![c].uses = @ + 1]

\* Faulty: a use stays spent when the e-mail turns out to be taken.
CreateKeepingUse(r) ==
  /\ pc[r] = "create"
  /\ IF WithEmail(Email(r)) # {}
     THEN Reply(r, "failed", None) /\ UNCHANGED owner
     ELSE Reply(r, "ok", r) /\ owner' = [owner EXCEPT ![r] = OwnerOf(r)]
  /\ invite' = IF Code(r) = None THEN invite ELSE Spent(Code(r))
  /\ UNCHANGED <<now, agent, attempts, restarts, clock, who, fixed>>

\* The insert and the commit: the use is spent with it, or not at all.
CreateOwner(r) ==
  /\ pc[r] = "create"
  /\ IF WithEmail(Email(r)) # {}
     THEN Reply(r, "failed", None) /\ UNCHANGED <<owner, invite>>
     ELSE /\ Reply(r, "ok", r)
          /\ owner' = [owner EXCEPT ![r] = OwnerOf(r)]
          /\ invite' = IF Code(r) = None THEN invite ELSE Spent(Code(r))
  /\ UNCHANGED <<now, agent, attempts, restarts, clock, who, fixed>>

-----------------------------------------------------------------------------
(***************************************************************************)
(* Invite codes, made and revoked by the operator.                         *)
(***************************************************************************)

ArriveInvite(r) == Arrives(r, "invite") /\ Goto(r, "mint") /\ UNCHANGED attempts
ArriveRevoke(r) == Arrives(r, "revoke") /\ Goto(r, "findInvite") /\ UNCHANGED attempts

CreateInvite(r) ==
  /\ pc[r] = "mint" /\ invite[Code(r)] = None
  /\ invite' = [invite EXCEPT ![Code(r)] =
       [uses |-> 0, expires |-> clock[r] + Life[Code(r)], revoked |-> None]]
  /\ Reply(r, "ok", None)
  /\ UNCHANGED <<now, owner, agent, attempts, restarts, clock, who, fixed>>

FindInvite(r) ==
  /\ pc[r] = "findInvite"
  /\ IF invite[Code(r)] = None THEN Refuse(r) /\ UNCHANGED clock
     ELSE IF invite[Code(r)].revoked # None THEN Reply(r, "ok", None) /\ UNCHANGED clock
     ELSE Goto(r, "revokeInvite") /\ ReadClock(r)
  /\ UNCHANGED who /\ SameTables

RevokeInvite(r) ==
  /\ pc[r] = "revokeInvite" /\ ~Locked(Code(r))
  /\ invite' = [invite EXCEPT ![Code(r)].revoked = clock[r]]
  /\ Reply(r, "ok", None)
  /\ UNCHANGED <<now, owner, agent, attempts, restarts, clock, who, fixed>>

-----------------------------------------------------------------------------
(***************************************************************************)
(* What an owner does with a key.                                          *)
(***************************************************************************)

ByKey == {"claim", "rotate", "agent", "rename"}

\* A key is known once the request that made it is answered.
Issued(k) ==
  \/ k \in Known
  \/ k \in Requests /\ outcome[k] = "ok"
       /\ (Op(k) = "rotate" \/ (Op(k) = "register" /\ told[k] = k))

ArriveWithKey(r) ==
  /\ \E op \in ByKey : Arrives(r, op)
  /\ Issued(task[r].key)
  /\ Goto(r, "auth")
  /\ UNCHANGED attempts

First(op) == IF op = "claim" THEN "holder" ELSE IF op = "rotate" THEN "rotate"
             ELSE IF op = "agent" THEN "findAgent" ELSE "ownAgent"

\* Faulty: the key an owner was registered with is taken for ever.
AuthByFirstKey(r) ==
  /\ pc[r] = "auth"
  /\ \/ /\ HeldBy(task[r].key) = {} /\ (task[r].key \notin Rows \/ owner[task[r].key] = None)
        /\ Refuse(r) /\ UNCHANGED who
     \/ \E o \in HeldBy(task[r].key) \cup {p \in Rows : p = task[r].key /\ owner[p] # None} :
          who' = [who EXCEPT ![r] = o] /\ Goto(r, First(Op(r)))
  /\ UNCHANGED clock /\ SameTables

\* The agents an owner has are those of whoever holds the key now.
Auth(r) ==
  /\ pc[r] = "auth"
  /\ \/ HeldBy(task[r].key) = {} /\ Refuse(r) /\ UNCHANGED <<who, earlier>>
     \/ \E o \in HeldBy(task[r].key) :
          /\ who' = [who EXCEPT ![r] = o] /\ Goto(r, First(Op(r)))
          /\ earlier' = [earlier EXCEPT ![r] = IF Op(r) = "agent" THEN Called(o, Name(r)) ELSE {}]
  /\ UNCHANGED <<now, accounts, attempts, restarts, clock, policy, task, stale>>

\* Writing an owner's row; another owner's e-mail is a unique violation.
Holder(r) ==
  /\ pc[r] = "holder"
  /\ IF WithEmail(Email(r)) \subseteq {who[r]} THEN Goto(r, "claim") ELSE Refuse(r)
  /\ UNCHANGED <<clock, who>> /\ SameTables

Claim(r) ==
  /\ pc[r] = "claim"
  /\ IF WithEmail(Email(r)) \subseteq {who[r]}
     THEN /\ Reply(r, "ok", who[r])
          /\ owner' = [owner EXCEPT ![who[r]].email = Email(r)]
     ELSE Reply(r, "failed", None) /\ UNCHANGED owner
  /\ UNCHANGED <<now, agent, invite, attempts, restarts, clock, who, fixed>>

RotateKey(r) ==
  /\ pc[r] = "rotate"
  /\ Reply(r, "ok", who[r])
  /\ owner' = [owner EXCEPT ![who[r]].key = r]
  /\ UNCHANGED <<now, agent, invite, attempts, restarts, clock, who, fixed>>

-----------------------------------------------------------------------------
(***************************************************************************)
(* Agents: looked up by (owner, name), then created.                       *)
(***************************************************************************)

FindAgent(r) ==
  /\ pc[r] = "findAgent"
  /\ \/ Called(who[r], Name(r)) = {} /\ Goto(r, "createAgent")
     \/ \E a \in Called(who[r], Name(r)) : Reply(r, "ok", a)
  /\ UNCHANGED <<clock, who>> /\ SameTables

\* Faulty: the table has no unique (owner, name).
CreateAgentAnyway(r) ==
  /\ pc[r] = "createAgent"
  /\ Reply(r, "ok", r)
  /\ agent' = [agent EXCEPT ![r] = [owner |-> who[r], name |-> Name(r)]]
  /\ UNCHANGED <<now, owner, invite, attempts, restarts, clock, who, fixed>>

CreateAgent(r) ==
  /\ pc[r] = "createAgent"
  /\ IF Called(who[r], Name(r)) = {}
     THEN /\ Reply(r, "ok", r)
          /\ agent' = [agent EXCEPT ![r] = [owner |-> who[r], name |-> Name(r)]]
     ELSE Reply(r, "failed", None) /\ UNCHANGED agent
  /\ UNCHANGED <<now, owner, invite, attempts, restarts, clock, who, fixed>>

\* Renaming: only the owner's own agent, and only to a name no other agent of it has.
OwnAgent(r) ==
  /\ pc[r] = "ownAgent"
  /\ LET a == agent[task[r].agent]
     IN  IF a = None THEN Refuse(r)
         ELSE IF a.owner # who[r] THEN Refuse(r)
         ELSE Goto(r, IF a.name = Name(r) THEN "rename" ELSE "checkName")
  /\ UNCHANGED <<clock, who>> /\ SameTables

CheckName(r) ==
  /\ pc[r] = "checkName"
  /\ IF Called(who[r], Name(r)) = {} THEN Goto(r, "rename") ELSE Refuse(r)
  /\ UNCHANGED <<clock, who>> /\ SameTables

Rename(r) ==
  /\ pc[r] = "rename"
  /\ IF Called(who[r], Name(r)) \subseteq {task[r].agent}
     THEN /\ Reply(r, "ok", task[r].agent)
          /\ agent' = [agent EXCEPT ![task[r].agent].name = Name(r)]
     ELSE Reply(r, "failed", None) /\ UNCHANGED agent
  /\ UNCHANGED <<now, owner, invite, attempts, restarts, clock, who, fixed>>

-----------------------------------------------------------------------------
Tick ==
  /\ now < MaxTime /\ now' = now + 1
  /\ UNCHANGED <<accounts, attempts, restarts, pc, clock, who, answers, fixed>>

\* The process restarts: it forgets the attempts it counted, and every request
\* in flight is lost; a transaction that had not committed leaves nothing.
Restart ==
  /\ restarts < MaxRestarts /\ restarts' = restarts + 1
  /\ attempts' = {}
  /\ LET cut == {r \in Requests : pc[r] \notin {"idle", "done"}}
     IN  /\ pc' = [r \in Requests |-> IF r \in cut THEN "done" ELSE pc[r]]
         /\ outcome' = [r \in Requests |-> IF r \in cut THEN "lost" ELSE outcome[r]]
  /\ UNCHANGED <<now, accounts, clock, who, told, fixed>>

Step(r) ==
  \/ AdmitOperator(r) \/ AdmitSelf(r) \/ AssertUsable(r) \/ Lookup(r) \/ Begin(r)
  \/ ConsumeInvite(r) \/ CreateOwner(r)
  \/ ArriveInvite(r) \/ CreateInvite(r) \/ ArriveRevoke(r) \/ FindInvite(r) \/ RevokeInvite(r)
  \/ ArriveWithKey(r) \/ Auth(r) \/ Holder(r) \/ Claim(r) \/ RotateKey(r)
  \/ FindAgent(r) \/ CreateAgent(r) \/ OwnAgent(r) \/ CheckName(r) \/ Rename(r)

Quiet == \A r \in Requests : pc[r] \in {"idle", "done"}

Next ==
  \/ \E r \in Requests : Step(r)
  \/ Tick
  \/ Restart
  \/ Quiet /\ UNCHANGED vars

Spec == Init /\ [][Next]_vars

-----------------------------------------------------------------------------
(***************************************************************************)
(* Properties.                                                             *)
(***************************************************************************)

AdmittedBy(c) == {o \in Rows : owner[o] # None /\ owner[o].invite = c}

\* A code admits as many owners as uses are spent on it, and never more than it
\* has: two registrations racing for the last use do not both get in, and one
\* that fails after it has spent a use gives it back (consumeInvite).
InvitesAdmitTheirUses ==
  \A c \in Codes : invite[c] # None =>
    /\ invite[c].uses = Cardinality(AdmittedBy(c))
    /\ invite[c].uses <= MaxUses[c]

\* An owner is created only under a code nobody has revoked by then, and that had
\* not expired when the transaction began: not even a registration that found the
\* code usable gets in after its revocation ("it admits nobody from now on").
CodesAdmitWhileUsable ==
  [][\A r \in Requests : owner[r] = None /\ owner'[r] # None /\ Code(r) # None =>
       invite[Code(r)].revoked = None /\ clock[r] < invite[Code(r)].expires]_vars

\* Registration is idempotent ("idempotent on e-mail", "same (owner, name) -> same
\* agent"), unless the e-mail or the name is changed by the one endpoint for that.
\* Who registers an e-mail an owner has already when the request comes, or a name
\* an agent of the owner has already when the key is looked up, is told of that row,
\* once admitted, and of no other, and never gets a failure; and two who succeed are
\* told of one row.  It is no more than that: of two first registrations at once, neither of
\* which finds the row, the one that commits last meets the unique index and is
\* answered 500, where owners.ts:41,48 and agents.ts:50-57 say it gets the row.
Moved(o, op) == \E x \in Requests : Op(x) = op /\ outcome[x] = "ok" /\ told[x] = o

ChangedBy(op) == IF op = "register" THEN "claim" ELSE "rename"

RegistrationsAgree ==
  /\ \A r \in Requests : \A x \in earlier[r] :
       \/ outcome[r] # "failed" /\ (outcome[r] = "ok" => told[r] = x)
       \/ Moved(x, ChangedBy(Op(r)))
  /\ \A q, r \in Requests :
       /\ outcome[q] = "ok" /\ outcome[r] = "ok" /\ told[q] # told[r]
       => /\ Op(q) = "register" /\ Op(r) = "register" /\ Email(q) = Email(r) /\ Email(q) # None
               => Moved(told[q], "claim") \/ Moved(told[r], "claim")
          /\ Op(q) = "agent" /\ Op(r) = "agent" /\ who[q] = who[r] /\ Name(q) = Name(r)
               => Moved(told[q], "rename") \/ Moved(told[r], "rename")

\* Who comes with a key that a rotation has replaced gets nothing done, however
\* the requests of the owner interleave ("immediately invalidate the previous one").
DeadKeysDoNothing ==
  \A r \in Requests : stale[r] /\ Op(r) \in ByKey => outcome[r] # "ok"

-----------------------------------------------------------------------------
(***************************************************************************)
(* The inductive invariant.                                                *)
(***************************************************************************)

\* Which requests come to which statement.
Placed(r) ==
  /\ pc[r] \in {"assert", "lookup", "begin", "consume", "create"} => Op(r) = "register"
  /\ pc[r] \in {"assert", "consume"} => Code(r) # None
  /\ pc[r] = "mint" => Op(r) = "invite"
  /\ pc[r] \in {"findInvite", "revokeInvite"} => Op(r) = "revoke"
  /\ pc[r] = "auth" => Op(r) \in ByKey
  /\ pc[r] \in {"holder", "claim"} => Op(r) = "claim"
  /\ pc[r] = "rotate" => Op(r) = "rotate"
  /\ pc[r] \in {"findAgent", "createAgent"} => Op(r) = "agent"
  /\ pc[r] \in {"ownAgent", "checkName", "rename"} => Op(r) = "rename"
  /\ pc[r] \in {"holder", "claim", "rotate", "findAgent", "createAgent", "ownAgent",
                "checkName", "rename"} => who[r] # None /\ owner[who[r]] # None
  /\ pc[r] \in {"checkName", "rename"} =>
       agent[task[r].agent] # None /\ agent[task[r].agent].owner = who[r]
  /\ pc[r] = "revokeInvite" => invite[Code(r)] # None

\* A request makes its own row, once, and last of all.
Made(r) ==
  /\ pc[r] = "done" <=> outcome[r] # "none"
  /\ owner[r] # None =>
       Op(r) = "register" /\ outcome[r] = "ok" /\ told[r] = r /\ owner[r].invite = Code(r)
  /\ agent[r] # None => Op(r) = "agent" /\ outcome[r] = "ok" /\ told[r] = r

\* What a successful request was told of is there, under the name it gave unless
\* that was changed since.
Told(r) ==
  /\ outcome[r] = "ok" /\ Op(r) = "register" =>
       /\ told[r] # None /\ owner[told[r]] # None
       /\ Email(r) # None /\ owner[told[r]].email # Email(r) => Moved(told[r], "claim")
  /\ outcome[r] = "ok" /\ Op(r) = "agent" =>
       /\ told[r] \in Requests /\ agent[told[r]] # None /\ agent[told[r]].owner = who[r]
       /\ agent[told[r]].name # Name(r) => Moved(told[r], "rename")

\* What had the e-mail or the name keeps it until it is changed, and no request that
\* could have found it goes on to create another.
Found(r) ==
  \A x \in earlier[r] :
    /\ Op(r) \in {"register", "agent"}
    /\ Op(r) = "register" => Email(r) # None /\ owner[x] # None
    /\ Op(r) = "agent" => x \in Requests /\ agent[x] # None /\ agent[x].owner = who[r]
    /\ \/ /\ Op(r) = "register" => owner[x].email = Email(r)
          /\ Op(r) = "agent" => agent[x].name = Name(r)
          /\ pc[r] \notin {"begin", "consume", "create", "createAgent"}
          /\ outcome[r] # "failed" /\ (outcome[r] = "ok" => told[r] = x)
       \/ Moved(x, ChangedBy(Op(r)))

\* A key that was over at arrival gets no further than the look at it.
Dated(r) ==
  /\ clock[r] <= now
  /\ stale[r] /\ Op(r) \in ByKey =>
       Issued(task[r].key) /\ HeldBy(task[r].key) = {} /\ pc[r] \in {"auth", "done"}

\* The transaction that has spent a use holds the only claim on it.
Spending(r) ==
  pc[r] = "create" /\ Code(r) # None =>
    /\ invite[Code(r)] # None /\ invite[Code(r)].revoked = None
    /\ clock[r] < invite[Code(r)].expires
    /\ invite[Code(r)].uses < MaxUses[Code(r)]
    /\ \A q \in Requests : pc[q] = "create" /\ Code(q) = Code(r) => q = r

RequestsInv ==
  \A r \in Requests : Placed(r) /\ Made(r) /\ Told(r) /\ Found(r) /\ Dated(r) /\ Spending(r)

\* The unique indexes: e-mails, keys, and the names of an owner's agents.
Unique ==
  /\ \A o \in Rows : owner[o] # None => Issued(owner[o].key)
  /\ \A o, p \in Rows : owner[o] # None /\ owner[p] # None /\ o # p =>
       owner[o].key # owner[p].key /\ (owner[o].email = None \/ owner[o].email # owner[p].email)
  /\ \A a, b \in Requests : agent[a] # None /\ agent[b] # None /\ a # b => agent[a] # agent[b]

Admissions ==
  /\ InvitesAdmitTheirUses
  /\ \A c \in Codes : invite[c] = None => AdmittedBy(c) = {}

AccountsInv ==
  /\ TypeOK
  /\ RequestsInv
  /\ Unique
  /\ Admissions
  /\ RegistrationsAgree
  /\ DeadKeysDoNothing
=============================================================================
