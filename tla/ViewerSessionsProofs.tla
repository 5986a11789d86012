------------------------ MODULE ViewerSessionsProofs ------------------------
(***************************************************************************)
(* Proofs about ViewerSessions, for every set of owners, browsers and      *)
(* requests, whatever the requests are about, and all times to live.       *)
(***************************************************************************)
EXTENDS ViewerSessions, TLAPS

\* What viewerForSession leads to: the request is done, or replaces the session.
LEMMA Resolved ==
  ASSUME TypeOK, NEW r \in Requests, NEW viewer \in Viewers \cup {None}, Resolve(r, viewer)
  PROVE  \/ /\ as' = [as EXCEPT ![r] = viewer]
            /\ pc' = [pc EXCEPT ![r] = "done"]
            /\ clock' = clock
            /\ Op(r) = "page" \/ (viewer # None /\ viewer.owner = as[r].owner)
         \/ /\ as' = as /\ Op(r) # "page"
            /\ \/ sent[r] # None /\ pc' = [pc EXCEPT ![r] = "end"] /\ clock' = clock
               \/ /\ pc' = [pc EXCEPT ![r] = "purge"]
                  /\ clock' = [clock EXCEPT ![r] = now]
BY DEF TypeOK, Resolve, Replace, Goto

\* The viewers that are resolved.
LEMMA Viewing ==
  /\ \A o \in Owners \cup {Admin} : AsOwner(o) \in Viewers
  /\ \A found \in SessionRows : [owner |-> found.owner, grant |-> found.grant] \in Viewers
BY DEF AsOwner, Viewers, SessionRows

-----------------------------------------------------------------------------
(* Types. *)

LEMMA TypeInit == Init => TypeOK
BY ScenariosAssumption DEF Init, TypeOK, PC

LEMMA TaskTyping ==
  ASSUME TypeOK, NEW r \in Requests
  PROVE  /\ Op(r) \in {"issue", "grant", "list", "revoke"} => task[r].owner \in Owners
         /\ Op(r) = "signin" => task[r].owner \in Owners \cup {Admin}
         /\ Op(r) \in {"revoke", "ticket", "link"} => Item(r) \in Requests
         /\ Op(r) \in {"signin", "ticket", "link", "page", "logout"} =>
              task[r].browser \in Browsers
         /\ Cookie(r) \in Requests \cup {None}
         /\ Op(r) \in {"issue", "grant", "list", "revoke", "signin", "ticket", "link",
                       "page", "logout"}
<1>1. task[r] \in Tasks  BY DEF TypeOK
<1>2. task[r].browser \in Browsers \cup {None}  BY <1>1 DEF Tasks
<1> QED  BY <1>1, <1>2 DEF Tasks, TypeOK, Op, Item, Cookie

LEMMA ResolvedTyping ==
  ASSUME TypeOK, NEW r \in Requests, NEW viewer \in Viewers \cup {None}, Resolve(r, viewer)
  PROVE  /\ as' \in [Requests -> Viewers \cup {None}]
         /\ pc' \in [Requests -> PC]
         /\ clock' \in [Requests -> Nat]
<1>1. as' \in [Requests -> Viewers \cup {None}]  BY Resolved DEF TypeOK
<1>2. pc' \in [Requests -> PC]  BY Resolved DEF TypeOK, PC
<1>3. clock' \in [Requests -> Nat]  BY Resolved DEF TypeOK
<1> QED  BY <1>1, <1>2, <1>3

LEMMA ReplaceTyping ==
  ASSUME TypeOK, NEW r \in Requests, Replace(r)
  PROVE  pc' \in [Requests -> PC] /\ clock' \in [Requests -> Nat]
BY DEF TypeOK, Replace, Goto, PC

LEMMA TypeStep ==
  ASSUME TypeOK, RequestsInv, [Next]_vars
  PROVE  TypeOK'
<1> USE DEF TypeOK
<1>1. ASSUME NEW r \in Requests, Handle(r)  PROVE TypeOK'
  <2>0. Placed(r) /\ SignsIn(r)  BY DEF RequestsInv
  <2>1. CASE Arrive(r)
    <3>1. ASSUME NEW presented \in Requests \cup {None}, NEW where \in PC,
                 Starts(r, presented, where)
          PROVE  TypeOK'
      BY <3>1, TaskTyping, Viewing DEF Starts, Goto, tables, AsOwner, Viewers
    <3> QED  BY <2>1, <3>1, TaskTyping DEF Arrive, PC
  <2>2. CASE End(r)
    <3>1. session' \in [Requests -> SessionRows \cup {None}]  BY <2>2 DEF End
    <3>2. pc' \in [Requests -> PC]  BY <2>2 DEF End, Goto, PC
    <3>3. clock' \in [Requests -> Nat]  BY <2>2 DEF End
    <3> QED  BY <2>2, <3>1, <3>2, <3>3 DEF End
  <2>3. CASE Purge(r)
    BY <2>3 DEF Purge, Goto, locals, PC
  <2>4. CASE Create(r)
    <3>1. as[r] \in Viewers  BY <2>0, <2>4 DEF SignsIn, OnAuthority, Create, Placed, Openers
    <3>2. Expiry(r) \in Nat
      <4>1. clock[r] + SessionTtl \in Nat  BY TimesAssumption
      <4>2. as[r].grant # None => grant[as[r].grant] \in GrantRows
        <5>1. SUFFICES ASSUME as[r].grant # None  PROVE grant[as[r].grant] \in GrantRows
          OBVIOUS
        <5>2. as[r].grant \in Requests  BY <3>1, <5>1 DEF Viewers
        <5>3. as[r] = Authority(r)
          BY <2>0, <2>4 DEF SignsIn, OnAuthority, Create, Placed, Openers
        <5>4. Op(r) = "link" /\ as[r].grant = Item(r)  BY <5>1, <5>3 DEF Authority
        <5>5. grant[Item(r)] # None
          BY <2>0, <5>4, <2>4 DEF SignsIn, OnAuthority, Create
        <5> QED  BY <5>2, <5>4, <5>5
      <4> QED  BY <4>1, <4>2 DEF Expiry, GrantRows
    <3>3. [owner |-> as[r].owner, grant |-> as[r].grant, expires |-> Expiry(r)] \in SessionRows
      BY <3>1, <3>2 DEF Viewers, SessionRows
    <3> QED  BY <2>4, <3>3 DEF Create, Goto, locals, PC
  <2>5. CASE Deliver(r)
    BY <2>5 DEF Deliver, Goto, locals, tables, PC
  <2>6. CASE FindSession(r)
    <3>1. sent[r] \in Requests  BY <2>0, <2>6 DEF Placed, FindSession
    <3>2. session[sent[r]] \in SessionRows \cup {None}  BY <3>1
    <3>3. CASE Resolve(r, None)
      BY <2>6, <3>2, <3>3, ResolvedTyping DEF FindSession, tables
    <3>4. CASE session[sent[r]] # None /\ Resolve(r, AsOwner(session[sent[r]].owner))
      <4>1. AsOwner(session[sent[r]].owner) \in Viewers
        BY <3>2, <3>4, Viewing DEF SessionRows
      <4> QED  BY <2>6, <3>2, <3>4, <4>1, ResolvedTyping DEF FindSession, tables
    <3>5. CASE \E where \in {"forget", "checkGrant"} : Goto(r, where) /\ UNCHANGED <<clock, as>>
      BY <2>6, <3>2, <3>5 DEF FindSession, Goto, tables, PC
    <3> QED  BY <2>6, <3>3, <3>4, <3>5 DEF FindSession
  <2>7. CASE CheckGrant(r)
    <3>1. row[r] \in SessionRows  BY <2>0, <2>7 DEF Placed, CheckGrant
    <3>2. CASE Resolve(r, [owner |-> row[r].owner, grant |-> row[r].grant])
      <4>1. [owner |-> row[r].owner, grant |-> row[r].grant] \in Viewers
        BY <3>1, Viewing
      <4> QED  BY <2>7, <3>2, <4>1, ResolvedTyping DEF CheckGrant, tables
    <3>3. CASE Goto(r, "forget") /\ UNCHANGED <<clock, as>>
      BY <2>7, <3>3 DEF CheckGrant, Goto, tables, PC
    <3> QED  BY <2>7, <3>2, <3>3 DEF CheckGrant
  <2>8. CASE Forget(r)
    BY <2>0, <2>8, ResolvedTyping DEF Forget, Placed
  <2>9. CASE PurgeTickets(r)
    BY <2>9 DEF PurgeTickets, Goto, locals, PC
  <2>10. CASE CreateTicket(r)
    <3>1. task[r].owner \in Owners  BY <2>0, <2>10, TaskTyping DEF Placed, CreateTicket
    <3>2. clock[r] + TicketTtl \in Nat  BY TimesAssumption
    <3>3. [owner |-> task[r].owner, expires |-> clock[r] + TicketTtl, used |-> FALSE]
            \in TicketRows
      BY <3>1, <3>2 DEF TicketRows
    <3> QED  BY <2>10, <3>3 DEF CreateTicket, Goto, locals, PC
  <2>11. CASE Consume(r)
    <3>1. Item(r) \in Requests  BY <2>0, <2>11, TaskTyping DEF Placed, Consume
    <3>2. CASE Usable(Item(r), clock[r])
      <4>1. ticket[Item(r)] \in TicketRows  BY <3>1, <3>2 DEF Usable
      <4>2. ticket' \in [Requests -> TicketRows \cup {None}]
        <5>1. [ticket[Item(r)] EXCEPT !.used = TRUE] \in TicketRows  BY <4>1 DEF TicketRows
        <5>2. ticket' = [ticket EXCEPT ![Item(r)].used = TRUE]  BY <2>11, <3>2 DEF Consume
        <5> QED  BY <3>1, <5>1, <5>2
      <4>3. AsOwner(ticket[Item(r)].owner) \in Viewers  BY <4>1, Viewing DEF TicketRows
      <4>4. as' \in [Requests -> Viewers \cup {None}]  BY <2>11, <3>2, <4>3 DEF Consume
      <4>5. CASE Replace(r)
        BY <2>11, <3>2, <4>2, <4>4, <4>5, ReplaceTyping DEF Consume
      <4>6. CASE Goto(r, "findSession") /\ UNCHANGED clock
        BY <2>11, <3>2, <4>2, <4>4, <4>6 DEF Consume, Goto, PC
      <4> QED  BY <2>11, <3>2, <4>5, <4>6 DEF Consume
    <3>3. CASE ~Usable(Item(r), clock[r])
      BY <2>11, <3>3 DEF Consume, Goto, PC
    <3> QED  BY <3>2, <3>3
  <2>12. CASE DropKeys(r)
    <3>1. grant' \in [Requests -> GrantRows \cup {None}]
      BY <2>12 DEF DropKeys, GrantRows
    <3> QED  BY <2>12, <3>1 DEF DropKeys, Goto, locals, PC
  <2>13. CASE CreateGrant(r)
    <3>1. task[r].owner \in Owners  BY <2>0, <2>13, TaskTyping DEF Placed, CreateGrant
    <3>2. clock[r] + GrantTtl \in Nat  BY TimesAssumption
    <3>3. [owner |-> task[r].owner, expires |-> clock[r] + GrantTtl, status |-> "open"]
            \in GrantRows
      BY <3>1, <3>2 DEF GrantRows
    <3>4. grant' \in [Requests -> GrantRows \cup {None}]  BY <2>13, <3>3 DEF CreateGrant
    <3> QED  BY <2>13, <3>4 DEF CreateGrant, Goto, locals, PC
  <2>14. CASE FindGrant(r)
    <3>1. Item(r) \in Requests  BY <2>0, <2>14, TaskTyping DEF Placed, FindGrant
    <3>2. CASE InForce(Item(r), clock[r])
      <4>1. [owner |-> grant[Item(r)].owner, grant |-> Item(r)] \in Viewers
        BY <3>1, <3>2 DEF InForce, GrantRows, Viewers
      <4>2. as' \in [Requests -> Viewers \cup {None}]  BY <2>14, <3>2, <4>1 DEF FindGrant
      <4>3. Replace(r)  BY <2>14, <3>2 DEF FindGrant
      <4>4. pc' \in [Requests -> PC] /\ clock' \in [Requests -> Nat]  BY <4>3, ReplaceTyping
      <4> QED  BY <2>14, <4>2, <4>4 DEF FindGrant, tables
    <3>3. CASE ~InForce(Item(r), clock[r])
      BY <2>14, <3>3 DEF FindGrant, Goto, tables, PC
    <3> QED  BY <3>2, <3>3
  <2>15. CASE Revoke(r)
    <3>1. grant' \in [Requests -> GrantRows \cup {None}]
      <4>1. Item(r) \in Requests  BY <2>0, <2>15, TaskTyping DEF Placed, Revoke
      <4>2. grant[Item(r)] # None => [grant[Item(r)] EXCEPT !.status = "revoked"] \in GrantRows
        BY <4>1 DEF GrantRows
      <4> QED  BY <2>15, <4>1, <4>2 DEF Revoke
    <3> QED  BY <2>15, <3>1 DEF Revoke, Goto, locals, PC
  <2>16. CASE SignOut(r)
    BY <2>16 DEF SignOut, Goto, locals, PC
  <2> QED  BY <1>1, <2>1, <2>2, <2>3, <2>4, <2>5, <2>6, <2>7, <2>8, <2>9, <2>10, <2>11, <2>12,
              <2>13, <2>14, <2>15, <2>16 DEF Handle
<1>2. CASE Tick  BY <1>2, now + 1 \in Nat DEF Tick, tables, locals
<1>3. CASE UNCHANGED vars  BY <1>3 DEF vars, tables, locals
<1> QED  BY <1>1, <1>2, <1>3 DEF Next

-----------------------------------------------------------------------------
(* What a step does to the requests and rows that are not its own. *)

\* Owner and expiry of a grant never change, and one that ended stays so.
GrantsStay ==
  \A g \in Requests : grant[g] # None =>
    /\ grant'[g] # None
    /\ grant'[g].owner = grant[g].owner /\ grant'[g].expires = grant[g].expires
    /\ grant[g].status # "open" => grant'[g].status # "open"

LEMMA GrantsStayed ==
  ASSUME TypeOK, RequestsInv, NEW r \in Requests, Handle(r)
  PROVE  /\ GrantsStay
         /\ \A g \in Requests : grant'[g] # None => grant[g] # None \/ (CreateGrant(r) /\ g = r)
<1> USE DEF GrantsStay
<1>0. Placed(r) /\ Tabled(r)  BY DEF RequestsInv
<1>1. CASE DropKeys(r)
  <2>1. ASSUME NEW g \in Requests, grant[g] # None
        PROVE  LET e == [grant[g] EXCEPT !.status = "ended"] IN
               e # None /\ e.owner = grant[g].owner /\ e.expires = grant[g].expires
                 /\ e.status # "open"
    <3>1. grant[g] \in GrantRows  BY <2>1 DEF TypeOK
    <3>2. [grant[g] EXCEPT !.status = "ended"] \in GrantRows  BY <3>1 DEF GrantRows
    <3> QED  BY <3>1, <3>2, NamesAssumption DEF GrantRows
  <2>2. \A g \in Requests : grant'[g] = grant[g]
          \/ (grant[g] # None /\ grant'[g] = [grant[g] EXCEPT !.status = "ended"])
    BY <1>1 DEF DropKeys
  <2> QED  BY <1>1, <2>1, <2>2
<1>2. CASE Revoke(r)
  <2>1. Item(r) \in Requests  BY <1>0, <1>2, TaskTyping DEF Placed, Revoke
  <2>2. ASSUME grant[Item(r)] # None
        PROVE  LET e == [grant[Item(r)] EXCEPT !.status = "revoked"] IN
               e # None /\ e.owner = grant[Item(r)].owner
                 /\ e.expires = grant[Item(r)].expires /\ e.status # "open"
    <3>1. grant[Item(r)] \in GrantRows  BY <2>1, <2>2 DEF TypeOK
    <3>2. [grant[Item(r)] EXCEPT !.status = "revoked"] \in GrantRows  BY <3>1 DEF GrantRows
    <3> QED  BY <3>1, <3>2, NamesAssumption DEF GrantRows
  <2>3. \A g \in Requests : grant'[g] = grant[g]
          \/ /\ g = Item(r) /\ grant[g] # None
             /\ grant'[g] = [grant[g] EXCEPT !.status = "revoked"]
    BY <1>2, <2>1 DEF Revoke, TypeOK
  <2> QED  BY <1>2, <2>2, <2>3
<1>3. CASE CreateGrant(r)
  <2>1. grant[r] = None  BY <1>0, <1>3 DEF Tabled, CreateGrant
  <2>2. \A g \in Requests \ {r} : grant'[g] = grant[g]  BY <1>3 DEF CreateGrant, TypeOK
  <2> QED  BY <1>3, <2>1, <2>2
<1>4. CASE grant' = grant  BY <1>4
<1>5. DropKeys(r) \/ Revoke(r) \/ CreateGrant(r) \/ grant' = grant
  <2>1. Arrive(r) => grant' = grant
    <3>1. \A presented, where : Starts(r, presented, where) => grant' = grant
      BY DEF Starts, tables
    <3> QED  BY <3>1 DEF Arrive
  <2>2. FindSession(r) \/ CheckGrant(r) \/ Forget(r) \/ FindGrant(r) => grant' = grant
    BY DEF FindSession, CheckGrant, Forget, FindGrant, tables
  <2>3. End(r) \/ Purge(r) \/ Create(r) \/ Deliver(r) \/ SignOut(r) => grant' = grant
    BY DEF End, Purge, Create, Deliver, SignOut, tables
  <2>4. PurgeTickets(r) \/ CreateTicket(r) \/ Consume(r) => grant' = grant
    BY DEF PurgeTickets, CreateTicket, Consume
  <2> QED  BY <2>1, <2>2, <2>3, <2>4 DEF Handle
<1> QED  BY <1>1, <1>2, <1>3, <1>4, <1>5

\* Requests do not touch one another; they may remove each other's sessions and
\* tickets, or use a ticket up.
LEMMA Others ==
  ASSUME TypeOK, RequestsInv, NEW r \in Requests, Handle(r)
  PROVE  /\ now' = now /\ task' = task
         /\ \A q \in Requests \ {r} :
              /\ pc'[q] = pc[q] /\ clock'[q] = clock[q] /\ sent'[q] = sent[q]
              /\ row'[q] = row[q] /\ as'[q] = as[q] /\ late'[q] = late[q]
              /\ session'[q] \in {session[q], None}
              /\ ticket'[q] # None =>
                   /\ ticket[q] # None /\ ticket'[q].owner = ticket[q].owner
                   /\ ticket[q].used => ticket'[q].used
<1> USE DEF TypeOK, Goto
<1>0. Placed(r)  BY DEF RequestsInv
<1>1. CASE Arrive(r)
  <2>1. ASSUME NEW presented, NEW where, Starts(r, presented, where)
        PROVE  \A q \in Requests \ {r} :
                 /\ pc'[q] = pc[q] /\ clock'[q] = clock[q] /\ sent'[q] = sent[q]
                 /\ as'[q] = as[q] /\ late'[q] = late[q]
    BY <2>1 DEF Starts
  <2>2. ASSUME NEW presented, NEW where, Starts(r, presented, where)
        PROVE  UNCHANGED <<now, tables, task, row>>
    BY <2>2 DEF Starts
  <2>3. \E presented, where : Starts(r, presented, where)  BY <1>1 DEF Arrive
  <2> QED  BY <2>1, <2>2, <2>3 DEF tables
<1>2. CASE End(r)  BY <1>2 DEF End
<1>3. CASE Purge(r)  BY <1>3 DEF Purge, locals
<1>4. CASE Create(r)  BY <1>4 DEF Create, locals
<1>5. CASE Deliver(r)  BY <1>5 DEF Deliver, tables, locals
<1>6. CASE FindSession(r)  BY <1>6 DEF FindSession, Resolve, Replace, tables
<1>7. CASE CheckGrant(r)  BY <1>7 DEF CheckGrant, Resolve, Replace, tables
<1>8. CASE Forget(r)  BY <1>8 DEF Forget, Resolve, Replace
<1>9. CASE PurgeTickets(r)  BY <1>9 DEF PurgeTickets, locals
<1>10. CASE CreateTicket(r)  BY <1>10 DEF CreateTicket, locals
<1>11. CASE Consume(r)
  <2>1. Item(r) \in Requests  BY <1>0, <1>11, TaskTyping DEF Placed, Consume
  <2>2. ASSUME ticket[Item(r)] # None
        PROVE  LET e == [ticket[Item(r)] EXCEPT !.used = TRUE] IN
               e.owner = ticket[Item(r)].owner /\ e.used
    BY <2>1, <2>2 DEF TicketRows
  <2>3. \A q \in Requests : ticket'[q] = ticket[q]
          \/ /\ q = Item(r) /\ ticket[q] # None
             /\ ticket'[q] = [ticket[q] EXCEPT !.used = TRUE]
    <3>1. \/ ticket[Item(r)] # None /\ ticket' = [ticket EXCEPT ![Item(r)].used = TRUE]
          \/ ticket' = ticket
      BY <1>11 DEF Consume, Usable
    <3> QED  BY <2>1, <3>1
  <2>4. \A q \in Requests : ticket'[q] # None =>
          /\ ticket[q] # None /\ ticket'[q].owner = ticket[q].owner
          /\ ticket[q].used => ticket'[q].used
    BY <2>2, <2>3
  <2>5. \A q \in Requests \ {r} : pc'[q] = pc[q] /\ clock'[q] = clock[q] /\ as'[q] = as[q]
    BY <1>11 DEF Consume, Replace
  <2> QED  BY <1>11, <2>4, <2>5 DEF Consume
<1>12. CASE DropKeys(r)  BY <1>12 DEF DropKeys, locals
<1>13. CASE CreateGrant(r)  BY <1>13 DEF CreateGrant, locals
<1>14. CASE FindGrant(r)  BY <1>14 DEF FindGrant, Replace, tables
<1>15. CASE Revoke(r)  BY <1>15 DEF Revoke, locals
<1>16. CASE SignOut(r)  BY <1>16 DEF SignOut, locals
<1> QED  BY <1>1, <1>2, <1>3, <1>4, <1>5, <1>6, <1>7, <1>8, <1>9, <1>10, <1>11, <1>12, <1>13,
            <1>14, <1>15, <1>16 DEF Handle

\* A request that is done does nothing.
LEMMA DoneIsDone ==
  ASSUME NEW r \in Requests, Handle(r)
  PROVE  pc[r] # "done"
<1>1. Arrive(r) => pc[r] = "idle"
  <2>1. \A presented, where : Starts(r, presented, where) => pc[r] = "idle"  BY DEF Starts
  <2> QED  BY <2>1 DEF Arrive
<1> QED
  BY <1>1 DEF Handle, End, Purge, Create, Deliver, FindSession, CheckGrant, Forget, PurgeTickets,
     CreateTicket, Consume, DropKeys, CreateGrant, FindGrant, Revoke, SignOut

LEMMA SoundStays ==
  ASSUME TypeOK, GrantsStay, task' = task,
         NEW found \in SessionRows, NEW s \in Requests, Sound(found, s)
  PROVE  Sound(found, s)'
<1>1. Authority(s)' = Authority(s)  BY DEF Authority, Op, Item
<1>2. found.grant # None => found.grant \in Requests  BY DEF SessionRows
<1> QED  BY <1>1, <1>2 DEF Sound, GrantsStay

\* What is said of a request outlives the steps of the others.
LEMMA OthersKeep ==
  ASSUME TypeOK, RequestsInv, NEW r \in Requests, Handle(r), NEW q \in Requests, q # r
  PROVE  (Placed(q) /\ Tabled(q) /\ SoundRows(q) /\ SignsIn(q) /\ Timed(q) /\ Belated(q))'
<1>0. Placed(q) /\ Tabled(q) /\ SoundRows(q) /\ SignsIn(q) /\ Timed(q) /\ Belated(q)
  BY DEF RequestsInv
<1>1. /\ now' = now /\ task' = task
      /\ pc'[q] = pc[q] /\ clock'[q] = clock[q] /\ sent'[q] = sent[q]
      /\ row'[q] = row[q] /\ as'[q] = as[q] /\ late'[q] = late[q]
      /\ session'[q] \in {session[q], None}
      /\ ticket'[q] # None => ticket[q] # None /\ ticket'[q].owner = ticket[q].owner
  <2>1. q \in Requests \ {r}  OBVIOUS
  <2> QED  BY <2>1, Others
<1>2. GrantsStay /\ (grant'[q] # None => grant[q] # None)  BY GrantsStayed
<1>3. Op(q)' = Op(q) /\ Item(q)' = Item(q) /\ Authority(q)' = Authority(q)
  BY <1>1 DEF Op, Item, Authority
<1>4. Placed(q)'  BY <1>0, <1>1, <1>3 DEF Placed
<1>5. Tabled(q)'  BY <1>0, <1>1, <1>2, <1>3 DEF Tabled, GrantsStay
<1>6. SoundRows(q)'
  <2>1. \A found \in SessionRows, s \in Requests : Sound(found, s) => Sound(found, s)'
    BY <1>1, <1>2, SoundStays
  <2>2. (session[q] # None => session[q] \in SessionRows)
          /\ (row[q] # None => row[q] \in SessionRows /\ sent[q] \in Requests \cup {None})
    BY DEF TypeOK
  <2> QED  BY <1>0, <1>1, <2>1, <2>2 DEF SoundRows, Sound
<1>7. SignsIn(q)'
  <2>1. Op(q) = "link" /\ as[q] # None => grant'[Item(q)] # None
    BY <1>0, <1>2, TaskTyping DEF SignsIn, GrantsStay
  <2>2. Op(q) = "ticket" /\ as[q] # None =>
          pc'[Item(q)] = "done" /\ (ticket'[Item(q)] # None => ticket'[Item(q)].used)
    <3>1. SUFFICES ASSUME Op(q) = "ticket", as[q] # None
                   PROVE  pc'[Item(q)] = "done"
                            /\ (ticket'[Item(q)] # None => ticket'[Item(q)].used)
      OBVIOUS
    <3>2. Item(q) \in Requests /\ pc[Item(q)] = "done"
      BY <1>0, <3>1, TaskTyping DEF SignsIn
    <3>3. Item(q) \in Requests \ {r}  BY <3>2, DoneIsDone
    <3> QED  BY <1>0, <3>1, <3>2, <3>3, Others DEF SignsIn
  <2> QED  BY <1>0, <1>1, <1>3, <2>1, <2>2 DEF SignsIn, OnAuthority
<1>8. Timed(q)'  BY <1>0, <1>1 DEF Timed
<1>9. Belated(q)'
  <2>1. \A g \in late[q] : g \in Requests  BY DEF TypeOK
  <2> QED  BY <1>0, <1>1, <1>2, <2>1 DEF Belated, Over, GrantsStay
<1> QED  BY <1>4, <1>5, <1>6, <1>7, <1>8, <1>9

-----------------------------------------------------------------------------
(* What a step makes of the request that takes it. *)

\* The places a request of each kind comes from and goes to.
LEMMA OwnPlace ==
  ASSUME TypeOK, RequestsInv, NEW r \in Requests, Handle(r)
  PROVE  Placed(r)'
<1> USE DEF TypeOK, Goto
<1>0. Placed(r)  BY DEF RequestsInv
<1>1. Op(r)' = Op(r)  BY Others DEF Op
<1>2. CASE Arrive(r)
  <2>1. ASSUME NEW presented, NEW where, Starts(r, presented, where)
        PROVE  pc'[r] = where /\ sent'[r] = presented
    BY <2>1 DEF Starts
  <2> QED  BY <1>1, <1>2, <2>1 DEF Arrive, Placed, Openers
<1>3. CASE End(r) \/ Purge(r) \/ Create(r) \/ Deliver(r) \/ SignOut(r)
  <2>1. CASE End(r)
    <3>1. pc'[r] = IF Op(r) = "logout" THEN "reply" ELSE "purge"  BY <2>1 DEF End
    <3> QED  BY <1>0, <1>1, <2>1, <3>1 DEF End, Placed, Openers
  <2>2. CASE Purge(r) \/ Create(r)
    <3>1. pc'[r] \in {"create", "reply"}  BY <2>2 DEF Purge, Create
    <3> QED  BY <1>0, <1>1, <2>2, <3>1 DEF Purge, Create, Placed, Openers
  <2>3. CASE Deliver(r) \/ SignOut(r)
    <3>1. pc'[r] = "done"  BY <2>3 DEF Deliver, SignOut
    <3> QED  BY <3>1 DEF Placed
  <2> QED  BY <1>3, <2>1, <2>2, <2>3
<1>4. CASE FindSession(r)
  <2>1. sent'[r] = sent[r] /\ row'[r] = session[sent[r]]  BY <1>4 DEF FindSession
  <2>2. \/ pc'[r] \in {"done", "forget"}
        \/ pc'[r] = "checkGrant" /\ row'[r] # None /\ row'[r].grant # None
        \/ pc'[r] \in {"end", "purge"} /\ Op(r) # "page" /\ (pc'[r] = "end" => sent[r] # None)
    BY <1>4, <2>1 DEF FindSession, Resolve, Replace
  <2> QED  BY <1>0, <1>1, <1>4, <2>1, <2>2 DEF FindSession, Placed, Openers
<1>5. CASE CheckGrant(r) \/ Forget(r)
  <2>1. sent'[r] = sent[r]  BY <1>5 DEF CheckGrant, Forget
  <2>2. \/ pc'[r] \in {"done", "forget"}
        \/ pc'[r] \in {"end", "purge"} /\ Op(r) # "page" /\ (pc'[r] = "end" => sent[r] # None)
    BY <1>5 DEF CheckGrant, Forget, Resolve, Replace
  <2> QED  BY <1>0, <1>1, <1>5, <2>1, <2>2 DEF CheckGrant, Forget, Placed, Openers
<1>6. CASE PurgeTickets(r) \/ CreateTicket(r)
  BY <1>0, <1>1, <1>6 DEF PurgeTickets, CreateTicket, locals, Placed
<1>7. CASE Consume(r) \/ FindGrant(r)
  <2>1. sent'[r] = sent[r]  BY <1>7 DEF Consume, FindGrant
  <2>2. \/ pc'[r] = "done"
        \/ pc'[r] = "purge"
        \/ pc'[r] = "end" /\ sent[r] # None /\ FindGrant(r)
        \/ pc'[r] = "findSession" /\ sent[r] # None /\ Consume(r)
    <3>1. Replace(r) => pc'[r] = "purge" \/ (pc'[r] = "end" /\ sent[r] # None)
      BY DEF Replace
    <3>2. Consume(r) => pc'[r] = "done" \/ (Replace(r) /\ sent[r] = None)
                          \/ (pc'[r] = "findSession" /\ sent[r] # None)
      <4>1. \A where : Goto(r, where) => pc'[r] = where  OBVIOUS
      <4> HIDE DEF Goto, TypeOK
      <4> QED  BY <4>1 DEF Consume
    <3>3. FindGrant(r) => pc'[r] = "done" \/ Replace(r)  BY DEF FindGrant
    <3> QED  BY <1>7, <3>1, <3>2, <3>3
  <2> QED  BY <1>0, <1>1, <1>7, <2>1, <2>2 DEF Consume, FindGrant, Placed, Openers
<1>8. CASE DropKeys(r)
  BY <1>0, <1>1, <1>8 DEF DropKeys, locals, Placed
<1>9. CASE CreateGrant(r) \/ Revoke(r)
  BY <1>0, <1>1, <1>9 DEF CreateGrant, Revoke, locals, Placed
<1> QED  BY <1>2, <1>3, <1>4, <1>5, <1>6, <1>7, <1>8, <1>9 DEF Handle

LEMMA OwnTables ==
  ASSUME TypeOK, RequestsInv, NEW r \in Requests, Handle(r)
  PROVE  Tabled(r)'
<1> USE DEF TypeOK, Goto
<1>0. Placed(r) /\ Tabled(r)  BY DEF RequestsInv
<1>1. Op(r)' = Op(r) /\ task' = task  BY Others DEF Op
<1>2. pc[r] # "done"  BY DoneIsDone
<1>3. ticket'[r] # None =>
        Op(r) = "issue" /\ pc'[r] = "done" /\ ticket'[r].owner = task[r].owner
  <2>1. CASE CreateTicket(r)  BY <1>0, <2>1 DEF CreateTicket, Placed
  <2>2. CASE PurgeTickets(r)  BY <1>0, <1>2, <2>2 DEF PurgeTickets, Tabled
  <2>3. CASE Consume(r)
    <3>1. ticket[Item(r)] # None => Item(r) # r  BY <1>0, <1>2 DEF Tabled
    <3>2. ticket'[r] = ticket[r]
      <4>1. CASE Usable(Item(r), clock[r])
        <5>1. ticket' = [ticket EXCEPT ![Item(r)].used = TRUE]  BY <2>3, <4>1 DEF Consume
        <5> QED  BY <3>1, <4>1, <5>1 DEF Usable
      <4>2. CASE ~Usable(Item(r), clock[r])  BY <2>3, <4>2 DEF Consume
      <4> QED  BY <4>1, <4>2
    <3> QED  BY <1>0, <1>2, <3>2 DEF Tabled
  <2>4. CASE ticket' = ticket  BY <1>0, <1>2, <2>4 DEF Tabled
  <2>5. CreateTicket(r) \/ PurgeTickets(r) \/ Consume(r) \/ ticket' = ticket
    <3>1. Arrive(r) => ticket' = ticket
      <4>1. \A presented, where : Starts(r, presented, where) => ticket' = ticket
        BY DEF Starts, tables
      <4> QED  BY <4>1 DEF Arrive
    <3> QED
      BY <3>1 DEF Handle, End, Purge, Create, Deliver, FindSession, CheckGrant, Forget, DropKeys,
         CreateGrant, FindGrant, Revoke, SignOut, tables
  <2> QED  BY <2>1, <2>2, <2>3, <2>4, <2>5
<1>4. grant'[r] # None =>
        Op(r) = "grant" /\ pc'[r] = "done" /\ grant'[r].owner = task[r].owner
  <2>1. grant[r] = None  BY <1>0, <1>2 DEF Tabled
  <2>2. grant'[r] # None => CreateGrant(r)  BY <2>1, GrantsStayed
  <2>3. CreateGrant(r) /\ grant'[r] # None =>
          Op(r) = "grant" /\ pc'[r] = "done" /\ grant'[r].owner = task[r].owner
    BY <1>0, <2>1 DEF CreateGrant, Placed
  <2> QED  BY <2>2, <2>3
<1>5. session'[r] # None => Op(r) \in Openers /\ pc'[r] \in {"reply", "done"}
  <2>1. CASE Create(r)  BY <1>0, <2>1 DEF Create, Placed
  <2>2. CASE Deliver(r)  BY <1>0, <2>2 DEF Deliver, Tabled, tables
  <2>3. ASSUME ~Create(r), ~Deliver(r)  PROVE session'[r] = None
    <3>1. session[r] = None
      <4>1. pc[r] # "reply"
        <5>1. Arrive(r) => pc[r] = "idle"
          <6>1. \A presented, where : Starts(r, presented, where) => pc[r] = "idle"  BY DEF Starts
          <6> QED  BY <6>1 DEF Arrive
        <5> QED
          BY <5>1, <2>3 DEF Handle, End, Purge, FindSession, CheckGrant, Forget, PurgeTickets,
             CreateTicket, Consume, DropKeys, CreateGrant, FindGrant, Revoke, SignOut
      <4> QED  BY <1>0, <1>2, <4>1 DEF Tabled
    <3>2. Arrive(r) => session' = session
      <4>1. \A presented, where : Starts(r, presented, where) => session' = session
        BY DEF Starts, tables
      <4> QED  BY <4>1 DEF Arrive
    <3>3. CASE End(r) \/ Purge(r) \/ Forget(r) \/ SignOut(r)
      BY <3>1, <3>3 DEF End, Purge, Forget, SignOut
    <3> QED
      BY <2>3, <3>1, <3>2, <3>3 DEF Handle, FindSession, CheckGrant, PurgeTickets, CreateTicket,
         Consume, DropKeys, CreateGrant, FindGrant, Revoke, tables
  <2> QED  BY <2>1, <2>2, <2>3
<1> QED  BY <1>1, <1>3, <1>4, <1>5 DEF Tabled

\* A session says what its opener was given, and a page reads such a session.
LEMMA OwnRows ==
  ASSUME TypeOK, TypeOK', RequestsInv, NEW r \in Requests, Handle(r)
  PROVE  SoundRows(r)'
<1> USE DEF TypeOK, Goto
<1>0. Placed(r) /\ Tabled(r) /\ SoundRows(r) /\ SignsIn(r)  BY DEF RequestsInv
<1>1. Op(r)' = Op(r) /\ Authority(r)' = Authority(r) /\ task' = task
  BY Others DEF Op, Item, Authority
<1>2. \A found \in SessionRows, s \in Requests : Sound(found, s) => Sound(found, s)'
  BY <1>1, GrantsStayed, SoundStays
<1>3. \/ Create(r)
      \/ session'[r] \in {session[r], None}
  <2>1. Arrive(r) => session' = session
    <3>1. \A presented, where : Starts(r, presented, where) => session' = session
      BY DEF Starts, tables
    <3> QED  BY <3>1 DEF Arrive
  <2>2. End(r) \/ Forget(r) => session'[r] \in {session[r], None}  BY DEF End, Forget
  <2>3. Purge(r) \/ SignOut(r) => session'[r] \in {session[r], None}  BY DEF Purge, SignOut
  <2> QED
    BY <2>1, <2>2, <2>3 DEF Handle, Deliver, FindSession, CheckGrant, PurgeTickets, CreateTicket,
       Consume, DropKeys, CreateGrant, FindGrant, Revoke, tables
<1>4. \/ FindSession(r)
      \/ row'[r] = None
      \/ row'[r] = row[r] /\ sent'[r] = sent[r]
  <2>1. Arrive(r) => row'[r] = None
    <3>1. \A presented, where : Starts(r, presented, where) => pc[r] = "idle" /\ row' = row
      BY DEF Starts
    <3> QED  BY <1>0, <3>1 DEF Arrive, SignsIn
  <2> QED
    BY <2>1 DEF Handle, End, Purge, Create, Deliver, CheckGrant, Forget, PurgeTickets,
       CreateTicket, Consume, DropKeys, CreateGrant, FindGrant, Revoke, SignOut, locals
<1>5. session'[r] # None => Sound(session[r], r)'
  <2>1. CASE session'[r] = session[r]
    BY <1>0, <1>2, <2>1 DEF SoundRows, Sound
  <2>2. CASE Create(r)
    <3>1. as[r] \in Viewers /\ as[r] = Authority(r) /\ grant' = grant
      BY <1>0, <2>2 DEF Create, SignsIn, OnAuthority, Placed, Openers
    <3>2. session'[r] = [owner |-> as[r].owner, grant |-> as[r].grant, expires |-> Expiry(r)]
      BY <2>2 DEF Create
    <3>3. as[r].grant # None => grant[as[r].grant] \in GrantRows /\ grant[as[r].grant] # None
      <4>1. SUFFICES ASSUME as[r].grant # None
                     PROVE  grant[as[r].grant] \in GrantRows /\ grant[as[r].grant] # None
        OBVIOUS
      <4>2. as[r].grant \in Requests  BY <3>1, <4>1 DEF Viewers
      <4>3. Op(r) = "link" /\ as[r].grant = Item(r)  BY <3>1, <4>1 DEF Authority
      <4>4. grant[Item(r)] # None
        BY <1>0, <2>2, <4>3 DEF SignsIn, OnAuthority, Create
      <4> QED  BY <4>2, <4>3, <4>4
    <3>4. as[r].grant # None => Expiry(r) <= grant[as[r].grant].expires
      <4>1. clock[r] + SessionTtl \in Nat  BY TimesAssumption
      <4>2. as[r].grant # None => grant[as[r].grant].expires \in Nat
        BY <3>3 DEF GrantRows
      <4>3. \A m, n \in Nat : (IF n < m THEN n ELSE m) <= n  OBVIOUS
      <4>4. as[r].grant # None =>
              Expiry(r) = IF grant[as[r].grant].expires < clock[r] + SessionTtl
                          THEN grant[as[r].grant].expires ELSE clock[r] + SessionTtl
        BY DEF Expiry
      <4> QED  BY <4>1, <4>2, <4>3, <4>4
    <3> QED  BY <1>1, <3>1, <3>2, <3>3, <3>4 DEF Sound
  <2> QED  BY <1>3, <2>1, <2>2
<1>6. row'[r] # None => sent'[r] # None /\ Sound(row[r], sent[r])'
  <2>1. CASE FindSession(r)
    <3>1. sent[r] \in Requests /\ row'[r] = session[sent[r]] /\ sent' = sent
      BY <1>0, <2>1 DEF Placed, FindSession
    <3>2. SoundRows(sent[r])  BY <3>1 DEF RequestsInv
    <3>3. session[sent[r]] # None => session[sent[r]] \in SessionRows
                                       /\ Sound(session[sent[r]], sent[r])
      BY <3>1, <3>2 DEF SoundRows
    <3> QED  BY <1>2, <3>1, <3>3, NamesAssumption DEF Sound
  <2>2. CASE row'[r] = row[r] /\ sent'[r] = sent[r]
    BY <1>0, <1>2, <2>2 DEF SoundRows, Sound
  <2> QED  BY <1>4, <2>1, <2>2
<1> QED  BY <1>5, <1>6 DEF SoundRows

\* Where the statements lead that may lead to several places.
LEMMA Moves ==
  ASSUME TypeOK, NEW r \in Requests
  PROVE  /\ Arrive(r) => pc'[r] \in {"purgeTickets", "dropKeys", "revoke", "purge", "consume",
                                     "findSession", "end", "reply", "done"}
         /\ FindSession(r) => pc'[r] \in {"checkGrant", "forget", "end", "purge", "done"}
         /\ CheckGrant(r) => pc'[r] \in {"forget", "end", "purge", "done"}
         /\ Forget(r) => pc'[r] \in {"end", "purge", "done"}
         /\ Consume(r) => pc'[r] \in {"findSession", "end", "purge", "done"}
         /\ FindGrant(r) => pc'[r] \in {"end", "purge", "done"}
         /\ End(r) => pc'[r] \in {"reply", "purge"}
         /\ DropKeys(r) => pc'[r] \in {"createGrant", "findGrant", "done"}
<1>1. \A where : Goto(r, where) => pc'[r] = where  BY DEF Goto, TypeOK
<1>2. Replace(r) => pc'[r] \in {"end", "purge"}  BY <1>1 DEF Replace
<1>3. \A viewer : Resolve(r, viewer) => pc'[r] \in {"end", "purge", "done"}
  BY <1>1, <1>2 DEF Resolve
<1>4. \A presented, where : Starts(r, presented, where) => pc'[r] = where
  BY <1>1 DEF Starts
<1>5. Arrive(r) => pc'[r] \in {"purgeTickets", "dropKeys", "revoke", "purge", "consume",
                               "findSession", "end", "reply", "done"}
  BY <1>4 DEF Arrive
<1>6. FindSession(r) => pc'[r] \in {"checkGrant", "forget", "end", "purge", "done"}
  BY <1>1, <1>3 DEF FindSession
<1>7. CheckGrant(r) => pc'[r] \in {"forget", "end", "purge", "done"}
  BY <1>1, <1>3 DEF CheckGrant
<1>8. Forget(r) => pc'[r] \in {"end", "purge", "done"}  BY <1>3 DEF Forget
<1>9. Consume(r) => pc'[r] \in {"findSession", "end", "purge", "done"}
  BY <1>1, <1>2 DEF Consume
<1>10. FindGrant(r) => pc'[r] \in {"end", "purge", "done"}  BY <1>1, <1>2 DEF FindGrant
<1>11. End(r) => pc'[r] \in {"reply", "purge"}  BY <1>1 DEF End
<1>12. DropKeys(r) => pc'[r] \in {"createGrant", "findGrant", "done"}  BY <1>1 DEF DropKeys
<1> QED  BY <1>5, <1>6, <1>7, <1>8, <1>9, <1>10, <1>11, <1>12

\* Nothing goes back to the start.
LEMMA NotIdle ==
  ASSUME TypeOK, NEW r \in Requests, Handle(r)
  PROVE  pc'[r] # "idle"
<1>1. \A where : Goto(r, where) => pc'[r] = where  BY DEF Goto, TypeOK
<1> QED
  BY <1>1, Moves DEF Handle, Purge, Create, Deliver, PurgeTickets, CreateTicket, CreateGrant,
     Revoke, SignOut

\* A request signs in on its authority: the form's token, the ticket it has used
\* up, the grant it has found.
LEMMA OwnSignIn ==
  ASSUME TypeOK, TypeOK', RequestsInv, NEW r \in Requests, Handle(r)
  PROVE  SignsIn(r)'
<1> USE DEF TypeOK, Goto
<1>0. Placed(r) /\ Tabled(r) /\ SoundRows(r) /\ SignsIn(r)  BY DEF RequestsInv
<1>1. Op(r)' = Op(r) /\ Item(r)' = Item(r) /\ Authority(r)' = Authority(r)
  BY Others DEF Op, Item, Authority
<1>2. pc'[r] # "idle"  BY NotIdle
<1>3. pc[r] # "done"  BY DoneIsDone
<1>4. Op(r) = "link" => (grant[Item(r)] # None => grant'[Item(r)] # None)
  BY TaskTyping, GrantsStayed DEF GrantsStay
<1>5. ASSUME Op(r) = "ticket", as[r] # None
      PROVE  pc'[Item(r)] = "done" /\ (ticket'[Item(r)] # None => ticket'[Item(r)].used)
  <2>1. Item(r) \in Requests /\ pc[Item(r)] = "done"  BY <1>0, <1>5, TaskTyping DEF SignsIn
  <2>2. Item(r) \in Requests \ {r}  BY <1>3, <2>1
  <2> QED  BY <1>0, <1>5, <2>1, <2>2, Others DEF SignsIn
<1>6. CASE Arrive(r)
  <2>1. ASSUME NEW presented, NEW where, Starts(r, presented, where)
        PROVE  /\ pc'[r] = where
               /\ as'[r] = IF Op(r) = "signin" THEN AsOwner(task[r].owner) ELSE None
    BY <2>1 DEF Starts
  <2>2. Op(r) = "signin" => AsOwner(task[r].owner) = Authority(r)
                             /\ AsOwner(task[r].owner) \in Viewers
    BY TaskTyping, Viewing DEF AsOwner, Authority
  <2>3. AsOwner(task[r].owner) \in Viewers => AsOwner(task[r].owner) # None
    BY NamesAssumption
  <2>4. PICK presented, where : Starts(r, presented, where)  BY <1>6 DEF Arrive
  <2>5. pc'[r] \in {"purge", "dropKeys", "consume", "findSession", "done", "reply", "end",
                    "revoke", "purgeTickets"}
    BY <1>6, <2>1 DEF Arrive
  <2>6. /\ pc'[r] = "findSession" => Op(r) = "page"
        /\ pc'[r] = "purge" => Op(r) = "signin"
        /\ pc'[r] = "end" => Op(r) = "logout"
    BY <1>6, <2>1 DEF Arrive
  <2> QED  BY <1>1, <1>2, <2>1, <2>2, <2>3, <2>4, <2>5, <2>6 DEF SignsIn, OnAuthority
<1>7. CASE End(r) \/ Purge(r) \/ Create(r) \/ Deliver(r) \/ SignOut(r)
  <2>1. as'[r] = as[r]
    BY <1>7 DEF End, Purge, Create, Deliver, SignOut, locals
  <2>2. pc'[r] \in {"purge", "create", "reply", "done"}
    <3>1. End(r) => pc'[r] = IF Op(r) = "logout" THEN "reply" ELSE "purge"  BY DEF End
    <3> QED  BY <1>7, <3>1 DEF Purge, Create, Deliver, SignOut
  <2>3. pc'[r] \in {"purge", "create"} =>
          pc[r] \in {"end", "purge"} /\ (pc[r] = "end" => Op(r) # "logout")
    BY <1>7 DEF End, Purge, Create, Deliver, SignOut
  <2>4. pc'[r] \in {"purge", "create", "reply"} => Op(r) # "page"
    BY <1>0, <1>7 DEF End, Purge, Create, Deliver, SignOut, Placed, Openers
  <2> QED  BY <1>0, <1>1, <1>2, <1>4, <1>5, <2>1, <2>2, <2>3, <2>4
              DEF SignsIn, OnAuthority, Placed, Openers
<1>8. CASE PurgeTickets(r) \/ CreateTicket(r) \/ DropKeys(r) \/ CreateGrant(r) \/ Revoke(r)
  <2>1. pc'[r] \in {"createTicket", "createGrant", "findGrant", "signOut", "done"}
    BY <1>8 DEF PurgeTickets, CreateTicket, DropKeys, CreateGrant, Revoke
  <2>2. as'[r] = as[r]
    BY <1>8 DEF PurgeTickets, CreateTicket, DropKeys, CreateGrant, Revoke, locals
  <2> QED  BY <1>0, <1>1, <1>2, <1>3, <1>4, <1>5, <2>1, <2>2 DEF SignsIn, OnAuthority
<1>9. CASE FindSession(r) \/ CheckGrant(r) \/ Forget(r)
  <2>1. Op(r) \in {"page", "ticket"} /\ pc[r] \in {"findSession", "checkGrant", "forget"}
    BY <1>0, <1>9 DEF FindSession, CheckGrant, Forget, Placed
  <2>2. \/ pc'[r] = "done"
        \/ /\ as' = as
           /\ \/ pc'[r] \in {"forget", "checkGrant"}
              \/ pc'[r] \in {"end", "purge"} /\ Op(r) # "page"
    <3>1. \A viewer : Resolve(r, viewer) =>
            \/ pc'[r] = "done"
            \/ as' = as /\ pc'[r] \in {"end", "purge"} /\ Op(r) # "page"
      BY DEF Resolve, Replace
    <3>2. \A where : Goto(r, where) => pc'[r] = where  OBVIOUS
    <3>3. \/ \E viewer : Resolve(r, viewer)
          \/ \E where \in {"forget", "checkGrant"} : Goto(r, where) /\ as' = as
      BY <1>9 DEF FindSession, CheckGrant, Forget
    <3> HIDE DEF Goto, TypeOK
    <3> QED  BY <3>1, <3>2, <3>3
  <2> QED  BY <1>0, <1>1, <1>2, <1>3, <1>5, <2>1, <2>2 DEF SignsIn, OnAuthority
<1>10. CASE Consume(r)
  <2>1. Op(r) = "ticket" /\ Item(r) \in Requests
    BY <1>0, <1>10, TaskTyping DEF Consume, Placed
  <2>2. CASE Usable(Item(r), clock[r])
    <3>1. ticket[Item(r)] \in TicketRows /\ ticket[Item(r)] # None  BY <2>1, <2>2 DEF Usable
    <3>2. Tabled(Item(r))  BY <2>1 DEF RequestsInv
    <3>3. pc[Item(r)] = "done" /\ ticket[Item(r)].owner = task[Item(r)].owner
      BY <3>1, <3>2 DEF Tabled
    <3>4. AsOwner(ticket[Item(r)].owner) = Authority(r)
      BY <2>1, <3>3 DEF AsOwner, Authority
    <3>5. Authority(r) \in Viewers /\ Authority(r) # None
      BY <3>1, <3>4, Viewing, NamesAssumption DEF TicketRows
    <3>6. ticket'[Item(r)] = [ticket[Item(r)] EXCEPT !.used = TRUE]
      <4>1. ticket' = [ticket EXCEPT ![Item(r)].used = TRUE]  BY <1>10, <2>2 DEF Consume
      <4> QED  BY <2>1, <4>1
    <3>7. ticket'[Item(r)].used  BY <3>1, <3>6 DEF TicketRows
    <3>8. pc'[Item(r)] = "done"
      <4>1. Item(r) \in Requests \ {r}  BY <1>3, <2>1, <3>3
      <4> QED  BY <3>3, <4>1, Others
    <3>9. as'[r] = Authority(r)  BY <1>10, <2>2, <3>4 DEF Consume
    <3> QED  BY <1>1, <1>2, <2>1, <3>5, <3>7, <3>8, <3>9 DEF SignsIn, OnAuthority
  <2>3. CASE ~Usable(Item(r), clock[r])
    <3>1. as' = as /\ pc'[r] = "done"  BY <1>10, <2>3 DEF Consume
    <3> QED  BY <1>1, <1>5, <2>1, <3>1 DEF SignsIn
  <2> QED  BY <2>2, <2>3
<1>11. CASE FindGrant(r)
  <2>1. Op(r) = "link" /\ Item(r) \in Requests /\ grant' = grant
    BY <1>0, <1>11, TaskTyping DEF FindGrant, Placed, tables
  <2>2. CASE InForce(Item(r), clock[r])
    <3>1. grant[Item(r)] # None /\ Tabled(Item(r))  BY <2>1, <2>2 DEF InForce, RequestsInv
    <3>2. as'[r] = [owner |-> grant[Item(r)].owner, grant |-> Item(r)]
      BY <1>11, <2>2 DEF FindGrant
    <3>3. as'[r] = Authority(r)  BY <2>1, <3>1, <3>2 DEF Tabled, Authority
    <3>4. as'[r] # None
      <4>1. grant[Item(r)] \in GrantRows  BY <2>1, <3>1
      <4> QED  BY <2>1, <3>2, <4>1, NamesAssumption DEF GrantRows, Viewers
    <3> QED  BY <1>1, <1>2, <2>1, <3>1, <3>3, <3>4 DEF SignsIn, OnAuthority
  <2>3. CASE ~InForce(Item(r), clock[r])
    <3>1. as' = as /\ pc'[r] = "done"  BY <1>11, <2>3 DEF FindGrant
    <3> QED  BY <1>0, <1>1, <2>1, <3>1 DEF SignsIn
  <2> QED  BY <2>2, <2>3
<1> QED  BY <1>6, <1>7, <1>8, <1>9, <1>10, <1>11 DEF Handle

\* A request's clock is the time, or what it was.
LEMMA OwnClock ==
  ASSUME TypeOK, NEW r \in Requests, Handle(r)
  PROVE  /\ clock'[r] \in {clock[r], now}
         /\ Arrive(r) \/ late'[r] = late[r]
<1> USE DEF TypeOK, Goto
<1>1. Arrive(r) => clock'[r] = now
  <2>1. \A presented, where : Starts(r, presented, where) => clock'[r] = now  BY DEF Starts
  <2> QED  BY <2>1 DEF Arrive
<1>2. FindSession(r) \/ CheckGrant(r) \/ Forget(r) => clock'[r] \in {clock[r], now}
  BY DEF FindSession, CheckGrant, Forget, Resolve, Replace
<1>3. Consume(r) \/ FindGrant(r) => clock'[r] \in {clock[r], now}
  BY DEF Consume, FindGrant, Replace
<1>4. End(r) => clock'[r] \in {clock[r], now}  BY DEF End
<1>5. Arrive(r) \/ late' = late
  BY DEF Handle, End, Purge, Create, Deliver, FindSession, CheckGrant, Forget, PurgeTickets,
     CreateTicket, Consume, DropKeys, CreateGrant, FindGrant, Revoke, SignOut, locals
<1>6. Arrive(r) \/ FindSession(r) \/ CheckGrant(r) \/ Forget(r) \/ Consume(r) \/ FindGrant(r)
        \/ End(r) \/ clock' = clock
  BY DEF Handle, Purge, Create, Deliver, PurgeTickets, CreateTicket, DropKeys, CreateGrant,
     Revoke, SignOut, locals
<1> QED  BY <1>1, <1>2, <1>3, <1>4, <1>5, <1>6

LEMMA OwnTimes ==
  ASSUME TypeOK, TypeOK', RequestsInv, NEW r \in Requests, Handle(r)
  PROVE  Timed(r)' /\ Belated(r)'
<1> USE DEF TypeOK, Goto
<1>0. Placed(r) /\ Timed(r) /\ Belated(r)  BY DEF RequestsInv
<1>1. now' = now  BY Others
<1>2. GrantsStay  BY GrantsStayed
<1>3. \A g \in Requests : Over(g) => Over(g)'
  BY <1>1, <1>2 DEF GrantsStay, Over
<1>4. clock'[r] <= now'
  <2>1. clock[r] <= now /\ now \in Nat  BY <1>0 DEF Timed
  <2>2. clock'[r] = clock[r] \/ clock'[r] = now  BY OwnClock
  <2> QED  BY <1>1, <2>1, <2>2
<1>5. pc'[r] = "checkGrant" => clock'[r] < row'[r].expires
  <2>1. pc'[r] = "checkGrant" => FindSession(r)
    <3>1. \A where : Goto(r, where) => pc'[r] = where  OBVIOUS
    <3> HIDE DEF Goto, TypeOK
    <3> QED
      BY <3>1, Moves DEF Handle, Purge, Create, Deliver, PurgeTickets, CreateTicket,
         CreateGrant, Revoke, SignOut
  <2>2. ASSUME FindSession(r), pc'[r] = "checkGrant"
        PROVE  clock'[r] < row'[r].expires
    <3>1. row'[r] = session[sent[r]]  BY <2>2 DEF FindSession
    <3>2. \A viewer : Resolve(r, viewer) => pc'[r] # "checkGrant"
      <4>1. Replace(r) => pc'[r] # "checkGrant"  BY DEF Replace
      <4> QED  BY <4>1 DEF Resolve
    <3>3. session[sent[r]] # None /\ ~(session[sent[r]].expires <= now) /\ clock' = clock
      BY <2>2, <3>2 DEF FindSession
    <3>4. session[sent[r]].expires \in Nat
      <4>1. sent[r] \in Requests  BY <1>0, <2>2 DEF Placed, FindSession
      <4> QED  BY <3>3, <4>1 DEF SessionRows
    <3>5. clock[r] <= now /\ clock[r] \in Nat /\ now \in Nat  BY <1>0 DEF Timed
    <3> QED  BY <3>1, <3>3, <3>4, <3>5
  <2> QED  BY <2>1, <2>2
<1>6. Belated(r)'
  <2>1. CASE Arrive(r)
    <3>1. \A presented, where : Starts(r, presented, where) =>
            late'[r] = {g \in Requests : Over(g)} /\ clock'[r] = now /\ grant' = grant
      BY DEF Starts, tables
    <3>2. late'[r] = {g \in Requests : Over(g)} /\ clock'[r] = now /\ grant' = grant
      BY <2>1, <3>1 DEF Arrive
    <3> QED  BY <1>1, <1>3, <3>2 DEF Belated, Over
  <2>2. CASE ~Arrive(r)
    <3>1. late'[r] = late[r] /\ late[r] \subseteq Requests  BY <2>2, OwnClock
    <3>2. pc'[r] \in {"dropKeys", "findGrant"} => pc[r] = "dropKeys" /\ clock'[r] = clock[r]
      <4>1. \A where : Goto(r, where) => pc'[r] = where  OBVIOUS
      <4>2. DropKeys(r) => pc[r] = "dropKeys" /\ clock'[r] = clock[r]  BY DEF DropKeys, locals
      <4> HIDE DEF Goto, TypeOK
      <4> QED
        BY <2>2, <4>1, <4>2, Moves DEF Handle, Purge, Create, Deliver, PurgeTickets,
           CreateTicket, CreateGrant, Revoke, SignOut
    <3>3. \A g \in late[r] : Over(g) /\ Over(g)'  BY <1>0, <1>3, <3>1 DEF Belated
    <3> QED  BY <1>0, <1>2, <3>1, <3>2, <3>3 DEF Belated, GrantsStay, Over
  <2> QED  BY <2>1, <2>2
<1> QED  BY <1>1, <1>4, <1>5, <1>6 DEF Timed

-----------------------------------------------------------------------------
(* The invariant, and the properties it contains. *)

LEMMA RequestsStep ==
  ASSUME TypeOK, TypeOK', RequestsInv, NEW r \in Requests, Handle(r)
  PROVE  RequestsInv'
<1>1. ASSUME NEW q \in Requests \ {r}
      PROVE  Placed(q)' /\ Tabled(q)' /\ SoundRows(q)' /\ SignsIn(q)' /\ Timed(q)' /\ Belated(q)'
  BY OthersKeep
<1>2. Placed(r)' /\ Tabled(r)' /\ SoundRows(r)' /\ SignsIn(r)' /\ Timed(r)' /\ Belated(r)'
  BY OwnPlace, OwnTables, OwnRows, OwnSignIn, OwnTimes
<1> QED  BY <1>1, <1>2 DEF RequestsInv

LEMMA RequestsTick ==
  ASSUME TypeOK, RequestsInv, Tick
  PROVE  RequestsInv'
<1>1. UNCHANGED <<tables, cookie, task, pc, locals>> /\ now' = now + 1 /\ now \in Nat
  BY DEF Tick, TypeOK
<1> SUFFICES ASSUME NEW r \in Requests
             PROVE  Placed(r)' /\ Tabled(r)' /\ SoundRows(r)' /\ SignsIn(r)' /\ Timed(r)'
                      /\ Belated(r)'
  BY DEF RequestsInv
<1>2. Placed(r) /\ Tabled(r) /\ SoundRows(r) /\ SignsIn(r) /\ Timed(r) /\ Belated(r)
  BY DEF RequestsInv
<1>3. Op(r)' = Op(r) /\ Item(r)' = Item(r) /\ Authority(r)' = Authority(r)
  BY <1>1 DEF Op, Item, Authority
<1>4. Placed(r)' /\ Tabled(r)'
  BY <1>1, <1>2, <1>3 DEF tables, locals, Placed, Tabled
<1>5. SoundRows(r)'
  <2>1. \A found, s : Sound(found, s) => Sound(found, s)'
    <3>1. \A s : Authority(s)' = Authority(s)  BY <1>1 DEF Authority, Op, Item
    <3> QED  BY <1>1, <3>1 DEF Sound, tables
  <2>2. session' = session /\ row' = row /\ sent' = sent  BY <1>1 DEF tables, locals
  <2> QED  BY <1>2, <2>1, <2>2 DEF SoundRows, Sound
<1>6. SignsIn(r)'
  BY <1>1, <1>2, <1>3 DEF tables, locals, SignsIn, OnAuthority
<1>7. Timed(r)'
  <2>1. clock[r] \in Nat  BY DEF TypeOK
  <2> QED  BY <1>1, <1>2, <2>1 DEF Timed, locals
<1>8. Belated(r)'
  <2>1. \A g \in Requests : Over(g) => Over(g)'
    <3>1. ASSUME NEW g \in Requests, Over(g)  PROVE Over(g)'
      <4>1. grant[g] # None /\ grant' = grant  BY <1>1, <3>1 DEF Over, tables
      <4>2. grant[g].expires \in Nat  BY <4>1 DEF TypeOK, GrantRows
      <4> QED  BY <1>1, <3>1, <4>1, <4>2 DEF Over
    <3> QED  BY <3>1
  <2>2. late' = late /\ pc' = pc /\ clock' = clock /\ grant' = grant
    BY <1>1 DEF tables, locals
  <2>3. late[r] \subseteq Requests  BY DEF TypeOK
  <2> QED  BY <1>2, <2>1, <2>2, <2>3 DEF Belated, Over
<1> QED  BY <1>4, <1>5, <1>6, <1>7, <1>8

LEMMA RequestsStutter ==
  ASSUME RequestsInv,
         UNCHANGED <<now, session, ticket, grant, task, pc, clock, sent, row, as, late>>
  PROVE  RequestsInv'
<1> SUFFICES ASSUME NEW r \in Requests
             PROVE  Placed(r)' /\ Tabled(r)' /\ SoundRows(r)' /\ SignsIn(r)' /\ Timed(r)'
                      /\ Belated(r)'
  BY DEF RequestsInv
<1>1. Placed(r) /\ Tabled(r) /\ SoundRows(r) /\ SignsIn(r) /\ Timed(r) /\ Belated(r)
  BY DEF RequestsInv
<1>2. \A s : Op(s)' = Op(s) /\ Item(s)' = Item(s) /\ Authority(s)' = Authority(s)
  BY DEF Op, Item, Authority
<1>3. Placed(r)' /\ Tabled(r)'  BY <1>1, <1>2 DEF Placed, Tabled
<1>4. SoundRows(r)'
  <2>1. \A found, s : Sound(found, s) => Sound(found, s)'  BY <1>2 DEF Sound
  <2> QED  BY <1>1, <2>1 DEF SoundRows, Sound
<1>5. SignsIn(r)'  BY <1>1, <1>2 DEF SignsIn, OnAuthority
<1>6. Timed(r)' /\ Belated(r)'  BY <1>1 DEF Timed, Belated, Over
<1> QED  BY <1>3, <1>4, <1>5, <1>6

\* When a request comes to read as somebody.
LEMMA BecomesViewer ==
  ASSUME TypeOK, RequestsInv, NEW r \in Requests, Handle(r), as'[r] # as[r]
  PROVE  \/ Arrive(r) /\ Op(r) = "signin" /\ as'[r].grant = None
         \/ Arrive(r) /\ as'[r] = None
         \/ FindSession(r) /\ session[sent[r]] = None /\ as'[r] = None
         \/ /\ FindSession(r) /\ session[sent[r]] # None
            /\ now < session[sent[r]].expires
            /\ session[sent[r]].grant = None
            /\ as'[r] = AsOwner(session[sent[r]].owner)
         \/ /\ CheckGrant(r) /\ InForce(row[r].grant, now)
            /\ as'[r] = [owner |-> row[r].owner, grant |-> row[r].grant]
         \/ Forget(r) /\ as'[r] = None
         \/ /\ Consume(r) /\ Usable(Item(r), clock[r])
            /\ as'[r] = AsOwner(ticket[Item(r)].owner)
         \/ /\ FindGrant(r) /\ InForce(Item(r), clock[r])
            /\ as'[r] = [owner |-> grant[Item(r)].owner, grant |-> Item(r)]
<1>0. Placed(r)  BY DEF RequestsInv
<1> USE DEF TypeOK, Goto
<1>1. \A viewer : Resolve(r, viewer) => as'[r] \in {viewer, as[r]}  BY DEF Resolve
<1>2. CASE Arrive(r)
  <2>1. \A presented, where : Starts(r, presented, where) =>
          as'[r] = IF Op(r) = "signin" THEN AsOwner(task[r].owner) ELSE None
    BY DEF Starts
  <2>2. as'[r] = IF Op(r) = "signin" THEN AsOwner(task[r].owner) ELSE None
    BY <1>2, <2>1 DEF Arrive
  <2> QED  BY <1>2, <2>2 DEF AsOwner
<1>3. CASE FindSession(r)
  <2>1. sent[r] \in Requests  BY <1>0, <1>3 DEF Placed, FindSession
  <2>2. \/ session[sent[r]] = None /\ Resolve(r, None)
        \/ /\ session[sent[r]] # None /\ ~(session[sent[r]].expires <= now)
           /\ session[sent[r]].grant = None /\ Resolve(r, AsOwner(session[sent[r]].owner))
        \/ as' = as
    BY <1>3 DEF FindSession
  <2>3. session[sent[r]] # None /\ ~(session[sent[r]].expires <= now) =>
          now < session[sent[r]].expires
    <3>1. session[sent[r]] # None => session[sent[r]].expires \in Nat
      BY <2>1 DEF SessionRows
    <3>2. \A m, n \in Nat : ~(m <= n) => n < m  OBVIOUS
    <3> QED  BY <3>1, <3>2
  <2>4. CASE Resolve(r, None) /\ session[sent[r]] = None  BY <1>1, <1>3, <2>4
  <2>5. CASE /\ session[sent[r]] # None /\ ~(session[sent[r]].expires <= now)
             /\ session[sent[r]].grant = None /\ Resolve(r, AsOwner(session[sent[r]].owner))
    BY <1>1, <1>3, <2>3, <2>5
  <2> QED  BY <2>2, <2>4, <2>5
<1>4. CASE CheckGrant(r)
  <2>1. \/ InForce(row[r].grant, now)
             /\ Resolve(r, [owner |-> row[r].owner, grant |-> row[r].grant])
        \/ as' = as
    BY <1>4 DEF CheckGrant
  <2> QED  BY <1>1, <1>4, <2>1
<1>5. CASE Forget(r)  BY <1>1, <1>5 DEF Forget
<1>6. CASE Consume(r)  BY <1>6 DEF Consume
<1>7. CASE FindGrant(r)  BY <1>7 DEF FindGrant
<1>8. CASE as' = as  BY <1>8
<1>9. Arrive(r) \/ FindSession(r) \/ CheckGrant(r) \/ Forget(r) \/ Consume(r) \/ FindGrant(r)
        \/ as' = as
  BY DEF Handle, End, Purge, Create, Deliver, PurgeTickets, CreateTicket, DropKeys,
     CreateGrant, Revoke, SignOut, locals
<1> QED  BY <1>2, <1>3, <1>4, <1>5, <1>6, <1>7, <1>8, <1>9

\* A second request with the same ticket finds it used up.
LEMMA TicketsStep ==
  ASSUME TypeOK, RequestsInv, TicketsOpenOnce, NEW r \in Requests, Handle(r)
  PROVE  TicketsOpenOnce'
<1>1. task' = task  BY Others
<1>2. \A q \in Requests : Op(q)' = Op(q) /\ Item(q)' = Item(q)  BY <1>1 DEF Op, Item
<1>3. ASSUME NEW q \in Requests \ {r}, Op(r) = "ticket", Op(q) = "ticket", Item(r) = Item(q),
             as'[r] # None, as[q] # None
      PROVE  FALSE
  <2>1. as[r] = None  BY <1>3 DEF TicketsOpenOnce
  <2>2. Placed(r) /\ SignsIn(r) /\ SignsIn(q)  BY DEF RequestsInv
  <2>3. ~(FindSession(r) \/ CheckGrant(r))
    BY <1>3, <2>1, <2>2 DEF SignsIn, OnAuthority, FindSession, CheckGrant
  <2>4. Usable(Item(r), clock[r])
    BY <1>3, <2>1, <2>2, <2>3, BecomesViewer DEF Placed, FindGrant
  <2> QED  BY <1>3, <2>2, <2>4 DEF SignsIn, Usable
<1>4. \A q \in Requests \ {r} : as'[q] = as[q]  BY Others
<1> SUFFICES ASSUME NEW r1 \in Requests, NEW r2 \in Requests,
                    Op(r1) = "ticket", Op(r2) = "ticket", Item(r1) = Item(r2),
                    as'[r1] # None, as'[r2] # None, r1 # r2
             PROVE  FALSE
  BY <1>2 DEF TicketsOpenOnce
<1>5. CASE r1 = r  BY <1>3, <1>4, <1>5
<1>6. CASE r2 = r  BY <1>3, <1>4, <1>6
<1>7. CASE r1 # r /\ r2 # r  BY <1>4, <1>7 DEF TicketsOpenOnce
<1> QED  BY <1>5, <1>6, <1>7

\* A page is read as somebody by a session it has found, at a time of its own.
LEMMA PageReads ==
  ASSUME TypeOK, TypeOK', RequestsInv, NEW r \in Requests, Handle(r), Op(r) = "page",
         as'[r] # None
  PROVE  /\ row'[r] \in SessionRows /\ row'[r] # None
         /\ sent'[r] = sent[r] /\ sent[r] # None /\ Sound(row'[r], sent[r])
         /\ as'[r] = [owner |-> row'[r].owner, grant |-> row'[r].grant]
         /\ clock'[r] < row'[r].expires
         /\ as'[r].grant # None => InForce(as'[r].grant, now) /\ clock'[r] <= now
         /\ grant' = grant /\ late' = late
<1> USE DEF TypeOK, Goto
<1>0. Placed(r) /\ SoundRows(r) /\ SignsIn(r) /\ Timed(r)  BY DEF RequestsInv
<1>1. as[r] = None  BY <1>0, DoneIsDone DEF SignsIn
<1>2. FindSession(r) \/ CheckGrant(r)
  <2>1. ~Consume(r) /\ ~FindGrant(r)  BY <1>0 DEF Placed, Consume, FindGrant
  <2> QED  BY <1>1, <2>1, BecomesViewer
<1>3. sent[r] \in Requests /\ sent'[r] = sent[r] /\ late' = late /\ grant' = grant
  BY <1>0, <1>2 DEF Placed, FindSession, CheckGrant, tables
<1>4. clock'[r] = clock[r]
  BY <1>2 DEF FindSession, CheckGrant, Resolve
<1>5. clock[r] <= now /\ clock[r] \in Nat /\ now \in Nat  BY <1>0 DEF Timed
<1>6. CASE FindSession(r)
  <2>1. ~CheckGrant(r) /\ ~Arrive(r) /\ ~Consume(r) /\ ~FindGrant(r)
    <3>1. \A presented, where : Starts(r, presented, where) => pc[r] = "idle"  BY DEF Starts
    <3> QED  BY <1>6, <3>1 DEF FindSession, CheckGrant, Arrive, Consume, FindGrant
  <2>2. /\ session[sent[r]] # None /\ now < session[sent[r]].expires
        /\ session[sent[r]].grant = None /\ as'[r] = AsOwner(session[sent[r]].owner)
    BY <1>1, <1>6, <2>1, BecomesViewer
  <2>3. row'[r] = session[sent[r]]  BY <1>6 DEF FindSession
  <2>4. session[sent[r]] \in SessionRows  BY <1>3, <2>2
  <2>5. SoundRows(sent[r])  BY <1>3 DEF RequestsInv
  <2>6. Sound(session[sent[r]], sent[r])  BY <2>2, <2>5 DEF SoundRows
  <2>7. clock[r] < session[sent[r]].expires
    <3>1. session[sent[r]].expires \in Nat  BY <2>4 DEF SessionRows
    <3> QED  BY <1>5, <2>2, <3>1
  <2> QED  BY <1>0, <1>3, <1>4, <2>2, <2>3, <2>4, <2>6, <2>7, <1>6
              DEF AsOwner, Placed, FindSession
<1>7. CASE CheckGrant(r)
  <2>1. ~FindSession(r) /\ ~Arrive(r) /\ ~Consume(r) /\ ~FindGrant(r)
    <3>1. \A presented, where : Starts(r, presented, where) => pc[r] = "idle"  BY DEF Starts
    <3> QED  BY <1>7, <3>1 DEF FindSession, CheckGrant, Arrive, Consume, FindGrant
  <2>2. /\ InForce(row[r].grant, now)
        /\ as'[r] = [owner |-> row[r].owner, grant |-> row[r].grant]
    BY <1>1, <1>7, <2>1, BecomesViewer
  <2>3. row'[r] = row[r] /\ row[r] # None /\ row[r] \in SessionRows
    BY <1>0, <1>7 DEF CheckGrant, Placed
  <2>4. Sound(row[r], sent[r]) /\ clock[r] < row[r].expires
    BY <1>0, <1>7, <2>3 DEF SoundRows, Timed, CheckGrant
  <2> QED  BY <1>0, <1>3, <1>4, <1>5, <2>2, <2>3, <2>4, <1>7 DEF Placed, CheckGrant
<1> QED  BY <1>2, <1>6, <1>7

LEMMA ReadersStep ==
  ASSUME TypeOK, TypeOK', RequestsInv, ReadersAreAuthorised, NEW r \in Requests, Handle(r)
  PROVE  ReadersAreAuthorised'
<1>1. task' = task  BY Others
<1>2. \A q : Op(q)' = Op(q) /\ Authority(q)' = Authority(q)  BY <1>1 DEF Op, Item, Authority
<1> SUFFICES ASSUME NEW p \in Requests, Op(p) = "page", as'[p] # None
             PROVE  sent'[p] # None /\ as'[p] = Authority(sent'[p])
  BY <1>1, <1>2 DEF ReadersAreAuthorised, Authority, Op, Item
<1>3. CASE p = r
  <2>1. sent'[r] = sent[r] /\ sent[r] # None /\ Sound(row'[r], sent[r])
          /\ as'[r] = [owner |-> row'[r].owner, grant |-> row'[r].grant]
    BY <1>3, PageReads
  <2> QED  BY <1>3, <2>1 DEF Sound, Authority
<1>4. CASE p # r
  <2>1. as'[p] = as[p] /\ sent'[p] = sent[p]  BY <1>4, Others
  <2> QED  BY <2>1 DEF ReadersAreAuthorised
<1> QED  BY <1>3, <1>4

LEMMA ExpiryStep ==
  ASSUME TypeOK, TypeOK', RequestsInv, ReadersAreAuthorised, NothingIsReadAfterExpiry,
         NEW r \in Requests, Handle(r)
  PROVE  NothingIsReadAfterExpiry'
<1>1. \A q : Op(q)' = Op(q)  BY Others DEF Op
<1> SUFFICES ASSUME NEW p \in Requests, Op(p) = "page", as'[p] # None
             PROVE  /\ row'[p] # None /\ clock'[p] < row'[p].expires
                    /\ as'[p].grant # None => clock'[p] < grant'[as'[p].grant].expires
  BY <1>1 DEF NothingIsReadAfterExpiry
<1>2. CASE p = r
  <2>1. /\ row'[r] # None /\ clock'[r] < row'[r].expires /\ grant' = grant
        /\ as'[r].grant # None => InForce(as'[r].grant, now) /\ clock'[r] <= now
        /\ row'[r] \in SessionRows /\ as'[r].grant = row'[r].grant
    <3>1. Op(r) = "page" /\ as'[r] # None  BY <1>2
    <3>2. /\ row'[r] \in SessionRows /\ row'[r] # None
          /\ as'[r] = [owner |-> row'[r].owner, grant |-> row'[r].grant]
          /\ clock'[r] < row'[r].expires
          /\ as'[r].grant # None => InForce(as'[r].grant, now) /\ clock'[r] <= now
          /\ grant' = grant
      BY <3>1, PageReads
    <3>3. as'[r].grant = row'[r].grant  BY <3>2
    <3> QED  BY <3>2, <3>3
  <2>2. as'[r].grant # None => clock'[r] < grant[as'[r].grant].expires
    <3>1. SUFFICES ASSUME as'[r].grant # None  PROVE clock'[r] < grant[as'[r].grant].expires
      OBVIOUS
    <3>2. as'[r].grant \in Requests  BY <2>1, <3>1 DEF SessionRows
    <3>3. grant[as'[r].grant] \in GrantRows  BY <2>1, <3>1, <3>2 DEF TypeOK, InForce
    <3>4. grant[as'[r].grant].expires \in Nat /\ now < grant[as'[r].grant].expires
      BY <2>1, <3>1, <3>3 DEF GrantRows, InForce
    <3>5. clock'[r] \in Nat /\ now \in Nat /\ clock'[r] <= now  BY <2>1, <3>1 DEF TypeOK
    <3> QED  BY <3>4, <3>5
  <2> QED  BY <1>2, <2>1, <2>2
<1>3. CASE p # r
  <2>1. as'[p] = as[p] /\ row'[p] = row[p] /\ clock'[p] = clock[p]  BY <1>3, Others
  <2>2. /\ row[p] # None /\ clock[p] < row[p].expires
        /\ as[p].grant # None => clock[p] < grant[as[p].grant].expires
    BY <2>1 DEF NothingIsReadAfterExpiry
  <2>3. as[p].grant # None => as[p].grant \in Requests /\ grant[as[p].grant] # None
    <3>1. as[p] = Authority(sent[p])  BY <2>1 DEF ReadersAreAuthorised
    <3>2. SoundRows(p)  BY DEF RequestsInv
    <3>3. row[p].grant = as[p].grant /\ Sound(row[p], sent[p])
      BY <2>2, <3>1, <3>2 DEF SoundRows, Sound
    <3>4. row[p] \in SessionRows  BY <2>2 DEF TypeOK
    <3> QED  BY <3>3, <3>4 DEF Sound, SessionRows
  <2>4. GrantsStay  BY GrantsStayed
  <2> QED  BY <2>1, <2>2, <2>3, <2>4 DEF GrantsStay
<1> QED  BY <1>2, <1>3

LEMMA EndedStep ==
  ASSUME TypeOK, TypeOK', RequestsInv, EndedGrantsOpenNothing, NEW r \in Requests, Handle(r)
  PROVE  EndedGrantsOpenNothing'
<1> SUFFICES ASSUME NEW p \in Requests, as'[p] # None
             PROVE  as'[p].grant \notin late'[p]
  BY DEF EndedGrantsOpenNothing
<1>1. CASE p # r
  <2>1. as'[p] = as[p] /\ late'[p] = late[p]  BY <1>1, Others
  <2> QED  BY <2>1 DEF EndedGrantsOpenNothing
<1>2. CASE p = r /\ as'[r].grant = None
  <2>1. late'[r] \subseteq Requests  BY DEF TypeOK
  <2> QED  BY <1>2, <2>1, NamesAssumption
<1>3. CASE p = r /\ as'[r].grant # None
  <2>0. Placed(r) /\ SignsIn(r) /\ Belated(r)  BY DEF RequestsInv
  <2>1. CASE Arrive(r)
    <3>1. \A presented, where : Starts(r, presented, where) =>
            as'[r] = IF Op(r) = "signin" THEN AsOwner(task[r].owner) ELSE None
      BY DEF Starts, TypeOK
    <3>2. as'[r] = IF Op(r) = "signin" THEN AsOwner(task[r].owner) ELSE None
      BY <2>1, <3>1 DEF Arrive
    <3> QED  BY <1>3, <3>2 DEF AsOwner
  <2>2. CASE ~Arrive(r)
    <3>1. late'[r] = late[r]  BY <2>2, OwnClock
    <3>2. CASE as'[r] = as[r]  BY <1>3, <3>1, <3>2 DEF EndedGrantsOpenNothing
    <3>3. CASE as'[r] # as[r]
      <4>1. \/ CheckGrant(r) /\ InForce(as'[r].grant, now)
            \/ FindGrant(r) /\ InForce(as'[r].grant, clock[r])
        <5>1. \A o : AsOwner(o).grant = None  BY DEF AsOwner
        <5>2. as'[r] # None  BY <1>3
        <5>3. \/ /\ CheckGrant(r) /\ InForce(row[r].grant, now)
                 /\ as'[r] = [owner |-> row[r].owner, grant |-> row[r].grant]
              \/ /\ FindGrant(r) /\ InForce(Item(r), clock[r])
                 /\ as'[r] = [owner |-> grant[Item(r)].owner, grant |-> Item(r)]
          <6>1. \A o : as'[r] # AsOwner(o)  BY <1>3, <5>1
          <6> QED  BY <2>2, <3>3, <5>2, <6>1, BecomesViewer
        <5>4. CASE /\ CheckGrant(r) /\ InForce(row[r].grant, now)
                   /\ as'[r] = [owner |-> row[r].owner, grant |-> row[r].grant]
          <6>1. as'[r].grant = row[r].grant  BY <5>4
          <6> QED  BY <5>4, <6>1
        <5>5. CASE /\ FindGrant(r) /\ InForce(Item(r), clock[r])
                   /\ as'[r] = [owner |-> grant[Item(r)].owner, grant |-> Item(r)]
          <6>1. as'[r].grant = Item(r)  BY <5>5
          <6> QED  BY <5>5, <6>1
        <5> QED  BY <5>3, <5>4, <5>5
      <4>2. ASSUME as'[r].grant \in late[r]  PROVE FALSE
        <5>1. as'[r].grant \in Requests  BY <4>2 DEF TypeOK
        <5>2. Over(as'[r].grant)  BY <2>0, <4>2 DEF Belated
        <5>3. grant[as'[r].grant] \in GrantRows  BY <5>1, <5>2 DEF TypeOK, Over
        <5>4. CASE CheckGrant(r) /\ InForce(as'[r].grant, now)
          <6>1. grant[as'[r].grant].expires \in Nat /\ now \in Nat
            BY <5>3 DEF GrantRows, TypeOK
          <6> QED  BY <5>2, <5>4, <6>1 DEF Over, InForce
        <5>5. CASE FindGrant(r) /\ InForce(as'[r].grant, clock[r])
          <6>1. grant[as'[r].grant].expires \in Nat /\ clock[r] \in Nat
            BY <5>3 DEF GrantRows, TypeOK
          <6>2. grant[as'[r].grant].status # "open"
                  \/ grant[as'[r].grant].expires <= clock[r]
            BY <2>0, <4>2, <5>5 DEF Belated, FindGrant
          <6> QED  BY <5>5, <6>1, <6>2 DEF InForce
        <5> QED  BY <4>1, <5>4, <5>5
      <4> QED  BY <1>3, <3>1, <4>2
    <3> QED  BY <3>2, <3>3
  <2> QED  BY <2>1, <2>2
<1> QED  BY <1>1, <1>2, <1>3

-----------------------------------------------------------------------------
(* The theorems. *)

LEMMA ViewerInit == Init => ViewerInv
<1> SUFFICES ASSUME Init  PROVE ViewerInv
  OBVIOUS
<1>1. TypeOK  BY TypeInit
<1>2. RequestsInv
  BY DEF Init, RequestsInv, Placed, Tabled, SoundRows, SignsIn, Timed, Belated
<1>3. TicketsOpenOnce /\ ReadersAreAuthorised /\ NothingIsReadAfterExpiry
        /\ EndedGrantsOpenNothing
  BY DEF Init, TicketsOpenOnce, ReadersAreAuthorised, NothingIsReadAfterExpiry,
         EndedGrantsOpenNothing
<1> QED  BY <1>1, <1>2, <1>3 DEF ViewerInv

LEMMA ViewerStep ==
  ASSUME ViewerInv, [Next]_vars
  PROVE  ViewerInv'
<1>0. TypeOK /\ RequestsInv /\ TicketsOpenOnce /\ ReadersAreAuthorised
        /\ NothingIsReadAfterExpiry /\ EndedGrantsOpenNothing
  BY DEF ViewerInv
<1>1. TypeOK'  BY <1>0, TypeStep
<1>2. ASSUME NEW r \in Requests, Handle(r)  PROVE ViewerInv'
  <2>1. RequestsInv'  BY <1>0, <1>1, <1>2, RequestsStep
  <2>2. TicketsOpenOnce'  BY <1>0, <1>2, TicketsStep
  <2>3. ReadersAreAuthorised'  BY <1>0, <1>1, <1>2, ReadersStep
  <2>4. NothingIsReadAfterExpiry'  BY <1>0, <1>1, <1>2, ExpiryStep
  <2>5. EndedGrantsOpenNothing'  BY <1>0, <1>1, <1>2, EndedStep
  <2> QED  BY <1>1, <2>1, <2>2, <2>3, <2>4, <2>5 DEF ViewerInv
<1>3. CASE Tick
  <2>1. RequestsInv'  BY <1>0, <1>3, RequestsTick
  <2>2. UNCHANGED <<session, ticket, grant, task, clock, sent, row, as, late>>
    BY <1>3 DEF Tick, tables, locals
  <2>3. (TicketsOpenOnce /\ ReadersAreAuthorised /\ NothingIsReadAfterExpiry
          /\ EndedGrantsOpenNothing)'
    BY <1>0, <2>2 DEF TicketsOpenOnce, ReadersAreAuthorised, NothingIsReadAfterExpiry,
       EndedGrantsOpenNothing, Authority, Op, Item
  <2> QED  BY <1>1, <2>1, <2>3 DEF ViewerInv
<1>4. CASE UNCHANGED vars
  <2>1. UNCHANGED <<now, session, ticket, grant, task, pc, clock, sent, row, as, late>>
    BY <1>4 DEF vars, tables, locals
  <2>2. RequestsInv'  BY <1>0, <2>1, RequestsStutter
  <2>3. (TicketsOpenOnce /\ ReadersAreAuthorised /\ NothingIsReadAfterExpiry
          /\ EndedGrantsOpenNothing)'
    BY <1>0, <2>1 DEF TicketsOpenOnce, ReadersAreAuthorised, NothingIsReadAfterExpiry,
       EndedGrantsOpenNothing, Authority, Op, Item
  <2> QED  BY <1>1, <2>2, <2>3 DEF ViewerInv
<1> QED  BY <1>2, <1>3, <1>4 DEF Next

\* The invariant holds in every state: what each request has read, and the rows
\* of the tables, agree with what its opener was given.
THEOREM ViewerInvariant == Spec => []ViewerInv
<1>1. Init => ViewerInv  BY ViewerInit
<1>2. ViewerInv /\ [Next]_vars => ViewerInv'  BY ViewerStep
<1> QED  BY <1>1, <1>2, PTL DEF Spec

\* A page reads as exactly whom the token, ticket or link of its cookie opened
\* the session for (viewerForSession).
THEOREM ReadersAuthorised == Spec => []ReadersAreAuthorised
<1>1. ViewerInv => ReadersAreAuthorised  BY DEF ViewerInv
<1> QED  BY <1>1, ViewerInvariant, PTL

\* A ticket opens one session at most (consumeTicket).
THEOREM TicketsOnce == Spec => []TicketsOpenOnce
<1>1. ViewerInv => TicketsOpenOnce  BY DEF ViewerInv
<1> QED  BY <1>1, ViewerInvariant, PTL

\* No page reads after its session, or the grant of it, has expired.
THEOREM NothingReadAfterExpiry == Spec => []NothingIsReadAfterExpiry
<1>1. ViewerInv => NothingIsReadAfterExpiry  BY DEF ViewerInv
<1> QED  BY <1>1, ViewerInvariant, PTL

\* A grant that was over when a request came in opens nothing to it.
THEOREM EndedGrantsStayShut == Spec => []EndedGrantsOpenNothing
<1>1. ViewerInv => EndedGrantsOpenNothing  BY DEF ViewerInv
<1> QED  BY <1>1, ViewerInvariant, PTL
=============================================================================
