--------------------------- MODULE ViewerSessions ---------------------------
(***************************************************************************)
(* Who may look at traces in the browser: sign-in, one-time tickets and    *)
(* view grants of the api-server (lib/viz-session.ts, viewer-tickets.ts,   *)
(* view-grants.ts and the pages over them).  Every statement of a request  *)
(* is an action of its own; no request holds a transaction.  Sessions,     *)
(* tickets and grants have random ids, so each is named here by the        *)
(* request that created it.                                                *)
(***************************************************************************)
EXTENDS Naturals

CONSTANTS
  Owners,
  Admin,      \* whom the administrator's session reads as
  Browsers,
  Requests,
  Scenarios,  \* what the requests may be about: functions from Requests to Tasks
  SessionTtl, TicketTtl, GrantTtl,
  MaxTime,
  None

\* What a request is about: for whom, from which browser, and which ticket or grant.
Tasks ==
  [op : {"issue", "grant", "list"}, owner : Owners, browser : {None}, item : {None}]
    \cup [op : {"revoke"}, owner : Owners, browser : {None}, item : Requests]
    \cup [op : {"signin"}, owner : Owners \cup {Admin}, browser : Browsers, item : {None}]
    \cup [op : {"ticket", "link"}, owner : {None}, browser : Browsers, item : Requests]
    \cup [op : {"page", "logout"}, owner : {None}, browser : Browsers, item : {None}]

ASSUME TimesAssumption ==
  /\ SessionTtl \in Nat \ {0} /\ TicketTtl \in Nat \ {0} /\ GrantTtl \in Nat \ {0}
  /\ MaxTime \in Nat
ASSUME ScenariosAssumption == Scenarios \subseteq [Requests -> Tasks]

\* Whom a request signs in or reads as; the rows of the tables.
Viewers == [owner : Owners \cup {Admin}, grant : Requests \cup {None}]
SessionRows ==
  [owner : Owners \cup {Admin}, grant : Requests \cup {None}, expires : Nat]
TicketRows == [owner : Owners, expires : Nat, used : BOOLEAN]
GrantRows == [owner : Owners, expires : Nat, status : {"open", "ended", "revoked"}]

ASSUME NamesAssumption ==
  /\ Admin \notin Owners
  /\ None \notin Requests \cup Owners \cup Browsers \cup {Admin}
  /\ None \notin Viewers /\ None \notin SessionRows
  /\ None \notin TicketRows /\ None \notin GrantRows

VARIABLES
  now,
  session, ticket, grant,  \* the tables: viz_sessions, viewer_tickets, view_grants
  cookie,                  \* the session cookie each browser has
  task,                    \* what each request is about
  pc,                      \* the statement each request is at
  clock,                   \* the clock as the request last read it
  sent,                    \* the cookie that came with the request
  row,                     \* the session row it has read
  as,                      \* whom it signs in, or reads as
  late                     \* the grants that were over when it arrived: no code keeps
                           \* this, a property speaks of it

tables == <<session, ticket, grant>>
locals == <<clock, sent, row, as, late>>
vars == <<now, tables, cookie, task, pc, locals>>

PC == {"idle", "purgeTickets", "createTicket", "dropKeys", "createGrant", "findGrant",
       "consume", "findSession", "checkGrant", "forget", "end", "purge", "create",
       "revoke", "signOut", "reply", "done"}

TypeOK ==
  /\ now \in Nat
  /\ session \in [Requests -> SessionRows \cup {None}]
  /\ ticket \in [Requests -> TicketRows \cup {None}]
  /\ grant \in [Requests -> GrantRows \cup {None}]
  /\ cookie \in [Browsers -> Requests \cup {None}]
  /\ task \in [Requests -> Tasks]
  /\ pc \in [Requests -> PC]
  /\ clock \in [Requests -> Nat]
  /\ sent \in [Requests -> Requests \cup {None}]
  /\ row \in [Requests -> SessionRows \cup {None}]
  /\ as \in [Requests -> Viewers \cup {None}]
  /\ late \in [Requests -> SUBSET Requests]

Init ==
  /\ now = 0
  /\ session = [r \in Requests |-> None]
  /\ ticket = [r \in Requests |-> None]
  /\ grant = [r \in Requests |-> None]
  /\ cookie = [b \in Browsers |-> None]
  /\ task \in Scenarios
  /\ pc = [r \in Requests |-> "idle"]
  /\ clock = [r \in Requests |-> 0]
  /\ sent = [r \in Requests |-> None]
  /\ row = [r \in Requests |-> None]
  /\ as = [r \in Requests |-> None]
  /\ late = [r \in Requests |-> {}]

Op(r) == task[r].op
Item(r) == task[r].item
Goto(r, where) == pc' = [pc EXCEPT ![r] = where]

-----------------------------------------------------------------------------
(***************************************************************************)
(* A request arrives.  The browser sends its cookie, or keeps it back when *)
(* another site sent it here; a sign-out is only taken from this site.     *)
(***************************************************************************)

AsOwner(o) == [owner |-> o, grant |-> None]
Cookie(r) == IF task[r].browser = None THEN None ELSE cookie[task[r].browser]

Over(g) == grant[g] # None /\ (grant[g].status # "open" \/ grant[g].expires <= now)

Starts(r, presented, where) ==
  /\ pc[r] = "idle"
  /\ Goto(r, where)
  /\ sent' = [sent EXCEPT ![r] = presented]
  /\ clock' = [clock EXCEPT ![r] = now]
  /\ late' = [late EXCEPT ![r] = {g \in Requests : Over(g)}]
  /\ as' = [as EXCEPT ![r] = IF Op(r) = "signin" THEN AsOwner(task[r].owner) ELSE None]
  /\ UNCHANGED <<now, tables, cookie, task, row>>

Arrive(r) ==
  \/ Op(r) = "issue" /\ Starts(r, None, "purgeTickets")
  \/ Op(r) \in {"grant", "list"} /\ Starts(r, None, "dropKeys")
  \/ Op(r) = "revoke" /\ Starts(r, None, "revoke")
  \/ \E presented \in {None, Cookie(r)} :
       \/ Op(r) = "signin" /\ Starts(r, presented, "purge")
       \/ Op(r) = "link" /\ Starts(r, presented, "dropKeys")
       \/ Op(r) = "ticket" /\ Starts(r, presented, "consume")
       \/ Op(r) = "page" /\ Starts(r, presented, IF presented = None THEN "done" ELSE "findSession")
  \/ Op(r) = "logout" /\ Starts(r, Cookie(r), IF Cookie(r) = None THEN "reply" ELSE "end")

-----------------------------------------------------------------------------
(***************************************************************************)
(* The session of a browser.                                               *)
(***************************************************************************)

\* Ending the session presented, then a new one: the clock is read when the new
\* one is started.
Replace(r) ==
  IF sent[r] = None
  THEN Goto(r, "purge") /\ clock' = [clock EXCEPT ![r] = now]
  ELSE Goto(r, "end") /\ UNCHANGED clock

\* Faulty: the session of a grant lives as long as any other.
ExpiryOfAny(r) == clock[r] + SessionTtl

\* Sessions of a grant end with it.
Expiry(r) ==
  LET own == clock[r] + SessionTtl
      limit == IF as[r].grant = None THEN own ELSE grant[as[r].grant].expires
  IN  IF limit < own THEN limit ELSE own

End(r) ==
  /\ pc[r] = "end"
  /\ session' = [session EXCEPT ![sent[r]] = None]
  /\ IF Op(r) = "logout"
     THEN Goto(r, "reply") /\ UNCHANGED clock
     ELSE Goto(r, "purge") /\ clock' = [clock EXCEPT ![r] = now]
  /\ UNCHANGED <<now, ticket, grant, cookie, task, sent, row, as, late>>

Expired(s, time) == session[s] # None /\ session[s].expires <= time

Purge(r) ==
  /\ pc[r] = "purge"
  /\ session' = [s \in Requests |-> IF Expired(s, clock[r]) THEN None ELSE session[s]]
  /\ Goto(r, "create")
  /\ UNCHANGED <<now, ticket, grant, cookie, task, locals>>

\* Faulty: the row does not say that it is a grant's.
CreateUnlimited(r) ==
  /\ pc[r] = "create"
  /\ session' = [session EXCEPT ![r] =
       [owner |-> as[r].owner, grant |-> None, expires |-> Expiry(r)]]
  /\ Goto(r, "reply")
  /\ UNCHANGED <<now, ticket, grant, cookie, task, locals>>

Create(r) ==
  /\ pc[r] = "create"
  /\ session' = [session EXCEPT ![r] =
       [owner |-> as[r].owner, grant |-> as[r].grant, expires |-> Expiry(r)]]
  /\ Goto(r, "reply")
  /\ UNCHANGED <<now, ticket, grant, cookie, task, locals>>

\* The response sets the browser's cookie, or removes it.
Deliver(r) ==
  /\ pc[r] = "reply"
  /\ cookie' = [cookie EXCEPT ![task[r].browser] = IF Op(r) = "logout" THEN None ELSE r]
  /\ Goto(r, "done")
  /\ UNCHANGED <<now, tables, task, locals>>

-----------------------------------------------------------------------------
(***************************************************************************)
(* Who reads: viewerForSession, for a page and for a ticket.               *)
(***************************************************************************)

\* Faulty: the end of a grant is its expiry only.
InForceUnrevoked(g, time) == grant[g] # None /\ time < grant[g].expires

InForce(g, time) ==
  grant[g] # None /\ grant[g].status = "open" /\ time < grant[g].expires

\* A ticket keeps the session of a browser that reads as its owner already.
Resolve(r, viewer) ==
  IF Op(r) = "page"
  THEN as' = [as EXCEPT ![r] = viewer] /\ Goto(r, "done") /\ UNCHANGED clock
  ELSE IF viewer # None /\ viewer.owner = as[r].owner
       THEN as' = [as EXCEPT ![r] = viewer] /\ Goto(r, "done") /\ UNCHANGED clock
       ELSE Replace(r) /\ UNCHANGED as

\* Faulty: an expired session is as good as any.
FindSessionOfAnyAge(r) ==
  /\ pc[r] = "findSession"
  /\ LET found == session[sent[r]] IN
       /\ row' = [row EXCEPT ![r] = found]
       /\ IF found = None THEN Resolve(r, None)
          ELSE IF found.grant = None THEN Resolve(r, AsOwner(found.owner))
          ELSE Goto(r, "checkGrant") /\ UNCHANGED <<clock, as>>
  /\ UNCHANGED <<now, tables, cookie, task, sent, late>>

FindSession(r) ==
  /\ pc[r] = "findSession"
  /\ LET found == session[sent[r]] IN
       /\ row' = [row EXCEPT ![r] = found]
       /\ IF found = None THEN Resolve(r, None)
          ELSE IF found.expires <= now THEN Goto(r, "forget") /\ UNCHANGED <<clock, as>>
          ELSE IF found.grant = None THEN Resolve(r, AsOwner(found.owner))
          ELSE Goto(r, "checkGrant") /\ UNCHANGED <<clock, as>>
  /\ UNCHANGED <<now, tables, cookie, task, sent, late>>

CheckGrant(r) ==
  /\ pc[r] = "checkGrant"
  /\ LET found == row[r] IN
       IF InForce(found.grant, now) /\ grant[found.grant].owner = found.owner
       THEN Resolve(r, [owner |-> found.owner, grant |-> found.grant])
       ELSE Goto(r, "forget") /\ UNCHANGED <<clock, as>>
  /\ UNCHANGED <<now, tables, cookie, task, sent, row, late>>

Forget(r) ==
  /\ pc[r] = "forget"
  /\ session' = [session EXCEPT ![sent[r]] = None]
  /\ Resolve(r, None)
  /\ UNCHANGED <<now, ticket, grant, cookie, task, sent, row, late>>

-----------------------------------------------------------------------------
(***************************************************************************)
(* Tickets.                                                                *)
(***************************************************************************)

PurgeTickets(r) ==
  /\ pc[r] = "purgeTickets"
  /\ ticket' = [t \in Requests |->
       IF ticket[t] # None /\ ticket[t].expires <= clock[r] THEN None ELSE ticket[t]]
  /\ Goto(r, "createTicket")
  /\ UNCHANGED <<now, session, grant, cookie, task, locals>>

CreateTicket(r) ==
  /\ pc[r] = "createTicket"
  /\ ticket' = [ticket EXCEPT ![r] =
       [owner |-> task[r].owner, expires |-> clock[r] + TicketTtl, used |-> FALSE]]
  /\ Goto(r, "done")
  /\ UNCHANGED <<now, session, grant, cookie, task, locals>>

\* Faulty: a ticket is good until it expires.
UsableAgain(t, time) == ticket[t] # None /\ time < ticket[t].expires

Usable(t, time) == ticket[t] # None /\ ~ticket[t].used /\ time < ticket[t].expires

\* Checking the ticket and marking it used is one statement.
Consume(r) ==
  /\ pc[r] = "consume"
  /\ IF Usable(Item(r), clock[r])
     THEN /\ ticket' = [ticket EXCEPT ![Item(r)].used = TRUE]
          /\ as' = [as EXCEPT ![r] = AsOwner(ticket[Item(r)].owner)]
          /\ IF sent[r] = None THEN Replace(r)
             ELSE Goto(r, "findSession") /\ UNCHANGED clock
     ELSE Goto(r, "done") /\ UNCHANGED <<ticket, as, clock>>
  /\ UNCHANGED <<now, session, grant, cookie, task, sent, row, late>>

-----------------------------------------------------------------------------
(***************************************************************************)
(* View grants.                                                            *)
(***************************************************************************)

\* Whoever makes, opens or lists grants drops the keys of the expired ones.
DropKeys(r) ==
  /\ pc[r] = "dropKeys"
  /\ grant' = [g \in Requests |->
       IF grant[g] # None /\ grant[g].status = "open" /\ grant[g].expires <= clock[r]
       THEN [grant[g] EXCEPT !.status = "ended"] ELSE grant[g]]
  /\ \/ Op(r) = "grant" /\ Goto(r, "createGrant")
     \/ Op(r) = "link" /\ Goto(r, "findGrant")
     \/ Op(r) = "list" /\ Goto(r, "done")
  /\ UNCHANGED <<now, session, ticket, cookie, task, locals>>

\* A grant of keys that are not the owner's is refused.
CreateGrant(r) ==
  /\ pc[r] = "createGrant"
  /\ \/ grant' = [grant EXCEPT ![r] =
          [owner |-> task[r].owner, expires |-> clock[r] + GrantTtl, status |-> "open"]]
     \/ UNCHANGED grant
  /\ Goto(r, "done")
  /\ UNCHANGED <<now, session, ticket, cookie, task, locals>>

FindGrant(r) ==
  /\ pc[r] = "findGrant"
  /\ IF InForce(Item(r), clock[r])
     THEN /\ as' = [as EXCEPT ![r] = [owner |-> grant[Item(r)].owner, grant |-> Item(r)]]
          /\ Replace(r)
     ELSE Goto(r, "done") /\ UNCHANGED <<as, clock>>
  /\ UNCHANGED <<now, tables, cookie, task, sent, row, late>>

Revoke(r) ==
  /\ pc[r] = "revoke"
  /\ grant' = IF grant[Item(r)] # None /\ grant[Item(r)].owner = task[r].owner
              THEN [grant EXCEPT ![Item(r)].status = "revoked"] ELSE grant
  /\ Goto(r, "signOut")
  /\ UNCHANGED <<now, session, ticket, cookie, task, locals>>

\* The sessions go whoever asked.
SignOut(r) ==
  /\ pc[r] = "signOut"
  /\ session' = [s \in Requests |->
       IF session[s] # None /\ session[s].grant = Item(r) THEN None ELSE session[s]]
  /\ Goto(r, "done")
  /\ UNCHANGED <<now, ticket, grant, cookie, task, locals>>

-----------------------------------------------------------------------------

Tick == now < MaxTime /\ now' = now + 1 /\ UNCHANGED <<tables, cookie, task, pc, locals>>

Handle(r) ==
  \/ Arrive(r) \/ End(r) \/ Purge(r) \/ Create(r) \/ Deliver(r)
  \/ FindSession(r) \/ CheckGrant(r) \/ Forget(r)
  \/ PurgeTickets(r) \/ CreateTicket(r) \/ Consume(r)
  \/ DropKeys(r) \/ CreateGrant(r) \/ FindGrant(r) \/ Revoke(r) \/ SignOut(r)

Finished == \A r \in Requests : pc[r] = "done"

Next ==
  \/ \E r \in Requests : Handle(r)
  \/ Tick
  \/ Finished /\ UNCHANGED vars

\* A request whose process died takes no further step, as any request may.
Spec == Init /\ [][Next]_vars

-----------------------------------------------------------------------------
(***************************************************************************)
(* Properties.                                                             *)
(***************************************************************************)

\* What a request that opens a session was given to open it with: the token of
\* the form, the ticket or the link.
Authority(s) ==
  [owner |-> IF Op(s) = "signin" THEN task[s].owner ELSE task[Item(s)].owner,
   grant |-> IF Op(s) = "link" THEN Item(s) ELSE None]

\* A page reads exactly what the token, ticket or link behind its cookie was
\* made for: a grant's browser never sees more than the grant, whatever signs
\* in, is revoked or expires in the meantime (viewerForSession, startVizSession).
ReadersAreAuthorised ==
  \A p \in Requests :
    Op(p) = "page" /\ as[p] # None => sent[p] # None /\ as[p] = Authority(sent[p])

\* A ticket lets one request through, even when several race with it and it is
\* cleared away while they do ("two requests racing with one ticket cannot both
\* sign in").
TicketsOpenOnce ==
  \A r1, r2 \in Requests :
    /\ Op(r1) = "ticket" /\ Op(r2) = "ticket" /\ Item(r1) = Item(r2)
    /\ as[r1] # None /\ as[r2] # None
    => r1 = r2

\* Who asks for a page after the session, or its grant, has expired reads
\* nothing, though both checks run later and on rows read earlier.
NothingIsReadAfterExpiry ==
  \A p \in Requests :
    Op(p) = "page" /\ as[p] # None =>
      /\ row[p] # None /\ clock[p] < row[p].expires
      /\ as[p].grant # None => clock[p] < grant[as[p].grant].expires

\* A grant that has expired or was revoked opens nothing to who comes after: no
\* link and no page, though sessions of it may be created even later ("a grant
\* key left in a browser's history opens nothing afterwards").
EndedGrantsOpenNothing ==
  \A r \in Requests : as[r] # None => as[r].grant \notin late[r]

-----------------------------------------------------------------------------
(***************************************************************************)
(* The inductive invariant.                                                *)
(***************************************************************************)

Openers == {"signin", "ticket", "link"}

\* Which requests come to which statement, and with what.
Placed(r) ==
  /\ pc[r] \in {"createTicket", "purgeTickets"} => Op(r) = "issue"
  /\ pc[r] = "createGrant" => Op(r) = "grant"
  /\ pc[r] = "findGrant" => Op(r) = "link"
  /\ pc[r] = "consume" => Op(r) = "ticket"
  /\ pc[r] \in {"findSession", "checkGrant", "forget"} =>
       sent[r] # None /\ Op(r) \in {"page", "ticket"}
  /\ pc[r] = "checkGrant" => row[r] # None /\ row[r].grant # None
  /\ pc[r] = "end" => sent[r] # None /\ Op(r) \in {"logout", "link", "ticket"}
  /\ pc[r] \in {"purge", "create"} => Op(r) \in Openers
  /\ pc[r] = "reply" => Op(r) \in Openers \cup {"logout"}
  /\ pc[r] \in {"signOut", "revoke"} => Op(r) = "revoke"

\* A request creates its own ticket, grant or session, once, and last of all.
Tabled(r) ==
  /\ ticket[r] # None =>
       Op(r) = "issue" /\ pc[r] = "done" /\ ticket[r].owner = task[r].owner
  /\ grant[r] # None =>
       Op(r) = "grant" /\ pc[r] = "done" /\ grant[r].owner = task[r].owner
  /\ session[r] # None => Op(r) \in Openers /\ pc[r] \in {"reply", "done"}

\* Nobody's session says more than its opener was given, and a grant's ends
\* with the grant.
Sound(found, s) ==
  /\ found.owner = Authority(s).owner /\ found.grant = Authority(s).grant
  /\ found.grant # None =>
       grant[found.grant] # None /\ found.expires <= grant[found.grant].expires

SoundRows(r) ==
  /\ session[r] # None => Sound(session[r], r)
  /\ row[r] # None => sent[r] # None /\ Sound(row[r], sent[r])

\* Who signs in does so on its authority, and on a ticket that it has used up.
OnAuthority(r) == as[r] # None /\ as[r] = Authority(r)

SignsIn(r) ==
  /\ pc[r] = "idle" => as[r] = None /\ row[r] = None
  /\ pc[r] \in {"findSession", "checkGrant", "forget"} /\ Op(r) = "ticket" => OnAuthority(r)
  /\ pc[r] \in {"end", "purge", "create"} /\ Op(r) # "logout" => OnAuthority(r)
  /\ Op(r) = "link" /\ as[r] # None => grant[Item(r)] # None
  /\ Op(r) = "ticket" /\ as[r] # None =>
       /\ pc[Item(r)] = "done"
       /\ ticket[Item(r)] # None => ticket[Item(r)].used
  /\ Op(r) = "page" /\ pc[r] # "done" => as[r] = None

Timed(r) ==
  /\ clock[r] <= now
  /\ pc[r] = "checkGrant" => clock[r] < row[r].expires

\* What was over stays over, and was so by the clock a link is judged by.
Belated(r) ==
  \A g \in late[r] :
    /\ Over(g)
    /\ pc[r] \in {"dropKeys", "findGrant"} =>
         grant[g].status # "open" \/ grant[g].expires <= clock[r]

RequestsInv ==
  \A r \in Requests :
    Placed(r) /\ Tabled(r) /\ SoundRows(r) /\ SignsIn(r) /\ Timed(r) /\ Belated(r)

ViewerInv ==
  /\ TypeOK
  /\ RequestsInv
  /\ TicketsOpenOnce
  /\ ReadersAreAuthorised
  /\ NothingIsReadAfterExpiry
  /\ EndedGrantsOpenNothing
=============================================================================
