----------------------------- MODULE AccessGate -----------------------------
(***************************************************************************)
(* The access gate (lib/access.ts, routes/access.ts, pages/access): the    *)
(* operator gives owners handles and grants to resources, and an owner's   *)
(* key is exchanged for a token to a resource it holds a live grant for.   *)
(* The owners and their keys are those of Accounts, whose requests run at  *)
(* the same time.  A grant or a token is named by the request that made    *)
(* it.  Replacing a grant is one transaction: an UPDATE, which sees what   *)
(* was committed when it began and waits for the rows another transaction  *)
(* has updated, then an INSERT.                                            *)
(***************************************************************************)
EXTENDS Accounts

CONSTANTS
  GateRequests, GateScenarios,  \* and what they may be, with what the requests to Accounts may
  Handles, Unfit,               \* handles, and the malformed or reserved ones
  Resources, Scopes,
  Ttl                           \* how long a token lasts

GateTasks ==
  [op : {"handle"}, owner : Rows, handle : Handles \cup {None}, replace : BOOLEAN]
    \cup [op : {"grant"}, owner : Rows, resource : Resources, scopes : SUBSET Scopes,
          sound : BOOLEAN]
    \cup [op : {"revoke"}, grant : GateRequests]
    \cup [op : {"token"}, key : Rows, resource : Resources,
          scopes : {None} \cup SUBSET Scopes, sound : BOOLEAN]

GrantRows == [owner : Rows, resource : Resources, scopes : SUBSET Scopes,
              created : Nat, revoked : Nat \cup {None}]
Tokens == [grant : GateRequests, owner : Rows, resource : Resources, scopes : SUBSET Scopes,
           handle : Handles \cup {None}, expires : Nat]

ASSUME GateAssumption ==
  /\ GateScenarios \subseteq Scenarios \X [GateRequests -> GateTasks]
  /\ Unfit \subseteq Handles
  /\ Ttl \in Nat
ASSUME GateNamesAssumption ==
  None \notin Handles \cup GrantRows \cup Tokens

VARIABLES
  handle,                \* the column of owners that only the gate uses
  access, token,         \* the table access_grants, and the tokens handed out
  gateTask, gatePc,
  gateClock,             \* the clock as the request last read it
  subject,               \* the owner behind the key to exchange
  rows,                  \* the grants the request has in hand
  done,                  \* whether it was answered with success
  there, over,           \* the grants that were there, and those that were revoked, when it
                         \* arrived; and when a grant's revocation and a key's rotation took
  ended, keyEnded        \* effect: kept by no code, for the properties

gateTables == <<handle, access, token>>
gateHistory == <<there, over>>
gateVars == <<gateTables, gateTask, gatePc, gateClock, subject, rows, done,
              gateHistory, ended, keyEnded>>

GatePC == {"idle", "readOwner", "holder", "setHandle", "checkOwner", "find", "claim", "insert",
           "findGrant", "revoke", "key", "live", "sign", "end"}

GateTypeOK ==
  /\ handle \in [Rows -> Handles \cup {None}]
  /\ access \in [GateRequests -> GrantRows \cup {None}]
  /\ token \in [GateRequests -> Tokens \cup {None}]
  /\ gateTask \in [GateRequests -> GateTasks]
  /\ gatePc \in [GateRequests -> GatePC]
  /\ gateClock \in [GateRequests -> Nat]
  /\ subject \in [GateRequests -> Rows \cup {None}]
  /\ rows \in [GateRequests -> SUBSET GateRequests]
  /\ done \in [GateRequests -> BOOLEAN]
  /\ there \in [GateRequests -> SUBSET GateRequests]
  /\ over \in [GateRequests -> SUBSET GateRequests]
  /\ ended \in [GateRequests -> Nat \cup {None}]
  /\ keyEnded \in [Rows -> Nat \cup {None}]

GateInit ==
  /\ Init
  /\ handle = [o \in Rows |-> None]
  /\ access = [g \in GateRequests |-> None]
  /\ token = [g \in GateRequests |-> None]
  /\ \E s \in GateScenarios : policy = s[1][1] /\ task = s[1][2] /\ gateTask = s[2]
  /\ gatePc = [g \in GateRequests |-> "idle"]
  /\ gateClock = [g \in GateRequests |-> 0]
  /\ subject = [g \in GateRequests |-> None]
  /\ rows = [g \in GateRequests |-> {}]
  /\ done = [g \in GateRequests |-> FALSE]
  /\ there = [g \in GateRequests |-> {}]
  /\ over = [g \in GateRequests |-> {}]
  /\ ended = [g \in GateRequests |-> None]
  /\ keyEnded = [o \in Rows |-> None]

GateOp(g) == gateTask[g].op
Want(g) == gateTask[g]

GateGoto(g, where) == gatePc' = [gatePc EXCEPT ![g] = where] /\ UNCHANGED done
Answer(g, good) ==
  /\ gatePc' = [gatePc EXCEPT ![g] = "end"]
  /\ done' = [done EXCEPT ![g] = good]
SameGate == UNCHANGED <<gateTables, gateTask, gateHistory, ended, keyEnded>>

Live(a) == access[a] # None /\ access[a].revoked = None

\* A malformed resource, scope or exchange is refused before anything is read.
GateArrive(g) ==
  /\ gatePc[g] = "idle"
  /\ \/ GateOp(g) = "handle" /\ GateGoto(g, "readOwner")
     \/ GateOp(g) = "grant" /\ ~Want(g).sound /\ Answer(g, FALSE)
     \/ GateOp(g) = "grant" /\ Want(g).sound /\ GateGoto(g, "checkOwner")
     \/ GateOp(g) = "revoke" /\ GateGoto(g, "findGrant")
     \/ GateOp(g) = "token" /\ ~Want(g).sound /\ Answer(g, FALSE)
     \/ GateOp(g) = "token" /\ Want(g).sound /\ Issued(Want(g).key) /\ GateGoto(g, "key")
  /\ gateClock' = [gateClock EXCEPT ![g] = now]
  /\ there' = [there EXCEPT ![g] = {a \in GateRequests : access[a] # None}]
  /\ over' = [over EXCEPT ![g] = {a \in GateRequests : access[a] # None /\ ~Live(a)}]
  /\ UNCHANGED <<gateTables, gateTask, subject, rows, ended, keyEnded>>

-----------------------------------------------------------------------------
(***************************************************************************)
(* Handles.                                                                *)
(***************************************************************************)

HandleHolders(h) == {o \in Rows : owner[o] # None /\ h # None /\ handle[o] = h}

ReadOwner(g) ==
  /\ gatePc[g] = "readOwner"
  /\ LET o == Want(g).owner
         h == Want(g).handle
     IN  IF owner[o] = None \/ h \in Unfit THEN Answer(g, FALSE)
         ELSE IF handle[o] = h THEN Answer(g, TRUE)
         ELSE IF handle[o] # None /\ ~Want(g).replace THEN Answer(g, FALSE)
         ELSE GateGoto(g, IF h = None THEN "setHandle" ELSE "holder")
  /\ UNCHANGED <<gateClock, subject, rows>> /\ SameGate

HandleHolder(g) ==
  /\ gatePc[g] = "holder"
  /\ IF HandleHolders(Want(g).handle) \subseteq {Want(g).owner}
     THEN GateGoto(g, "setHandle") ELSE Answer(g, FALSE)
  /\ UNCHANGED <<gateClock, subject, rows>> /\ SameGate

\* Faulty: the handle found free is written, whoever has taken it meanwhile.
SetHandleBlindly(g) ==
  /\ gatePc[g] = "setHandle"
  /\ Answer(g, TRUE) /\ handle' = [handle EXCEPT ![Want(g).owner] = Want(g).handle]
  /\ UNCHANGED <<access, token, gateTask, gateClock, subject, rows, gateHistory, ended, keyEnded>>

\* Another owner's handle is a unique violation, answered as a conflict.
SetHandle(g) ==
  /\ gatePc[g] = "setHandle"
  /\ IF HandleHolders(Want(g).handle) \subseteq {Want(g).owner}
     THEN Answer(g, TRUE) /\ handle' = [handle EXCEPT ![Want(g).owner] = Want(g).handle]
     ELSE Answer(g, FALSE) /\ UNCHANGED handle
  /\ UNCHANGED <<access, token, gateTask, gateClock, subject, rows, gateHistory, ended, keyEnded>>

-----------------------------------------------------------------------------
(***************************************************************************)
(* Grants.                                                                 *)
(***************************************************************************)

LiveFor(o, resource) ==
  {a \in GateRequests : Live(a) /\ access[a].owner = o /\ access[a].resource = resource}

CheckOwner(g) ==
  /\ gatePc[g] = "checkOwner"
  /\ IF owner[Want(g).owner] = None THEN Answer(g, FALSE) ELSE GateGoto(g, "find")
  /\ UNCHANGED <<gateClock, subject, rows>> /\ SameGate

\* Faulty: only the newest live grant is replaced.
FindOneToReplace(g) ==
  /\ gatePc[g] = "find"
  /\ gateClock' = [gateClock EXCEPT ![g] = now]
  /\ LET live == LiveFor(Want(g).owner, Want(g).resource)
     IN  rows' = [rows EXCEPT ![g] =
           {a \in live : \A b \in live : access[b].created <= access[a].created}]
  /\ GateGoto(g, "claim")
  /\ UNCHANGED subject /\ SameGate

FindReplaced(g) ==
  /\ gatePc[g] = "find"
  /\ gateClock' = [gateClock EXCEPT ![g] = now]
  /\ rows' = [rows EXCEPT ![g] = LiveFor(Want(g).owner, Want(g).resource)]
  /\ GateGoto(g, "claim")
  /\ UNCHANGED subject /\ SameGate

\* A transaction that has updated rows keeps them locked until it commits.
GrantLocked(a) == \E h \in GateRequests : gatePc[h] = "insert" /\ a \in rows[h]

ClaimReplaced(g) ==
  /\ gatePc[g] = "claim"
  /\ \A a \in rows[g] : ~GrantLocked(a)
  /\ rows' = [rows EXCEPT ![g] = {a \in @ : Live(a)}]
  /\ GateGoto(g, "insert")
  /\ UNCHANGED <<gateClock, subject>> /\ SameGate

NewGrant(g, time) ==
  [owner |-> Want(g).owner, resource |-> Want(g).resource, scopes |-> Want(g).scopes,
   created |-> time, revoked |-> None]

InsertGrant(g) ==
  /\ gatePc[g] = "insert"
  /\ \E time \in gateClock[g]..now :
       access' = [a \in GateRequests |->
         IF a = g THEN NewGrant(g, time)
         ELSE IF a \in rows[g] THEN [access[a] EXCEPT !.revoked = gateClock[g]] ELSE access[a]]
  /\ ended' = [a \in GateRequests |-> IF a \in rows[g] THEN now ELSE ended[a]]
  /\ Answer(g, TRUE)
  /\ UNCHANGED <<handle, token, gateTask, gateClock, subject, rows, gateHistory, keyEnded>>

FindGrant(g) ==
  /\ gatePc[g] = "findGrant"
  /\ LET a == Want(g).grant
     IN  IF access[a] = None THEN Answer(g, FALSE) /\ UNCHANGED gateClock
         ELSE IF ~Live(a) THEN Answer(g, TRUE) /\ UNCHANGED gateClock
         ELSE GateGoto(g, "revoke") /\ gateClock' = [gateClock EXCEPT ![g] = now]
  /\ UNCHANGED <<subject, rows>> /\ SameGate

RevokeGrant(g) ==
  /\ gatePc[g] = "revoke" /\ ~GrantLocked(Want(g).grant)
  /\ access' = [access EXCEPT ![Want(g).grant].revoked = gateClock[g]]
  /\ ended' = [ended EXCEPT ![Want(g).grant] = IF @ = None THEN now ELSE @]
  /\ Answer(g, TRUE)
  /\ UNCHANGED <<handle, token, gateTask, gateClock, subject, rows, gateHistory, keyEnded>>

-----------------------------------------------------------------------------
(***************************************************************************)
(* The exchange of a key for a token: three reads and a signature.         *)
(***************************************************************************)

CheckKey(g) ==
  /\ gatePc[g] = "key"
  /\ \/ HeldBy(Want(g).key) = {} /\ Answer(g, FALSE) /\ UNCHANGED subject
     \/ \E o \in HeldBy(Want(g).key) :
          subject' = [subject EXCEPT ![g] = o] /\ GateGoto(g, "live")
  /\ UNCHANGED <<gateClock, rows>> /\ SameGate

Newest(a, live) == \A b \in live : access[b].created <= access[a].created
Granted(g, a) ==
  Want(g).scopes = None \/ (Want(g).scopes # {} /\ Want(g).scopes \subseteq access[a].scopes)

\* Faulty: the newest grant is taken without asking whether it is live.
FindAnyGrant(g) ==
  /\ gatePc[g] = "live"
  /\ LET held == {a \in GateRequests : access[a] # None /\ access[a].owner = subject[g]
                                          /\ access[a].resource = Want(g).resource}
     IN  \/ held = {} /\ Answer(g, FALSE) /\ UNCHANGED rows
         \/ \E a \in held :
              /\ Newest(a, held)
              /\ IF Granted(g, a)
                 THEN GateGoto(g, "sign") /\ rows' = [rows EXCEPT ![g] = {a}]
                 ELSE Answer(g, FALSE) /\ UNCHANGED rows
  /\ UNCHANGED <<gateClock, subject>> /\ SameGate

FindLive(g) ==
  /\ gatePc[g] = "live"
  /\ LET live == LiveFor(subject[g], Want(g).resource)
     IN  \/ live = {} /\ Answer(g, FALSE) /\ UNCHANGED rows
         \/ \E a \in live :
              /\ Newest(a, live)
              /\ IF Granted(g, a)
                 THEN GateGoto(g, "sign") /\ rows' = [rows EXCEPT ![g] = {a}]
                 ELSE Answer(g, FALSE) /\ UNCHANGED rows
  /\ UNCHANGED <<gateClock, subject>> /\ SameGate

TokenFor(g, a, time) ==
  [grant |-> a, owner |-> subject[g], resource |-> Want(g).resource,
   scopes |-> IF Want(g).scopes = None THEN access[a].scopes ELSE Want(g).scopes,
   handle |-> handle[subject[g]], expires |-> time + Ttl]

\* Faulty: a token lasts from its signature, not from the request for it.
SignNow(g) ==
  /\ gatePc[g] = "sign"
  /\ \E a \in rows[g] : token' = [token EXCEPT ![g] = TokenFor(g, a, now)]
  /\ Answer(g, TRUE)
  /\ UNCHANGED <<handle, access, gateTask, gateClock, subject, rows, gateHistory, ended, keyEnded>>

\* The handle is read last; the time is that of the request's arrival.
SignToken(g) ==
  /\ gatePc[g] = "sign"
  /\ \E a \in rows[g] : token' = [token EXCEPT ![g] = TokenFor(g, a, gateClock[g])]
  /\ Answer(g, TRUE)
  /\ UNCHANGED <<handle, access, gateTask, gateClock, subject, rows, gateHistory, ended, keyEnded>>

-----------------------------------------------------------------------------
GateStep(g) ==
  \/ GateArrive(g) \/ ReadOwner(g) \/ HandleHolder(g) \/ SetHandle(g)
  \/ CheckOwner(g) \/ FindReplaced(g) \/ ClaimReplaced(g) \/ InsertGrant(g)
  \/ FindGrant(g) \/ RevokeGrant(g)
  \/ CheckKey(g) \/ FindLive(g) \/ SignToken(g)

\* A key ends when it is rotated away.
Held(k) == \E o \in Rows : owner[o] # None /\ owner[o].key = k
AccountsStep ==
  /\ \E r \in Requests : Step(r)
  /\ keyEnded' = [k \in Rows |-> IF Held(k) /\ ~Held(k)' THEN now ELSE keyEnded[k]]
  /\ UNCHANGED <<gateTables, gateTask, gatePc, gateClock, subject, rows, done, gateHistory, ended>>

GateRestart ==
  /\ Restart
  /\ gatePc' = [g \in GateRequests |-> IF gatePc[g] = "idle" THEN "idle" ELSE "end"]
  /\ UNCHANGED <<gateTables, gateTask, gateClock, subject, rows, done, gateHistory,
                 ended, keyEnded>>

GateQuiet == Quiet /\ \A g \in GateRequests : gatePc[g] \in {"idle", "end"}

GateNext ==
  \/ \E g \in GateRequests : GateStep(g) /\ UNCHANGED vars
  \/ AccountsStep
  \/ Tick /\ UNCHANGED gateVars
  \/ GateRestart
  \/ GateQuiet /\ UNCHANGED <<vars, gateVars>>

GateSpec == GateInit /\ [][GateNext]_<<vars, gateVars>>

-----------------------------------------------------------------------------
(***************************************************************************)
(* Properties.                                                             *)
(***************************************************************************)

\* One live grant per owner and resource, as the schema says.  The code does not
\* guarantee it: of two grants made at once, neither UPDATE sees the other's row.
OneLiveGrant ==
  \A a, b \in GateRequests :
    /\ Live(a) /\ Live(b)
    /\ access[a].owner = access[b].owner /\ access[a].resource = access[b].resource
    => a = b

\* What holds instead: a new grant replaces every grant that was there when it was
\* asked for, even one that a racing grant or revocation is just ending.
NewGrantReplaces ==
  \A g \in GateRequests : GateOp(g) = "grant" /\ done[g] =>
    \A a \in there[g] :
      access[a].owner = Want(g).owner /\ access[a].resource = Want(g).resource => ~Live(a)

\* A token says no more than the grant it was issued under, for the owner of the
\* key, and no token is issued under a grant that was revoked before it was asked
\* for, through the three statements it takes ("the gate issues no more tokens under it").
TokensWithinGrants ==
  \A g \in GateRequests : token[g] # None =>
    LET t == token[g]
        row == access[t.grant]
    IN  /\ row # None /\ t.grant \notin over[g]
        /\ t.owner = row.owner /\ t.resource = row.resource /\ t.scopes \subseteq row.scopes
        /\ t.resource = Want(g).resource

\* Whatever is revoked or rotated while a token is being issued, the token does
\* not outlive the end of its grant, nor of the key it was exchanged for, by more
\* than its lifetime ("tokens already issued stay valid ... at most the TTL").
TokensEndInTime ==
  \A g \in GateRequests : token[g] # None =>
    /\ ended[token[g].grant] # None => token[g].expires <= ended[token[g].grant] + Ttl
    /\ keyEnded[Want(g).key] # None => token[g].expires <= keyEnded[Want(g).key] + Ttl

\* A handle is the namespace of one owner, though it is looked up and then written.
HandlesAreHeldOnce ==
  \A o, p \in Rows : handle[o] # None /\ handle[o] = handle[p] => o = p

-----------------------------------------------------------------------------
(***************************************************************************)
(* The inductive invariant.                                                *)
(***************************************************************************)

GatePlaced(g) ==
  /\ gatePc[g] \in {"readOwner", "holder", "setHandle"} => GateOp(g) = "handle"
  /\ gatePc[g] \in {"holder", "setHandle"} => owner[Want(g).owner] # None
  /\ gatePc[g] \in {"checkOwner", "find", "claim", "insert"} => GateOp(g) = "grant"
  /\ gatePc[g] \in {"findGrant", "revoke"} => GateOp(g) = "revoke"
  /\ gatePc[g] = "revoke" => access[Want(g).grant] # None
  /\ gatePc[g] \in {"key", "live", "sign"} => GateOp(g) = "token"
  /\ gatePc[g] \in {"live", "sign"} => subject[g] # None
  /\ access[g] # None => GateOp(g) = "grant" /\ gatePc[g] = "end"
  /\ token[g] # None => GateOp(g) = "token" /\ gatePc[g] = "end"
  /\ done[g] => gatePc[g] = "end"

\* What the transaction of a new grant has in hand.
Replacing(g) ==
  /\ gatePc[g] \in {"claim", "insert"} =>
       \A a \in GateRequests : a \in there[g] /\ access[a].owner = Want(g).owner
           /\ access[a].resource = Want(g).resource => a \in rows[g] \/ ~Live(a)
  /\ gatePc[g] = "insert" => \A a \in rows[g] : Live(a)
  /\ gatePc[g] = "insert" =>
       \A h \in GateRequests : gatePc[h] = "insert" /\ h # g => rows[g] \cap rows[h] = {}

\* The grant a token is being signed under.
Signing(g) ==
  gatePc[g] = "sign" =>
    \E a \in GateRequests :
      /\ rows[g] = {a} /\ access[a] # None /\ a \notin over[g]
      /\ access[a].owner = subject[g] /\ access[a].resource = Want(g).resource
      /\ Granted(g, a)
      /\ ended[a] # None => gateClock[g] <= ended[a]

GateDated(g) ==
  /\ gateClock[g] <= now
  /\ there[g] \subseteq {a \in GateRequests : access[a] # None}
  /\ over[g] \subseteq {a \in GateRequests : access[a] # None /\ ~Live(a)}
  /\ access[g] # None => (ended[g] = None <=> Live(g))
  /\ access[g] = None => ended[g] = None
  /\ gatePc[g] \in {"live", "sign"} /\ keyEnded[Want(g).key] # None =>
       gateClock[g] <= keyEnded[Want(g).key]
  /\ token[g] # None => token[g].expires = gateClock[g] + Ttl

GateRequestsInv ==
  \A g \in GateRequests : GatePlaced(g) /\ Replacing(g) /\ Signing(g) /\ GateDated(g)

KeysInv == \A k \in Rows : keyEnded[k] # None => Issued(k) /\ ~Held(k)

GateInv ==
  /\ GateTypeOK
  /\ GateRequestsInv
  /\ KeysInv
  /\ \A o \in Rows : handle[o] # None => owner[o] # None
  /\ HandlesAreHeldOnce
  /\ NewGrantReplaces
  /\ TokensWithinGrants
  /\ TokensEndInTime
=============================================================================
