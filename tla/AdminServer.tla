------------------------------ MODULE AdminServer ------------------------------
(***************************************************************************)
(* internal/admin and cmd/admin: the web server over AdminStore, and the   *)
(* gateway's checks of a tool call against the same store.                 *)
(*                                                                         *)
(* A handler is a sequence of statements, each atomic, between which other *)
(* handlers, and the gateway's process, execute theirs.  A request that    *)
(* changes a table is followed by a statement for its audit row.  The      *)
(* server may end at any moment; sessions are cookies encrypted with keys  *)
(* drawn at each start.  With Faults a statement may return an error (the  *)
(* file is locked by the other process, or the client has gone and with it *)
(* the request's context), which leaves the database as it was.            *)
(*                                                                         *)
(* Pages that only read and render are left out; so are role checks of     *)
(* sessions, which all belong to the one user, an admin.                   *)
(***************************************************************************)
EXTENDS AdminStore

CONSTANTS
  Handlers,      \* requests in progress at the same time
  GatewayToken,  \* the API key that a remote gateway presents for itself
  Scenarios,     \* starting points: a database, and the requests clients make
  Faults,        \* whether statements may fail
  MaxRequests,   \* bound: requests of a behaviour
  MaxStarts      \* bound: starts of the server

ASSUME ServerAssumption ==
  /\ GatewayToken \in KeyIds
  /\ \A s \in Scenarios :
       /\ s.db \in Databases
       /\ IsFiniteSet(s.db.policies)
       /\ LimitsUnique(s.db)
       /\ s.db.org => s.db.users # {}  \* a first run that was cut off is a behaviour
  /\ Faults \in BOOLEAN
  /\ MaxRequests \in Nat
  /\ MaxStarts \in Nat

VARIABLES
  db,        \* the database
  audit,     \* its audit rows: the request and what it did
  logs,      \* its message log rows, by the request that posted them
  server,    \* "down", "seed org", "seed user" or "up"
  start,     \* the number of the server's latest start
  cookies,   \* starts for which a browser holds a session cookie
  req,       \* control state of each handler
  known,     \* uuids of the rows that the store has ever held
  served,    \* requests accepted so far
  traffic,   \* what clients ask for in this behaviour
  during,    \* history: the databases of the time a request has been in progress
  done,      \* history: the changes whose statement succeeded
  unaudited, \* history: requests whose audit row failed or was cut off
  cutShort   \* history: whether a start ended between the two seeding writes

tableVars == <<audit, logs>>
serverVars == <<server, start, cutShort>>
clientVars == <<cookies, served, traffic>>
historyVars == <<done, unaudited>>
vars == <<db, known, during, tableVars, serverVars, clientVars, historyVars, req>>

-------------------------------------------------------------------------------
(* The requests: what to do, on which row or with which key, and the form. *)

Ids == PolicyIds \cup KeyIds \cup RowIds

LoginPost == [do : {"login"}, on : Passwords]
Logout == [do : {"logout"}, on : {""}]
ProfilePost == [do : {"password"}, on : Passwords, new : Passwords]
AgentNewPost == [do : {"register"}, on : AgentIds]
SetAgentStatus == [do : {"status"}, on : AgentIds, status : Statuses]
PolicyNewPost == [do : {"policy new"}, on : PolicyIds, form : PolicyForms]
PolicyEditPost == [do : {"policy edit"}, on : PolicyIds, form : PolicyForms]
PolicyDelete == [do : {"policy delete"}, on : PolicyIds]

\* Only a key of role agent is bound to one.
APIKeyNewPost ==
  [do : {"key new"}, on : KeyIds,
   key : [role : {"agent"}, agent : AgentIds] \cup [role : Roles \ {"agent"}, agent : {NoAgent}]]
APIKeyRevoke == [do : {"key revoke"}, on : KeyIds]

LimitsForms == [agent : Targets, max : MaxValues]
LimitsNewPost == [do : {"limits new"}, on : RowIds, form : LimitsForms]
LimitsEditPost == [do : {"limits edit"}, on : RowIds, form : LimitsForms]
LimitsDelete == [do : {"limits delete"}, on : RowIds]

PageRequests ==
  UNION {Logout, ProfilePost, AgentNewPost, SetAgentStatus, PolicyNewPost, PolicyEditPost,
         PolicyDelete, APIKeyNewPost, APIKeyRevoke, LimitsNewPost, LimitsEditPost, LimitsDelete}

\* A tool call is checked in the process of an embedded gateway, or by a remote
\* one that asks the server (auth, then evaluate).
APIAuth == [do : {"auth"}, on : KeyIds]
APIEvaluate == [do : {"evaluate"}, on : KeyIds, source : AgentIds, target : AgentIds]
APILimitsCheck == [do : {"limits check"}, on : KeyIds, agent : AgentIds]
APIMessageLog == [do : {"ingest"}, on : KeyIds, entry : {"whole", "cut off"}]
ToolCalls == [do : {"tool", "remote tool"}, on : KeyIds, source : AgentIds, target : AgentIds]

APIRequests == UNION {APIAuth, APIEvaluate, APILimitsCheck, APIMessageLog, ToolCalls}

Requests == UNION {LoginPost, PageRequests, APIRequests}

Idle == [at |-> "idle"]

\* The identifiers of new rows are fresh; others come from pages read earlier,
\* so their rows may be gone.
IdIsFor(op) ==
  IF op.do \in {"policy new", "key new", "limits new"}
  THEN op.on \notin known /\ \A h \in Handlers : req[h] # Idle => req[h].op.on # op.on
  ELSE op.on \in Ids => op.on \in known

\* The handler's first statement.
FirstStep(op) ==
  CASE op \in APIRequests -> "key"
    [] op.do \in {"login", "password", "register"} -> "read"
    [] op.do = "logout" -> "audit"
    [] OTHER -> "write"

Steps == {"read", "write", "audit", "key", "token", "policies", "specific", "global",
          "append", "reply"}
Outputs == {f.action : f \in PolicyForms} \cup {"deny"} \cup MaxValues
Busy == [at : Steps, no : Nat, op : Requests, out : SUBSET Outputs]

InProgress(h) == req[h] # Idle
At(h, do, at) == InProgress(h) /\ req[h].at = at /\ req[h].op.do = do
Change(h) == [no |-> req[h].no, op |-> req[h].op]

-------------------------------------------------------------------------------

IdsIn(d) == {r.id : r \in d.policies} \cup {r.id : r \in d.keys} \cup {r.id : r \in d.limits}

Init ==
  /\ \E s \in Scenarios : db = s.db /\ traffic = s.traffic
  /\ audit = {} /\ logs = {}
  /\ server = IF db.org THEN "up" ELSE "down"
  /\ start = IF db.org THEN 1 ELSE 0
  /\ cookies = IF db.org THEN {1} ELSE {}
  /\ req = [h \in Handlers |-> Idle]
  /\ known = IdsIn(db)
  /\ served = 0
  /\ during = [h \in Handlers |-> {}]
  /\ done = {} /\ unaudited = {} /\ cutShort = FALSE

\* A statement leaves database d.
Commit(d) ==
  /\ db' = d
  /\ known' = known \cup IdsIn(d)
  /\ during' = [h \in Handlers |-> IF InProgress(h) THEN during[h] \cup {d} ELSE {}]

Moves(h, at) == req' = [req EXCEPT ![h].at = at]
Goto(h, at) == Moves(h, at) /\ UNCHANGED during
Reply(h, out) ==
  req' = [req EXCEPT ![h].at = "reply", ![h].out = out] /\ UNCHANGED during
Finish(h) ==
  req' = [req EXCEPT ![h] = Idle] /\ during' = [during EXCEPT ![h] = {}]

\* What a statement that writes nothing leaves alone.
Reads == UNCHANGED <<db, known, tableVars, serverVars, clientVars, historyVars>>

\* requireAuth: the cookie must decode with the keys of this start.  (It may
\* also expire; a request that is refused changes nothing.)
Authenticated(op) == op \in PageRequests => start \in cookies

\* A request arrives.
Accept(h, op) ==
  /\ ~InProgress(h)
  /\ served < MaxRequests
  /\ op.do \in traffic
  /\ op.do = "tool" \/ server = "up"
  /\ Authenticated(op)
  /\ IdIsFor(op)
  /\ served' = served + 1
  /\ req' = [req EXCEPT ![h] = [at |-> FirstStep(op), no |-> served', op |-> op, out |-> {}]]
  /\ during' = [during EXCEPT ![h] = {db}]
  /\ UNCHANGED <<db, known, tableVars, serverVars, cookies, traffic, historyVars>>

-------------------------------------------------------------------------------
(* Pages: reading before writing.                                          *)

\* The duplicate check; its error counts as "no duplicate".
AgentNewCheck(h) ==
  /\ At(h, "register", "read")
  /\ \/ GetAgent(db, req[h].op.on) # {} /\ Finish(h)
     \/ (GetAgent(db, req[h].op.on) = {} \/ Faults) /\ Goto(h, "write")
  /\ Reads

\* (Variant: the current password is asked for and not compared.)
ProfileCheckSkipped(h) == At(h, "password", "read") /\ Goto(h, "write") /\ Reads

\* bcrypt of the current password and of the new one come between the
\* statements.
ProfileCheck(h) ==
  /\ At(h, "password", "read")
  /\ IF req[h].op.on \in db.users THEN Goto(h, "write") ELSE Finish(h)
  /\ Reads

LoginCheck(h) ==
  /\ At(h, "login", "read")
  /\ IF req[h].op.on \in db.users
     THEN Goto(h, "audit") /\ done' = done \cup {Change(h)}
     ELSE Finish(h) /\ UNCHANGED done
  /\ UNCHANGED <<db, known, tableVars, serverVars, clientVars, unaudited>>

-------------------------------------------------------------------------------
(* Pages: writing.                                                         *)

\* (Variant: the audit row is written whatever became of the change.)
WritesAuditAnyway(h, do, databases, after) ==
  /\ At(h, do, "write")
  /\ IF databases = {}
     THEN Goto(h, after) /\ UNCHANGED <<db, known, done>>
     ELSE /\ \E d \in databases : Commit(d)
          /\ done' = done \cup {Change(h)}
          /\ Moves(h, after)
  /\ UNCHANGED <<tableVars, serverVars, clientVars, unaudited>>

\* The handler's write; refused by the store, it ends with an error page.
Writes(h, do, databases, after) ==
  /\ At(h, do, "write")
  /\ IF databases = {}
     THEN Finish(h) /\ UNCHANGED <<db, known, done>>
     ELSE /\ \E d \in databases : Commit(d)
          /\ done' = done \cup {Change(h)}
          /\ Moves(h, after)
  /\ UNCHANGED <<tableVars, serverVars, clientVars, unaudited>>

Profile(h) == Writes(h, "password", UpdateUserPassword(db, req[h].op.new), "audit")

AgentNew(h) == Writes(h, "register", RegisterAgent(db, req[h].op.on), "audit")

\* Suspend, activate and revoke: an unknown agent is no error.
AgentStatus(h) ==
  Writes(h, "status", UpdateAgentStatus(db, req[h].op.on, req[h].op.status), "audit")

PolicyNew(h) ==
  Writes(h, "policy new", CreatePolicy(db, req[h].op.on, req[h].op.form), "audit")

PolicyEdit(h) ==
  Writes(h, "policy edit", UpdatePolicy(db, req[h].op.on, req[h].op.form), "audit")

PolicyRemove(h) == Writes(h, "policy delete", DeletePolicy(db, req[h].op.on), "audit")

APIKeyNew(h) ==
  Writes(h, "key new", CreateAPIKey(db, req[h].op.on, req[h].op.key.role, req[h].op.key.agent),
         "audit")

APIKeyEnd(h) == Writes(h, "key revoke", RevokeAPIKey(db, req[h].op.on), "audit")

\* The pages of the limits write no audit rows.
LimitsSave(h, do) ==
  Writes(h, do, UpsertAgentLimits(db, req[h].op.on, req[h].op.form.agent, req[h].op.form.max),
         "reply")
LimitsNew(h) == LimitsSave(h, "limits new")
LimitsEdit(h) == LimitsSave(h, "limits edit")
LimitsRemove(h) == Writes(h, "limits delete", DeleteAgentLimits(db, req[h].op.on), "reply")

\* The browser's cookie once the response is sent.
CookiesAfter(op) ==
  CASE op.do = "login" -> cookies \cup {start}
    [] op.do = "logout" -> cookies \ {start}
    [] OTHER -> cookies

\* recordAudit: its error is only logged.
RecordAudit(h) ==
  /\ InProgress(h) /\ req[h].at = "audit"
  /\ \/ audit' = audit \cup {Change(h)} /\ UNCHANGED unaudited
     \/ Faults /\ unaudited' = unaudited \cup {req[h].no} /\ UNCHANGED audit
  /\ done' = IF req[h].op.do = "logout" THEN done \cup {Change(h)} ELSE done
  /\ cookies' = CookiesAfter(req[h].op)
  /\ Finish(h)
  /\ UNCHANGED <<db, known, logs, serverVars, served, traffic>>

-------------------------------------------------------------------------------
(* The JSON API, and the gateway's checks of a tool call.                  *)

\* (Variant: revoked_at is not looked at.)
MayUseRevoked(op) ==
  {k \in GetAPIKeyByHash(db, op.on) :
     CASE op.do \in {"limits check", "ingest"} -> k.role = "operator"
       [] op.do = "auth" -> k.role = "agent"
       [] op.do \in {"tool", "remote tool"} -> k.role = "agent" /\ k.agent = op.source
       [] OTHER -> TRUE}

\* The keys with which the request is authorised: unrevoked, of the role that
\* the endpoint asks for, and of a tool call bound to the agent it claims to be.
MayUse(op) ==
  {k \in GetAPIKeyByHash(db, op.on) :
     /\ ~k.revoked
     /\ op.do \in {"limits check", "ingest"} => k.role = "operator"
     /\ op.do = "auth" => k.role = "agent"
     /\ op.do \in {"tool", "remote tool"} => k.role = "agent" /\ k.agent = op.source}

AfterKey(op) ==
  CASE op.do = "auth" -> "reply"
    [] op.do \in {"evaluate", "tool"} -> "policies"
    [] op.do = "remote tool" -> "token"
    [] op.do = "limits check" -> "specific"
    [] op.do = "ingest" -> "append"

CheckKey(h) ==
  /\ InProgress(h) /\ req[h].at = "key"
  /\ IF MayUse(req[h].op) = {} THEN Finish(h) ELSE Goto(h, AfterKey(req[h].op))
  /\ Reads

\* The evaluate request of a remote gateway carries a key of its own.
CheckToken(h) ==
  /\ At(h, "remote tool", "token")
  /\ IF server = "up" /\ \E k \in GetAPIKeyByHash(db, GatewayToken) : ~k.revoked
     THEN Goto(h, "policies") ELSE Finish(h)
  /\ Reads

ReadPolicies(h) ==
  /\ InProgress(h) /\ req[h].at = "policies"
  /\ \E action \in Evaluate(db.policies, req[h].op.source, req[h].op.target) :
       Reply(h, {action})
  /\ Reads

\* (Variant: the global row is looked up first.)
ReadGlobalFirst(h) ==
  /\ At(h, "limits check", "specific")
  /\ IF LimitsOf(db, Wildcard) # {}
     THEN Reply(h, LimitsOf(db, Wildcard)) ELSE Goto(h, "global")
  /\ Reads

\* GetEffectiveLimits: the agent's row, or in a second query the global one, or nil.
ReadSpecificLimits(h) ==
  /\ At(h, "limits check", "specific")
  /\ IF LimitsOf(db, req[h].op.agent) # {}
     THEN Reply(h, LimitsOf(db, req[h].op.agent)) ELSE Goto(h, "global")
  /\ Reads

ReadGlobalLimits(h) ==
  /\ At(h, "limits check", "global")
  /\ Reply(h, LimitsOf(db, Wildcard))
  /\ Reads

\* An entry longer than the limit of the body reader is no JSON any more.
IngestLog(h) ==
  /\ At(h, "ingest", "append")
  /\ logs' = IF req[h].op.entry = "whole" THEN logs \cup {req[h].no} ELSE logs
  /\ Finish(h)
  /\ UNCHANGED <<db, known, audit, serverVars, clientVars, historyVars>>

SendReply(h) ==
  /\ InProgress(h) /\ req[h].at = "reply"
  /\ Finish(h)
  /\ Reads

\* A statement returns an error, and the handler an error page or reply.
StatementFails(h) ==
  /\ Faults
  /\ InProgress(h) /\ req[h].at \notin {"audit", "reply"}
  /\ ~At(h, "register", "read")
  /\ Finish(h)
  /\ Reads

-------------------------------------------------------------------------------
(* Starting and ending the server.                                         *)

\* GetOrgByID; an error of it counts as "no organisation".
Start ==
  /\ server = "down"
  /\ start < MaxStarts
  /\ start' = start + 1
  /\ \/ db.org /\ server' = "up"
     \/ (~db.org \/ Faults) /\ server' = "seed org"
  /\ UNCHANGED <<db, known, during, tableVars, cutShort, clientVars, historyVars, req>>

\* A failing seed write ends the process.
Seed(at, databases, then) ==
  /\ server = at
  /\ \/ \E d \in databases : Commit(d) /\ server' = then /\ UNCHANGED cutShort
     \/ /\ databases = {} \/ Faults
        /\ server' = "down"
        /\ cutShort' = (cutShort \/ server = "seed user")
        /\ UNCHANGED <<db, known, during>>
  /\ UNCHANGED <<start, tableVars, clientVars, historyVars, req>>

\* (Variant: the error of CreateUser is only logged.)
EnsureAdminLenient ==
  \/ Seed("seed org", CreateOrg(db), "seed user")
  \/ Seed("seed user", CreateUser(db, DefaultPw) \cup {db}, "up")

EnsureDefaultAdmin ==
  \/ Seed("seed org", CreateOrg(db), "seed user")
  \/ Seed("seed user", CreateUser(db, DefaultPw), "up")

\* A call goes on without the server in an embedded gateway, and in a remote one
\* between its two requests.
OwnProcess(h) ==
  \/ InProgress(h) /\ req[h].op.do = "tool"
  \/ At(h, "remote tool", "token")

\* The process ends with its requests.
Crash ==
  /\ server # "down"
  /\ server' = "down"
  /\ cutShort' = (cutShort \/ server = "seed user")
  /\ req' = [h \in Handlers |-> IF OwnProcess(h) THEN req[h] ELSE Idle]
  /\ unaudited' = unaudited \cup {req[h].no : h \in {g \in Handlers : InProgress(g) /\ req[g].at = "audit"}}
  /\ during' = [h \in Handlers |-> IF req'[h] = Idle THEN {} ELSE during[h]]
  /\ UNCHANGED <<db, known, tableVars, start, clientVars, done>>

Handle(h) ==
  \/ \E op \in Requests : Accept(h, op)
  \/ AgentNewCheck(h)
  \/ ProfileCheck(h)
  \/ LoginCheck(h)
  \/ Profile(h)
  \/ AgentNew(h)
  \/ AgentStatus(h)
  \/ PolicyNew(h)
  \/ PolicyEdit(h)
  \/ PolicyRemove(h)
  \/ APIKeyNew(h)
  \/ APIKeyEnd(h)
  \/ LimitsNew(h)
  \/ LimitsEdit(h)
  \/ LimitsRemove(h)
  \/ RecordAudit(h)
  \/ CheckKey(h)
  \/ CheckToken(h)
  \/ ReadPolicies(h)
  \/ ReadSpecificLimits(h)
  \/ ReadGlobalLimits(h)
  \/ IngestLog(h)
  \/ SendReply(h)
  \/ StatementFails(h)

Next == Start \/ EnsureDefaultAdmin \/ Crash \/ \E h \in Handlers : Handle(h)

Spec == Init /\ [][Next]_vars

TypeOK ==
  /\ db \in Databases
  /\ audit \cup done \subseteq [no : Nat, op : Requests]
  /\ logs \cup unaudited \subseteq Nat
  /\ server \in {"down", "seed org", "seed user", "up"}
  /\ start \in Nat
  /\ cookies \subseteq Nat
  /\ req \in [Handlers -> Busy \cup {Idle}]
  /\ known \subseteq Ids
  /\ served \in Nat
  /\ cutShort \in BOOLEAN

-------------------------------------------------------------------------------
(* Properties.                                                             *)

\* Database d has the key of request op, in force and fit for what it asks.
InForce(d, op) ==
  \E k \in d.keys :
    /\ k.id = op.on /\ ~k.revoked
    /\ op.do \in {"tool", "remote tool"} => k.role = "agent" /\ k.agent = op.source
    /\ op.do \in {"limits check", "ingest"} => k.role = "operator"

\* A request goes past its key check (apiKeyFromRequest, Authenticate) only if the
\* key was in force, with the role and the binding asked for, at some moment since
\* the request arrived; so none that arrives after a revocation is let through,
\* whatever else is going on.  A remote gateway's own token is held to the same.
KeysAuthorise ==
  \A h \in Handlers :
    InProgress(h) /\ req[h].op \in APIRequests /\ req[h].at # "key" =>
      /\ \E d \in during[h] : InForce(d, req[h].op)
      /\ req[h].op.do = "remote tool" /\ req[h].at # "token" =>
           \E d \in during[h] : \E k \in d.keys : k.id = GatewayToken /\ ~k.revoked

\* What the policies say: the matching ones of the highest priority, deny if none
\* matches.  Equal priorities leave it open which of them is asked.
Verdicts(P, s, t) ==
  LET M == {p \in P : Matches(p.form, s, t)}
  IN IF M = {} THEN {"deny"}
     ELSE {p.form.action : p \in {p \in M : \A q \in M : q.form.priority <= p.form.priority}}

\* The answer of Evaluate (to handleAPIEvaluate and both gateways) is one that the
\* policies gave at some moment of the request, however they were being edited.
PolicyDecides ==
  \A h \in Handlers :
    InProgress(h) /\ req[h].at = "reply" /\ req[h].op.do \in {"evaluate", "tool", "remote tool"} =>
      \E d \in during[h] : req[h].out \subseteq Verdicts(d.policies, req[h].op.source, req[h].op.target)

\* The two queries of GetEffectiveLimits: limits that are returned stood in the
\* store, for the agent or for all, while the request was served; none are returned
\* only if the agent's row and the global row were both missing, though maybe not at
\* the same moment; and the agent's row wins when it was there all the time.
LimitsAnswer ==
  \A h \in Handlers :
    InProgress(h) /\ req[h].op.do = "limits check" /\ req[h].at = "reply" =>
      LET a == req[h].op.agent
          Held(b) == {LimitsOf(d, b) : d \in during[h]}
      IN /\ req[h].out # {} => req[h].out \in Held(a) \cup Held(Wildcard)
         /\ req[h].out = {} => {} \in Held(a) /\ {} \in Held(Wildcard)
         /\ {} \notin Held(a) => req[h].out \in Held(a)

\* The changes that recordAudit is called for.
Audited(c) == c.op.do \notin {"limits new", "limits edit", "limits delete"}

\* The audit log tells of every change that handlers with recordAudit made, and of
\* no other: an audit row follows the statement it is about, and a change without
\* one is still waiting for it, or its row failed or was cut off by the end of the
\* process.  (Changes of limits are not recorded.)
AuditMatches ==
  /\ audit \subseteq done
  /\ \A c \in done : Audited(c) =>
       \/ c \in audit
       \/ c.no \in unaudited
       \/ \E h \in Handlers : InProgress(h) /\ req[h].no = c.no /\ req[h].at = "audit"

\* The duplicate check of handleAgentNewPost is a statement of its own; still, of
\* requests that register the same agent only one succeeds.
RegisteredOnce ==
  \A c, e \in done :
    c.op.do = "register" /\ e.op.do = "register" /\ c.op.on = e.op.on => c.no = e.no

\* A policy that was deleted does not come back, not even by an edit whose form
\* was loaded before the deletion and which then reports success.
DeletedStaysDeleted ==
  \A c \in done : c.op.do = "policy delete" => \A r \in db.policies : r.id # c.op.on

\* Requests that store limits under the id they name, and that delete the row with it.
Submits(c) == c.op.do \in {"limits new", "limits edit"}
Deletes(c) == c.op.do = "limits delete"
HasForm(r, c) == c.op.form = [agent |-> r.agent, max |-> r.max]

\* A limits row is as one request submitted it under its id: the request that created
\* it, and then no other has succeeded under that id; or an edit.  So a row that was
\* deleted, or whose agent was given another row, comes back only by an edit whose
\* form was loaded before that, and as that form has it: UpsertAgentLimits never
\* combines two requests.
RowsAsSubmitted ==
  \A r \in db.limits :
    LET naming == {c \in done : (Submits(c) \/ Deletes(c)) /\ c.op.on = r.id} IN
      \/ \E c \in naming : c.op.do = "limits edit" /\ HasForm(r, c)
      \/ \E c \in naming : c.op.do = "limits new" /\ HasForm(r, c) /\ naming = {c}
      \/ naming = {} /\ \E s \in Scenarios : r \in s.db.limits

\* Limits that were accepted for an agent stay (with newer values, perhaps) until a
\* deletion under an id with which some request submitted limits for that agent: no
\* upsert takes them away, nor a deletion under an id that was only another agent's.
\* (An id may have been both agents': an edit under an old id that names another
\* agent gives that agent's row the id, and a later deletion takes that row.)
LimitsKept ==
  \A c \in done : Submits(c) =>
    \/ \E r \in db.limits : r.agent = c.op.form.agent
    \/ \E e, f \in done : /\ Submits(e) /\ e.op.form.agent = c.op.form.agent
                          /\ Deletes(f) /\ f.op.on = e.op.on

\* A server that serves has a user who can log in, unless an earlier start of it
\* ended between the two writes of ensureDefaultAdmin; then it never has one.
FirstRunSeeds == server = "up" /\ db.users = {} => cutShort

\* Once there is a user, its password changes only by a request that presented a
\* password stored since that request arrived: a restart does not bring the default
\* back, not even when reading the organisation fails.
PasswordChange ==
  [][db.users \notin {{}, db'.users} =>
       \E h \in Handlers : At(h, "password", "write")
                          /\ \E d \in during[h] : req[h].op.on \in d.users]_vars
===============================================================================
