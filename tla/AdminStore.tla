------------------------------ MODULE AdminStore ------------------------------
(***************************************************************************)
(* internal/admin/sqlite.go: the SQLite file behind the admin server, which *)
(* an embedded gateway opens as well, and pkg/admin/policy.go, which        *)
(* decides from the policies read from it.                                 *)
(*                                                                         *)
(* A database is a record of tables and a table a set of rows.  Every      *)
(* operator below is one SQL statement, which SQLite executes atomically.  *)
(* A statement that writes is the set of databases it may leave: empty     *)
(* when a PRIMARY KEY or UNIQUE constraint refuses it, the unchanged       *)
(* database when no row matches its WHERE.                                 *)
(*                                                                         *)
(* There is one organisation and one user, since only the seeding creates  *)
(* either.  Of the four limits of an agent one stands for all.  Names,     *)
(* timestamps and the hashing of passwords and keys are left out.          *)
(***************************************************************************)
EXTENDS Integers, FiniteSets, Sequences

CONSTANTS
  AgentIds,     \* agent ids that forms, keys and calls name
  PolicyIds,    \* uuids of policies
  KeyIds,       \* uuids of API keys, each standing for its secret as well
  RowIds,       \* uuids of limits rows
  Passwords,    \* passwords of the admin user
  DefaultPw,    \* "changeme"
  PolicyForms,  \* what policy forms submit: [src, tgt, both, action, priority]
  MaxValues     \* values of a limit

Wildcard == "*"
Targets == AgentIds \cup {Wildcard}
Statuses == {"active", "suspended", "revoked"}
Roles == {"operator", "viewer", "agent"}
NoAgent == "no agent"

ASSUME StoreAssumption ==
  /\ DefaultPw \in Passwords
  /\ Wildcard \notin AgentIds
  /\ \A f \in PolicyForms : f.priority \in Int

\* The schema.  (The id of a policy or a key stays with its row; a limits row may
\* be given another one, and a free one may go to the row of another agent.)
Databases ==
  [org      : BOOLEAN,
   users    : SUBSET Passwords,
   agents   : SUBSET [agent : AgentIds, status : Statuses],
   policies : SUBSET [id : PolicyIds, form : PolicyForms],
   keys     : SUBSET [id : KeyIds, role : Roles, agent : AgentIds \cup {NoAgent},
                      revoked : BOOLEAN],
   limits   : SUBSET [id : RowIds, agent : Targets, max : MaxValues]]

\* PRIMARY KEY and UNIQUE(org_id, agent_id) of agent_limits.
LimitsUnique(d) ==
  \A r1, r2 \in d.limits : r1.id = r2.id \/ r1.agent = r2.agent => r1 = r2

EmptyDb == [org |-> FALSE, users |-> {}, agents |-> {}, policies |-> {},
            keys |-> {}, limits |-> {}]

-------------------------------------------------------------------------------
(* Organisations and users.                                                *)

CreateOrg(d) == IF d.org THEN {} ELSE {[d EXCEPT !.org = TRUE]}

\* The username is UNIQUE, and the seeding gives every user the same one.
CreateUser(d, pw) == IF d.users # {} THEN {} ELSE {[d EXCEPT !.users = {pw}]}

\* An update of no row is an error here.
UpdateUserPassword(d, pw) == IF d.users = {} THEN {} ELSE {[d EXCEPT !.users = {pw}]}

-------------------------------------------------------------------------------
(* Agents.                                                                 *)

GetAgent(d, a) == {r \in d.agents : r.agent = a}

\* (Variant: INSERT OR REPLACE.)
RegisterOrReplace(d, a) ==
  {[d EXCEPT !.agents = (@ \ GetAgent(d, a)) \cup {[agent |-> a, status |-> "active"]}]}

\* (Variant: the status of the row is not filled in.)
RegisterUnset(d, a) == {[d EXCEPT !.agents = @ \cup {[agent |-> a, status |-> ""]}]}

\* UNIQUE(org_id, agent_id).
RegisterAgent(d, a) ==
  IF GetAgent(d, a) # {} THEN {}
  ELSE {[d EXCEPT !.agents = @ \cup {[agent |-> a, status |-> "active"]}]}

UpdateAgentStatus(d, a, status) ==
  {[d EXCEPT !.agents = {IF r.agent = a THEN [r EXCEPT !.status = status] ELSE r : r \in @}]}

-------------------------------------------------------------------------------
(* Policies.                                                               *)

CreatePolicy(d, i, form) == {[d EXCEPT !.policies = @ \cup {[id |-> i, form |-> form]}]}

\* (Variant: an upsert, like the one of the limits.)
UpsertPolicy(d, i, form) ==
  {[d EXCEPT !.policies = {r \in @ : r.id # i} \cup {[id |-> i, form |-> form]}]}

UpdatePolicy(d, i, form) ==
  {[d EXCEPT !.policies = {IF r.id = i THEN [r EXCEPT !.form = form] ELSE r : r \in @}]}

DeletePolicy(d, i) == {[d EXCEPT !.policies = {r \in @ : r.id # i}]}

\* Does policy p apply to a message from s to t?
Fits(id, x) == id = Wildcard \/ id = x

Matches(p, s, t) ==
  \/ Fits(p.src, s) /\ Fits(p.tgt, t)
  \/ p.both /\ Fits(p.src, t) /\ Fits(p.tgt, s)

\* The orders in which sort.Slice may leave the policies: it is not stable.
Sorted(P) ==
  {q \in [1..Cardinality(P) -> P] :
     \A i, j \in 1..Cardinality(P) :
       i < j => q[i] # q[j] /\ q[i].form.priority >= q[j].form.priority}

\* (Variant: lowest priority first.)
EvaluateAscending(P, s, t) ==
  {IF \E i \in DOMAIN q : Matches(q[i].form, s, t)
   THEN q[CHOOSE i \in DOMAIN q : /\ Matches(q[i].form, s, t)
                                  /\ \A j \in DOMAIN q : j > i => ~Matches(q[j].form, s, t)].form.action
   ELSE "deny" : q \in Sorted(P)}

\* The actions Evaluate may return: that of the first match, else deny.
Evaluate(P, s, t) ==
  {IF \E i \in DOMAIN q : Matches(q[i].form, s, t)
   THEN q[CHOOSE i \in DOMAIN q : /\ Matches(q[i].form, s, t)
                                  /\ \A j \in 1..(i - 1) : ~Matches(q[j].form, s, t)].form.action
   ELSE "deny" : q \in Sorted(P)}

-------------------------------------------------------------------------------
(* API keys.                                                               *)

CreateAPIKey(d, i, role, a) ==
  {[d EXCEPT !.keys = @ \cup {[id |-> i, role |-> role, agent |-> a, revoked |-> FALSE]}]}

\* An update of no row is an error; the WHERE does not look at revoked_at.
RevokeAPIKey(d, i) ==
  IF \E r \in d.keys : r.id = i
  THEN {[d EXCEPT !.keys = {IF r.id = i THEN [r EXCEPT !.revoked = TRUE] ELSE r : r \in @}]}
  ELSE {}

\* The row whatever its revoked_at: callers check that.
GetAPIKeyByHash(d, i) == {r \in d.keys : r.id = i}

-------------------------------------------------------------------------------
(* Limits.                                                                 *)

\* (Variant: the update leaves the id of the row as it is.)
UpsertKeepsId(d, i, a, m) ==
  IF \E r \in d.limits : r.id = i /\ r.agent # a THEN {}
  ELSE IF \E r \in d.limits : r.agent = a
  THEN {[d EXCEPT !.limits = {IF r.agent = a THEN [r EXCEPT !.max = m] ELSE r : r \in @}]}
  ELSE {[d EXCEPT !.limits = @ \cup {[id |-> i, agent |-> a, max |-> m]}]}

\* (Variant: INSERT OR REPLACE.)
UpsertReplaces(d, i, a, m) ==
  {[d EXCEPT !.limits = {r \in @ : r.agent # a /\ r.id # i}
                          \cup {[id |-> i, agent |-> a, max |-> m]}]}

\* ON CONFLICT(org_id, agent_id) DO UPDATE, which gives the row the new id as
\* well; a clash with the id of another agent's row is an error.  An edit under an id
\* that is free by now inserts a row, or moves that of the agent it names to the id.
UpsertAgentLimits(d, i, a, m) ==
  IF \E r \in d.limits : r.id = i /\ r.agent # a THEN {}
  ELSE {[d EXCEPT !.limits = {r \in @ : r.agent # a}
                               \cup {[id |-> i, agent |-> a, max |-> m]}]}

DeleteAgentLimits(d, i) == {[d EXCEPT !.limits = {r \in @ : r.id # i}]}

\* Each of the two queries of GetEffectiveLimits: the values found.
LimitsOf(d, a) == {r.max : r \in {r \in d.limits : r.agent = a}}
===============================================================================
