--------------------------- MODULE AdminServer_proofs ---------------------------
(***************************************************************************)
(* Proofs about AdminServer: what its handlers and the gateway's checks    *)
(* keep true of the database, the audit log and their own answers, for any *)
(* number of requests in progress, agents, policies, keys and limits, with *)
(* failing statements and restarts between any two statements.             *)
(***************************************************************************)
EXTENDS AdminServer, FiniteSetTheorems, WellFoundedInduction, TLAPS

-------------------------------------------------------------------------------
(* The requests.                                                           *)

\* What a request is follows from what it does.
LEMMA OpShapes ==
  ASSUME NEW op \in Requests
  PROVE  /\ op.do \in {"login", "password"} => op.on \in Passwords
         /\ op.do = "password" => op.new \in Passwords
         /\ op.do \in {"register", "status"} => op.on \in AgentIds
         /\ op.do = "status" => op.status \in Statuses
         /\ op.do \in {"policy new", "policy edit", "policy delete"} => op.on \in PolicyIds
         /\ op.do \in {"policy new", "policy edit"} => op.form \in PolicyForms
         /\ op.do \in {"key new", "key revoke"} => op.on \in KeyIds
         /\ op.do = "key new" => op.key.role \in Roles /\ op.key.agent \in AgentIds \cup {NoAgent}
         /\ op.do \in {"limits new", "limits edit", "limits delete"} => op.on \in RowIds
         /\ op.do \in {"limits new", "limits edit"} =>
              /\ op.form \in LimitsForms
              /\ op.form.agent \in Targets /\ op.form.max \in MaxValues
<1>1. \/ op \in LoginPost \/ op \in Logout \/ op \in ProfilePost \/ op \in AgentNewPost
      \/ op \in SetAgentStatus \/ op \in PolicyNewPost \/ op \in PolicyEditPost
      \/ op \in PolicyDelete \/ op \in APIKeyNewPost \/ op \in APIKeyRevoke
      \/ op \in LimitsNewPost \/ op \in LimitsEditPost \/ op \in LimitsDelete
      \/ op \in APIAuth \/ op \in APIEvaluate \/ op \in APILimitsCheck
      \/ op \in APIMessageLog \/ op \in ToolCalls
  BY DEF Requests, PageRequests, APIRequests
<1> USE DEF LoginPost, Logout, ProfilePost, AgentNewPost, SetAgentStatus, PolicyNewPost,
            PolicyEditPost, PolicyDelete, APIKeyNewPost, APIKeyRevoke, LimitsNewPost,
            LimitsEditPost, LimitsDelete, APIAuth, APIEvaluate, APILimitsCheck, APIMessageLog,
            ToolCalls
<1>2. op \in APIKeyNewPost => op.key.role \in Roles /\ op.key.agent \in AgentIds \cup {NoAgent}
  BY DEF Roles
<1>3. op.do \in {"limits new", "limits edit"} => op.form \in LimitsForms
  BY <1>1
<1>4. QED
  BY <1>1, <1>2, <1>3 DEF LimitsForms

APIDoings == {"auth", "evaluate", "limits check", "ingest", "tool", "remote tool"}

\* The requests of the JSON API, and the gateway's, carry a key; those of the pages do
\* not.
LEMMA APIShapes ==
  ASSUME NEW op \in Requests
  PROVE  /\ op \in APIRequests <=> op.do \in APIDoings
         /\ op \in APIRequests => op.on \in KeyIds
         /\ op.do \in {"evaluate", "tool", "remote tool"} =>
              op.source \in AgentIds /\ op.target \in AgentIds
         /\ op.do = "limits check" => op.agent \in AgentIds
<1>1. op \in APIRequests =>
        \/ op \in APIAuth \/ op \in APIEvaluate \/ op \in APILimitsCheck
        \/ op \in APIMessageLog \/ op \in ToolCalls
  BY DEF APIRequests
<1>2. op \notin APIRequests =>
      \/ op \in LoginPost \/ op \in Logout \/ op \in ProfilePost \/ op \in AgentNewPost
      \/ op \in SetAgentStatus \/ op \in PolicyNewPost \/ op \in PolicyEditPost
      \/ op \in PolicyDelete \/ op \in APIKeyNewPost \/ op \in APIKeyRevoke
      \/ op \in LimitsNewPost \/ op \in LimitsEditPost \/ op \in LimitsDelete
  BY DEF Requests, PageRequests
<1> USE DEF LoginPost, Logout, ProfilePost, AgentNewPost, SetAgentStatus, PolicyNewPost,
            PolicyEditPost, PolicyDelete, APIKeyNewPost, APIKeyRevoke, LimitsNewPost,
            LimitsEditPost, LimitsDelete, APIAuth, APIEvaluate, APILimitsCheck, APIMessageLog,
            ToolCalls, APIDoings
<1>3. op \in APIRequests => op.do \in APIDoings /\ op.on \in KeyIds
  BY <1>1
<1>4. op \notin APIRequests => op.do \notin APIDoings
  BY <1>2
<1>5. op \in APIRequests => /\ op.do \in {"evaluate", "tool", "remote tool"} =>
                                 op.source \in AgentIds /\ op.target \in AgentIds
                            /\ op.do = "limits check" => op.agent \in AgentIds
  BY <1>1
<1>6. QED
  BY <1>3, <1>4, <1>5

-------------------------------------------------------------------------------
(* The statements.                                                         *)

\* Each statement that writes leaves a database that the schema admits.
LEMMA StatementsTypeOK ==
  ASSUME NEW d \in Databases
  PROVE  /\ CreateOrg(d) \subseteq Databases
         /\ \A pw \in Passwords :
              CreateUser(d, pw) \subseteq Databases /\ UpdateUserPassword(d, pw) \subseteq Databases
         /\ \A a \in AgentIds : RegisterAgent(d, a) \subseteq Databases
         /\ \A a \in AgentIds, s \in Statuses : UpdateAgentStatus(d, a, s) \subseteq Databases
         /\ \A i \in PolicyIds, f \in PolicyForms :
              CreatePolicy(d, i, f) \subseteq Databases /\ UpdatePolicy(d, i, f) \subseteq Databases
         /\ \A i \in PolicyIds : DeletePolicy(d, i) \subseteq Databases
         /\ \A i \in KeyIds, r \in Roles, a \in AgentIds \cup {NoAgent} :
              CreateAPIKey(d, i, r, a) \subseteq Databases
         /\ \A i \in KeyIds : RevokeAPIKey(d, i) \subseteq Databases
         /\ \A i \in RowIds, a \in Targets, m \in MaxValues :
              UpsertAgentLimits(d, i, a, m) \subseteq Databases
         /\ \A i \in RowIds : DeleteAgentLimits(d, i) \subseteq Databases
<1> USE DEF Databases
<1>1. CreateOrg(d) \subseteq Databases
  BY DEF CreateOrg
<1>2. ASSUME NEW pw \in Passwords
      PROVE  CreateUser(d, pw) \subseteq Databases /\ UpdateUserPassword(d, pw) \subseteq Databases
  BY DEF CreateUser, UpdateUserPassword
<1>3. ASSUME NEW a \in AgentIds PROVE RegisterAgent(d, a) \subseteq Databases
  BY DEF RegisterAgent, Statuses
<1>4. ASSUME NEW a \in AgentIds, NEW s \in Statuses
      PROVE  UpdateAgentStatus(d, a, s) \subseteq Databases
  BY DEF UpdateAgentStatus
<1>5. ASSUME NEW i \in PolicyIds, NEW f \in PolicyForms
      PROVE  CreatePolicy(d, i, f) \subseteq Databases /\ UpdatePolicy(d, i, f) \subseteq Databases
  BY DEF CreatePolicy, UpdatePolicy
<1>6. ASSUME NEW i \in PolicyIds PROVE DeletePolicy(d, i) \subseteq Databases
  BY DEF DeletePolicy
<1>7. ASSUME NEW i \in KeyIds, NEW r \in Roles, NEW a \in AgentIds \cup {NoAgent}
      PROVE  CreateAPIKey(d, i, r, a) \subseteq Databases
  <2>1. [id |-> i, role |-> r, agent |-> a, revoked |-> FALSE] \in
          [id : KeyIds, role : Roles, agent : AgentIds \cup {NoAgent}, revoked : BOOLEAN]
    OBVIOUS
  <2>2. d.keys \cup {[id |-> i, role |-> r, agent |-> a, revoked |-> FALSE]} \in
          SUBSET [id : KeyIds, role : Roles, agent : AgentIds \cup {NoAgent}, revoked : BOOLEAN]
    BY <2>1
  <2> DEFINE keys == d.keys \cup {[id |-> i, role |-> r, agent |-> a, revoked |-> FALSE]}
  <2>3. CreateAPIKey(d, i, r, a) = {[d EXCEPT !.keys = keys]}
    BY DEF CreateAPIKey
  <2> HIDE DEF keys
  <2>4. keys \in SUBSET [id : KeyIds, role : Roles, agent : AgentIds \cup {NoAgent},
                         revoked : BOOLEAN]
    BY <2>2 DEF keys
  <2>5. QED
    BY <2>3, <2>4
<1>8. ASSUME NEW i \in KeyIds PROVE RevokeAPIKey(d, i) \subseteq Databases
  <2>1. \A k \in d.keys : [k EXCEPT !.revoked = TRUE] \in
          [id : KeyIds, role : Roles, agent : AgentIds \cup {NoAgent}, revoked : BOOLEAN]
    OBVIOUS
  <2>2. {IF k.id = i THEN [k EXCEPT !.revoked = TRUE] ELSE k : k \in d.keys} \subseteq
          [id : KeyIds, role : Roles, agent : AgentIds \cup {NoAgent}, revoked : BOOLEAN]
    BY <2>1
  <2>3. QED
    BY <2>2 DEF RevokeAPIKey
<1>9. ASSUME NEW i \in RowIds, NEW a \in Targets, NEW m \in MaxValues
      PROVE  UpsertAgentLimits(d, i, a, m) \subseteq Databases
  BY DEF UpsertAgentLimits
<1>10. ASSUME NEW i \in RowIds PROVE DeleteAgentLimits(d, i) \subseteq Databases
  BY DEF DeleteAgentLimits
<1>11. QED
  BY <1>1, <1>2, <1>3, <1>4, <1>5, <1>6, <1>7, <1>8, <1>9, <1>10

\* A nonempty set of numbers has a least one.
LEMMA LeastNumber ==
  ASSUME NEW T \in SUBSET Nat, T # {}
  PROVE  \E i \in T : \A j \in T : i <= j
<1>1. PICK i \in T : \A j \in T : ~(<<j, i>> \in OpToRel(<, Nat))
  BY NatLessThanWellFounded, WFMin
<1>2. \A j \in T : ~(j < i)
  BY <1>1 DEF OpToRel
<1>3. QED
  BY <1>2

\* An order that sort.Slice leaves has every policy in it.
LEMMA SortedHasAll ==
  ASSUME NEW P, IsFiniteSet(P), NEW q \in Sorted(P), NEW p \in P
  PROVE  \E i \in 1..Cardinality(P) : q[i] = p
<1> DEFINE n == Cardinality(P)
<1>1. n \in Nat
  BY FS_CardinalityType
<1>2. IsFiniteSet(1..n) /\ Cardinality(1..n) = n
  BY <1>1, FS_Interval
<1>3. q \in [1..n -> P] /\ \A i, j \in 1..n : i < j => q[i] # q[j]
  BY DEF Sorted
<1>4. \A i, j \in 1..n : i # j => q[i] # q[j]
  BY <1>1, <1>3
<1>5. q \in Injection(1..n, P)
  BY <1>3, <1>4 DEF Injection, IsInjective
<1>6. q \in Surjection(1..n, P)
  BY <1>2, <1>5, FS_Injection
<1>7. QED
  BY <1>6 DEF Surjection

\* The first match in such an order is a match of the highest priority, whichever of
\* them it is; so what Evaluate answers is what the policies say.
LEMMA EvaluateIsVerdict ==
  ASSUME NEW P, IsFiniteSet(P), \A p \in P : p.form.priority \in Int, NEW s, NEW t
  PROVE  Evaluate(P, s, t) \subseteq Verdicts(P, s, t)
<1> SUFFICES ASSUME NEW q \in Sorted(P)
             PROVE  (IF \E i \in DOMAIN q : Matches(q[i].form, s, t)
                     THEN q[CHOOSE i \in DOMAIN q :
                              /\ Matches(q[i].form, s, t)
                              /\ \A j \in 1..(i - 1) : ~Matches(q[j].form, s, t)].form.action
                     ELSE "deny") \in Verdicts(P, s, t)
  BY DEF Evaluate
<1> DEFINE n == Cardinality(P)
           M == {p \in P : Matches(p.form, s, t)}
           First(i) == /\ Matches(q[i].form, s, t)
                       /\ \A j \in 1..(i - 1) : ~Matches(q[j].form, s, t)
<1>1. n \in Nat
  BY FS_CardinalityType
<1>2. /\ q \in [1..n -> P] /\ DOMAIN q = 1..n
      /\ \A i, j \in 1..n : i < j => q[i].form.priority >= q[j].form.priority
  BY DEF Sorted
<1>3. CASE \E i \in DOMAIN q : Matches(q[i].form, s, t)
  <2> DEFINE T == {i \in 1..n : Matches(q[i].form, s, t)}
  <2>1. PICK k \in T : \A j \in T : k <= j
    <3>1. T \in SUBSET Nat /\ T # {}
      BY <1>1, <1>2, <1>3
    <3>2. QED
      BY <3>1, LeastNumber
  <2>2. k \in 1..n /\ First(k)
    <3>1. k \in 1..n /\ Matches(q[k].form, s, t)
      BY <2>1
    <3>2. ASSUME NEW j \in 1..(k - 1), Matches(q[j].form, s, t) PROVE FALSE
      <4>1. j \in 1..n /\ j < k
        BY <1>1, <3>1
      <4>2. j \in T
        BY <4>1, <3>2
      <4>3. QED
        BY <1>1, <2>1, <3>1, <4>1, <4>2
    <3>3. QED
      BY <3>1, <3>2
  <2> DEFINE f == CHOOSE i \in DOMAIN q : First(i)
  <2>3. f \in 1..n /\ First(f)
    <3>1. \E i \in DOMAIN q : First(i)
      BY <2>2, <1>2
    <3> HIDE DEF First
    <3>2. f \in DOMAIN q /\ First(f)
      BY <3>1
    <3>3. QED
      BY <3>2, <1>2
  <2> HIDE DEF f
  <2>4. q[f] \in M
    BY <2>3, <1>2
  <2>5. ASSUME NEW m \in M PROVE m.form.priority <= q[f].form.priority
    <3>1. PICK j \in 1..n : q[j] = m
      BY SortedHasAll
    <3>2. ~(j < f)
      BY <1>1, <2>3, <3>1
    <3>3. j = f \/ f < j
      BY <1>1, <2>3, <3>2
    <3>4. m.form.priority \in Int /\ q[f].form.priority \in Int
      BY <2>3, <1>2
    <3>5. QED
      BY <3>1, <3>3, <3>4, <2>3, <1>2
  <2>6. q[f].form.action \in Verdicts(P, s, t)
    <3>1. M # {}
      BY <2>4
    <3>2. q[f] \in {p \in M : \A m \in M : m.form.priority <= p.form.priority}
      BY <2>4, <2>5
    <3>3. QED
      BY <3>1, <3>2 DEF Verdicts
  <2>7. QED
    BY <1>3, <2>6 DEF f
<1>4. CASE ~\E i \in DOMAIN q : Matches(q[i].form, s, t)
  <2>1. ASSUME NEW p \in P, Matches(p.form, s, t) PROVE FALSE
    <3>1. PICK i \in 1..n : q[i] = p
      BY SortedHasAll
    <3>2. QED
      BY <3>1, <2>1, <1>2, <1>4
  <2>2. Verdicts(P, s, t) = {"deny"}
    BY <2>1, SMTT(30) DEF Verdicts
  <2>3. QED
    BY <2>2, <1>4
<1>5. QED
  BY <1>3, <1>4

\* The statement of a request that writes, and where its handler goes on.
Statement(d, op) ==
  CASE op.do = "password" -> UpdateUserPassword(d, op.new)
    [] op.do = "register" -> RegisterAgent(d, op.on)
    [] op.do = "status" -> UpdateAgentStatus(d, op.on, op.status)
    [] op.do = "policy new" -> CreatePolicy(d, op.on, op.form)
    [] op.do = "policy edit" -> UpdatePolicy(d, op.on, op.form)
    [] op.do = "policy delete" -> DeletePolicy(d, op.on)
    [] op.do = "key new" -> CreateAPIKey(d, op.on, op.key.role, op.key.agent)
    [] op.do = "key revoke" -> RevokeAPIKey(d, op.on)
    [] op.do = "limits new" -> UpsertAgentLimits(d, op.on, op.form.agent, op.form.max)
    [] op.do = "limits edit" -> UpsertAgentLimits(d, op.on, op.form.agent, op.form.max)
    [] op.do = "limits delete" -> DeleteAgentLimits(d, op.on)

Unrecorded == {"limits new", "limits edit", "limits delete"}
Writing == {"password", "register", "status", "policy new", "policy edit", "policy delete",
            "key new", "key revoke"} \cup Unrecorded
After(op) == IF op.do \in Unrecorded THEN "reply" ELSE "audit"

WriteStep(h) ==
  /\ req[h].op.do \in Writing
  /\ Writes(h, req[h].op.do, Statement(db, req[h].op), After(req[h].op))

\* Every writing action of the handlers is one of these.
LEMMA WritesAreStatements ==
  ASSUME NEW h \in Handlers,
         \/ Profile(h) \/ AgentNew(h) \/ AgentStatus(h) \/ PolicyNew(h) \/ PolicyEdit(h)
         \/ PolicyRemove(h) \/ APIKeyNew(h) \/ APIKeyEnd(h) \/ LimitsNew(h) \/ LimitsEdit(h)
         \/ LimitsRemove(h)
  PROVE  WriteStep(h)
<1> USE DEF WriteStep, Statement, After, Unrecorded, Writing
<1>1. \A do, databases, after : Writes(h, do, databases, after) => req[h].op.do = do
  BY DEF Writes, At
<1>2. CASE Profile(h)
  BY <1>1, <1>2 DEF Profile
<1>3. CASE AgentNew(h)
  BY <1>1, <1>3 DEF AgentNew
<1>4. CASE AgentStatus(h)
  BY <1>1, <1>4 DEF AgentStatus
<1>5. CASE PolicyNew(h)
  BY <1>1, <1>5 DEF PolicyNew
<1>6. CASE PolicyEdit(h)
  BY <1>1, <1>6 DEF PolicyEdit
<1>7. CASE PolicyRemove(h)
  BY <1>1, <1>7 DEF PolicyRemove
<1>8. CASE APIKeyNew(h)
  BY <1>1, <1>8 DEF APIKeyNew
<1>9. CASE APIKeyEnd(h)
  BY <1>1, <1>9 DEF APIKeyEnd
<1>10. CASE LimitsNew(h)
  BY <1>1, <1>10 DEF LimitsNew, LimitsSave
<1>11. CASE LimitsEdit(h)
  BY <1>1, <1>11 DEF LimitsEdit, LimitsSave
<1>12. CASE LimitsRemove(h)
  BY <1>1, <1>12 DEF LimitsRemove
<1>13. QED
  BY <1>2, <1>3, <1>4, <1>5, <1>6, <1>7, <1>8, <1>9, <1>10, <1>11, <1>12

\* The ids of rows that a statement may add to the store.
NewIds(op) ==
  IF op.do \in {"policy new", "key new", "limits new", "limits edit"} THEN {op.on} ELSE {}

\* A request's statement leaves a database of the schema.
LEMMA StatementTypeOK ==
  ASSUME NEW d \in Databases, NEW op \in Requests, op.do \in Writing,
         NEW e \in Statement(d, op)
  PROVE  e \in Databases
<1> USE StatementsTypeOK, OpShapes DEF Statement
<1>1. CASE op.do = "password" BY <1>1
<1>2. CASE op.do = "register" BY <1>2
<1>3. CASE op.do = "status" BY <1>3
<1>4. CASE op.do = "policy new" BY <1>4
<1>5. CASE op.do = "policy edit" BY <1>5
<1>6. CASE op.do = "policy delete" BY <1>6
<1>7. CASE op.do = "key new" BY <1>7
<1>8. CASE op.do = "key revoke" BY <1>8
<1>9. CASE op.do = "limits new" BY <1>9
<1>10. CASE op.do = "limits edit" BY <1>10
<1>11. CASE op.do = "limits delete" BY <1>11
<1>12. QED
  BY <1>1, <1>2, <1>3, <1>4, <1>5, <1>6, <1>7, <1>8, <1>9, <1>10, <1>11 DEF Writing, Unrecorded

\* What a statement does to each table, and the tables it leaves alone.
UsersAfter(d, op, e) ==
  /\ e.org = d.org
  /\ e.users = IF op.do = "password" THEN {op.new} ELSE d.users
  /\ op.do = "password" => d.users # {}
AgentsAfter(d, op, e) ==
  /\ op.do \notin {"register", "status"} => e.agents = d.agents
  /\ op.do = "register" =>
       /\ GetAgent(d, op.on) = {}
       /\ e.agents = d.agents \cup {[agent |-> op.on, status |-> "active"]}
  /\ op.do = "status" =>
       e.agents = {IF r.agent = op.on THEN [r EXCEPT !.status = op.status] ELSE r : r \in d.agents}
PoliciesAfter(d, op, e) ==
  /\ op.do \notin {"policy new", "policy edit", "policy delete"} => e.policies = d.policies
  /\ op.do = "policy new" => e.policies = d.policies \cup {[id |-> op.on, form |-> op.form]}
  /\ op.do = "policy edit" =>
       e.policies = {IF r.id = op.on THEN [r EXCEPT !.form = op.form] ELSE r : r \in d.policies}
  /\ op.do = "policy delete" => e.policies = {r \in d.policies : r.id # op.on}
KeysAfter(d, op, e) ==
  /\ op.do \notin {"key new", "key revoke"} => e.keys = d.keys
  /\ op.do = "key new" =>
       e.keys = d.keys \cup {[id |-> op.on, role |-> op.key.role, agent |-> op.key.agent,
                              revoked |-> FALSE]}
  /\ op.do = "key revoke" =>
       e.keys = {IF r.id = op.on THEN [r EXCEPT !.revoked = TRUE] ELSE r : r \in d.keys}
LimitsAfter(d, op, e) ==
  /\ op.do \notin Unrecorded => e.limits = d.limits
  /\ op.do \in {"limits new", "limits edit"} =>
       /\ ~\E r \in d.limits : r.id = op.on /\ r.agent # op.form.agent
       /\ e.limits = {r \in d.limits : r.agent # op.form.agent}
            \cup {[id |-> op.on, agent |-> op.form.agent, max |-> op.form.max]}
  /\ op.do = "limits delete" => e.limits = {r \in d.limits : r.id # op.on}

\* What a request's statement leaves in each of the tables.
LEMMA StatementTables ==
  ASSUME NEW d \in Databases, NEW op \in Requests, op.do \in Writing,
         NEW e \in Statement(d, op)
  PROVE  /\ UsersAfter(d, op, e) /\ AgentsAfter(d, op, e) /\ PoliciesAfter(d, op, e)
         /\ KeysAfter(d, op, e) /\ LimitsAfter(d, op, e)
<1> USE DEF Statement, Databases, Unrecorded, UsersAfter, AgentsAfter, PoliciesAfter, KeysAfter,
            LimitsAfter
<1>1. CASE op.do = "password" BY <1>1 DEF UpdateUserPassword
<1>2. CASE op.do = "register" BY <1>2 DEF RegisterAgent
<1>3. CASE op.do = "status" BY <1>3 DEF UpdateAgentStatus
<1>4. CASE op.do = "policy new" BY <1>4 DEF CreatePolicy
<1>5. CASE op.do = "policy edit" BY <1>5 DEF UpdatePolicy
<1>6. CASE op.do = "policy delete" BY <1>6 DEF DeletePolicy
<1>7. CASE op.do = "key new" BY <1>7 DEF CreateAPIKey
<1>8. CASE op.do = "key revoke" BY <1>8 DEF RevokeAPIKey
<1>9. CASE op.do \in {"limits new", "limits edit"} BY <1>9 DEF UpsertAgentLimits
<1>10. CASE op.do = "limits delete" BY <1>10 DEF DeleteAgentLimits
<1>11. QED
  BY <1>1, <1>2, <1>3, <1>4, <1>5, <1>6, <1>7, <1>8, <1>9, <1>10 DEF Writing

\* A statement brings at most the id that its request names into the store.
LEMMA StatementIds ==
  ASSUME NEW d \in Databases, NEW op \in Requests, op.do \in Writing,
         NEW e \in Statement(d, op)
  PROVE  IdsIn(e) \subseteq IdsIn(d) \cup NewIds(op)
<1>0. PoliciesAfter(d, op, e) /\ KeysAfter(d, op, e) /\ LimitsAfter(d, op, e)
  BY StatementTables
<1>1. {r.id : r \in e.policies} \subseteq {r.id : r \in d.policies} \cup NewIds(op)
  <2>1. ASSUME NEW r \in e.policies PROVE r.id \in {x.id : x \in d.policies} \cup NewIds(op)
    <3>1. CASE op.do = "policy new"
      <4> DEFINE new == [id |-> op.on, form |-> op.form]
      <4>1. new.id = op.on
        OBVIOUS
      <4>2. e.policies \subseteq d.policies \cup {new}
        BY <1>0, <3>1 DEF PoliciesAfter
      <4> HIDE DEF new
      <4>3. r \in d.policies \/ r.id = op.on
        BY <4>1, <4>2
      <4>4. op.on \in NewIds(op)
        BY <3>1 DEF NewIds
      <4>5. QED
        BY <4>3, <4>4
    <3>2. CASE op.do = "policy edit"
      <4>1. PICK x \in d.policies : r = IF x.id = op.on THEN [x EXCEPT !.form = op.form] ELSE x
        BY <1>0, <3>2 DEF PoliciesAfter
      <4>2. x \in [id : PolicyIds, form : PolicyForms]
        BY DEF Databases
      <4>3. r.id = x.id
        BY <4>1, <4>2
      <4>4. QED
        BY <4>3
    <3>3. CASE op.do = "policy delete" BY <1>0, <3>3 DEF PoliciesAfter
    <3>4. CASE op.do \notin {"policy new", "policy edit", "policy delete"} BY <1>0, <3>4 DEF PoliciesAfter
    <3>5. QED
      BY <3>1, <3>2, <3>3, <3>4
  <2>2. QED
    BY <2>1
<1>2. {r.id : r \in e.keys} \subseteq {r.id : r \in d.keys} \cup NewIds(op)
  <2>1. ASSUME NEW r \in e.keys PROVE r.id \in {x.id : x \in d.keys} \cup NewIds(op)
    <3>1. CASE op.do = "key new"
      <4> DEFINE new == [id |-> op.on, role |-> op.key.role, agent |-> op.key.agent, revoked |-> FALSE]
      <4>1. new.id = op.on
        OBVIOUS
      <4>2. e.keys \subseteq d.keys \cup {new}
        BY <1>0, <3>1 DEF KeysAfter
      <4> HIDE DEF new
      <4>3. r \in d.keys \/ r.id = op.on
        BY <4>1, <4>2
      <4>4. op.on \in NewIds(op)
        BY <3>1 DEF NewIds
      <4>5. QED
        BY <4>3, <4>4
    <3>2. CASE op.do = "key revoke"
      <4>1. PICK x \in d.keys : r = IF x.id = op.on THEN [x EXCEPT !.revoked = TRUE] ELSE x
        BY <1>0, <3>2 DEF KeysAfter
      <4>2. x \in [id : KeyIds, role : Roles, agent : AgentIds \cup {NoAgent}, revoked : BOOLEAN]
        BY DEF Databases
      <4>3. r.id = x.id
        BY <4>1, <4>2
      <4>4. QED
        BY <4>3
    <3>3. CASE op.do \notin {"key new", "key revoke"} BY <1>0, <3>3 DEF KeysAfter
    <3>4. QED
      BY <3>1, <3>2, <3>3
  <2>2. QED
    BY <2>1
<1>3. {r.id : r \in e.limits} \subseteq {r.id : r \in d.limits} \cup NewIds(op)
  <2>1. ASSUME NEW r \in e.limits PROVE r.id \in {x.id : x \in d.limits} \cup NewIds(op)
    <3>1. CASE op.do \in {"limits new", "limits edit"}
      <4> DEFINE new == [id |-> op.on, agent |-> op.form.agent, max |-> op.form.max]
      <4>1. new.id = op.on
        OBVIOUS
      <4>2. e.limits \subseteq d.limits \cup {new}
        BY <1>0, <3>1 DEF LimitsAfter
      <4> HIDE DEF new
      <4>3. r \in d.limits \/ r.id = op.on
        BY <4>1, <4>2
      <4>4. op.on \in NewIds(op)
        BY <3>1 DEF NewIds
      <4>5. QED
        BY <4>3, <4>4
    <3>2. CASE op.do = "limits delete" BY <1>0, <3>2 DEF LimitsAfter
    <3>3. CASE op.do \notin Unrecorded BY <1>0, <3>3 DEF LimitsAfter
    <3>4. QED
      BY <3>1, <3>2, <3>3 DEF Unrecorded
  <2>2. QED
    BY <2>1
<1>4. QED
  BY <1>1, <1>2, <1>3 DEF IdsIn

\* A policy in the store was there before the statement, unless it is the one that is
\* being created; and deleting leaves none with that id.
LEMMA StatementPolicies ==
  ASSUME NEW d \in Databases, NEW op \in Requests, op.do \in Writing,
         NEW e \in Statement(d, op)
  PROVE  /\ \A r \in e.policies :
              \/ \E x \in d.policies : x.id = r.id
              \/ op.do = "policy new" /\ r.id = op.on
         /\ op.do = "policy delete" => \A r \in e.policies : r.id # op.on
         /\ IsFiniteSet(d.policies) => IsFiniteSet(e.policies)
<1>0. PoliciesAfter(d, op, e)
  BY StatementTables
<1> USE DEF PoliciesAfter
<1>1. CASE op.do = "policy new"
  <2> DEFINE new == [id |-> op.on, form |-> op.form]
  <2>1. new.id = op.on
    OBVIOUS
  <2>2. e.policies = d.policies \cup {new}
    BY <1>0, <1>1
  <2> HIDE DEF new
  <2>3. \A r \in e.policies : r \in d.policies \/ r.id = op.on
    BY <2>1, <2>2
  <2>4. IsFiniteSet(d.policies) => IsFiniteSet(e.policies)
    BY <2>2, FS_AddElement
  <2>5. QED
    BY <1>1, <2>3, <2>4
<1>2. CASE op.do = "policy edit"
  <2> DEFINE Edited(x) == IF x.id = op.on THEN [x EXCEPT !.form = op.form] ELSE x
             f == [x \in d.policies |-> Edited(x)]
  <2>1. e.policies = {Edited(x) : x \in d.policies}
    BY <1>0, <1>2
  <2>2. ASSUME NEW r \in e.policies PROVE \E x \in d.policies : x.id = r.id
    <3>1. PICK x \in d.policies : r = Edited(x)
      BY <2>1
    <3>2. x \in [id : PolicyIds, form : PolicyForms]
      BY DEF Databases
    <3>3. r.id = x.id
      BY <3>1, <3>2
    <3>4. QED
      BY <3>3
  <2>3. f \in Surjection(d.policies, e.policies)
    <3> HIDE DEF Edited
    <3>1. f \in [d.policies -> e.policies] /\ \A r \in e.policies : \E x \in d.policies : f[x] = r
      BY <2>1
    <3> HIDE DEF f
    <3>2. QED
      BY <3>1 DEF Surjection
  <2>4. IsFiniteSet(d.policies) => IsFiniteSet(e.policies)
    BY <2>3, FS_Surjection
  <2>5. QED
    BY <1>2, <2>2, <2>4
<1>3. CASE op.do = "policy delete"
  <2>1. e.policies \subseteq d.policies /\ \A r \in e.policies : r.id # op.on
    BY <1>0, <1>3
  <2>2. IsFiniteSet(d.policies) => IsFiniteSet(e.policies)
    BY <2>1, FS_Subset
  <2>3. QED
    BY <1>3, <2>1, <2>2
<1>4. CASE op.do \notin {"policy new", "policy edit", "policy delete"}
  BY <1>0, <1>4
<1>5. QED
  BY <1>1, <1>2, <1>3, <1>4

\* An agent stays registered; registering one means that it was not.
LEMMA StatementAgents ==
  ASSUME NEW d \in Databases, NEW op \in Requests, op.do \in Writing,
         NEW e \in Statement(d, op)
  PROVE  /\ \A a : GetAgent(d, a) # {} => GetAgent(e, a) # {}
         /\ op.do = "register" => GetAgent(d, op.on) = {} /\ GetAgent(e, op.on) # {}
<1>0. AgentsAfter(d, op, e)
  BY StatementTables
<1> USE DEF AgentsAfter
<1>1. ASSUME NEW a, GetAgent(d, a) # {} PROVE GetAgent(e, a) # {}
  <2>1. PICK r \in d.agents : r.agent = a
    BY <1>1 DEF GetAgent
  <2>2. \E x \in e.agents : x.agent = a
    <3>1. CASE op.do = "status"
      <4> DEFINE x == IF r.agent = op.on THEN [r EXCEPT !.status = op.status] ELSE r
      <4>1. x \in e.agents
        BY <1>0, <3>1
      <4>2. r \in [agent : AgentIds, status : Statuses]
        BY DEF Databases
      <4>3. x.agent = a
        BY <2>1, <4>2
      <4>4. QED
        BY <4>1, <4>3
    <3>2. CASE op.do # "status"
      BY <1>0, <2>1, <3>2
    <3>3. QED
      BY <3>1, <3>2
  <2>3. QED
    BY <2>2 DEF GetAgent
<1>2. ASSUME op.do = "register" PROVE GetAgent(d, op.on) = {} /\ GetAgent(e, op.on) # {}
  <2>1. [agent |-> op.on, status |-> "active"] \in e.agents
    BY <1>0, <1>2
  <2>2. GetAgent(e, op.on) # {}
    BY <2>1 DEF GetAgent
  <2>3. QED
    BY <1>0, <1>2, <2>2
<1>3. QED
  BY <1>1, <1>2

-------------------------------------------------------------------------------
(* The steps of a handler.                                                 *)

\* A handler that has read something it needs goes on to another statement.
GoesOn(h, at) ==
  \/ /\ req[h].at = "read" /\ at = "write" /\ req[h].op.do \in {"register", "password"}
     /\ req[h].op.do = "password" => req[h].op.on \in db.users
  \/ req[h].at = "key" /\ at = AfterKey(req[h].op) /\ MayUse(req[h].op) # {}
  \/ /\ At(h, "remote tool", "token") /\ at = "policies"
     /\ \E k \in GetAPIKeyByHash(db, GatewayToken) : ~k.revoked
  \/ /\ At(h, "limits check", "specific") /\ at = "global"
     /\ LimitsOf(db, req[h].op.agent) = {}

\* What it has read is the answer.
Answers(h, out) ==
  \/ /\ req[h].at = "policies"
     /\ \E a \in Evaluate(db.policies, req[h].op.source, req[h].op.target) : out = {a}
  \/ /\ At(h, "limits check", "specific")
     /\ out # {} /\ out = LimitsOf(db, req[h].op.agent)
  \/ At(h, "limits check", "global") /\ out = LimitsOf(db, Wildcard)

ReadStep(h) ==
  /\ InProgress(h) /\ req[h].at # "audit"
  /\ Reads
  /\ \/ Finish(h)
     \/ \E at : GoesOn(h, at) /\ Goto(h, at)
     \/ \E out : Answers(h, out) /\ Reply(h, out)

\* A statement that writes succeeds.
Stores(h) ==
  /\ At(h, req[h].op.do, "write") /\ req[h].op.do \in Writing
  /\ db' \in Statement(db, req[h].op)
  /\ Commit(db')
  /\ done' = done \cup {Change(h)}
  /\ Moves(h, After(req[h].op))
  /\ UNCHANGED <<tableVars, serverVars, clientVars, unaudited>>

\* A step of a handler is one of these; a write that is refused reads.
LEMMA HandleSteps ==
  ASSUME NEW h \in Handlers, Handle(h)
  PROVE  \/ \E op \in Requests : Accept(h, op)
         \/ ReadStep(h) \/ LoginCheck(h) \/ RecordAudit(h) \/ IngestLog(h) \/ Stores(h)
<1>1. CASE \/ Profile(h) \/ AgentNew(h) \/ AgentStatus(h) \/ PolicyNew(h) \/ PolicyEdit(h)
           \/ PolicyRemove(h) \/ APIKeyNew(h) \/ APIKeyEnd(h) \/ LimitsNew(h)
           \/ LimitsEdit(h) \/ LimitsRemove(h)
  <2>1. WriteStep(h)
    BY <1>1, WritesAreStatements
  <2>2. CASE Statement(db, req[h].op) = {}
    BY <2>1, <2>2 DEF WriteStep, Writes, ReadStep, Reads, historyVars, At
  <2>3. CASE Statement(db, req[h].op) # {}
    BY <2>1, <2>3 DEF WriteStep, Writes, Stores, Commit, At
  <2>4. QED
    BY <2>2, <2>3
<1>2. CASE AgentNewCheck(h)
  BY <1>2 DEF AgentNewCheck, ReadStep, At, GoesOn
<1>3. CASE ProfileCheck(h)
  BY <1>3 DEF ProfileCheck, ReadStep, At, GoesOn
<1>4. CASE CheckKey(h)
  BY <1>4 DEF CheckKey, ReadStep, GoesOn
<1>5. CASE CheckToken(h)
  BY <1>5 DEF CheckToken, ReadStep, At, GoesOn
<1>6. CASE ReadPolicies(h)
  BY <1>6 DEF ReadPolicies, ReadStep, Answers
<1>7. CASE ReadSpecificLimits(h)
  BY <1>7 DEF ReadSpecificLimits, ReadStep, At, GoesOn, Answers
<1>8. CASE ReadGlobalLimits(h)
  BY <1>8 DEF ReadGlobalLimits, ReadStep, At, Answers
<1>9. CASE SendReply(h)
  BY <1>9 DEF SendReply, ReadStep
<1>10. CASE StatementFails(h)
  BY <1>10 DEF StatementFails, ReadStep
<1>11. QED
  BY <1>1, <1>2, <1>3, <1>4, <1>5, <1>6, <1>7, <1>8, <1>9, <1>10 DEF Handle

\* Only the API's requests start with their key, and only calls that are judged read
\* the policies.
Judged == {"evaluate", "tool", "remote tool"}

Timely(h) ==
  /\ db \in during[h]
  /\ req[h].at = "key" => req[h].op.do \in APIDoings
  /\ req[h].at = "policies" => req[h].op.do \in Judged

TypeInv ==
  /\ TypeOK
  /\ during \in [Handlers -> SUBSET Databases]
  /\ IsFiniteSet(db.policies)
  /\ IdsIn(db) \subseteq known
  /\ \A h \in Handlers : InProgress(h) => Timely(h)

\* A request in progress is never mistaken for a free handler.
LEMMA BusyNotIdle == Idle \notin Busy
<1>1. "idle" \notin Steps
  BY DEF Steps
<1>2. QED
  BY <1>1 DEF Idle, Busy

\* What the three ways to change a handler's control state do to it.
LEMMA MoveShape ==
  ASSUME req \in [Handlers -> Busy \cup {Idle}], NEW h \in Handlers, InProgress(h),
         NEW at \in Steps, Moves(h, at)
  PROVE  /\ req' \in [Handlers -> Busy \cup {Idle}]
         /\ req'[h] = [at |-> at, no |-> req[h].no, op |-> req[h].op, out |-> req[h].out]
         /\ req'[h].at = at /\ req'[h].no = req[h].no /\ req'[h].op = req[h].op
         /\ req'[h] # Idle
         /\ \A g \in Handlers \ {h} : req'[g] = req[g]
<1> DEFINE r == [at |-> at, no |-> req[h].no, op |-> req[h].op, out |-> req[h].out]
<1>1. req[h] \in Busy
  BY DEF InProgress
<1>2. r \in Busy /\ [req[h] EXCEPT !.at = at] = r
  BY <1>1 DEF Busy
<1>3. req' = [req EXCEPT ![h] = r]
  BY <1>2 DEF Moves
<1>4. r.at = at /\ r.no = req[h].no /\ r.op = req[h].op
  OBVIOUS
<1> HIDE DEF r
<1>5. r # Idle /\ req'[h] = r /\ req' \in [Handlers -> Busy \cup {Idle}]
      /\ \A g \in Handlers \ {h} : req'[g] = req[g]
  BY <1>2, <1>3, BusyNotIdle
<1>6. QED
  BY <1>4, <1>5 DEF r

\* Replying changes one handler, to the reply it holds.
LEMMA ReplyShape ==
  ASSUME req \in [Handlers -> Busy \cup {Idle}], NEW h \in Handlers, InProgress(h),
         NEW out \in SUBSET Outputs, Reply(h, out)
  PROVE  /\ req' \in [Handlers -> Busy \cup {Idle}]
         /\ req'[h] = [at |-> "reply", no |-> req[h].no, op |-> req[h].op, out |-> out]
         /\ req'[h].at = "reply" /\ req'[h].no = req[h].no /\ req'[h].op = req[h].op
         /\ req'[h].out = out
         /\ req'[h] # Idle
         /\ \A g \in Handlers \ {h} : req'[g] = req[g]
<1> DEFINE r == [at |-> "reply", no |-> req[h].no, op |-> req[h].op, out |-> out]
<1>1. req[h] \in Busy
  BY DEF InProgress
<1>2. r \in Busy
  BY <1>1 DEF Busy, Steps
<1>3. req' = [req EXCEPT ![h] = r]
  <2> DEFINE q == [at |-> "reply", no |-> req[h].no, op |-> req[h].op, out |-> req[h].out]
  <2>0. [q EXCEPT !.out = out] = r
    OBVIOUS
  <2>1. [req[h] EXCEPT !.at = "reply"] = q
    BY <1>1 DEF Busy
  <2> HIDE DEF q, r
  <2>2. [[req[h] EXCEPT !.at = "reply"] EXCEPT !.out = out] = r
    BY <2>0, <2>1, Zenon
  <2>3. QED
    BY <2>2 DEF Reply
<1>4. r.at = "reply" /\ r.no = req[h].no /\ r.op = req[h].op /\ r.out = out
  OBVIOUS
<1> HIDE DEF r
<1>5. r # Idle /\ req'[h] = r /\ req' \in [Handlers -> Busy \cup {Idle}]
      /\ \A g \in Handlers \ {h} : req'[g] = req[g]
  BY <1>2, <1>3, BusyNotIdle
<1>6. QED
  BY <1>4, <1>5 DEF r

\* Finishing frees one handler, and forgets the databases seen meanwhile.
LEMMA FinishShape ==
  ASSUME TypeInv, NEW h \in Handlers, Finish(h)
  PROVE  /\ req' \in [Handlers -> Busy \cup {Idle}]
         /\ req'[h] = Idle
         /\ \A g \in Handlers \ {h} : req'[g] = req[g] /\ during'[g] = during[g]
         /\ during' \in [Handlers -> SUBSET Databases]
BY DEF TypeInv, TypeOK, Finish

\* Where a handler goes on is a step, and an answer an output.
LEMMA ReadShape ==
  ASSUME TypeInv, NEW h \in Handlers, InProgress(h)
  PROVE  /\ \A at : GoesOn(h, at) => at \in Steps
         /\ \A out : Answers(h, out) => out \in SUBSET Outputs
<1>1. req[h] \in Busy /\ db \in Databases /\ IsFiniteSet(db.policies)
  BY DEF TypeInv, TypeOK, InProgress
<1>2. ASSUME NEW at, GoesOn(h, at) PROVE at \in Steps
  <2>1. CASE req[h].at = "key" /\ at = AfterKey(req[h].op)
    <3>1. req[h].op.do \in APIDoings
      BY <2>1 DEF TypeInv, Timely
    <3>2. QED
      BY <2>1, <3>1 DEF APIDoings, AfterKey, Steps
  <2>2. QED
    BY <1>2, <2>1 DEF GoesOn, Steps
<1>3. \A a : LimitsOf(db, a) \subseteq MaxValues
  BY <1>1 DEF LimitsOf, Databases
<1>4. ASSUME NEW s, NEW t PROVE Evaluate(db.policies, s, t) \subseteq Outputs
  <2>1. \A p \in db.policies : p.form \in PolicyForms
    BY <1>1 DEF Databases
  <2>2. \A p \in db.policies : p.form.priority \in Int
    BY <2>1, StoreAssumption
  <2>3. Evaluate(db.policies, s, t) \subseteq Verdicts(db.policies, s, t)
    BY <1>1, <2>2, EvaluateIsVerdict
  <2>4. Verdicts(db.policies, s, t) \subseteq Outputs
    BY <2>1 DEF Verdicts, Outputs
  <2>5. QED
    BY <2>3, <2>4
<1>5. MaxValues \subseteq Outputs
  BY DEF Outputs
<1>6. ASSUME NEW out, Answers(h, out) PROVE out \in SUBSET Outputs
  BY <1>3, <1>4, <1>5, <1>6 DEF Answers
<1>7. QED
  BY <1>2, <1>6

\* The seeding of a start that succeeds, and one that ends the process.
Seeding ==
  /\ Commit(db')
  /\ \/ server = "seed org" /\ server' = "seed user" /\ db' \in CreateOrg(db)
     \/ server = "seed user" /\ server' = "up" /\ db' \in CreateUser(db, DefaultPw)
  /\ UNCHANGED <<cutShort, start, tableVars, clientVars, historyVars, req>>

SeedStops ==
  /\ server \in {"seed org", "seed user"} /\ server' = "down"
  /\ cutShort' = (cutShort \/ server = "seed user")
  /\ UNCHANGED <<db, known, during, start, tableVars, clientVars, historyVars, req>>

\* The steps of the program.
LEMMA NextSteps ==
  ASSUME Next
  PROVE  \/ Start \/ Seeding \/ SeedStops \/ Crash
         \/ \E h \in Handlers :
              \/ \E op \in Requests : Accept(h, op)
              \/ ReadStep(h) \/ LoginCheck(h) \/ RecordAudit(h) \/ IngestLog(h) \/ Stores(h)
<1>1. CASE EnsureDefaultAdmin
  <2>1. \A at, databases, then : Seed(at, databases, then) =>
          /\ server = at
          /\ \/ db' \in databases /\ Commit(db') /\ server' = then /\ UNCHANGED cutShort
             \/ /\ server' = "down" /\ cutShort' = (cutShort \/ server = "seed user")
                /\ UNCHANGED <<db, known, during>>
          /\ UNCHANGED <<start, tableVars, clientVars, historyVars, req>>
    BY DEF Seed, Commit
  <2>2. CASE Seed("seed org", CreateOrg(db), "seed user")
    BY <2>1, <2>2 DEF Seeding, SeedStops
  <2>3. CASE Seed("seed user", CreateUser(db, DefaultPw), "up")
    BY <2>1, <2>3 DEF Seeding, SeedStops
  <2>4. QED
    BY <1>1, <2>2, <2>3 DEF EnsureDefaultAdmin
<1>2. CASE \E h \in Handlers : Handle(h)
  BY <1>2, HandleSteps
<1>3. QED
  BY <1>1, <1>2 DEF Next

-------------------------------------------------------------------------------
(* Type correctness.                                                       *)

\* A database that the schema admits holds ids of the three kinds.
LEMMA IdsInIds ==
  ASSUME NEW d \in Databases
  PROVE  IdsIn(d) \subseteq Ids
BY DEF IdsIn, Ids, Databases

\* A handler that another's step leaves as it was.
LEMMA TimelyKept ==
  ASSUME TypeInv, NEW g \in Handlers, InProgress(g)', req'[g] = req[g],
         InProgress(g) => db' \in during'[g]
  PROVE  Timely(g)'
BY DEF TypeInv, Timely, InProgress

\* What a statement leaves to the handlers that are in progress.
LEMMA CommitShape ==
  ASSUME TypeInv, NEW d \in Databases, Commit(d)
  PROVE  /\ db' = d /\ known' = known \cup IdsIn(d) /\ known' \subseteq Ids
         /\ during' \in [Handlers -> SUBSET Databases]
         /\ \A g \in Handlers : InProgress(g) => during'[g] = during[g] \cup {d}
<1>1. known \subseteq Ids /\ during \in [Handlers -> SUBSET Databases]
  BY DEF TypeInv, TypeOK
<1>2. known' \subseteq Ids
  BY <1>1, IdsInIds DEF Commit
<1>3. during' \in [Handlers -> SUBSET Databases]
  BY <1>1 DEF Commit
<1>4. QED
  BY <1>2, <1>3 DEF Commit

\* A write commits the statement of its request, and goes on past it.
LEMMA StoresShape ==
  ASSUME TypeInv, NEW h \in Handlers, Stores(h)
  PROVE  /\ db' \in Databases /\ IsFiniteSet(db'.policies)
         /\ IdsIn(db') \subseteq known \cup NewIds(req[h].op)
         /\ req[h] \in Busy /\ req[h].op \in Requests
         /\ req' \in [Handlers -> Busy \cup {Idle}]
         /\ req'[h] = [at |-> After(req[h].op), no |-> req[h].no, op |-> req[h].op,
                       out |-> req[h].out]
         /\ req'[h].at = After(req[h].op) /\ req'[h].no = req[h].no /\ req'[h].op = req[h].op
         /\ req'[h] # Idle
         /\ \A g \in Handlers \ {h} : req'[g] = req[g]
<1>1. /\ req \in [Handlers -> Busy \cup {Idle}] /\ db \in Databases /\ IsFiniteSet(db.policies)
      /\ IdsIn(db) \subseteq known
  BY DEF TypeInv, TypeOK
<1>2. InProgress(h) /\ req[h].op.do \in Writing /\ db' \in Statement(db, req[h].op)
  BY DEF Stores, At
<1>3. req[h] \in Busy /\ req[h].op \in Requests
  BY <1>1, <1>2 DEF InProgress, Busy
<1>4. db' \in Databases
  BY <1>1, <1>2, <1>3, StatementTypeOK
<1>5. IsFiniteSet(db'.policies)
  BY <1>1, <1>2, <1>3, StatementPolicies
<1>6. IdsIn(db') \subseteq known \cup NewIds(req[h].op)
  BY <1>1, <1>2, <1>3, StatementIds
<1>7. After(req[h].op) \in Steps /\ Moves(h, After(req[h].op))
  BY DEF After, Steps, Stores
<1>8. QED
  BY <1>1, <1>2, <1>3, <1>4, <1>5, <1>6, <1>7, MoveShape

\* The seeds of a first run touch the organisation and the users only.
LEMMA SeedingShape ==
  ASSUME TypeInv, Seeding
  PROVE  /\ db' \in Databases /\ db'.policies = db.policies /\ db'.agents = db.agents
         /\ db'.keys = db.keys /\ db'.limits = db.limits
         /\ IdsIn(db') = IdsIn(db)
         /\ server = "seed org" => db'.org /\ db'.users = db.users
         /\ server = "seed user" => db'.org = db.org /\ db.users = {} /\ db'.users = {DefaultPw}
<1>1. db \in Databases
  BY DEF TypeInv, TypeOK
<1>2. db' \in Databases
  BY <1>1, StatementsTypeOK, StoreAssumption DEF Seeding
<1>3. CASE server = "seed org" /\ db' \in CreateOrg(db)
  BY <1>1, <1>2, <1>3 DEF CreateOrg, Databases, IdsIn
<1>4. CASE server = "seed user" /\ db' \in CreateUser(db, DefaultPw)
  BY <1>1, <1>2, <1>4 DEF CreateUser, Databases, IdsIn
<1>5. QED
  BY <1>3, <1>4 DEF Seeding

\* A starting database is one the invariant describes.
LEMMA InitType == Init => TypeInv
<1> SUFFICES ASSUME Init PROVE TypeInv
  OBVIOUS
<1>1. db \in Databases /\ IsFiniteSet(db.policies)
  BY ServerAssumption DEF Init
<1>2. IdsIn(db) \subseteq Ids /\ db.org \in BOOLEAN
  BY <1>1, IdsInIds DEF Databases
<1>3. TypeOK
  <2>1. req \in [Handlers -> Busy \cup {Idle}]
    BY DEF Init
  <2>2. /\ audit = {} /\ done = {} /\ logs = {} /\ unaudited = {} /\ served = 0 /\ cutShort = FALSE
        /\ known = IdsIn(db) /\ server = IF db.org THEN "up" ELSE "down"
        /\ start = (IF db.org THEN 1 ELSE 0) /\ cookies = IF db.org THEN {1} ELSE {}
    BY DEF Init
  <2>3. server \in {"down", "up"} /\ start \in Nat /\ cookies \subseteq Nat
    BY <2>2
  <2>4. QED
    BY <1>1, <1>2, <2>1, <2>2, <2>3 DEF TypeOK
<1>4. during \in [Handlers -> SUBSET Databases]
  BY DEF Init
<1>5. \A h \in Handlers : ~InProgress(h)
  BY DEF Init, InProgress
<1>6. QED
  BY <1>1, <1>2, <1>3, <1>4, <1>5 DEF Init, TypeInv

\* A request that arrives.
LEMMA AcceptShape ==
  ASSUME TypeInv, NEW h \in Handlers, NEW op \in Requests, Accept(h, op)
  PROVE  /\ req' \in [Handlers -> Busy \cup {Idle}]
         /\ req'[h] = [at |-> FirstStep(op), no |-> served', op |-> op, out |-> {}]
         /\ req'[h].at = FirstStep(op) /\ req'[h].no = served' /\ req'[h].op = op
         /\ served' = served + 1 /\ served' \in Nat
         /\ req'[h] # Idle
         /\ \A g \in Handlers \ {h} : req'[g] = req[g]
         /\ during' = [during EXCEPT ![h] = {db}]
         /\ during' \in [Handlers -> SUBSET Databases]
<1> DEFINE r == [at |-> FirstStep(op), no |-> served', op |-> op, out |-> {}]
<1>1. served' \in Nat /\ served' = served + 1
  <2>1. served' = served + 1
    BY Zenon DEF Accept
  <2>2. served \in Nat
    BY DEF TypeInv, TypeOK
  <2>3. QED
    BY <2>1, <2>2
<1>2. FirstStep(op) \in Steps
  BY DEF FirstStep, Steps
<1>3. r \in Busy
  BY <1>1, <1>2 DEF Busy
<1>4. req' = [req EXCEPT ![h] = r] /\ during' = [during EXCEPT ![h] = {db}]
  BY DEF Accept
<1> HIDE DEF r
<1>5. req \in [Handlers -> Busy \cup {Idle}] /\ db \in Databases
      /\ during \in [Handlers -> SUBSET Databases]
  BY DEF TypeInv, TypeOK
<1>6. req' \in [Handlers -> Busy \cup {Idle}] /\ req'[h] = r /\ r # Idle
      /\ \A g \in Handlers \ {h} : req'[g] = req[g]
  BY <1>3, <1>4, <1>5, BusyNotIdle
<1>7. during' \in [Handlers -> SUBSET Databases]
  BY <1>4, <1>5
<1>8. r = [at |-> FirstStep(op), no |-> served', op |-> op, out |-> {}]
      /\ r.at = FirstStep(op) /\ r.no = served' /\ r.op = op
  BY DEF r
<1>9. QED
  BY <1>1, <1>4, <1>6, <1>7, <1>8

\* A request that arrives is typed, and so is the moment it arrives at.
LEMMA AcceptType ==
  ASSUME TypeInv, NEW h \in Handlers, NEW op \in Requests, Accept(h, op)
  PROVE  TypeInv'
<1>1. TypeOK'
  <2>1. UNCHANGED <<db, known, audit, logs, server, start, cutShort, cookies, done, unaudited>>
    BY DEF Accept, tableVars, serverVars, historyVars
  <2>2. req' \in [Handlers -> Busy \cup {Idle}] /\ served' \in Nat
    BY AcceptShape
  <2>3. QED
    BY <2>1, <2>2 DEF TypeInv, TypeOK
<1>2. /\ during' \in [Handlers -> SUBSET Databases] /\ db' = db /\ known' = known
      /\ IdsIn(db') = IdsIn(db)
  BY AcceptShape DEF Accept
<1>3. FirstStep(op) # "policies" /\ (FirstStep(op) = "key" => op.do \in APIDoings)
  BY APIShapes DEF FirstStep
<1>4. ASSUME NEW g \in Handlers, InProgress(g)'
      PROVE  Timely(g)'
  <2>1. CASE g = h
    <3>1. db' \in during'[g] /\ req'[g].at = FirstStep(op) /\ req'[g].op = op
      <4>1. during' = [during EXCEPT ![h] = {db}] /\ h \in DOMAIN during
        BY AcceptShape DEF TypeInv
      <4>2. during'[h] = {db}
        BY <4>1
      <4>3. QED
        BY <1>2, <2>1, <4>2, AcceptShape
    <3>2. QED
      BY <3>1, <1>3 DEF Timely
  <2>2. CASE g # h
    <3>1. req'[g] = req[g] /\ during'[g] = during[g]
      BY <2>2, AcceptShape, ZenonT(60) DEF TypeInv
    <3>2. InProgress(g) => db \in during[g]
      BY DEF TypeInv, Timely
    <3>3. QED
      BY <1>2, <1>4, <3>1, <3>2, TimelyKept
  <2>3. QED
    BY <2>1, <2>2
<1>5. QED
  BY <1>1, <1>2, <1>4 DEF TypeInv

\* A handler that ends leaves the others as they were.
LEMMA FinishType ==
  ASSUME TypeInv, NEW h \in Handlers, Finish(h), db' = db, known' = known,
         (audit' \cup done') \subseteq [no : Nat, op : Requests],
         (logs' \cup unaudited') \subseteq Nat, cookies' \subseteq Nat,
         UNCHANGED <<server, start, served, cutShort>>
  PROVE  TypeInv'
<1>1. TypeOK'
  BY FinishShape DEF TypeInv, TypeOK
<1>2. during' \in [Handlers -> SUBSET Databases] /\ IdsIn(db') = IdsIn(db)
  BY FinishShape
<1>3. ASSUME NEW g \in Handlers, InProgress(g)'
      PROVE  Timely(g)'
  <2>1. g # h /\ req'[g] = req[g] /\ during'[g] = during[g]
    BY <1>3, FinishShape DEF InProgress
  <2>2. InProgress(g) => db \in during[g]
    BY DEF TypeInv, Timely
  <2>3. QED
    BY <1>3, <2>1, <2>2, TimelyKept
<1>4. QED
  BY <1>1, <1>2, <1>3 DEF TypeInv

\* A handler that reads keeps the invariant, wherever it goes on.
LEMMA ReadType ==
  ASSUME TypeInv, NEW h \in Handlers, ReadStep(h)
  PROVE  TypeInv'
<1>1. /\ InProgress(h) /\ req \in [Handlers -> Busy \cup {Idle}] /\ db' = db /\ known' = known
      /\ during \in [Handlers -> SUBSET Databases] /\ IdsIn(db') = IdsIn(db)
      /\ UNCHANGED <<audit, logs, server, start, cutShort, cookies, served, done, unaudited>>
  BY DEF ReadStep, Reads, TypeInv, TypeOK, tableVars, serverVars, clientVars, historyVars
<1>2. CASE Finish(h)
  BY <1>1, <1>2, FinishType DEF TypeInv, TypeOK
<1>3. ASSUME NEW at, GoesOn(h, at), Goto(h, at) PROVE TypeInv'
  <2>1. at \in Steps /\ Moves(h, at) /\ during' = during
    BY <1>1, <1>3, ReadShape DEF Goto
  <2>2. TypeOK'
    BY <1>1, <2>1, MoveShape DEF TypeInv, TypeOK
  <2>3. /\ at # "key"
        /\ at = "policies" => req[h].op.do \in Judged
    <3>1. at = AfterKey(req[h].op) /\ req[h].at = "key" =>
            at # "key" /\ (at = "policies" => req[h].op.do \in Judged)
      <4>1. req[h].at = "key" => req[h].op.do \in APIDoings
        BY <1>1 DEF TypeInv, Timely
      <4>2. QED
        BY <4>1 DEF AfterKey, APIDoings, Judged
    <3>2. QED
      BY <1>3, <3>1 DEF GoesOn, At, Judged
  <2>4. ASSUME NEW g \in Handlers, InProgress(g)'
        PROVE  Timely(g)'
    <3>1. CASE g = h
      <4>1. req'[g].at = at /\ req'[g].op = req[g].op
        BY <1>1, <2>1, <3>1, MoveShape
      <4>2. db \in during[g]
        BY <1>1, <3>1 DEF TypeInv, Timely
      <4>3. QED
        BY <1>1, <2>1, <2>3, <3>1, <4>1, <4>2 DEF Timely
    <3>2. CASE g # h
      <4>1. req'[g] = req[g]
        BY <1>1, <2>1, <3>2, MoveShape, ZenonT(60)
      <4>2. InProgress(g) => db \in during[g]
        BY DEF TypeInv, Timely
      <4>3. QED
        BY <1>1, <2>1, <2>4, <4>1, <4>2, TimelyKept
    <3>3. QED
      BY <3>1, <3>2
  <2>5. QED
    BY <1>1, <2>1, <2>2, <2>4 DEF TypeInv
<1>4. ASSUME NEW out, Answers(h, out), Reply(h, out) PROVE TypeInv'
  <2>1. out \in SUBSET Outputs /\ during' = during
    BY <1>1, <1>4, ReadShape DEF Reply
  <2>2. TypeOK'
    BY <1>1, <1>4, <2>1, ReplyShape DEF TypeInv, TypeOK
  <2>3. ASSUME NEW g \in Handlers, InProgress(g)'
        PROVE  Timely(g)'
    <3>1. CASE g = h
      <4>1. req'[g].at = "reply" /\ req'[g].op = req[g].op
        BY <1>1, <1>4, <2>1, <3>1, ReplyShape
      <4>2. db \in during[g]
        BY <1>1, <3>1 DEF TypeInv, Timely
      <4>3. QED
        BY <1>1, <2>1, <3>1, <4>1, <4>2 DEF Timely
    <3>2. CASE g # h
      <4>1. req'[g] = req[g]
        BY <1>1, <1>4, <2>1, <3>2, ReplyShape, ZenonT(60)
      <4>2. InProgress(g) => db \in during[g]
        BY DEF TypeInv, Timely
      <4>3. QED
        BY <1>1, <2>1, <2>3, <4>1, <4>2, TimelyKept
    <3>3. QED
      BY <3>1, <3>2
  <2>4. QED
    BY <1>1, <2>1, <2>2, <2>3 DEF TypeInv
<1>5. QED
  BY <1>2, <1>3, <1>4 DEF ReadStep

\* The change that a handler makes, as a row of the audit log names it.
LEMMA ChangeType ==
  ASSUME TypeInv, NEW h \in Handlers, InProgress(h)
  PROVE  Change(h) \in [no : Nat, op : Requests] /\ req[h].no \in Nat /\ req[h] \in Busy
<1>1. req[h] \in Busy
  BY DEF TypeInv, TypeOK, InProgress
<1>2. QED
  BY <1>1 DEF Busy, Change

\* So does the password check of a login.
LEMMA LoginType ==
  ASSUME TypeInv, NEW h \in Handlers, LoginCheck(h)
  PROVE  TypeInv'
<1>1. /\ InProgress(h) /\ req \in [Handlers -> Busy \cup {Idle}] /\ db' = db /\ known' = known
      /\ during \in [Handlers -> SUBSET Databases] /\ IdsIn(db') = IdsIn(db)
      /\ UNCHANGED <<audit, logs, server, start, cutShort, cookies, served, unaudited>>
  BY DEF LoginCheck, At, TypeInv, TypeOK, tableVars, serverVars, clientVars
<1>2. \/ Finish(h) /\ done' = done
      \/ Goto(h, "audit") /\ done' = done \cup {Change(h)}
  BY Zenon DEF LoginCheck
<1>3. (audit' \cup done') \subseteq [no : Nat, op : Requests]
  BY <1>1, <1>2, ChangeType DEF TypeInv, TypeOK
<1>4. CASE Finish(h)
  BY <1>1, <1>3, <1>4, FinishType DEF TypeInv, TypeOK
<1>5. CASE Goto(h, "audit")
  <2>1. "audit" \in Steps /\ Moves(h, "audit") /\ during' = during
    BY <1>5 DEF Steps, Goto
  <2>2. TypeOK'
    BY <1>1, <1>3, <2>1, MoveShape DEF TypeInv, TypeOK
  <2>3. ASSUME NEW g \in Handlers, InProgress(g)'
        PROVE  Timely(g)'
    <3>1. CASE g = h
      <4>1. req'[g].at = "audit" /\ req'[g].op = req[g].op
        BY <1>1, <2>1, <3>1, MoveShape
      <4>2. db \in during[g]
        BY <1>1, <3>1 DEF TypeInv, Timely
      <4>3. QED
        BY <1>1, <2>1, <3>1, <4>1, <4>2 DEF Timely
    <3>2. CASE g # h
      <4>1. req'[g] = req[g]
        BY <1>1, <2>1, <3>2, MoveShape, ZenonT(60)
      <4>2. InProgress(g) => db \in during[g]
        BY DEF TypeInv, Timely
      <4>3. QED
        BY <1>1, <2>1, <2>3, <4>1, <4>2, TimelyKept
    <3>3. QED
      BY <3>1, <3>2
  <2>4. QED
    BY <1>1, <2>1, <2>2, <2>3 DEF TypeInv
<1>6. QED
  BY <1>2, <1>4, <1>5

\* So does the line a finished change leaves in the audit log.
LEMMA RecordType ==
  ASSUME TypeInv, NEW h \in Handlers, RecordAudit(h)
  PROVE  TypeInv'
<1>1. /\ InProgress(h) /\ Finish(h)
      /\ UNCHANGED <<db, known, logs, server, start, cutShort, served>>
      /\ audit' \subseteq audit \cup {Change(h)} /\ done' \subseteq done \cup {Change(h)}
      /\ unaudited' \subseteq unaudited \cup {req[h].no}
      /\ cookies' = CookiesAfter(req[h].op)
  BY DEF RecordAudit, serverVars
<1>2. (audit' \cup done') \subseteq [no : Nat, op : Requests]
  BY <1>1, ChangeType DEF TypeInv, TypeOK
<1>3. (logs' \cup unaudited') \subseteq Nat
  BY <1>1, ChangeType, ZenonT(60) DEF TypeInv, TypeOK
<1>4. cookies' \subseteq Nat
  BY <1>1 DEF TypeInv, TypeOK, CookiesAfter
<1>5. QED
  BY <1>1, <1>2, <1>3, <1>4, FinishType

\* So does a log entry taken from the gateway.
LEMMA IngestType ==
  ASSUME TypeInv, NEW h \in Handlers, IngestLog(h)
  PROVE  TypeInv'
<1>1. /\ InProgress(h) /\ Finish(h) /\ logs' \subseteq logs \cup {req[h].no}
      /\ UNCHANGED <<db, known, audit, server, start, cutShort, cookies, served, done, unaudited>>
  BY DEF IngestLog, At, serverVars, clientVars, historyVars
<1>2. (logs' \cup unaudited') \subseteq Nat /\ cookies' \subseteq Nat
      /\ (audit' \cup done') \subseteq [no : Nat, op : Requests]
  BY <1>1, ChangeType DEF TypeInv, TypeOK
<1>3. QED
  BY <1>1, <1>2, FinishType

\* A write keeps it: its database is of the schema, its ids become known.
LEMMA StoresType ==
  ASSUME TypeInv, NEW h \in Handlers, Stores(h)
  PROVE  TypeInv'
<1>1. /\ InProgress(h) /\ Commit(db') /\ done' = done \cup {Change(h)}
      /\ UNCHANGED <<audit, logs, server, start, cutShort, cookies, served, unaudited>>
  BY DEF Stores, At, tableVars, serverVars, clientVars
<1>2. /\ db' \in Databases /\ IsFiniteSet(db'.policies)
      /\ known' = known \cup IdsIn(db') /\ known' \subseteq Ids
      /\ during' \in [Handlers -> SUBSET Databases]
      /\ \A g \in Handlers : InProgress(g) => during'[g] = during[g] \cup {db'}
  BY <1>1, StoresShape, CommitShape
<1>3. done' \subseteq [no : Nat, op : Requests]
  BY <1>1, ChangeType DEF TypeInv, TypeOK
<1>4. TypeOK'
  BY <1>1, <1>2, <1>3, StoresShape DEF TypeInv, TypeOK
<1>5. ASSUME NEW g \in Handlers, InProgress(g)'
      PROVE  Timely(g)'
  <2>1. After(req[h].op) \notin {"key", "policies"}
    BY DEF After
  <2>2. CASE g = h
    <3>1. req'[g].at = After(req[h].op) /\ db' \in during'[g]
      BY <1>1, <1>2, <2>2, StoresShape
    <3>2. QED
      BY <2>1, <3>1 DEF Timely
  <2>3. CASE g # h
    <3>1. req'[g] = req[g]
      BY <2>3, StoresShape
    <3>2. QED
      BY <1>2, <1>5, <3>1, TimelyKept
  <2>4. QED
    BY <2>2, <2>3
<1>6. QED
  BY <1>2, <1>4, <1>5 DEF TypeInv

\* The seeds keep it.
LEMMA SeedingType ==
  ASSUME TypeInv, Seeding
  PROVE  TypeInv'
<1>1. /\ Commit(db') /\ server' \in {"seed user", "up"}
      /\ UNCHANGED <<audit, logs, start, cutShort, cookies, served, done, unaudited, req>>
  BY DEF Seeding, tableVars, clientVars, historyVars
<1>2. /\ db' \in Databases /\ IsFiniteSet(db'.policies)
      /\ known' = known \cup IdsIn(db') /\ known' \subseteq Ids
      /\ during' \in [Handlers -> SUBSET Databases]
      /\ \A g \in Handlers : InProgress(g) => during'[g] = during[g] \cup {db'}
  BY <1>1, SeedingShape, CommitShape DEF TypeInv
<1>3. TypeOK'
  BY <1>1, <1>2 DEF TypeInv, TypeOK
<1>4. ASSUME NEW g \in Handlers, InProgress(g)' PROVE Timely(g)'
  BY <1>1, <1>2, <1>4, TimelyKept
<1>5. QED
  BY <1>1, <1>2, <1>3, <1>4 DEF TypeInv

\* What the end of the process leaves.
LEMMA CrashShape ==
  ASSUME TypeInv, Crash
  PROVE  /\ req' \in [Handlers -> Busy \cup {Idle}]
         /\ during' \in [Handlers -> SUBSET Databases]
         /\ \A g \in Handlers : req'[g] = Idle \/ (req'[g] = req[g] /\ during'[g] = during[g])
         /\ \A g \in Handlers : ~OwnProcess(g) => req'[g] = Idle
<1>1. req \in [Handlers -> Busy \cup {Idle}] /\ during \in [Handlers -> SUBSET Databases]
  BY DEF TypeInv, TypeOK
<1>2. /\ req' = [h \in Handlers |-> IF OwnProcess(h) THEN req[h] ELSE Idle]
      /\ during' = [h \in Handlers |-> IF req'[h] = Idle THEN {} ELSE during[h]]
  BY DEF Crash
<1>3. QED
  BY <1>1, <1>2

\* A crash keeps it, with every handler gone.
LEMMA CrashType ==
  ASSUME TypeInv, Crash
  PROVE  TypeInv'
<1>1. /\ UNCHANGED <<db, known, audit, logs, start, cookies, served, done>>
      /\ server' = "down" /\ cutShort' \in BOOLEAN /\ IdsIn(db') = IdsIn(db)
  BY DEF Crash, tableVars, clientVars
<1>2. unaudited' \subseteq Nat
  BY ChangeType DEF Crash, TypeInv, TypeOK
<1>3. TypeOK'
  BY <1>1, <1>2, CrashShape DEF TypeInv, TypeOK
<1>4. ASSUME NEW g \in Handlers, InProgress(g)' PROVE Timely(g)'
  <2>1. req'[g] = req[g] /\ during'[g] = during[g]
    BY <1>4, CrashShape DEF InProgress
  <2>2. InProgress(g) => db \in during[g]
    BY DEF TypeInv, Timely
  <2>3. QED
    BY <1>1, <1>4, <2>1, <2>2, TimelyKept
<1>5. QED
  BY <1>1, <1>3, <1>4, CrashShape DEF TypeInv

\* Every step of the server keeps the invariant.
LEMMA NextType ==
  ASSUME TypeInv, [Next]_vars
  PROVE  TypeInv'
<1>1. CASE Start
  <2>1. server' \in {"up", "seed org"} /\ start' = start + 1
        /\ UNCHANGED <<db, known, during, audit, logs, cutShort, cookies, served, done, unaudited,
                       req>>
    BY <1>1, Zenon DEF Start, tableVars, clientVars, historyVars
  <2>2. ASSUME NEW g \in Handlers, InProgress(g)' PROVE Timely(g)'
    BY <2>1, <2>2 DEF TypeInv, Timely, InProgress
  <2>3. start' \in Nat
    <3>1. start \in Nat
      BY DEF TypeInv, TypeOK
    <3>2. start' = start + 1
      BY <2>1, Zenon
    <3>3. QED
      BY <3>1, <3>2
  <2>4. server' \in {"down", "seed org", "seed user", "up"}
    BY <2>1
  <2>5. TypeOK'
    BY <2>1, <2>3, <2>4 DEF TypeInv, TypeOK
  <2>6. IdsIn(db') = IdsIn(db)
    BY <2>1
  <2>7. QED
    BY <2>1, <2>2, <2>5, <2>6 DEF TypeInv
<1>2. CASE SeedStops
  <2>1. server' = "down" /\ cutShort' \in BOOLEAN
        /\ UNCHANGED <<db, known, during, start, audit, logs, cookies, served, done, unaudited, req>>
    BY <1>2 DEF SeedStops, tableVars, clientVars, historyVars, TypeInv, TypeOK
  <2>2. ASSUME NEW g \in Handlers, InProgress(g)' PROVE Timely(g)'
    BY <2>1, <2>2 DEF TypeInv, Timely, InProgress
  <2>3. TypeOK' /\ IdsIn(db') = IdsIn(db)
    BY <2>1 DEF TypeInv, TypeOK
  <2>4. QED
    BY <2>1, <2>2, <2>3 DEF TypeInv
<1>3. CASE UNCHANGED vars
  BY <1>3 DEF vars, tableVars, serverVars, clientVars, historyVars, TypeInv, Timely, TypeOK,
              InProgress, IdsIn
<1>4. QED
  BY <1>1, <1>2, <1>3, NextSteps, AcceptType, ReadType, LoginType, RecordType, IngestType,
     StoresType, SeedingType, CrashType

\* The invariant that every other proof of this module starts from.
LEMMA TypeInvariant == Spec => []TypeInv
<1>1. TypeInv /\ [Next]_vars => TypeInv'
  BY NextType
<1>2. QED
  BY InitType, <1>1, PTL DEF Spec

\* Type correctness: every handler of the server keeps the database within the schema
\* and its own state within its steps, also through failing statements and restarts.
THEOREM TypeCorrect == Spec => []TypeOK
<1>1. TypeInv => TypeOK
  BY DEF TypeInv
<1>2. QED
  BY <1>1, TypeInvariant, PTL

-------------------------------------------------------------------------------
(* The limits and the first run.                                           *)

\* Only a handler's write and the seeding change the database.
LEMMA DbSteps ==
  ASSUME TypeInv, [Next]_vars
  PROVE  \/ db' = db /\ known' = known
         \/ Seeding
         \/ \E h \in Handlers : Stores(h)
<1>1. ASSUME NEW h \in Handlers, ReadStep(h) \/ LoginCheck(h) \/ RecordAudit(h) \/ IngestLog(h)
      PROVE  db' = db /\ known' = known
  BY <1>1 DEF ReadStep, Reads, LoginCheck, RecordAudit, IngestLog
<1>2. ASSUME NEW h \in Handlers, NEW op \in Requests, Accept(h, op)
      PROVE  db' = db /\ known' = known
  BY <1>2 DEF Accept
<1>3. Start \/ SeedStops \/ Crash => db' = db /\ known' = known
  BY DEF Start, SeedStops, Crash
<1>4. CASE UNCHANGED vars
  BY <1>4 DEF vars
<1>5. QED
  BY <1>1, <1>2, <1>3, <1>4, NextSteps

\* The part of StoresShape that is about the database.
LEMMA StoresDb ==
  ASSUME TypeInv, NEW h \in Handlers, Stores(h)
  PROVE  /\ db \in Databases /\ req[h].op \in Requests /\ req[h].op.do \in Writing
         /\ db' \in Statement(db, req[h].op)
         /\ req[h].at = "write" /\ InProgress(h)
BY StoresShape DEF TypeInv, TypeOK, Stores, At

\* The seeding: the organisation is there when the second write is due or the server
\* serves, and it is without a user only after a start that was cut short.
SeedInv ==
  /\ server \in {"seed user", "up"} => db.org
  /\ db.org /\ db.users = {} /\ server # "seed user" => cutShort

\* Every step keeps the seeding invariant.
LEMMA SeedNext ==
  ASSUME TypeInv, SeedInv, [Next]_vars
  PROVE  SeedInv'
<1> USE DEF SeedInv
<1>1. CASE Start
  BY <1>1 DEF Start
<1>2. CASE Seeding
  BY <1>2, SeedingShape DEF Seeding
<1>3. CASE SeedStops
  BY <1>3 DEF SeedStops
<1>4. CASE Crash
  BY <1>4 DEF Crash
<1>5. ASSUME NEW h \in Handlers, Stores(h) PROVE SeedInv'
  <2>1. UsersAfter(db, req[h].op, db')
    BY <1>5, StoresDb, StatementTables
  <2>2. db'.org = db.org /\ (db'.users = {} => db.users = {})
    BY <2>1 DEF UsersAfter
  <2>3. server' = server /\ cutShort' = cutShort
    BY <1>5 DEF Stores, serverVars
  <2>4. QED
    BY <2>2, <2>3
<1>6. ASSUME NEW h \in Handlers, ReadStep(h) \/ LoginCheck(h) \/ RecordAudit(h) \/ IngestLog(h)
      PROVE  SeedInv'
  <2>1. db' = db /\ server' = server /\ cutShort' = cutShort
    BY <1>6 DEF ReadStep, Reads, LoginCheck, RecordAudit, IngestLog, serverVars
  <2>2. QED
    BY <2>1
<1>7. ASSUME NEW h \in Handlers, NEW op \in Requests, Accept(h, op) PROVE SeedInv'
  <2>1. db' = db /\ server' = server /\ cutShort' = cutShort
    BY <1>7 DEF Accept, serverVars
  <2>2. QED
    BY <2>1
<1>8. CASE UNCHANGED vars
  BY <1>8 DEF vars, serverVars
<1>9. QED
  BY <1>1, <1>2, <1>3, <1>4, <1>5, <1>6, <1>7, <1>8, NextSteps

\* A server that serves has a user who can log in, unless a start ended between the
\* two writes of ensureDefaultAdmin.
THEOREM SeededOrCutShort == Spec => []FirstRunSeeds
<1>1. Init => SeedInv
  BY ServerAssumption DEF Init, SeedInv
<1>2. TypeInv /\ SeedInv /\ [Next]_vars => SeedInv'
  BY SeedNext
<1>3. SeedInv => FirstRunSeeds
  BY DEF SeedInv, FirstRunSeeds
<1>4. Spec => []TypeInv
  BY TypeInvariant
<1>5. QED
  BY <1>1, <1>2, <1>3, <1>4, PTL DEF Spec

-------------------------------------------------------------------------------
(* Requests on their way.                                                  *)

Stayed(g) == InProgress(g) /\ req'[g] = req[g] /\ during[g] \subseteq during'[g]

\* How a request that is in progress came to where it is.
LEMMA HandlerMoves ==
  ASSUME TypeInv, [Next]_vars, NEW g \in Handlers, InProgress(g)'
  PROVE  \/ \E op \in Requests : Accept(g, op)
         \/ Stayed(g)
         \/ ReadStep(g) /\ \E at : GoesOn(g, at) /\ Goto(g, at)
         \/ ReadStep(g) /\ \E out : Answers(g, out) /\ Reply(g, out)
         \/ LoginCheck(g) /\ Goto(g, "audit")
         \/ Stores(g)
<1> USE DEF Stayed, InProgress
<1>0. req \in [Handlers -> Busy \cup {Idle}]
  BY DEF TypeInv, TypeOK
<1>1. CASE Start \/ SeedStops \/ UNCHANGED vars
  BY <1>1 DEF Start, SeedStops, vars
<1>2. CASE Seeding
  <2>1. req' = req /\ InProgress(g)
    BY <1>2 DEF Seeding
  <2>2. during'[g] = during[g] \cup {db'}
    BY <1>2, <2>1, SeedingShape, CommitShape DEF Seeding
  <2>3. QED
    BY <2>1, <2>2
<1>3. CASE Crash
  BY <1>3, CrashShape
<1>4. ASSUME NEW h \in Handlers, NEW op \in Requests, Accept(h, op), g # h PROVE Stayed(g)
  <2>1. req'[g] = req[g] /\ during' = [during EXCEPT ![h] = {db}]
        /\ during \in [Handlers -> SUBSET Databases]
    BY <1>4, AcceptShape, ZenonT(60) DEF TypeInv
  <2>2. during'[g] = during[g]
    BY <1>4, <2>1
  <2>3. QED
    BY <2>1, <2>2
<1>5. ASSUME NEW h \in Handlers, Finish(h) PROVE Stayed(g)
  BY <1>5, FinishShape
<1>6. ASSUME NEW h \in Handlers, g # h, NEW at \in Steps, InProgress(h), Goto(h, at)
      PROVE  Stayed(g)
  <2>1. Moves(h, at) /\ during' = during
    BY <1>6 DEF Goto
  <2>2. req'[g] = req[g]
    BY <1>0, <1>6, <2>1, MoveShape
  <2>3. QED
    BY <2>1, <2>2
<1>7. ASSUME NEW h \in Handlers, ReadStep(h)
      PROVE  \/ Stayed(g)
             \/ ReadStep(g) /\ \E at : GoesOn(g, at) /\ Goto(g, at)
             \/ ReadStep(g) /\ \E out : Answers(g, out) /\ Reply(g, out)
  <2>1. CASE g = h
    BY <1>5, <1>7, <2>1 DEF ReadStep
  <2>2. ASSUME NEW at, g # h, GoesOn(h, at), Goto(h, at) PROVE Stayed(g)
    <3>1. InProgress(h) /\ at \in Steps
      BY <1>7, <2>2, ReadShape DEF ReadStep
    <3>2. QED
      BY <1>6, <2>2, <3>1
  <2>3. ASSUME NEW out, g # h, Answers(h, out), Reply(h, out) PROVE Stayed(g)
    <3>1. InProgress(h) /\ out \in SUBSET Outputs
      BY <1>7, <2>3, ReadShape DEF ReadStep
    <3>2. req'[g] = req[g] /\ during' = during
      BY <1>0, <2>3, <3>1, ReplyShape DEF Reply
    <3>3. QED
      BY <3>2
  <2>4. QED
    BY <1>5, <1>7, <2>1, <2>2, <2>3 DEF ReadStep
<1>8. ASSUME NEW h \in Handlers, LoginCheck(h)
      PROVE  Stayed(g) \/ (LoginCheck(g) /\ Goto(g, "audit"))
  <2>1. Finish(h) \/ Goto(h, "audit")
    BY <1>8, Zenon DEF LoginCheck
  <2>2. InProgress(h) /\ "audit" \in Steps
    BY <1>8 DEF LoginCheck, At, Steps
  <2>3. QED
    BY <1>5, <1>6, <1>8, <2>1, <2>2
<1>9. ASSUME NEW h \in Handlers, RecordAudit(h) \/ IngestLog(h) PROVE Stayed(g)
  BY <1>5, <1>9 DEF RecordAudit, IngestLog
<1>10. ASSUME NEW h \in Handlers, g # h, Stores(h) PROVE Stayed(g)
  <2>1. req'[g] = req[g] /\ InProgress(g)
    BY <1>10, StoresShape
  <2>2. during'[g] = during[g] \cup {db'}
    BY <1>10, <2>1, StoresShape, CommitShape DEF Stores
  <2>3. QED
    BY <2>1, <2>2
<1>11. QED
  BY <1>1, <1>2, <1>3, <1>4, <1>7, <1>8, <1>9, <1>10, NextSteps

\* What such a step leaves of the request, and of the time it has been in progress.
LEMMA RequestKept ==
  ASSUME TypeInv, [Next]_vars, NEW g \in Handlers, InProgress(g)',
         ~\E op \in Requests : Accept(g, op)
  PROVE  /\ InProgress(g) /\ req'[g].no = req[g].no /\ req'[g].op = req[g].op
         /\ during[g] \subseteq during'[g]
<1>0. req \in [Handlers -> Busy \cup {Idle}]
  BY DEF TypeInv, TypeOK
<1>1. CASE Stayed(g)
  BY <1>1 DEF Stayed
<1>2. ASSUME NEW at \in Steps, InProgress(g), Goto(g, at)
      PROVE  req'[g].no = req[g].no /\ req'[g].op = req[g].op /\ during[g] \subseteq during'[g]
  BY <1>0, <1>2, MoveShape DEF Goto
<1>3. ASSUME NEW at, ReadStep(g), GoesOn(g, at), Goto(g, at)
      PROVE  /\ InProgress(g) /\ req'[g].no = req[g].no /\ req'[g].op = req[g].op
             /\ during[g] \subseteq during'[g]
  <2>1. InProgress(g) /\ at \in Steps
    BY <1>3, ReadShape DEF ReadStep
  <2>2. QED
    BY <1>2, <1>3, <2>1
<1>4. ASSUME NEW out, ReadStep(g), Answers(g, out), Reply(g, out)
      PROVE  /\ InProgress(g) /\ req'[g].no = req[g].no /\ req'[g].op = req[g].op
             /\ during[g] \subseteq during'[g]
  <2>1. InProgress(g) /\ out \in SUBSET Outputs /\ during' = during
    BY <1>4, ReadShape DEF ReadStep, Reply
  <2>2. QED
    BY <1>0, <1>4, <2>1, ReplyShape
<1>5. CASE LoginCheck(g) /\ Goto(g, "audit")
  <2>1. InProgress(g) /\ "audit" \in Steps
    BY <1>5 DEF LoginCheck, At, Steps
  <2>2. QED
    BY <1>2, <1>5, <2>1
<1>6. CASE Stores(g)
  <2>1. InProgress(g) /\ Commit(db') /\ db' \in Databases
    BY <1>6, StoresDb, StoresShape DEF Stores
  <2>2. QED
    BY <1>6, <2>1, StoresShape, CommitShape
<1>7. QED
  BY <1>1, <1>3, <1>4, <1>5, <1>6, HandlerMoves

\* What is recorded as done: a statement that succeeded, a password that was right, a
\* logout.
Does(h) ==
  /\ InProgress(h) /\ done' = done \cup {Change(h)}
  /\ \/ Stores(h)
     \/ LoginCheck(h) /\ Goto(h, "audit") /\ req[h].op.do = "login"
     \/ RecordAudit(h) /\ req[h].op.do = "logout"

\* A step notes as done nothing but the change of one handler.
LEMMA DoneSteps ==
  ASSUME TypeInv, [Next]_vars
  PROVE  done' = done \/ \E h \in Handlers : Does(h)
<1>1. Start \/ SeedStops \/ Seeding \/ Crash \/ UNCHANGED vars => done' = done
  BY DEF Start, SeedStops, Seeding, Crash, vars, historyVars
<1>2. ASSUME NEW h \in Handlers, \/ \E op \in Requests : Accept(h, op)
                                 \/ ReadStep(h) \/ IngestLog(h)
      PROVE  done' = done
  BY <1>2 DEF Accept, ReadStep, Reads, IngestLog, historyVars
<1>3. ASSUME NEW h \in Handlers, LoginCheck(h) PROVE done' = done \/ Does(h)
  <2>1. At(h, "login", "read")
    BY <1>3 DEF LoginCheck
  <2>2. done' = done \/ (Goto(h, "audit") /\ done' = done \cup {Change(h)})
    BY <1>3, Zenon DEF LoginCheck
  <2>3. QED
    BY <1>3, <2>1, <2>2 DEF Does, At
<1>4. ASSUME NEW h \in Handlers, RecordAudit(h) PROVE done' = done \/ Does(h)
  BY <1>4 DEF RecordAudit, Does
<1>5. ASSUME NEW h \in Handlers, Stores(h) PROVE Does(h)
  BY <1>5 DEF Stores, At, Does
<1>6. QED
  BY <1>1, <1>2, <1>3, <1>4, <1>5, NextSteps

\* A request has a number of its own, under which done has what it did and nothing
\* else; and it is recorded as done before its audit row is due.
NumberInv ==
  /\ \A c \in done : c.no <= served
  /\ \A h \in Handlers : InProgress(h) =>
       /\ req[h].no <= served
       /\ \A g \in Handlers \ {h} : InProgress(g) => req[g].no # req[h].no
       /\ \A c \in done : c.no = req[h].no => c.op = req[h].op
       /\ req[h].at = "audit" /\ req[h].op.do # "logout" => Change(h) \in done

\* Only an arriving request draws a number.
LEMMA ServedSteps ==
  ASSUME TypeInv, [Next]_vars, ~\E h \in Handlers, op \in Requests : Accept(h, op)
  PROVE  served' = served
<1>1. Start \/ SeedStops \/ Seeding \/ Crash \/ UNCHANGED vars => served' = served
  BY DEF Start, SeedStops, Seeding, Crash, vars, clientVars
<1>2. \A h \in Handlers : ReadStep(h) \/ LoginCheck(h) \/ RecordAudit(h) \/ IngestLog(h) \/ Stores(h)
        => served' = served
  BY DEF ReadStep, Reads, LoginCheck, RecordAudit, IngestLog, Stores, clientVars
<1>3. QED
  BY <1>1, <1>2, NextSteps

\* A handler whose audit row is due has just done its change, or is logging out.
LEMMA AuditDue ==
  ASSUME TypeInv, NumberInv, [Next]_vars, NEW g \in Handlers, InProgress(g)',
         req'[g].at = "audit", req'[g].op.do # "logout"
  PROVE  Change(g)' \in done'
<1>0. req \in [Handlers -> Busy \cup {Idle}] /\ done \subseteq done'
  BY DoneSteps DEF TypeInv, TypeOK, Does
<1>1. ASSUME NEW op \in Requests, Accept(g, op) PROVE FALSE
  <2>1. FirstStep(op) = "audit" /\ op.do # "logout"
    BY <1>1, AcceptShape
  <2>2. QED
    BY <2>1 DEF FirstStep
<1>2. CASE Stayed(g)
  BY <1>0, <1>2 DEF Stayed, NumberInv, Change
<1>3. ASSUME NEW at, ReadStep(g), GoesOn(g, at), Goto(g, at) PROVE FALSE
  <2>1. InProgress(g) /\ at \in Steps /\ Moves(g, at)
    BY <1>3, ReadShape DEF ReadStep, Goto
  <2>2. at = "audit"
    BY <1>0, <2>1, MoveShape
  <2>3. req[g].at = "key" => req[g].op.do \in APIDoings
    BY <2>1 DEF TypeInv, Timely
  <2>4. QED
    BY <1>3, <2>2, <2>3 DEF GoesOn, AfterKey, APIDoings
<1>4. ASSUME NEW out, ReadStep(g), Answers(g, out), Reply(g, out) PROVE FALSE
  <2>1. InProgress(g) /\ out \in SUBSET Outputs
    BY <1>4, ReadShape DEF ReadStep
  <2>2. QED
    BY <1>0, <1>4, <2>1, ReplyShape
<1>5. CASE LoginCheck(g) /\ Goto(g, "audit")
  <2>1. InProgress(g) /\ Moves(g, "audit") /\ "audit" \in Steps
    BY <1>5 DEF LoginCheck, At, Steps, Goto
  <2>2. req'[g].no = req[g].no /\ req'[g].op = req[g].op
    BY <1>0, <2>1, MoveShape
  <2>3. Change(g) \in done'
    <3>1. CASE Finish(g)
      BY <2>1, <3>1, FinishShape, <1>0 DEF InProgress
    <3>2. CASE ~Finish(g)
      BY <1>5, <3>2, Zenon DEF LoginCheck
    <3>3. QED
      BY <3>1, <3>2
  <2>4. QED
    BY <2>2, <2>3 DEF Change
<1>6. CASE Stores(g)
  <2>1. Change(g) \in done'
    BY <1>6 DEF Stores
  <2>2. req'[g].no = req[g].no /\ req'[g].op = req[g].op
    BY <1>6, StoresShape
  <2>3. QED
    BY <2>1, <2>2 DEF Change
<1>7. QED
  BY <1>1, <1>2, <1>3, <1>4, <1>5, <1>6, HandlerMoves

\* Every step keeps the numbers of the requests apart.
LEMMA NumberNext ==
  ASSUME TypeInv, NumberInv, [Next]_vars
  PROVE  NumberInv'
<1>1. /\ served \in Nat /\ done \subseteq [no : Nat, op : Requests]
      /\ req \in [Handlers -> Busy \cup {Idle}]
  BY DEF TypeInv, TypeOK
<1>2. ASSUME NEW h \in Handlers, NEW op \in Requests, Accept(h, op) PROVE NumberInv'
  <2>1. /\ req'[h].no = served + 1 /\ req'[h].op = op /\ served' = served + 1
        /\ \A g \in Handlers \ {h} : req'[g] = req[g]
    BY <1>2, AcceptShape
  <2>2. done' = done /\ ~InProgress(h)
    BY <1>2 DEF Accept, historyVars
  <2>3. \A c \in done : c.no \in Nat /\ c.no <= served
    BY <1>1 DEF NumberInv
  <2>4. \A g \in Handlers : InProgress(g) => req[g].no \in Nat /\ req[g].no <= served
    BY <1>1 DEF NumberInv, InProgress, Busy
  <2>5. \A g \in Handlers : InProgress(g)' => g = h \/ (g # h /\ InProgress(g) /\ req'[g] = req[g])
    BY <2>1 DEF InProgress
  <2>6. \A c \in done' : c.no <= served'
    BY <1>1, <2>1, <2>2, <2>3
  <2>7. ASSUME NEW g \in Handlers, InProgress(g)'
        PROVE  /\ req'[g].no <= served'
               /\ \A f \in Handlers \ {g} : InProgress(f)' => req'[f].no # req'[g].no
               /\ \A c \in done' : c.no = req'[g].no => c.op = req'[g].op
    <3>1. CASE g = h
      <4>1. \A c \in done' : c.no # req'[g].no
        BY <1>1, <2>1, <2>2, <2>3, <3>1
      <4>2. \A f \in Handlers \ {g} : InProgress(f)' => req'[f].no # req'[g].no
        BY <1>1, <2>1, <2>4, <2>5, <3>1
      <4>3. QED
        BY <1>1, <2>1, <3>1, <4>1, <4>2
    <3>2. CASE g # h
      <4>1. InProgress(g) /\ req'[g] = req[g] /\ req[g].no \in Nat /\ req[g].no <= served
        BY <2>4, <2>5, <2>7, <3>2
      <4>2. \A f \in Handlers \ {g} : InProgress(f)' => req'[f].no # req'[g].no
        BY <1>1, <2>1, <2>5, <4>1 DEF NumberInv
      <4>3. \A c \in done' : c.no = req'[g].no => c.op = req'[g].op
        BY <2>2, <4>1 DEF NumberInv
      <4>4. QED
        BY <1>1, <2>1, <4>1, <4>2, <4>3
    <3>3. QED
      BY <3>1, <3>2
  <2>8. QED
    BY <2>6, <2>7, AuditDue DEF NumberInv
<1>3. CASE ~\E h \in Handlers, op \in Requests : Accept(h, op)
  <2>1. served' = served
    BY <1>3, ServedSteps
  <2>2. \A g \in Handlers : InProgress(g)' =>
          InProgress(g) /\ req'[g].no = req[g].no /\ req'[g].op = req[g].op
    BY <1>3, RequestKept
  <2>3. ASSUME NEW c \in done'
        PROVE  c \in done \/ \E h \in Handlers : InProgress(h) /\ c = Change(h)
    BY DoneSteps DEF Does
  <2>4. \A h \in Handlers : Change(h).no = req[h].no /\ Change(h).op = req[h].op
    BY DEF Change
  <2>5. \A c \in done' : c.no <= served'
    BY <2>1, <2>3, <2>4 DEF NumberInv
  <2>6. ASSUME NEW g \in Handlers, InProgress(g)'
        PROVE  /\ req'[g].no <= served'
               /\ \A f \in Handlers \ {g} : InProgress(f)' => req'[f].no # req'[g].no
               /\ \A c \in done' : c.no = req'[g].no => c.op = req'[g].op
    <3>1. InProgress(g) /\ req'[g].no = req[g].no /\ req'[g].op = req[g].op
      BY <2>2, <2>6
    <3>2. \A f \in Handlers \ {g} : InProgress(f)' => req'[f].no # req'[g].no
      BY <2>2, <3>1 DEF NumberInv
    <3>3. ASSUME NEW c \in done', c.no = req[g].no PROVE c.op = req[g].op
      <4>1. CASE c \in done
        BY <3>1, <3>3, <4>1 DEF NumberInv
      <4>2. ASSUME NEW h \in Handlers, InProgress(h), c = Change(h) PROVE c.op = req[g].op
        BY <2>4, <3>1, <3>3, <4>2 DEF NumberInv
      <4>3. QED
        BY <2>3, <4>1, <4>2
    <3>4. QED
      BY <2>1, <3>1, <3>2, <3>3 DEF NumberInv
  <2>7. QED
    BY <2>5, <2>6, AuditDue DEF NumberInv
<1>4. QED
  BY <1>2, <1>3

\* The requests in progress and the changes done are told apart by number.
LEMMA NumberInvariant == Spec => []NumberInv
<1>1. Init => NumberInv
  BY DEF Init, NumberInv, InProgress
<1>2. TypeInv /\ NumberInv /\ [Next]_vars => NumberInv'
  BY NumberNext
<1>3. QED
  BY <1>1, <1>2, TypeInvariant, PTL DEF Spec

-------------------------------------------------------------------------------
(* The audit log.                                                          *)

\* An audit row that is due waits until it is written, or fails, or the process ends.
LEMMA AuditWaits ==
  ASSUME TypeInv, [Next]_vars, NEW g \in Handlers, InProgress(g), req[g].at = "audit"
  PROVE  req'[g] = req[g] \/ RecordAudit(g) \/ Crash
<1>0. req \in [Handlers -> Busy \cup {Idle}]
  BY DEF TypeInv, TypeOK
<1>1. CASE Start \/ SeedStops \/ Seeding \/ UNCHANGED vars
  BY <1>1 DEF Start, SeedStops, Seeding, vars
<1>2. ASSUME NEW h \in Handlers, NEW op \in Requests, Accept(h, op) PROVE req'[g] = req[g]
  <2>1. h # g
    BY <1>2 DEF Accept
  <2>2. QED
    BY <1>2, <2>1, AcceptShape
<1>3. ASSUME NEW h \in Handlers, ReadStep(h) PROVE req'[g] = req[g]
  <2>1. h # g /\ InProgress(h)
    BY <1>3 DEF ReadStep
  <2>2. CASE Finish(h)
    BY <2>1, <2>2, FinishShape
  <2>3. ASSUME NEW at, GoesOn(h, at), Goto(h, at) PROVE req'[g] = req[g]
    <3>1. at \in Steps /\ Moves(h, at)
      BY <2>1, <2>3, ReadShape DEF Goto
    <3>2. QED
      BY <1>0, <2>1, <3>1, MoveShape, ZenonT(60)
  <2>4. ASSUME NEW out, Answers(h, out), Reply(h, out) PROVE req'[g] = req[g]
    <3>1. out \in SUBSET Outputs /\ Reply(h, out)
      BY <2>1, <2>4, ReadShape
    <3>2. \A u \in Handlers \ {h} : req'[u] = req[u]
      BY <1>0, <2>1, <3>1, ReplyShape
    <3>3. QED
      BY <2>1, <3>2
  <2>5. QED
    BY <1>3, <2>2, <2>3, <2>4 DEF ReadStep
<1>4. ASSUME NEW h \in Handlers, LoginCheck(h) PROVE req'[g] = req[g]
  <2>1. h # g /\ InProgress(h) /\ "audit" \in Steps
    BY <1>4 DEF LoginCheck, At, Steps
  <2>2. Finish(h) \/ Moves(h, "audit")
    BY <1>4, Zenon DEF LoginCheck, Goto
  <2>3. QED
    BY <1>0, <2>1, <2>2, FinishShape, MoveShape
<1>5. ASSUME NEW h \in Handlers, RecordAudit(h), h # g PROVE req'[g] = req[g]
  BY <1>5, FinishShape DEF RecordAudit
<1>6. ASSUME NEW h \in Handlers, IngestLog(h) PROVE req'[g] = req[g]
  <2>1. h # g /\ Finish(h)
    BY <1>6 DEF IngestLog, At
  <2>2. QED
    BY <2>1, FinishShape
<1>7. ASSUME NEW h \in Handlers, Stores(h) PROVE req'[g] = req[g]
  <2>1. h # g
    BY <1>7, StoresDb
  <2>2. QED
    BY <1>7, <2>1, StoresShape
<1>8. QED
  BY <1>1, <1>2, <1>3, <1>4, <1>5, <1>6, <1>7, NextSteps

Waiting(c) == \E h \in Handlers : InProgress(h) /\ req[h].no = c.no /\ req[h].at = "audit"

\* The rows of the audit log, and the requests without one, are only ever added to.
LEMMA AuditSteps ==
  ASSUME TypeInv, [Next]_vars
  PROVE  /\ audit \subseteq audit' /\ unaudited \subseteq unaudited'
         /\ audit' = audit \/ \E h \in Handlers : RecordAudit(h) /\ audit' = audit \cup {Change(h)}
<1>1. Start \/ SeedStops \/ Seeding \/ UNCHANGED vars => audit' = audit /\ unaudited' = unaudited
  BY DEF Start, SeedStops, Seeding, vars, tableVars, historyVars
<1>2. Crash => audit' = audit /\ unaudited \subseteq unaudited'
  BY DEF Crash, tableVars
<1>3. ASSUME NEW h \in Handlers,
             \/ \E op \in Requests : Accept(h, op)
             \/ ReadStep(h) \/ LoginCheck(h) \/ IngestLog(h) \/ Stores(h)
      PROVE  audit' = audit /\ unaudited' = unaudited
  BY <1>3 DEF Accept, ReadStep, Reads, LoginCheck, IngestLog, Stores, tableVars, historyVars
<1>4. ASSUME NEW h \in Handlers, RecordAudit(h)
      PROVE  /\ audit' = audit \/ audit' = audit \cup {Change(h)}
             /\ unaudited \subseteq unaudited'
  BY <1>4 DEF RecordAudit
<1>5. QED
  BY <1>1, <1>2, <1>3, <1>4, NextSteps

\* The audit log tells of every change that handlers with recordAudit made, and of no
\* other, but for rows that failed or were cut off.
LEMMA AuditNext ==
  ASSUME TypeInv, NumberInv, AuditMatches, [Next]_vars
  PROVE  AuditMatches'
<1>0. done \subseteq [no : Nat, op : Requests] /\ done \subseteq done'
  BY DoneSteps DEF TypeInv, TypeOK, Does
<1>1. audit' \subseteq done'
  <2>1. ASSUME NEW h \in Handlers, RecordAudit(h) PROVE Change(h) \in done'
    <3>1. InProgress(h) /\ req[h].at = "audit"
      BY <2>1 DEF RecordAudit
    <3>2. CASE req[h].op.do = "logout"
      BY <2>1, <3>2 DEF RecordAudit
    <3>3. CASE req[h].op.do # "logout"
      BY <1>0, <3>1, <3>3 DEF NumberInv
    <3>4. QED
      BY <3>2, <3>3
  <2>2. QED
    BY <1>0, <2>1, AuditSteps DEF AuditMatches
<1>2. ASSUME NEW h \in Handlers, RecordAudit(h)
      PROVE  Change(h) \in audit' \/ req[h].no \in unaudited'
  BY <1>2 DEF RecordAudit
<1>3. ASSUME NEW c \in done, Audited(c), c \notin audit', c.no \notin unaudited'
      PROVE  Waiting(c)'
  <2>1. PICK h \in Handlers : InProgress(h) /\ req[h].no = c.no /\ req[h].at = "audit"
    BY <1>3, AuditSteps DEF AuditMatches
  <2>2. c = Change(h)
    <3>1. c.op = req[h].op
      BY <2>1 DEF NumberInv
    <3>2. QED
      BY <1>0, <2>1, <3>1 DEF Change
  <2>3. ~RecordAudit(h)
    BY <1>2, <1>3, <2>1, <2>2
  <2>4. ~Crash
    BY <1>3, <2>1 DEF Crash
  <2>5. req'[h] = req[h]
    BY <2>1, <2>3, <2>4, AuditWaits
  <2>6. QED
    BY <2>1, <2>5 DEF Waiting, InProgress
<1>4. ASSUME NEW h \in Handlers, Does(h), Audited(Change(h))
      PROVE  \/ Change(h) \in audit' \/ req[h].no \in unaudited'
             \/ \E g \in Handlers : InProgress(g)' /\ req'[g].no = req[h].no /\ req'[g].at = "audit"
  <2>0. Change(h).no = req[h].no /\ Change(h).op = req[h].op
        /\ req \in [Handlers -> Busy \cup {Idle}]
    BY DEF Change, TypeInv, TypeOK
  <2>1. CASE RecordAudit(h)
    BY <1>2, <2>1
  <2>2. CASE Stores(h)
    <3>1. req'[h].at = "audit"
      <4>1. req[h].op.do \notin Unrecorded
        BY <1>4, <2>0 DEF Audited, Unrecorded
      <4>2. QED
        BY <2>2, <4>1, StoresShape DEF After
    <3>2. req'[h].no = req[h].no /\ InProgress(h)'
      BY <2>2, StoresShape DEF InProgress
    <3>3. QED
      BY <3>1, <3>2
  <2>3. CASE LoginCheck(h) /\ Goto(h, "audit")
    <3>1. InProgress(h) /\ Moves(h, "audit") /\ "audit" \in Steps
      BY <2>3 DEF LoginCheck, At, Steps, Goto
    <3>2. req'[h].at = "audit" /\ req'[h].no = req[h].no /\ InProgress(h)'
      BY <2>0, <3>1, MoveShape DEF InProgress
    <3>3. QED
      BY <3>2
  <2>4. QED
    BY <1>4, <2>1, <2>2, <2>3 DEF Does
<1>5. ASSUME NEW c \in done', Audited(c)
      PROVE  \/ c \in audit' \/ c.no \in unaudited'
             \/ \E h \in Handlers : InProgress(h)' /\ req'[h].no = c.no /\ req'[h].at = "audit"
  <2>1. CASE c \in done
    BY <1>3, <1>5, <2>1 DEF Waiting
  <2>2. ASSUME NEW h \in Handlers, Does(h), c = Change(h)
        PROVE  \/ c \in audit' \/ c.no \in unaudited'
               \/ \E g \in Handlers : InProgress(g)' /\ req'[g].no = c.no /\ req'[g].at = "audit"
    <3>1. Change(h).no = req[h].no
      BY DEF Change
    <3>2. QED
      BY <1>4, <1>5, <2>2, <3>1
  <2>3. QED
    BY <2>1, <2>2, DoneSteps DEF Does
<1>6. QED
  BY <1>1, <1>5 DEF AuditMatches, Audited

\* The audit log and the changes agree, in every order of the statements of different
\* requests.
THEOREM AuditAgrees == Spec => []AuditMatches
<1>1. Init => AuditMatches
  BY DEF Init, AuditMatches
<1>2. TypeInv /\ NumberInv /\ AuditMatches /\ [Next]_vars => AuditMatches'
  BY AuditNext
<1>3. QED
  BY <1>1, <1>2, TypeInvariant, NumberInvariant, PTL DEF Spec

-------------------------------------------------------------------------------
(* Agents that are registered, and policies that are deleted.              *)

\* An agent that a request has registered is still there.
StillRegistered == \A c \in done : c.op.do = "register" => GetAgent(db, c.op.on) # {}

\* No step registers an agent that is there.
LEMMA RegisteredNext ==
  ASSUME TypeInv, StillRegistered, RegisteredOnce, [Next]_vars
  PROVE  StillRegistered' /\ RegisteredOnce'
<1>1. \A a : GetAgent(db, a) # {} => GetAgent(db', a) # {}
  <2>1. CASE Seeding
    BY <2>1, SeedingShape DEF GetAgent
  <2>2. ASSUME NEW h \in Handlers, Stores(h)
        PROVE  \A a : GetAgent(db, a) # {} => GetAgent(db', a) # {}
    BY <2>2, StoresDb, StatementAgents
  <2>3. QED
    BY <2>1, <2>2, DbSteps
<1>2. ASSUME NEW h \in Handlers, Does(h), req[h].op.do = "register"
      PROVE  GetAgent(db, req[h].op.on) = {} /\ GetAgent(db', req[h].op.on) # {}
  <2>1. Stores(h)
    BY <1>2 DEF Does
  <2>2. QED
    BY <1>2, <2>1, StoresDb, StatementAgents
<1>3. \A h \in Handlers : Change(h).op = req[h].op /\ Change(h).no = req[h].no
  BY DEF Change
<1>4. CASE done' = done
  BY <1>1, <1>4 DEF StillRegistered, RegisteredOnce
<1>5. ASSUME NEW h \in Handlers, Does(h) PROVE StillRegistered' /\ RegisteredOnce'
  <2>1. done' = done \cup {Change(h)}
    BY <1>5 DEF Does
  <2>2. ASSUME NEW c \in done', c.op.do = "register" PROVE GetAgent(db', c.op.on) # {}
    BY <1>1, <1>2, <1>3, <1>5, <2>1, <2>2 DEF StillRegistered
  <2>3. ASSUME NEW c \in done', NEW e \in done', c.op.do = "register", e.op.do = "register",
               c.op.on = e.op.on
        PROVE  c.no = e.no
    <3>1. CASE c \in done /\ e \in done
      BY <2>3, <3>1 DEF RegisteredOnce
    <3>2. CASE c \in done /\ e = Change(h)
      BY <1>2, <1>3, <1>5, <2>3, <3>2 DEF StillRegistered
    <3>3. CASE c = Change(h) /\ e \in done
      BY <1>2, <1>3, <1>5, <2>3, <3>3 DEF StillRegistered
    <3>4. CASE c = Change(h) /\ e = Change(h)
      BY <3>4
    <3>5. QED
      BY <2>1, <3>1, <3>2, <3>3, <3>4
  <2>4. QED
    BY <2>2, <2>3 DEF StillRegistered, RegisteredOnce
<1>6. QED
  BY <1>4, <1>5, DoneSteps

\* Of requests that register the same agent only one succeeds, though the duplicate
\* check is a statement of its own.
THEOREM OneRegisters == Spec => []RegisteredOnce
<1>1. Init => StillRegistered /\ RegisteredOnce
  BY DEF Init, StillRegistered, RegisteredOnce
<1>2. TypeInv /\ (StillRegistered /\ RegisteredOnce) /\ [Next]_vars
        => (StillRegistered /\ RegisteredOnce)'
  BY RegisteredNext
<1>3. QED
  BY <1>1, <1>2, TypeInvariant, PTL DEF Spec

\* The id of a row that is about to be created names nothing yet, and no other request
\* has it; every other id names a row that the store has had.
NewRows == {"policy new", "key new", "limits new"}

Fresh(h) ==
  /\ req[h].op.on \notin known
  /\ \A g \in Handlers \ {h} : InProgress(g) => req[g].op.on # req[h].op.on

FreshInv ==
  \A h \in Handlers : InProgress(h) =>
    IF req[h].op.do \in NewRows THEN req[h].at = "write" => Fresh(h)
    ELSE req[h].op.on \in Ids => req[h].op.on \in known

\* Only a request to create a policy, a key or a limits row is in progress at "write"
\* from its arrival.
LEMMA StillAtWrite ==
  ASSUME TypeInv, [Next]_vars, NEW g \in Handlers, InProgress(g)', req'[g].at = "write",
         req'[g].op.do \in NewRows, ~\E op \in Requests : Accept(g, op)
  PROVE  InProgress(g) /\ req[g].at = "write" /\ req'[g] = req[g]
<1>0. req \in [Handlers -> Busy \cup {Idle}]
  BY DEF TypeInv, TypeOK
<1>1. ASSUME NEW at, ReadStep(g), GoesOn(g, at), Goto(g, at) PROVE FALSE
  <2>1. InProgress(g) /\ at \in Steps /\ Moves(g, at)
    BY <1>1, ReadShape DEF ReadStep, Goto
  <2>2. at = "write" /\ req[g].op.do \in NewRows
    BY <1>0, <2>1, MoveShape
  <2>3. req[g].at = "key" => req[g].op.do \in APIDoings
    BY <2>1 DEF TypeInv, Timely
  <2>4. QED
    BY <1>1, <2>2, <2>3 DEF GoesOn, AfterKey, APIDoings, NewRows
<1>2. ASSUME NEW out, ReadStep(g), Answers(g, out), Reply(g, out) PROVE FALSE
  <2>1. InProgress(g) /\ out \in SUBSET Outputs
    BY <1>2, ReadShape DEF ReadStep
  <2>2. QED
    BY <1>0, <1>2, <2>1, ReplyShape
<1>3. CASE LoginCheck(g) /\ Goto(g, "audit")
  <2>1. InProgress(g) /\ Moves(g, "audit") /\ "audit" \in Steps
    BY <1>3 DEF LoginCheck, At, Steps, Goto
  <2>2. QED
    BY <1>0, <2>1, MoveShape
<1>4. CASE Stores(g)
  BY <1>4, StoresShape DEF After
<1>5. QED
  BY <1>1, <1>2, <1>3, <1>4, HandlerMoves DEF Stayed

\* The store remembers the ids it has had; a statement adds at most the one it names.
LEMMA KnownSteps ==
  ASSUME TypeInv, [Next]_vars
  PROVE  /\ known \subseteq known'
         /\ \/ known' = known
            \/ \E h \in Handlers : Stores(h) /\ known' \subseteq known \cup NewIds(req[h].op)
<1>1. CASE Seeding
  <2>1. known' = known \cup IdsIn(db')
    BY <1>1, SeedingShape, CommitShape DEF Seeding
  <2>2. IdsIn(db') \subseteq known
    BY <1>1, SeedingShape DEF TypeInv
  <2>3. QED
    BY <2>1, <2>2
<1>2. ASSUME NEW h \in Handlers, Stores(h)
      PROVE  known \subseteq known' /\ known' \subseteq known \cup NewIds(req[h].op)
  <2>1. known' = known \cup IdsIn(db')
    BY <1>2, StoresShape, CommitShape DEF Stores
  <2>2. QED
    BY <1>2, <2>1, StoresShape
<1>3. QED
  BY <1>1, <1>2, DbSteps

\* Two requests never create under one id.
LEMMA FreshNext ==
  ASSUME TypeInv, FreshInv, [Next]_vars
  PROVE  FreshInv'
<1>0. \A op \in Requests : op.do \in NewRows => op.on \in Ids
  BY OpShapes DEF NewRows, Ids
<1>1. ASSUME NEW h \in Handlers, NEW op \in Requests, Accept(h, op) PROVE FreshInv'
  <2>1. /\ known' = known /\ ~InProgress(h) /\ req'[h].op = op
        /\ \A g \in Handlers \ {h} : req'[g] = req[g]
    BY <1>1, AcceptShape DEF Accept
  <2>2. IdIsFor(op)
    BY <1>1 DEF Accept
  <2>3. \A g \in Handlers \ {h} : InProgress(g)' => InProgress(g) /\ req'[g] = req[g]
    BY <2>1 DEF InProgress
  <2>4. CASE op.do \in NewRows
    <3>1. op.on \notin known /\ \A g \in Handlers : InProgress(g) => req[g].op.on # op.on
      BY <2>2, <2>4 DEF IdIsFor, NewRows, InProgress
    <3>2. ASSUME NEW g \in Handlers, InProgress(g)'
          PROVE  IF req'[g].op.do \in NewRows
                 THEN req'[g].at = "write" =>
                        /\ req'[g].op.on \notin known'
                        /\ \A f \in Handlers \ {g} : InProgress(f)' => req'[f].op.on # req'[g].op.on
                 ELSE req'[g].op.on \in Ids => req'[g].op.on \in known'
      <4>1. CASE g = h
        BY <2>1, <2>3, <2>4, <3>1, <4>1
      <4>2. CASE g # h
        <5>1. InProgress(g) /\ req'[g] = req[g]
          BY <2>3, <3>2, <4>2
        <5>2. \A f \in Handlers \ {g} : InProgress(f)' =>
                f = h \/ (InProgress(f) /\ req'[f] = req[f])
          BY <2>3
        <5>3. req[g].op.on # op.on
          BY <3>1, <5>1
        <5>4. QED
          BY <2>1, <5>1, <5>2, <5>3 DEF FreshInv, Fresh
      <4>3. QED
        BY <4>1, <4>2
    <3>3. QED
      BY <3>2 DEF FreshInv, Fresh
  <2>5. CASE op.do \notin NewRows
    <3>1. op.on \in Ids => op.on \in known
      BY <2>2, <2>5 DEF IdIsFor, NewRows
    <3>2. ASSUME NEW g \in Handlers, InProgress(g)'
          PROVE  IF req'[g].op.do \in NewRows
                 THEN req'[g].at = "write" =>
                        /\ req'[g].op.on \notin known'
                        /\ \A f \in Handlers \ {g} : InProgress(f)' => req'[f].op.on # req'[g].op.on
                 ELSE req'[g].op.on \in Ids => req'[g].op.on \in known'
      <4>1. CASE g = h
        BY <2>1, <2>5, <3>1, <4>1
      <4>2. CASE g # h
        <5>1. InProgress(g) /\ req'[g] = req[g]
          BY <2>3, <3>2, <4>2
        <5>2. \A f \in Handlers \ {g} : InProgress(f)' =>
                f = h \/ (InProgress(f) /\ req'[f] = req[f])
          BY <2>3
        <5>3. CASE req[g].op.do \in NewRows /\ req[g].at = "write"
          <6>1. req[g].op.on \in Ids /\ req[g].op.on \notin known
            BY <1>0, <5>1, <5>3, ChangeType DEF FreshInv, Fresh, Busy
          <6>2. req[g].op.on # op.on
            BY <3>1, <6>1
          <6>3. QED
            BY <2>1, <5>1, <5>2, <5>3, <6>1, <6>2 DEF FreshInv, Fresh
        <5>4. CASE ~(req[g].op.do \in NewRows /\ req[g].at = "write")
          BY <2>1, <5>1, <5>4 DEF FreshInv
        <5>5. QED
          BY <5>3, <5>4
      <4>3. QED
        BY <4>1, <4>2
    <3>3. QED
      BY <3>2 DEF FreshInv, Fresh
  <2>6. QED
    BY <2>4, <2>5
<1>2. CASE ~\E h \in Handlers, op \in Requests : Accept(h, op)
  <2>1. \A g \in Handlers : InProgress(g)' => InProgress(g) /\ req'[g].op = req[g].op
    BY <1>2, RequestKept
  <2>2. ASSUME NEW g \in Handlers, InProgress(g)', req'[g].op.do \in NewRows, req'[g].at = "write"
        PROVE  /\ req'[g].op.on \notin known'
               /\ \A f \in Handlers \ {g} : InProgress(f)' => req'[f].op.on # req'[g].op.on
    <3>1. InProgress(g) /\ req[g].at = "write" /\ req'[g] = req[g]
      BY <1>2, <2>2, StillAtWrite
    <3>2. Fresh(g)
      BY <2>2, <3>1 DEF FreshInv
    <3>3. req[g].op.on \notin known'
      <4>1. ASSUME NEW h \in Handlers, Stores(h), known' \subseteq known \cup NewIds(req[h].op)
            PROVE  req[g].op.on \notin known'
        <5>1. h # g
          BY <2>2, <4>1, StoresShape DEF After
        <5>2. req[h].op.on # req[g].op.on
          BY <3>2, <4>1, <5>1, StoresDb DEF Fresh
        <5>3. req[g].op.on \notin NewIds(req[h].op)
          BY <5>2 DEF NewIds
        <5>4. QED
          BY <3>2, <4>1, <5>3 DEF Fresh
      <4>2. QED
        BY <3>2, <4>1, KnownSteps DEF Fresh
    <3>4. QED
      BY <2>1, <3>1, <3>2, <3>3 DEF Fresh
  <2>3. ASSUME NEW g \in Handlers, InProgress(g)', req'[g].op.do \notin NewRows,
               req'[g].op.on \in Ids
        PROVE  req'[g].op.on \in known'
    BY <2>1, <2>3, KnownSteps DEF FreshInv
  <2>4. QED
    BY <2>2, <2>3 DEF FreshInv, Fresh
<1>3. QED
  BY <1>1, <1>2

\* The policies that requests have deleted are ones that the store has had.
DeletedKnown == \A c \in done : c.op.do = "policy delete" => c.op.on \in known

\* No step brings a deleted policy back.
LEMMA DeletedNext ==
  ASSUME TypeInv, FreshInv, DeletedKnown, DeletedStaysDeleted, [Next]_vars
  PROVE  DeletedKnown' /\ DeletedStaysDeleted'
<1>1. \A h \in Handlers : Change(h).op = req[h].op
  BY DEF Change
<1>2. ASSUME NEW h \in Handlers, Does(h), req[h].op.do = "policy delete"
      PROVE  Stores(h) /\ req[h].op.on \in known
  <2>1. Stores(h)
    BY <1>2 DEF Does
  <2>2. req[h].op.on \in Ids
    BY <1>2, <2>1, StoresDb, OpShapes DEF Ids
  <2>3. QED
    BY <1>2, <2>1, <2>2, StoresDb DEF FreshInv, NewRows
<1>3. ASSUME NEW c \in done', c.op.do = "policy delete"
      PROVE  /\ c.op.on \in known
             /\ c \in done \/ \E h \in Handlers : Stores(h) /\ Does(h) /\ c = Change(h)
  <2>1. c \in done \/ \E h \in Handlers : Does(h) /\ c = Change(h)
    BY DoneSteps DEF Does
  <2>2. QED
    BY <1>1, <1>2, <1>3, <2>1 DEF DeletedKnown
<1>4. ASSUME NEW c \in done', c.op.do = "policy delete", NEW r \in db'.policies
      PROVE  r.id # c.op.on
  <2>1. CASE db'.policies = db.policies /\ c \in done
    BY <1>4, <2>1 DEF DeletedStaysDeleted
  <2>2. ASSUME NEW h \in Handlers, Stores(h) PROVE r.id # c.op.on
    <3>1. /\ \/ \E x \in db.policies : x.id = r.id
             \/ req[h].op.do = "policy new" /\ r.id = req[h].op.on
          /\ req[h].op.do = "policy delete" => r.id # req[h].op.on
      BY <2>2, StoresDb, StatementPolicies, ZenonT(60)
    <3>2. c \in done \/ c = Change(h)
      BY <2>2 DEF Stores
    <3>3. CASE c = Change(h)
      BY <1>1, <1>4, <3>1, <3>3
    <3>4. CASE c \in done /\ \E x \in db.policies : x.id = r.id
      BY <1>4, <3>4 DEF DeletedStaysDeleted
    <3>5. CASE c \in done /\ req[h].op.do = "policy new" /\ r.id = req[h].op.on
      <4>1. req[h].op.on \notin known
        BY <2>2, <3>5, StoresDb DEF FreshInv, Fresh, NewRows
      <4>2. QED
        BY <1>3, <1>4, <3>5, <4>1
    <3>6. QED
      BY <3>1, <3>2, <3>3, <3>4, <3>5
  <2>3. CASE ~\E h \in Handlers : Stores(h)
    BY <1>3, <1>4, <2>1, <2>3, DbSteps, SeedingShape
  <2>4. QED
    BY <2>2, <2>3
<1>5. QED
  BY <1>3, <1>4, KnownSteps DEF DeletedKnown, DeletedStaysDeleted

\* A policy that was deleted does not come back, also not by an edit that loaded its
\* form before.
THEOREM DeletionsLast == Spec => []DeletedStaysDeleted
<1>1. Init => FreshInv /\ DeletedKnown /\ DeletedStaysDeleted
  BY DEF Init, FreshInv, InProgress, DeletedKnown, DeletedStaysDeleted
<1>2. TypeInv /\ FreshInv /\ [Next]_vars => FreshInv'
  BY FreshNext
<1>3. TypeInv /\ FreshInv /\ (DeletedKnown /\ DeletedStaysDeleted) /\ [Next]_vars
        => (DeletedKnown /\ DeletedStaysDeleted)'
  BY DeletedNext
<1>4. QED
  BY <1>1, <1>2, <1>3, TypeInvariant, PTL DEF Spec

-------------------------------------------------------------------------------
(* Limits.                                                                 *)

LimitsRequest(c) == Submits(c) \/ Deletes(c)

\* Only a statement on the limits is noted as done by a request about them.
LEMMA LimitsDone ==
  ASSUME TypeInv, [Next]_vars, NEW c \in done', LimitsRequest(c)
  PROVE  c \in done \/ \E h \in Handlers : Stores(h) /\ c = Change(h)
<1>1. c \in done \/ \E h \in Handlers : Does(h) /\ c = Change(h)
  BY DoneSteps DEF Does
<1>2. ASSUME NEW h \in Handlers, Does(h), c = Change(h) PROVE Stores(h)
  <2>1. req[h].op.do \in Unrecorded
    BY <1>2 DEF Change, LimitsRequest, Submits, Deletes, Unrecorded
  <2>2. ~LoginCheck(h) \/ req[h].op.do = "login"
    BY DEF LoginCheck, At
  <2>3. QED
    BY <1>2, <2>1, <2>2 DEF Does, Unrecorded
<1>3. QED
  BY <1>1, <1>2

\* What a step does to the limits.
LEMMA LimitsSteps ==
  ASSUME TypeInv, [Next]_vars
  PROVE  \/ /\ db'.limits = db.limits
            /\ \A c \in done' : LimitsRequest(c) => c \in done
         \/ \E h \in Handlers :
              /\ Stores(h) /\ req[h].op.do \in Unrecorded
              /\ done' = done \cup {Change(h)} /\ LimitsAfter(db, req[h].op, db')
<1>1. ASSUME NEW h \in Handlers, Stores(h)
      PROVE  /\ LimitsAfter(db, req[h].op, db')
             /\ done' = done \cup {Change(h)}
             /\ Change(h).op = req[h].op
  BY <1>1, StoresDb, StatementTables DEF Stores, Change
<1>2. ASSUME NEW h \in Handlers, Stores(h), req[h].op.do \notin Unrecorded
      PROVE  /\ db'.limits = db.limits
             /\ \A c \in done' : LimitsRequest(c) => c \in done
  <2>1. ~LimitsRequest(Change(h))
    BY <1>1, <1>2 DEF LimitsRequest, Submits, Deletes, Unrecorded
  <2>2. QED
    BY <1>1, <1>2, <2>1 DEF LimitsAfter
<1>3. CASE ~\E h \in Handlers : Stores(h)
  <2>1. db'.limits = db.limits
    BY <1>3, DbSteps, SeedingShape
  <2>2. QED
    BY <1>3, <2>1, LimitsDone
<1>4. QED
  BY <1>1, <1>2, <1>3

\* The agent of request c has a limits row, with an id that was submitted for it; or a
\* deletion named such an id.
HasRow(c) ==
  \E r \in db.limits, e \in done :
    r.agent = c.op.form.agent /\ Submits(e) /\ e.op.form.agent = r.agent /\ e.op.on = r.id
LostRow(c) ==
  \E e, f \in done :
    Submits(e) /\ e.op.form.agent = c.op.form.agent /\ Deletes(f) /\ f.op.on = e.op.on

\* The inductive form of LimitsKept.
KeptInv == \A c \in done : Submits(c) => HasRow(c) \/ LostRow(c)

\* An upsert replaces no row but that of the agent it names, and a deletion removes no
\* row but the one with its id.
LEMMA KeptNext ==
  ASSUME TypeInv, KeptInv, [Next]_vars
  PROVE  KeptInv'
<1>0. done \subseteq done'
  BY DoneSteps DEF Does
<1>l. \A c \in done : LostRow(c) => LostRow(c)'
  BY <1>0 DEF LostRow, Submits, Deletes
<1>r. ASSUME NEW c \in done, NEW r \in db'.limits, NEW e \in done',
             r.agent = c.op.form.agent, Submits(e), e.op.form.agent = r.agent, e.op.on = r.id
      PROVE  HasRow(c)'
  BY <1>r DEF HasRow, Submits
<1>1. CASE /\ db'.limits = db.limits
           /\ \A c \in done' : LimitsRequest(c) => c \in done
  <2> SUFFICES ASSUME NEW c \in done', Submits(c) PROVE HasRow(c)' \/ LostRow(c)'
    BY DEF KeptInv, Submits
  <2>1. c \in done
    BY <1>1 DEF LimitsRequest
  <2>2. HasRow(c) => HasRow(c)'
    BY <1>0, <1>1 DEF HasRow, Submits
  <2>3. QED
    BY <1>l, <2>1, <2>2 DEF KeptInv
<1>2. ASSUME NEW h \in Handlers, Stores(h), req[h].op.do \in Unrecorded,
             done' = done \cup {Change(h)}, LimitsAfter(db, req[h].op, db')
      PROVE  KeptInv'
  <2>1. PICK x : x = Change(h)
    OBVIOUS
  <2>2. x.op = req[h].op /\ done' = done \cup {x}
    BY <1>2, <2>1 DEF Change
  <2>3. CASE Submits(x)
    <3>1. PICK new : new = [id |-> x.op.on, agent |-> x.op.form.agent, max |-> x.op.form.max]
      OBVIOUS
    <3>2. /\ new.id = x.op.on /\ new.agent = x.op.form.agent
          /\ db'.limits = {r \in db.limits : r.agent # x.op.form.agent} \cup {new}
      BY <1>2, <2>2, <2>3, <3>1 DEF LimitsAfter, Submits
    <3> SUFFICES ASSUME NEW c \in done', Submits(c) PROVE HasRow(c)' \/ LostRow(c)'
      BY DEF KeptInv, Submits
    <3>3. CASE c.op.form.agent = x.op.form.agent
      <4>1. new \in db'.limits /\ x \in done'
        BY <2>2, <3>2
      <4>2. HasRow(c)'
        BY <2>3, <3>2, <3>3, <4>1 DEF HasRow, Submits
      <4>3. QED
        BY <4>2
    <3>4. CASE c.op.form.agent # x.op.form.agent
      <4>1. c \in done
        BY <2>2, <3>4
      <4>2. ASSUME HasRow(c) PROVE HasRow(c)'
        <5>1. PICK r \in db.limits, e \in done :
                /\ r.agent = c.op.form.agent
                /\ Submits(e) /\ e.op.form.agent = r.agent /\ e.op.on = r.id
          BY <4>2 DEF HasRow
        <5>2. r \in db'.limits /\ e \in done'
          BY <1>0, <3>2, <3>4, <5>1
        <5>3. QED
          BY <1>r, <4>1, <5>1, <5>2
      <4>3. QED
        BY <1>l, <4>1, <4>2 DEF KeptInv
    <3>5. QED
      BY <3>3, <3>4
  <2>4. CASE Deletes(x)
    <3>1. db'.limits = {r \in db.limits : r.id # x.op.on} /\ x \in done'
      BY <1>2, <2>2, <2>4 DEF LimitsAfter, Deletes
    <3> SUFFICES ASSUME NEW c \in done', Submits(c) PROVE HasRow(c)' \/ LostRow(c)'
      BY DEF KeptInv, Submits
    <3>2. c \in done
      BY <2>2, <2>4 DEF Submits, Deletes
    <3>3. ASSUME HasRow(c) PROVE HasRow(c)' \/ LostRow(c)'
      <4>1. PICK r \in db.limits, e \in done :
              /\ r.agent = c.op.form.agent
              /\ Submits(e) /\ e.op.form.agent = r.agent /\ e.op.on = r.id
        BY <3>3 DEF HasRow
      <4>2. CASE r.id = x.op.on
        <5>1. e \in done' /\ e.op.form.agent = c.op.form.agent /\ x.op.on = e.op.on
          BY <1>0, <4>1, <4>2
        <5>2. LostRow(c)'
          BY <2>4, <3>1, <4>1, <5>1 DEF LostRow, Submits, Deletes
        <5>3. QED
          BY <5>2
      <4>3. CASE r.id # x.op.on
        <5>1. r \in db'.limits /\ e \in done'
          BY <1>0, <3>1, <4>3
        <5>2. QED
          BY <1>r, <3>2, <4>1, <5>1
      <4>4. QED
        BY <4>2, <4>3
    <3>4. QED
      BY <1>l, <3>2, <3>3 DEF KeptInv
  <2>5. QED
    BY <1>2, <2>2, <2>3, <2>4 DEF Submits, Deletes, Unrecorded
<1>3. QED
  BY <1>1, <1>2, LimitsSteps

\* Limits accepted for an agent go away only by a deletion under an id with which some
\* were submitted for that agent.
THEOREM LimitsStay == Spec => []LimitsKept
<1>1. Init => KeptInv
  BY DEF Init, KeptInv
<1>2. KeptInv => LimitsKept
  BY DEF KeptInv, LimitsKept, HasRow, LostRow
<1>3. QED
  BY <1>1, <1>2, KeptNext, TypeInvariant, PTL DEF Spec

\* The ids of limits that requests have changed are ones that the store has had.
LimitsKnown == \A c \in done : LimitsRequest(c) => c.op.on \in known

Naming(r) == {c \in done : LimitsRequest(c) /\ c.op.on = r.id}

\* No step leaves a row that is not as one request had it.
LEMMA RowsNext ==
  ASSUME TypeInv, FreshInv, LimitsKnown, RowsAsSubmitted, [Next]_vars
  PROVE  LimitsKnown' /\ RowsAsSubmitted'
<1>1. CASE /\ db'.limits = db.limits
           /\ \A c \in done' : LimitsRequest(c) => c \in done
  <2>1. done \subseteq done' /\ known \subseteq known'
    BY DoneSteps, KnownSteps DEF Does
  <2>2. LimitsKnown'
    BY <1>1, <2>1 DEF LimitsKnown, LimitsRequest, Submits, Deletes
  <2>3. \A r \in db.limits : Naming(r)' = Naming(r)
    BY <1>1, <2>1 DEF Naming, LimitsRequest, Submits, Deletes
  <2>4. RowsAsSubmitted'
    BY <1>1, <2>3 DEF RowsAsSubmitted, Naming, LimitsRequest, HasForm
  <2>5. QED
    BY <2>2, <2>4
<1>2. ASSUME NEW h \in Handlers, Stores(h), req[h].op.do \in Unrecorded,
             done' = done \cup {Change(h)}, LimitsAfter(db, req[h].op, db')
      PROVE  LimitsKnown' /\ RowsAsSubmitted'
  <2>0. PICK x : x = Change(h)
    OBVIOUS
  <2>1. x.op = req[h].op /\ done' = done \cup {x} /\ LimitsRequest(x)
    BY <1>2, <2>0 DEF Change, LimitsRequest, Submits, Deletes, Unrecorded
  <2>2. known \subseteq known' /\ IdsIn(db') \subseteq known'
    BY <1>2, StoresShape, CommitShape DEF Stores
  <2>3. x.op.on \in Ids /\ InProgress(h) /\ req[h].at = "write"
    BY <1>2, <2>1, StoresDb, OpShapes DEF Ids, Unrecorded
  <2>4. x.op.do # "limits new" => x.op.on \in known
    BY <1>2, <2>1, <2>3 DEF FreshInv, NewRows, Unrecorded
  <2>5. x.op.do = "limits new" => x.op.on \notin known
    BY <1>2, <2>1, <2>3 DEF FreshInv, NewRows, Fresh
  \* The rows with another id than x names are as before.
  <2>6. ASSUME NEW r \in db.limits, r.id # x.op.on
        PROVE  \/ \E c \in Naming(r)' : c.op.do = "limits edit" /\ HasForm(r, c)
               \/ \E c \in Naming(r)' :
                    c.op.do = "limits new" /\ HasForm(r, c) /\ Naming(r)' = {c}
               \/ Naming(r)' = {} /\ \E s \in Scenarios : r \in s.db.limits
    <3>1. Naming(r)' = Naming(r)
      BY <2>1, <2>6 DEF Naming, LimitsRequest, Submits, Deletes
    <3>2. QED
      BY <3>1 DEF RowsAsSubmitted, Naming, LimitsRequest
  <2>7. CASE Submits(x)
    <3>0. PICK new : new = [id |-> x.op.on, agent |-> x.op.form.agent, max |-> x.op.form.max]
      OBVIOUS
    <3>1. /\ \A r \in db.limits : r.id = x.op.on => r.agent = x.op.form.agent
          /\ db'.limits = {r \in db.limits : r.agent # x.op.form.agent} \cup {new}
      BY <1>2, <2>1, <2>7, <3>0 DEF LimitsAfter, Submits
    <3>2. new.id = x.op.on /\ HasForm(new, x)
      <4>1. x.op \in Requests /\ (x.op.do = "limits new" \/ x.op.do = "limits edit")
        BY <1>2, <2>1, <2>7, StoresDb DEF Submits
      <4>2. x.op.form \in LimitsForms
        BY <4>1, OpShapes
      <4>3. x.op.form = [agent |-> x.op.form.agent, max |-> x.op.form.max]
        BY <4>2 DEF LimitsForms
      <4>4. QED
        BY <3>0, <4>3 DEF HasForm
    <3>3. x \in Naming(new)'
      BY <2>1, <3>2 DEF Naming, LimitsRequest, Submits, Deletes
    <3>4. x.op.do = "limits new" => Naming(new)' = {x}
      BY <2>1, <2>5, <3>2, <3>3 DEF Naming, LimitsKnown, LimitsRequest, Submits, Deletes
    <3>5. ASSUME NEW r \in db'.limits
          PROVE  \/ \E c \in Naming(r)' : c.op.do = "limits edit" /\ HasForm(r, c)
                 \/ \E c \in Naming(r)' :
                      c.op.do = "limits new" /\ HasForm(r, c) /\ Naming(r)' = {c}
                 \/ Naming(r)' = {} /\ \E s \in Scenarios : r \in s.db.limits
      <4>1. CASE r = new
        <5>1. x.op.do = "limits edit" \/ Naming(r)' = {x}
          BY <2>7, <3>4, <4>1 DEF Submits
        <5>2. QED
          BY <2>7, <3>2, <3>3, <4>1, <5>1 DEF Submits
      <4>2. CASE r # new
        <5>1. r \in db.limits /\ r.id # x.op.on
          BY <3>1, <3>5, <4>2
        <5>2. QED
          BY <2>6, <5>1
      <4>3. QED
        BY <4>1, <4>2
    <3>6. RowsAsSubmitted'
      BY <3>5 DEF RowsAsSubmitted, Naming, LimitsRequest, HasForm
    <3>7. x.op.on \in known'
      <4>1. new \in db'.limits
        BY <3>1
      <4>2. QED
        BY <2>2, <3>2, <4>1 DEF IdsIn
    <3>8. LimitsKnown'
      BY <2>1, <2>2, <3>7 DEF LimitsKnown, LimitsRequest, Submits, Deletes
    <3>9. QED
      BY <3>6, <3>8
  <2>8. CASE Deletes(x)
    <3>1. db'.limits = {r \in db.limits : r.id # x.op.on}
      BY <1>2, <2>1, <2>8 DEF LimitsAfter, Deletes
    <3>2. RowsAsSubmitted'
      BY <2>6, <3>1 DEF RowsAsSubmitted, Naming, LimitsRequest, HasForm
    <3>3. x.op.on \in known'
      BY <2>2, <2>4, <2>8 DEF Deletes
    <3>4. LimitsKnown'
      BY <2>1, <2>2, <3>3 DEF LimitsKnown, LimitsRequest, Submits, Deletes
    <3>5. QED
      BY <3>2, <3>4
  <2>9. QED
    BY <2>1, <2>7, <2>8 DEF LimitsRequest
<1>3. QED
  BY <1>1, <1>2, LimitsSteps

\* A limits row is as one request submitted it under its id; one that was deleted comes
\* back only by an edit under that id.
THEOREM LimitsNeverMixed == Spec => []RowsAsSubmitted
<1>1. Init => FreshInv /\ LimitsKnown /\ RowsAsSubmitted
  BY DEF Init, FreshInv, InProgress, LimitsKnown, RowsAsSubmitted
<1>2. TypeInv /\ FreshInv /\ [Next]_vars => FreshInv'
  BY FreshNext
<1>3. TypeInv /\ FreshInv /\ (LimitsKnown /\ RowsAsSubmitted) /\ [Next]_vars
        => (LimitsKnown /\ RowsAsSubmitted)'
  BY RowsNext
<1>4. QED
  BY <1>1, <1>2, <1>3, TypeInvariant, PTL DEF Spec

-------------------------------------------------------------------------------
(* What requests have read.                                                *)

\* The shapes of the moves of HandlerMoves.
LEMMA GoesOnShape ==
  ASSUME TypeInv, NEW g \in Handlers, ReadStep(g), NEW at, GoesOn(g, at), Goto(g, at)
  PROVE  /\ InProgress(g) /\ db \in during[g] /\ during'[g] = during[g]
         /\ req'[g].at = at /\ req'[g].op = req[g].op
         /\ req[g].op \in Requests
         /\ req[g].at = "key" => req[g].op.do \in APIDoings
<1>1. InProgress(g) /\ at \in Steps /\ Moves(g, at) /\ during' = during
  BY ReadShape DEF ReadStep, Goto
<1>2. req'[g].at = at /\ req'[g].op = req[g].op
  BY <1>1, MoveShape DEF TypeInv, TypeOK
<1>3. req[g].op \in Requests
  BY <1>1, ChangeType DEF Busy
<1>4. QED
  BY <1>1, <1>2, <1>3 DEF TypeInv, Timely

\* A step that answers has its reply, and the databases seen so far.
LEMMA AnswerShape ==
  ASSUME TypeInv, NEW g \in Handlers, ReadStep(g), NEW out, Answers(g, out), Reply(g, out)
  PROVE  /\ InProgress(g) /\ db \in during[g] /\ during'[g] = during[g]
         /\ req'[g].at = "reply" /\ req'[g].op = req[g].op /\ req'[g].out = out
         /\ req[g].op \in Requests
         /\ req[g].at = "policies" => req[g].op.do \in Judged
<1>1. InProgress(g) /\ out \in SUBSET Outputs /\ during' = during
  BY ReadShape DEF ReadStep, Reply
<1>2. req'[g].at = "reply" /\ req'[g].op = req[g].op /\ req'[g].out = out
  BY <1>1, ReplyShape DEF TypeInv, TypeOK
<1>3. req[g].op \in Requests
  BY <1>1, ChangeType DEF Busy
<1>4. QED
  BY <1>1, <1>2, <1>3 DEF TypeInv, Timely

\* A login that goes on goes on to its audit line.
LEMMA LoginShape ==
  ASSUME TypeInv, NEW g \in Handlers, LoginCheck(g), Goto(g, "audit")
  PROVE  req'[g].at = "audit" /\ req'[g].op.do = "login"
<1>1. InProgress(g) /\ "audit" \in Steps /\ Moves(g, "audit") /\ req[g].op.do = "login"
  BY DEF LoginCheck, At, Steps, Goto
<1>2. QED
  BY <1>1, MoveShape DEF TypeInv, TypeOK

\* Requests of the API, and the gateway's, begin with their key.
LEMMA ArrivalShape ==
  ASSUME TypeInv, NEW g \in Handlers, NEW op \in Requests, Accept(g, op)
  PROVE  /\ req'[g].op = op /\ req'[g].at = FirstStep(op)
         /\ op.do \in APIDoings => req'[g].at = "key"
         /\ op.do = "password" => req'[g].at = "read"
<1>1. req'[g].op = op /\ req'[g].at = FirstStep(op)
  BY AcceptShape
<1>2. op.do \in APIDoings => FirstStep(op) = "key"
  BY APIShapes DEF FirstStep, APIDoings
<1>3. op.do = "password" => FirstStep(op) = "read"
  <2>1. op.do = "password" => op \notin APIRequests
    BY APIShapes DEF APIDoings
  <2>2. QED
    BY <2>1 DEF FirstStep
<1>4. QED
  BY <1>1, <1>2, <1>3

\* A key that may be used is in force.
LEMMA MayUseInForce ==
  ASSUME NEW op, MayUse(op) # {}
  PROVE  InForce(db, op)
BY DEF MayUse, InForce, GetAPIKeyByHash

\* Every step of a request past its key check finds its key in force meanwhile.
LEMMA KeysNext ==
  ASSUME TypeInv, KeysAuthorise, [Next]_vars
  PROVE  KeysAuthorise'
<1> DEFINE TokenInForce(d) == \E k \in d.keys : k.id = GatewayToken /\ ~k.revoked
           Good(D, op, at) ==
             /\ \E d \in D : InForce(d, op)
             /\ op.do = "remote tool" /\ at # "token" => \E d \in D : TokenInForce(d)
<1>0. KeysAuthorise <=> \A h \in Handlers :
        InProgress(h) /\ req[h].op \in APIRequests /\ req[h].at # "key"
          => Good(during[h], req[h].op, req[h].at)
  BY DEF KeysAuthorise
<1>1. ASSUME NEW g \in Handlers, InProgress(g)', req'[g].op \in APIRequests, req'[g].at # "key"
      PROVE  Good(during'[g], req'[g].op, req'[g].at)
  <2>0. req'[g].op \in Requests /\ req'[g].op.do \in APIDoings
    <3>1. APIRequests \subseteq Requests
      BY DEF Requests
    <3>2. QED
      BY <1>1, <3>1, APIShapes
  <2>1. ASSUME NEW op \in Requests, Accept(g, op) PROVE FALSE
    BY <1>1, <2>0, <2>1, ArrivalShape
  <2>2. CASE Stayed(g)
    <3>1. Good(during[g], req[g].op, req[g].at)
      BY <1>0, <1>1, <2>2 DEF Stayed
    <3>2. during[g] \subseteq during'[g] /\ req'[g] = req[g]
      BY <2>2 DEF Stayed
    <3>3. QED
      BY <3>1, <3>2
  <2>3. ASSUME NEW at, ReadStep(g), GoesOn(g, at), Goto(g, at)
        PROVE  Good(during'[g], req'[g].op, req'[g].at)
    <3>1. /\ InProgress(g) /\ db \in during[g] /\ during'[g] = during[g]
          /\ req'[g].at = at /\ req'[g].op = req[g].op
      BY <2>3, GoesOnShape
    <3>2. CASE req[g].at = "key" /\ at = AfterKey(req[g].op) /\ MayUse(req[g].op) # {}
      <4>1. InForce(db, req[g].op)
        BY <3>2, MayUseInForce
      <4>2. req[g].op.do = "remote tool" => at = "token"
        BY <3>2 DEF AfterKey
      <4>3. QED
        BY <3>1, <4>1, <4>2
    <3>3. CASE /\ At(g, "remote tool", "token") /\ at = "policies"
               /\ \E k \in GetAPIKeyByHash(db, GatewayToken) : ~k.revoked
      <4>1. Good(during[g], req[g].op, req[g].at)
        BY <1>0, <1>1, <3>1, <3>3 DEF At
      <4>2. TokenInForce(db)
        BY <3>3 DEF GetAPIKeyByHash
      <4>3. QED
        BY <3>1, <4>1, <4>2
    <3>4. CASE At(g, "limits check", "specific")
      <4>1. Good(during[g], req[g].op, req[g].at) /\ req[g].op.do = "limits check"
        BY <1>0, <1>1, <3>1, <3>4 DEF At
      <4>2. QED
        BY <3>1, <4>1
    <3>5. req'[g].op.do \notin {"register", "password"}
      BY <2>0 DEF APIDoings
    <3>6. QED
      BY <2>3, <3>1, <3>2, <3>3, <3>4, <3>5 DEF GoesOn
  <2>4. ASSUME NEW out, ReadStep(g), Answers(g, out), Reply(g, out)
        PROVE  Good(during'[g], req'[g].op, req'[g].at)
    <3>1. InProgress(g) /\ during'[g] = during[g] /\ req'[g].op = req[g].op
      BY <2>4, AnswerShape
    <3>2. req[g].at \in {"policies", "specific", "global"}
      BY <2>4 DEF Answers, At
    <3>3. Good(during[g], req[g].op, req[g].at)
      BY <1>0, <1>1, <3>1, <3>2
    <3>4. QED
      BY <3>1, <3>2, <3>3
  <2>5. CASE LoginCheck(g) /\ Goto(g, "audit")
    BY <2>0, <2>5, LoginShape DEF APIDoings
  <2>6. CASE Stores(g)
    <3>1. req'[g].op.do \in Writing
      BY <2>6, StoresShape, StoresDb
    <3>2. QED
      BY <2>0, <3>1 DEF Writing, Unrecorded, APIDoings
  <2>7. QED
    BY <1>1, <2>1, <2>2, <2>3, <2>4, <2>5, <2>6, HandlerMoves
<1>2. QED
  BY <1>1 DEF KeysAuthorise

\* Nothing goes past a key check with a key that was not in force, for what is asked,
\* at some moment of the request.
THEOREM KeysInForce == Spec => []KeysAuthorise
<1>1. Init => KeysAuthorise
  BY DEF Init, KeysAuthorise, InProgress
<1>2. TypeInv /\ KeysAuthorise /\ [Next]_vars => KeysAuthorise'
  BY KeysNext
<1>3. QED
  BY <1>1, <1>2, TypeInvariant, PTL DEF Spec

\* Every verdict handed out was that of a database of its time.
LEMMA PolicyNext ==
  ASSUME TypeInv, PolicyDecides, [Next]_vars
  PROVE  PolicyDecides'
<1> DEFINE Good(D, op, out) == \E d \in D : out \subseteq Verdicts(d.policies, op.source, op.target)
<1>0. ASSUME NEW g \in Handlers, InProgress(g), req[g].at = "reply", req[g].op.do \in Judged
      PROVE  Good(during[g], req[g].op, req[g].out)
  BY <1>0 DEF PolicyDecides, Judged
<1>1. ASSUME NEW g \in Handlers, InProgress(g)', req'[g].at = "reply", req'[g].op.do \in Judged
      PROVE  Good(during'[g], req'[g].op, req'[g].out)
  <2>1. ASSUME NEW op \in Requests, Accept(g, op) PROVE FALSE
    BY <1>1, <2>1, ArrivalShape DEF Judged, APIDoings
  <2>2. CASE Stayed(g)
    <3>1. Good(during[g], req[g].op, req[g].out)
      BY <1>0, <1>1, <2>2 DEF Stayed
    <3>2. during[g] \subseteq during'[g] /\ req'[g] = req[g]
      BY <2>2 DEF Stayed
    <3>3. QED
      BY <3>1, <3>2
  <2>3. ASSUME NEW at, ReadStep(g), GoesOn(g, at), Goto(g, at) PROVE FALSE
    <3>1. at = "reply" /\ req[g].op.do \in Judged
      BY <1>1, <2>3, GoesOnShape
    <3>2. QED
      BY <2>3, <3>1 DEF GoesOn, AfterKey, Judged
  <2>4. ASSUME NEW out, ReadStep(g), Answers(g, out), Reply(g, out)
        PROVE  Good(during'[g], req'[g].op, req'[g].out)
    <3>1. /\ db \in during[g] /\ during'[g] = during[g]
          /\ req'[g].op = req[g].op /\ req'[g].out = out
      BY <2>4, AnswerShape
    <3>2. req[g].op.do # "limits check"
      BY <1>1, <3>1 DEF Judged
    <3>3. PICK a \in Evaluate(db.policies, req[g].op.source, req[g].op.target) : out = {a}
      BY <2>4, <3>2 DEF Answers, At
    <3>4. IsFiniteSet(db.policies) /\ \A p \in db.policies : p.form.priority \in Int
      BY StoreAssumption DEF TypeInv, TypeOK, Databases
    <3>5. out \subseteq Verdicts(db.policies, req[g].op.source, req[g].op.target)
      BY <3>3, <3>4, EvaluateIsVerdict
    <3>6. QED
      BY <3>1, <3>5
  <2>5. CASE LoginCheck(g) /\ Goto(g, "audit")
    BY <1>1, <2>5, LoginShape
  <2>6. CASE Stores(g)
    <3>1. req'[g].op.do \in Writing
      BY <2>6, StoresShape, StoresDb
    <3>2. QED
      BY <1>1, <3>1 DEF Writing, Unrecorded, Judged
  <2>7. QED
    BY <1>1, <2>1, <2>2, <2>3, <2>4, <2>5, <2>6, HandlerMoves
<1>2. QED
  BY <1>1 DEF PolicyDecides, Judged

\* What Evaluate answers is what the policies said at some moment of the request.
THEOREM PoliciesDecide == Spec => []PolicyDecides
<1>1. Init => PolicyDecides
  BY DEF Init, PolicyDecides, InProgress
<1>2. TypeInv /\ PolicyDecides /\ [Next]_vars => PolicyDecides'
  BY PolicyNext
<1>3. QED
  BY <1>1, <1>2, TypeInvariant, PTL DEF Spec

\* What a handler between two statements has seen: no limits of the agent before it
\* asks for the global ones, and the password that it was given before it stores
\* another.
ReadInv ==
  \A h \in Handlers : InProgress(h) =>
    /\ req[h].op.do = "limits check" /\ req[h].at = "global" =>
         \E d \in during[h] : LimitsOf(d, req[h].op.agent) = {}
    /\ req[h].op.do = "password" /\ req[h].at = "write" =>
         \E d \in during[h] : req[h].op.on \in d.users

\* Every step keeps what the reads between two statements rest on.
LEMMA ReadNext ==
  ASSUME TypeInv, ReadInv, [Next]_vars
  PROVE  ReadInv'
<1> DEFINE NoLimits(D, op) == \E d \in D : LimitsOf(d, op.agent) = {}
           Given(D, op) == \E d \in D : op.on \in d.users
           Good(D, op, at) ==
             /\ op.do = "limits check" /\ at = "global" => NoLimits(D, op)
             /\ op.do = "password" /\ at = "write" => Given(D, op)
<1>0. ASSUME NEW g \in Handlers, InProgress(g) PROVE Good(during[g], req[g].op, req[g].at)
  BY <1>0 DEF ReadInv
<1>1. ASSUME NEW g \in Handlers, InProgress(g)'
      PROVE  Good(during'[g], req'[g].op, req'[g].at)
  <2>1. ASSUME NEW op \in Requests, Accept(g, op)
        PROVE  Good(during'[g], req'[g].op, req'[g].at)
    BY <2>1, ArrivalShape DEF APIDoings
  <2>2. CASE Stayed(g)
    <3>1. Good(during[g], req[g].op, req[g].at)
      BY <1>0, <2>2 DEF Stayed
    <3>2. during[g] \subseteq during'[g] /\ req'[g] = req[g]
      BY <2>2 DEF Stayed
    <3>3. QED
      BY <3>1, <3>2
  <2>3. ASSUME NEW at, ReadStep(g), GoesOn(g, at), Goto(g, at)
        PROVE  Good(during'[g], req'[g].op, req'[g].at)
    <3>1. /\ db \in during[g] /\ during'[g] = during[g] /\ req'[g].at = at
          /\ req'[g].op = req[g].op
          /\ req[g].at = "key" => req[g].op.do \in APIDoings
      BY <2>3, GoesOnShape
    <3>2. req[g].op.do = "limits check" /\ at = "global" => LimitsOf(db, req[g].op.agent) = {}
      BY <2>3, <3>1 DEF GoesOn, AfterKey, APIDoings
    <3>3. req[g].op.do = "password" /\ at = "write" => req[g].op.on \in db.users
      BY <2>3, <3>1 DEF GoesOn, AfterKey, APIDoings
    <3>4. QED
      BY <3>1, <3>2, <3>3
  <2>4. ASSUME NEW out, ReadStep(g), Answers(g, out), Reply(g, out)
        PROVE  Good(during'[g], req'[g].op, req'[g].at)
    BY <2>4, AnswerShape
  <2>5. CASE LoginCheck(g) /\ Goto(g, "audit")
    BY <2>5, LoginShape
  <2>6. CASE Stores(g)
    <3>1. req'[g].at \in {"audit", "reply"}
      BY <2>6, StoresShape DEF After
    <3>2. QED
      BY <3>1
  <2>7. QED
    BY <1>1, <2>1, <2>2, <2>3, <2>4, <2>5, <2>6, HandlerMoves
<1>2. QED
  BY <1>1 DEF ReadInv

\* What a handler read before it goes on was so at a moment of its request.
LEMMA ReadInvariant == Spec => []ReadInv
<1>1. Init => ReadInv
  BY DEF Init, ReadInv, InProgress
<1>2. TypeInv /\ ReadInv /\ [Next]_vars => ReadInv'
  BY ReadNext
<1>3. QED
  BY <1>1, <1>2, TypeInvariant, PTL DEF Spec

\* Every limits answer is that of the databases of its time.
LEMMA LimitsNext ==
  ASSUME TypeInv, ReadInv, LimitsAnswer, [Next]_vars
  PROVE  LimitsAnswer'
<1> DEFINE Held(D, b) == {LimitsOf(d, b) : d \in D}
           Good(D, op, out) ==
             /\ out # {} => out \in Held(D, op.agent) \cup Held(D, Wildcard)
             /\ out = {} => {} \in Held(D, op.agent) /\ {} \in Held(D, Wildcard)
             /\ {} \notin Held(D, op.agent) => out \in Held(D, op.agent)
<1>0. ASSUME NEW g \in Handlers, InProgress(g), req[g].at = "reply",
             req[g].op.do = "limits check"
      PROVE  Good(during[g], req[g].op, req[g].out)
  BY <1>0 DEF LimitsAnswer
<1>1. ASSUME NEW g \in Handlers, InProgress(g)', req'[g].at = "reply",
             req'[g].op.do = "limits check"
      PROVE  Good(during'[g], req'[g].op, req'[g].out)
  <2>1. ASSUME NEW op \in Requests, Accept(g, op) PROVE FALSE
    BY <1>1, <2>1, ArrivalShape DEF APIDoings
  <2>2. CASE Stayed(g)
    <3>1. Good(during[g], req[g].op, req[g].out)
      BY <1>0, <1>1, <2>2 DEF Stayed
    <3>2. during[g] \subseteq during'[g] /\ req'[g] = req[g]
      BY <2>2 DEF Stayed
    <3>3. \A b : Held(during[g], b) \subseteq Held(during'[g], b)
      BY <3>2
    <3> HIDE DEF Held
    <3>4. QED
      BY <3>1, <3>2, <3>3
  <2>3. ASSUME NEW at, ReadStep(g), GoesOn(g, at), Goto(g, at) PROVE FALSE
    <3>1. at = "reply" /\ req[g].op.do = "limits check"
      BY <1>1, <2>3, GoesOnShape
    <3>2. QED
      BY <2>3, <3>1 DEF GoesOn, AfterKey
  <2>4. ASSUME NEW out, ReadStep(g), Answers(g, out), Reply(g, out)
        PROVE  Good(during'[g], req'[g].op, req'[g].out)
    <3>1. /\ InProgress(g) /\ db \in during[g] /\ during'[g] = during[g]
          /\ req'[g].op = req[g].op /\ req'[g].out = out
          /\ req[g].at = "policies" => req[g].op.do \in Judged
      BY <2>4, AnswerShape
    <3>2. \A b : LimitsOf(db, b) \in Held(during[g], b)
      BY <3>1
    <3>3. CASE req[g].at = "specific" /\ out # {} /\ out = LimitsOf(db, req[g].op.agent)
      <4>1. out \in Held(during[g], req[g].op.agent)
        BY <3>2, <3>3
      <4> HIDE DEF Held
      <4>2. QED
        BY <3>1, <3>3, <4>1
    <3>4. CASE req[g].at = "global" /\ out = LimitsOf(db, Wildcard)
      <4>1. out \in Held(during[g], Wildcard)
        BY <3>2, <3>4
      <4>2. {} \in Held(during[g], req[g].op.agent)
        <5>1. PICK d \in during[g] : LimitsOf(d, req[g].op.agent) = {}
          BY <1>1, <3>1, <3>4 DEF ReadInv
        <5>2. QED
          BY <5>1
      <4> HIDE DEF Held
      <4>3. QED
        BY <3>1, <4>1, <4>2
    <3>5. req[g].at # "policies"
      BY <1>1, <3>1 DEF Judged
    <3>6. QED
      BY <2>4, <3>3, <3>4, <3>5 DEF Answers, At
  <2>5. CASE LoginCheck(g) /\ Goto(g, "audit")
    BY <1>1, <2>5, LoginShape
  <2>6. CASE Stores(g)
    <3>1. req'[g].op.do \in Writing
      BY <2>6, StoresShape, StoresDb
    <3>2. QED
      BY <1>1, <3>1 DEF Writing, Unrecorded
  <2>7. QED
    BY <1>1, <2>1, <2>2, <2>3, <2>4, <2>5, <2>6, HandlerMoves
<1>2. QED
  BY <1>1 DEF LimitsAnswer

\* The limits that a gateway is given, by two queries, stood in the store; the agent's
\* own win if they were there all the time.
THEOREM LimitsAreHeld == Spec => []LimitsAnswer
<1>1. Init => LimitsAnswer
  BY DEF Init, LimitsAnswer, InProgress
<1>2. TypeInv /\ ReadInv /\ LimitsAnswer /\ [Next]_vars => LimitsAnswer'
  BY LimitsNext
<1>3. QED
  BY <1>1, <1>2, TypeInvariant, ReadInvariant, PTL DEF Spec

\* The password of a user changes only by a request that was given one that was stored.
THEOREM PasswordsChangedByOwner == Spec => PasswordChange
<1>1. ASSUME TypeInv, ReadInv, [Next]_vars, db.users \notin {{}, db'.users}
      PROVE  \E h \in Handlers : /\ At(h, "password", "write")
                                 /\ \E d \in during[h] : req[h].op.on \in d.users
  <2>1. ~Seeding
    BY <1>1, SeedingShape DEF Seeding
  <2>2. PICK h \in Handlers : Stores(h)
    BY <1>1, <2>1, DbSteps
  <2>3. InProgress(h) /\ req[h].at = "write" /\ UsersAfter(db, req[h].op, db')
    BY <1>1, <2>2, StoresDb, StatementTables
  <2>4. req[h].op.do = "password"
    BY <1>1, <2>3 DEF UsersAfter
  <2>5. QED
    BY <1>1, <2>3, <2>4 DEF ReadInv, At
<1>2. TypeInv /\ ReadInv /\ [Next]_vars =>
        [db.users \notin {{}, db'.users} =>
           \E h \in Handlers : At(h, "password", "write")
                              /\ \E d \in during[h] : req[h].op.on \in d.users]_vars
  BY <1>1
<1>3. QED
  BY <1>2, TypeInvariant, ReadInvariant, PTL DEF Spec, PasswordChange

===============================================================================
