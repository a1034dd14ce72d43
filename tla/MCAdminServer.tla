----------------------------- MODULE MCAdminServer -----------------------------
(***************************************************************************)
(* Small instances of AdminServer for TLC.                                 *)
(***************************************************************************)
EXTENDS AdminServer, TLC

CONSTANTS a1, a2, p1, p2, k1, k2, k3, l1, l2, changeme, secret, lo, hi

Form(s, t, both, action, priority) ==
  [src |-> s, tgt |-> t, both |-> both, action |-> action, priority |-> priority]

DenyAll == Form(Wildcard, Wildcard, FALSE, "deny", 1)
AllowBack == Form(a2, a1, TRUE, "allow", 2)
DenyA1 == Form(a1, Wildcard, FALSE, "deny", 2)
Forms == {DenyAll, AllowBack, DenyA1}

Seeded == [EmptyDb EXCEPT !.org = TRUE, !.users = {changeme}]
Key(i, role, a) == [id |-> i, role |-> role, agent |-> a, revoked |-> FALSE]
WithKeys == [Seeded EXCEPT !.keys = {Key(k1, "agent", a1), Key(k2, "operator", NoAgent)}]

\* Starting points, and what clients do there.
FirstRun == [db |-> EmptyDb, traffic |-> {"login", "password"}]
Users == [db |-> Seeded, traffic |-> {"login", "logout", "password", "register"}]
Registry == [db |-> Seeded, traffic |-> {"register", "status"}]
Keys == [db |-> WithKeys,
         traffic |-> {"key new", "key revoke", "auth", "evaluate", "ingest", "remote tool"}]
Deciding ==
  [db |-> [WithKeys EXCEPT !.policies = {[id |-> p1, form |-> DenyAll]}],
   traffic |-> {"policy new", "policy edit", "policy delete", "tool"}]
Limiting ==
  [db |-> [WithKeys EXCEPT !.limits = {[id |-> l1, agent |-> Wildcard, max |-> lo]}],
   traffic |-> {"limits new", "limits edit", "limits delete", "limits check"}]

Starts == {FirstRun, Users, Registry, Keys, Deciding, Limiting}

Symmetry == Permutations(Handlers)
===============================================================================
