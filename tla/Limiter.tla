-------------------------------- MODULE Limiter --------------------------------
(***************************************************************************)
(* internal/gateway/limiter.go: the EmbeddedLimitEnforcer.                 *)
(*                                                                         *)
(* Every method starts with effectiveLimits, which looks an agent's limits *)
(* up in a cache and, on a miss, fetches them from the admin store with no *)
(* lock held.  CheckSend then takes the agent's rate bucket, a sliding     *)
(* window of send times, and checks and records the send under the         *)
(* bucket's lock.  Both maps stop growing at MaxEntries.                   *)
(*                                                                         *)
(* A limits row is reduced to its max_send_per_min, where 0 is unlimited.  *)
(* Body size is a check of the call's own argument and is left out.  Time  *)
(* is a count of ticks.                                                    *)
(***************************************************************************)
EXTENDS Integers, FiniteSets

CONSTANTS
  Agents,      \* the agent ids that calls name
  Everyone,    \* "*", the agent of the row for agents without one of their own
  Callers,     \* concurrent calls of the enforcer
  Limits,      \* the values an administrator may configure
  Window,      \* the minute of the rate limit, in ticks
  CacheTTL,    \* lifetime of a cache entry, in ticks
  MaxEntries,  \* maxMapEntries, the ceiling of both maps
  MaxFetch,    \* the longest that a fetch takes, in ticks
  FetchFails,  \* whether the store may return an error
  MaxTime,     \* bound: the last tick
  MaxSends,    \* bound: sends of all agents
  MaxChanges,  \* bound: changes of the limits rows
  StartRows    \* bound: the limits rows that the admin store may begin with

Owners == Agents \cup {Everyone}
NoRow == -1

ASSUME LimiterAssumption ==
  /\ Limits \subseteq Nat
  /\ Window \in Nat \ {0}
  /\ CacheTTL \in Nat
  /\ MaxEntries \in Nat
  /\ MaxFetch \in Nat
  /\ FetchFails \in BOOLEAN
  /\ MaxTime \in Nat
  /\ MaxSends \in Nat
  /\ MaxChanges \in Nat
  /\ StartRows \subseteq [Owners -> Limits \cup {NoRow}]

VARIABLES
  now,       \* the clock
  row,       \* the admin store: the limits row of each owner, or NoRow
  changes,   \* how often one was changed
  had,       \* history: the <<tick, row>> pairs of each owner's row so far
  cache,     \* e.cache: agents to [limit, at]
  rate,      \* e.rate: agents to the sends in their bucket
  call,      \* control state of each call
  admitted   \* history: every send CheckSend allowed, numbered per agent

storeVars == <<row, changes, had>>
vars == <<now, storeVars, cache, rate, call, admitted>>

Sends == [at : Nat, no : Nat, limit : Nat]

Idle == [at |-> "idle"]
Busy == [at : {"fetch", "fallback", "put", "check", "kept", "throwaway"},
         agent : Agents, limit : Nat, begun : Nat]

Init ==
  /\ now = 0
  /\ row \in StartRows
  /\ changes = 0
  /\ had = [o \in Owners |-> {<<0, row[o]>>}]
  /\ cache = << >>
  /\ rate = << >>
  /\ call = [c \in Callers |-> Idle]
  /\ admitted = [a \in Agents |-> {}]

TypeOK ==
  /\ now \in Nat
  /\ row \in [Owners -> Limits \cup {NoRow}]
  /\ changes \in Nat
  /\ had \in [Owners -> SUBSET (Nat \X (Limits \cup {NoRow}))]
  /\ DOMAIN cache \subseteq Agents
  /\ \A a \in DOMAIN cache : cache[a] \in [limit : Nat, at : Nat]
  /\ DOMAIN rate \subseteq Agents
  /\ \A a \in DOMAIN rate : rate[a] \subseteq Sends
  /\ call \in [Callers -> Busy \cup {Idle}]
  /\ admitted \in [Agents -> SUBSET Sends]

-------------------------------------------------------------------------------
(* The clock and the administrator.                                        *)

Fetching(c) == call[c].at \in {"fetch", "fallback", "put"}

\* A fetch in progress ends within MaxFetch ticks.
Tick ==
  /\ now < MaxTime
  /\ \A c \in Callers : Fetching(c) => now < call[c].begun + MaxFetch
  /\ now' = now + 1
  /\ had' = [o \in Owners |-> had[o] \cup {<<now + 1, row[o]>>}]
  /\ UNCHANGED <<row, changes, cache, rate, call, admitted>>

\* An administrator adds, edits or deletes a row.
SetRow(o, n) ==
  /\ changes < MaxChanges
  /\ n # row[o]
  /\ changes' = changes + 1
  /\ row' = [row EXCEPT ![o] = n]
  /\ had' = [had EXCEPT ![o] = @ \cup {<<now, n>>}]
  /\ UNCHANGED <<now, cache, rate, call, admitted>>

-------------------------------------------------------------------------------
(* effectiveLimits, the beginning of every call.                           *)

With(f, a, v) == [x \in DOMAIN f \cup {a} |-> IF x = a THEN v ELSE f[x]]

\* (Variant: a cached entry never expires.)
CachedForever(a) == a \in DOMAIN cache

Fresh(a) == a \in DOMAIN cache /\ now - cache[a].at < CacheTTL

Begin(c, a) ==
  /\ call[c] = Idle
  /\ call' = [call EXCEPT ![c] =
       IF Fresh(a)
       THEN [at |-> "check", agent |-> a, limit |-> cache[a].limit, begun |-> now]
       ELSE [at |-> "fetch", agent |-> a, limit |-> 0, begun |-> now]]
  /\ UNCHANGED <<now, storeVars, cache, rate, admitted>>

Fetched(c, l) == call' = [call EXCEPT ![c].at = "put", ![c].limit = l]

\* The first query, for the agent's own row.  The error of the store is ignored, and
\* its nil means no limits.
Fetch(c) ==
  /\ call[c].at = "fetch"
  /\ LET n == row[call[c].agent] IN
       \/ n # NoRow /\ Fetched(c, n)
       \/ n = NoRow /\ call' = [call EXCEPT ![c].at = "fallback"]
       \/ FetchFails /\ Fetched(c, 0)
  /\ UNCHANGED <<now, storeVars, cache, rate, admitted>>

LimitOf(n) == IF n = NoRow THEN 0 ELSE n

\* The second query, for the row for everyone; without one the limits are nil too.
FallBack(c) ==
  /\ call[c].at = "fallback"
  /\ Fetched(c, LimitOf(row[Everyone])) \/ (FetchFails /\ Fetched(c, 0))
  /\ UNCHANGED <<now, storeVars, cache, rate, admitted>>

\* (Variant: the ceiling of the cache is not checked.)
AlwaysRoom(f) == DOMAIN f \subseteq Agents

\* At the ceiling not even an existing entry is replaced.
HasRoom(f) == Cardinality(DOMAIN f) < MaxEntries

Put(c) ==
  /\ call[c].at = "put"
  /\ cache' = IF HasRoom(cache)
              THEN With(cache, call[c].agent, [limit |-> call[c].limit, at |-> now])
              ELSE cache
  /\ call' = [call EXCEPT ![c].at = "check"]
  /\ UNCHANGED <<now, storeVars, rate, admitted>>

\* CheckPendingTasks, GetStreamMaxLen and GetEffectiveLimits read the limits and return.
Return(c) ==
  /\ call[c].at = "check"
  /\ call' = [call EXCEPT ![c] = Idle]
  /\ UNCHANGED <<now, storeVars, cache, rate, admitted>>

-------------------------------------------------------------------------------
(* CheckSend.                                                              *)

\* Bound: one more send may start.
MaySend ==
  Cardinality(UNION {{a} \X admitted[a] : a \in Agents})
    + Cardinality({c \in Callers : call[c].at \in {"kept", "throwaway"}})
  < MaxSends

Sent(c) ==
  [at |-> now, no |-> Cardinality(admitted[call[c].agent]), limit |-> call[c].limit]

Admit(c) ==
  /\ admitted' = [admitted EXCEPT ![call[c].agent] = @ \cup {Sent(c)}]
  /\ call' = [call EXCEPT ![c] = Idle]

\* Without a limit no bucket is touched: the send is not recorded.
SendUnlimited(c) ==
  /\ call[c].at = "check"
  /\ call[c].limit = 0
  /\ MaySend
  /\ Admit(c)
  /\ UNCHANGED <<now, storeVars, cache, rate>>

\* bucket(): the agent's bucket, a new one, or a throwaway at the ceiling.
GetBucket(c) ==
  /\ call[c].at = "check"
  /\ call[c].limit > 0
  /\ MaySend
  /\ LET a == call[c].agent IN
       \/ /\ a \in DOMAIN rate
          /\ call' = [call EXCEPT ![c].at = "kept"]
          /\ UNCHANGED rate
       \/ /\ a \notin DOMAIN rate
          /\ HasRoom(rate)
          /\ rate' = With(rate, a, {})
          /\ call' = [call EXCEPT ![c].at = "kept"]
       \/ /\ a \notin DOMAIN rate
          /\ ~HasRoom(rate)
          /\ call' = [call EXCEPT ![c].at = "throwaway"]
          /\ UNCHANGED rate
  /\ UNCHANGED <<now, storeVars, cache, admitted>>

Recent(S) == {x \in S : x.at > now - Window}

\* (Variant: the comparison of CheckPendingTasks, which lets one more through.)
BelowOrAt(n, limit) == n <= limit

Below(n, limit) == n < limit

\* (Variant: the send times are counted and not appended.)
TryRecordForgets(c) ==
  LET fresh == Recent(rate[call[c].agent]) IN
  /\ call[c].at = "kept"
  /\ IF Below(Cardinality(fresh), call[c].limit)
     THEN Admit(c)
     ELSE call' = [call EXCEPT ![c] = Idle] /\ UNCHANGED admitted
  /\ rate' = [rate EXCEPT ![call[c].agent] = fresh]
  /\ UNCHANGED <<now, storeVars, cache>>

\* tryRecord, one critical section: drop what left the window, count, append.
TryRecord(c) ==
  LET a == call[c].agent
      fresh == Recent(rate[a])
  IN
  /\ call[c].at = "kept"
  /\ IF Below(Cardinality(fresh), call[c].limit)
     THEN Admit(c) /\ rate' = [rate EXCEPT ![a] = fresh \cup {Sent(c)}]
     ELSE /\ rate' = [rate EXCEPT ![a] = fresh]
          /\ call' = [call EXCEPT ![c] = Idle]
          /\ UNCHANGED admitted
  /\ UNCHANGED <<now, storeVars, cache>>

\* The empty throwaway bucket admits every send.
RecordThrowaway(c) ==
  /\ call[c].at = "throwaway"
  /\ Admit(c)
  /\ UNCHANGED <<now, storeVars, cache, rate>>

Next ==
  \/ Tick
  \/ \E o \in Owners, n \in Limits \cup {NoRow} : SetRow(o, n)
  \/ \E c \in Callers, a \in Agents : Begin(c, a)
  \/ \E c \in Callers : Fetch(c)
  \/ \E c \in Callers : FallBack(c)
  \/ \E c \in Callers : Put(c)
  \/ \E c \in Callers : Return(c)
  \/ \E c \in Callers : SendUnlimited(c)
  \/ \E c \in Callers : GetBucket(c)
  \/ \E c \in Callers : TryRecord(c)
  \/ \E c \in Callers : RecordThrowaway(c)

Spec == Init /\ [][Next]_vars

-------------------------------------------------------------------------------
(* Properties.                                                             *)

\* The limited sends of the agent in the window that ends with send x.
InWindowOf(a, x) ==
  {y \in admitted[a] : y.limit > 0 /\ y.no <= x.no /\ y.at > x.at - Window}

\* The rate limit holds under concurrent calls and changing limits: every send that
\* was checked against a limit is within it, counting the limited sends of the
\* minute before it, as long as the agent has a bucket of its own.
RateLimited ==
  \A a \in DOMAIN rate : \A x \in admitted[a] :
    x.limit > 0 => Cardinality(InWindowOf(a, x)) <= x.limit

\* What RateLimited rests on: a bucket misses no limited send of the last minute, and
\* only an agent that found no room has sent through throwaway buckets.
BucketInv ==
  /\ \A a \in Agents :
       /\ IsFiniteSet(admitted[a])
       /\ \A x \in admitted[a] : x.no < Cardinality(admitted[a])
       /\ IF a \in DOMAIN rate
          THEN /\ IsFiniteSet(rate[a])
               /\ {x \in Recent(admitted[a]) : x.limit > 0} \subseteq rate[a]
          ELSE (\E x \in admitted[a] : x.limit > 0) => ~HasRoom(rate)
  /\ \A c \in Callers :
       /\ call[c].at = "kept" => call[c].agent \in DOMAIN rate
       /\ call[c].at = "throwaway" =>
            call[c].agent \notin DOMAIN rate /\ ~HasRoom(rate)

\* What the queries of one fetch may give agent a, the first of them at tick t.
Readable(a, l, t) ==
  \/ <<t, l>> \in had[a]
  \/ /\ <<t, NoRow>> \in had[a]
     /\ \E u \in t .. now, n \in Limits \cup {NoRow} :
          u <= t + MaxFetch /\ <<u, n>> \in had[Everyone] /\ l = LimitOf(n)

\* A call acts on limits that the rows held when it began, or so little earlier as a
\* cache lifetime plus one fetch: a slow fetch that overwrites a newer entry, or a full
\* cache, does not keep old limits alive for longer.  They are the agent's own row at
\* some moment; or it had none then, and they are the row for everyone, or its absence,
\* at a moment after that, at most one fetch later.  The two moments differ: limits that
\* are moved from the one row to the other between them are missed, and the call acts
\* on no limits, which were never in force.
LimitsNotStale ==
  \A c \in Callers : call[c].at \in {"check", "kept", "throwaway"} =>
    \E t \in 0..now :
      /\ t > call[c].begun - CacheTTL - MaxFetch
      /\ Readable(call[c].agent, call[c].limit, t)

\* Neither map outgrows its ceiling, though fetches run with no lock held.
MapsBounded ==
  Cardinality(DOMAIN cache) <= MaxEntries /\ Cardinality(DOMAIN rate) <= MaxEntries

Unchanged(o) == had[o] = (0..now) \X {row[o]}

EffectiveLimit(a) == LimitOf(IF row[a] # NoRow THEN row[a] ELSE row[Everyone])

\* docs/AGENT_SETUP.md:659 "Maximum sends per minute (sliding window)": an agent whose
\* limits never changed sends no more than that within a minute.
ConfiguredRate ==
  \A a \in Agents :
    Unchanged(a) /\ Unchanged(Everyone) /\ EffectiveLimit(a) > 0 =>
      Cardinality(Recent(admitted[a])) <= EffectiveLimit(a)
===============================================================================
