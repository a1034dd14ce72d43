----------------------------- MODULE Limiter_proofs -----------------------------
(***************************************************************************)
(* Proofs about Limiter: the rate limit, the ceilings of both maps and the *)
(* age of the limits in use, for any number of agents and concurrent       *)
(* calls, any limits, and any bound on the clock.                          *)
(***************************************************************************)
EXTENDS Limiter, FiniteSetTheorems, TLAPS

-------------------------------------------------------------------------------
(* One more element counts at most one more.                               *)

LEMMA AddOne ==
  ASSUME NEW S, NEW x, IsFiniteSet(S)
  PROVE  /\ Cardinality(S) \in Nat
         /\ Cardinality(S \cup {x}) \in Nat
         /\ Cardinality(S \cup {x}) <= Cardinality(S) + 1
<1>1. /\ IsFiniteSet(S \cup {x})
      /\ Cardinality(S \cup {x}) =
           IF x \in S THEN Cardinality(S) ELSE Cardinality(S) + 1
  BY FS_AddElement
<1>2. Cardinality(S) \in Nat /\ Cardinality(S \cup {x}) \in Nat
  BY <1>1, FS_CardinalityType
<1>3. QED
  BY <1>1, <1>2

-------------------------------------------------------------------------------
(* Sends.                                                                  *)

\* A call beyond the lookup of its limits names an agent and a limit.
LEMMA BusyCall ==
  ASSUME TypeOK, NEW c \in Callers, call[c].at # "idle"
  PROVE  /\ call[c] \in Busy
         /\ call[c].agent \in Agents
         /\ call[c].limit \in Nat
         /\ call[c].begun \in Nat
BY DEF TypeOK, Busy, Idle

\* An admitted send is numbered by the sends of its agent before it.
LEMMA Numbered ==
  ASSUME TypeOK, BucketInv, NEW c \in Callers, call[c].at # "idle", Admit(c)
  PROVE  /\ Sent(c) \in Sends
         /\ Sent(c).no = Cardinality(admitted[call[c].agent])
         /\ Sent(c).at = now
         /\ Sent(c).limit = call[c].limit
         /\ admitted' = [admitted EXCEPT ![call[c].agent] = @ \cup {Sent(c)}]
         /\ admitted' \in [Agents -> SUBSET Sends]
         /\ call' = [call EXCEPT ![c] = Idle]
         /\ call' \in [Callers -> Busy \cup {Idle}]
         /\ \A a \in Agents :
              /\ IsFiniteSet(admitted'[a])
              /\ \A x \in admitted'[a] : x.no < Cardinality(admitted'[a])
<1> DEFINE a == call[c].agent
           n == Cardinality(admitted[a])
<1>1. a \in Agents /\ call[c].limit \in Nat
  BY BusyCall
<1>2. IsFiniteSet(admitted[a]) /\ \A x \in admitted[a] : x.no < n
  BY <1>1 DEF BucketInv
<1>3. n \in Nat
  BY <1>2, FS_CardinalityType
<1>4. Sent(c) = [at |-> now, no |-> n, limit |-> call[c].limit]
  BY DEF Sent
<1>5. Sent(c) \in Sends
  BY <1>1, <1>3, <1>4 DEF Sends, TypeOK
<1>6. Sent(c).no = n /\ Sent(c).at = now /\ Sent(c).limit = call[c].limit
  BY <1>4
<1>7. Sent(c) \notin admitted[a]
  BY <1>2, <1>3, <1>6
<1>8. /\ IsFiniteSet(admitted[a] \cup {Sent(c)})
      /\ Cardinality(admitted[a] \cup {Sent(c)}) = n + 1
  BY <1>2, <1>7, FS_AddElement
<1>9. /\ admitted' = [admitted EXCEPT ![a] = @ \cup {Sent(c)}]
      /\ call' = [call EXCEPT ![c] = Idle]
  BY DEF Admit
<1>10. admitted' \in [Agents -> SUBSET Sends] /\ call' \in [Callers -> Busy \cup {Idle}]
  BY <1>1, <1>5, <1>9 DEF TypeOK
<1>11. ASSUME NEW b \in Agents
       PROVE  /\ IsFiniteSet(admitted'[b])
              /\ \A x \in admitted'[b] : x.no < Cardinality(admitted'[b])
  <2>1. CASE b # a
    <3>1. admitted'[b] = admitted[b]
      BY <1>9, <2>1 DEF TypeOK
    <3>2. QED
      BY <3>1 DEF BucketInv
  <2>2. CASE b = a
    <3>1. admitted'[b] = admitted[a] \cup {Sent(c)}
      BY <1>1, <1>9, <2>2 DEF TypeOK
    <3>2. \A x \in admitted[a] : x.no \in Nat
      BY <1>1 DEF TypeOK, Sends
    <3>3. \A x \in admitted[a] \cup {Sent(c)} : x.no < n + 1
      BY <1>2, <1>3, <1>6, <3>2
    <3>4. QED
      BY <1>8, <3>1, <3>3
  <2>3. QED
    BY <2>1, <2>2
<1>12. QED
  BY <1>5, <1>6, <1>9, <1>10, <1>11

\* A query ends the fetch, or is followed by the second one.
LEMMA QueryResult ==
  ASSUME TypeOK, NEW c \in Callers, Fetch(c) \/ FallBack(c)
  PROVE  /\ call[c].at \in {"fetch", "fallback"}
         /\ UNCHANGED <<now, storeVars, cache, rate, admitted>>
         /\ call' \in [Callers -> Busy \cup {Idle}]
         /\ \A d \in Callers : d # c => call'[d] = call[d]
         /\ call'[c].at \in {"fallback", "put"}
         /\ call'[c].agent = call[c].agent
         /\ call'[c].begun = call[c].begun
<1>1. call[c] \in Busy /\ call[c].agent \in Agents
  BY BusyCall DEF Fetch, FallBack
<1>2. /\ row[call[c].agent] # NoRow => row[call[c].agent] \in Nat
      /\ LimitOf(row[Everyone]) \in Nat
      /\ 0 \in Nat
  BY <1>1, LimiterAssumption DEF TypeOK, Owners, LimitOf
<1>3. \/ \E l \in Nat : Fetched(c, l)
      \/ call' = [call EXCEPT ![c].at = "fallback"]
  BY <1>2 DEF Fetch, FallBack
<1>4. PICK new \in Busy : /\ call' = [call EXCEPT ![c] = new]
                          /\ new.at \in {"fallback", "put"}
                          /\ new.agent = call[c].agent
                          /\ new.begun = call[c].begun
  <2>1. ASSUME NEW l \in Nat, Fetched(c, l)
        PROVE  \E new \in Busy : /\ call' = [call EXCEPT ![c] = new]
                                 /\ new.at \in {"fallback", "put"}
                                 /\ new.agent = call[c].agent
                                 /\ new.begun = call[c].begun
    <3> DEFINE put == [call[c] EXCEPT !.at = "put", !.limit = l]
    <3>1. /\ put \in Busy
          /\ put.at = "put"
          /\ put.agent = call[c].agent
          /\ put.begun = call[c].begun
      BY <1>1 DEF Busy
    <3>2. call' = [call EXCEPT ![c] = put]
      BY <2>1 DEF Fetched, TypeOK
    <3>3. QED
      BY <3>1, <3>2
  <2>2. ASSUME call' = [call EXCEPT ![c].at = "fallback"]
        PROVE  \E new \in Busy : /\ call' = [call EXCEPT ![c] = new]
                                 /\ new.at \in {"fallback", "put"}
                                 /\ new.agent = call[c].agent
                                 /\ new.begun = call[c].begun
    <3> DEFINE next == [call[c] EXCEPT !.at = "fallback"]
    <3>1. /\ next \in Busy
          /\ next.at = "fallback"
          /\ next.agent = call[c].agent
          /\ next.begun = call[c].begun
      BY <1>1 DEF Busy
    <3>2. call' = [call EXCEPT ![c] = next]
      BY <2>2 DEF TypeOK
    <3>3. QED
      BY <3>1, <3>2
  <2>3. QED
    BY <1>3, <2>1, <2>2
<1>5. call[c].at \in {"fetch", "fallback"} /\ UNCHANGED <<now, storeVars, cache, rate, admitted>>
  BY DEF Fetch, FallBack
<1>6. QED
  BY <1>4, <1>5 DEF TypeOK

-------------------------------------------------------------------------------
(* Type correctness, with what the send numbers need.                      *)

\* Every step keeps the types.
LEMMA TypeStep ==
  ASSUME TypeOK, BucketInv, [Next]_vars
  PROVE  TypeOK'
<1> USE LimiterAssumption
<1> USE DEF TypeOK, storeVars
<1>1. CASE Tick
  <2>1. now + 1 \in Nat
    OBVIOUS
  <2>2. QED
    BY <1>1, <2>1 DEF Tick
<1>2. ASSUME NEW o \in Owners, NEW n \in Limits \cup {NoRow}, SetRow(o, n) PROVE TypeOK'
  <2>1. /\ row' \in [Owners -> Limits \cup {NoRow}]
        /\ had' \in [Owners -> SUBSET (Nat \X (Limits \cup {NoRow}))]
        /\ changes' \in Nat
    BY <1>2 DEF SetRow
  <2>2. QED
    BY <1>2, <2>1 DEF SetRow
<1>3. ASSUME NEW c \in Callers, NEW a \in Agents, Begin(c, a) PROVE TypeOK'
  <2>1. ASSUME Fresh(a) PROVE cache[a].limit \in Nat
    BY <2>1 DEF Fresh
  <2>2. call' \in [Callers -> Busy \cup {Idle}]
    BY <1>3, <2>1 DEF Begin, Busy
  <2>3. QED
    BY <1>3, <2>2 DEF Begin
<1>4. ASSUME NEW c \in Callers, Fetch(c) \/ FallBack(c) PROVE TypeOK'
  BY <1>4, QueryResult
<1>5. ASSUME NEW c \in Callers, Put(c) PROVE TypeOK'
  <2>1. call[c] \in Busy /\ call[c].agent \in Agents /\ call[c].limit \in Nat
    BY <1>5, BusyCall DEF Put
  <2>2. [call[c] EXCEPT !.at = "check"] \in Busy
    BY <2>1 DEF Busy
  <2>3. call' \in [Callers -> Busy \cup {Idle}]
    BY <1>5, <2>2 DEF Put
  <2>4. QED
    BY <1>5, <2>1, <2>3 DEF Put, With
<1>6. ASSUME NEW c \in Callers, Return(c) PROVE TypeOK'
  BY <1>6 DEF Return
<1>7. ASSUME NEW c \in Callers, SendUnlimited(c) PROVE TypeOK'
  BY <1>7, Numbered DEF SendUnlimited
<1>8. ASSUME NEW c \in Callers, GetBucket(c) PROVE TypeOK'
  <2>1. call[c] \in Busy /\ call[c].agent \in Agents
    BY <1>8, BusyCall DEF GetBucket
  <2>2. \A p \in {"kept", "throwaway"} : [call[c] EXCEPT !.at = p] \in Busy
    BY <2>1 DEF Busy
  <2>3. call' \in [Callers -> Busy \cup {Idle}]
    BY <1>8, <2>2 DEF GetBucket
  <2>4. QED
    BY <1>8, <2>1, <2>3 DEF GetBucket, With
<1>9. ASSUME NEW c \in Callers, TryRecord(c) PROVE TypeOK'
  <2> DEFINE a == call[c].agent
             fresh == Recent(rate[a])
  <2>1. a \in DOMAIN rate
    BY <1>9 DEF TryRecord, BucketInv
  <2>2. fresh \subseteq Sends
    BY <2>1 DEF Recent
  <2>3. CASE Below(Cardinality(fresh), call[c].limit)
    <3>1. Admit(c) /\ rate' = [rate EXCEPT ![a] = fresh \cup {Sent(c)}]
      BY <1>9, <2>3 DEF TryRecord
    <3>2. fresh \cup {Sent(c)} \subseteq Sends
      BY <1>9, <2>2, <3>1, Numbered DEF TryRecord
    <3>3. QED
      BY <1>9, <2>1, <3>1, <3>2, Numbered DEF TryRecord
  <2>4. CASE ~Below(Cardinality(fresh), call[c].limit)
    BY <1>9, <2>1, <2>2, <2>4 DEF TryRecord
  <2>5. QED
    BY <2>3, <2>4
<1>10. ASSUME NEW c \in Callers, RecordThrowaway(c) PROVE TypeOK'
  BY <1>10, Numbered DEF RecordThrowaway
<1>11. CASE UNCHANGED vars
  BY <1>11 DEF vars
<1>12. QED
  BY <1>1, <1>2, <1>3, <1>4, <1>5, <1>6, <1>7, <1>8, <1>9, <1>10, <1>11 DEF Next

-------------------------------------------------------------------------------
(* Buckets.                                                                *)

\* A step that changes neither the clock, nor admissions, nor buckets, and sends no
\* call to a bucket, keeps BucketInv and RateLimited.
LEMMA OtherStep ==
  ASSUME BucketInv, RateLimited, UNCHANGED <<now, rate, admitted>>,
         \A c \in Callers :
           call'[c].at \in {"kept", "throwaway"} => call'[c] = call[c]
  PROVE  BucketInv' /\ RateLimited'
<1>1. BucketInv'
  BY DEF BucketInv, Recent, HasRoom
<1>2. RateLimited'
  BY DEF RateLimited, InWindowOf
<1>3. QED
  BY <1>1, <1>2

\* What an admitted send does to the windows of earlier ones: nothing.
LEMMA EarlierWindows ==
  ASSUME TypeOK, BucketInv, NEW c \in Callers, call[c].at # "idle", Admit(c),
         NEW a \in Agents, NEW x \in admitted[a]
  PROVE  InWindowOf(a, x)' = InWindowOf(a, x)
<1>1. /\ admitted' = [admitted EXCEPT ![call[c].agent] = @ \cup {Sent(c)}]
      /\ Sent(c).no = Cardinality(admitted[call[c].agent])
  BY Numbered
<1>2. CASE a # call[c].agent
  BY <1>1, <1>2 DEF InWindowOf, TypeOK
<1>3. CASE a = call[c].agent
  <2>1. admitted'[a] = admitted[a] \cup {Sent(c)}
    BY <1>1, <1>3 DEF TypeOK
  <2>2. IsFiniteSet(admitted[a]) /\ x.no < Cardinality(admitted[a])
    BY DEF BucketInv
  <2>3. Cardinality(admitted[a]) \in Nat /\ x.no \in Nat
    BY <2>2, FS_CardinalityType DEF TypeOK, Sends
  <2>4. ~(Sent(c).no <= x.no)
    BY <1>1, <1>3, <2>2, <2>3
  <2>5. QED
    BY <2>1, <2>4 DEF InWindowOf
<1>4. QED
  BY <1>2, <1>3

\* A send without a limit does not count.
LEMMA UnlimitedStep ==
  ASSUME TypeOK, BucketInv, RateLimited, NEW c \in Callers, SendUnlimited(c)
  PROVE  BucketInv' /\ RateLimited'
<1> DEFINE b == call[c].agent
<1>1. call[c].at # "idle" /\ Admit(c) /\ call[c].limit = 0 /\ b \in Agents
  BY BusyCall DEF SendUnlimited
<1>2. /\ Sent(c).limit = 0
      /\ admitted' = [admitted EXCEPT ![b] = @ \cup {Sent(c)}]
      /\ \A a \in Agents :
           /\ IsFiniteSet(admitted'[a])
           /\ \A x \in admitted'[a] : x.no < Cardinality(admitted'[a])
  BY <1>1, Numbered
<1>3. \A a \in Agents : \A x \in admitted'[a] : x.limit > 0 => x \in admitted[a]
  BY <1>1, <1>2 DEF TypeOK
<1>4. rate' = rate /\ now' = now /\ call' = [call EXCEPT ![c] = Idle]
  BY <1>1 DEF SendUnlimited, Admit
<1>5. BucketInv'
  <2>1. ASSUME NEW a \in Agents
        PROVE  IF a \in DOMAIN rate'
               THEN /\ IsFiniteSet(rate'[a])
                    /\ {x \in Recent(admitted[a])' : x.limit > 0} \subseteq rate'[a]
               ELSE (\E x \in admitted'[a] : x.limit > 0) => ~HasRoom(rate)'
    BY <1>3, <1>4 DEF BucketInv, Recent, HasRoom
  <2>2. ASSUME NEW d \in Callers
        PROVE  /\ call'[d].at = "kept" => call'[d].agent \in DOMAIN rate'
               /\ call'[d].at = "throwaway" =>
                    call'[d].agent \notin DOMAIN rate' /\ ~HasRoom(rate)'
    BY <1>4 DEF BucketInv, HasRoom, Idle, TypeOK
  <2>3. QED
    BY <1>2, <2>1, <2>2 DEF BucketInv
<1>6. RateLimited'
  <2> SUFFICES ASSUME NEW a \in DOMAIN rate', NEW x \in admitted'[a], x.limit > 0
               PROVE  Cardinality(InWindowOf(a, x)') <= x.limit
    BY DEF RateLimited
  <2>1. a \in Agents /\ x \in admitted[a]
    BY <1>3, <1>4 DEF TypeOK
  <2>2. InWindowOf(a, x)' = InWindowOf(a, x)
    BY <1>1, <2>1, EarlierWindows
  <2>3. QED
    BY <1>4, <2>1, <2>2 DEF RateLimited
<1>7. QED
  BY <1>5, <1>6

\* A throwaway bucket is used only for an agent without a bucket, and while the map
\* has no room for one.
LEMMA ThrowawayStep ==
  ASSUME TypeOK, BucketInv, RateLimited, NEW c \in Callers, RecordThrowaway(c)
  PROVE  BucketInv' /\ RateLimited'
<1> DEFINE b == call[c].agent
<1>1. /\ call[c].at # "idle"
      /\ Admit(c)
      /\ b \in Agents
      /\ b \notin DOMAIN rate
      /\ ~HasRoom(rate)
  BY BusyCall DEF RecordThrowaway, BucketInv
<1>2. /\ admitted' = [admitted EXCEPT ![b] = @ \cup {Sent(c)}]
      /\ \A a \in Agents :
           /\ IsFiniteSet(admitted'[a])
           /\ \A x \in admitted'[a] : x.no < Cardinality(admitted'[a])
  BY <1>1, Numbered
<1>3. \A a \in Agents : a # b => admitted'[a] = admitted[a]
  BY <1>2 DEF TypeOK
<1>4. rate' = rate /\ now' = now /\ call' = [call EXCEPT ![c] = Idle]
  BY <1>1 DEF RecordThrowaway, Admit
<1>5. BucketInv'
  <2>1. ASSUME NEW a \in Agents
        PROVE  IF a \in DOMAIN rate'
               THEN /\ IsFiniteSet(rate'[a])
                    /\ {x \in Recent(admitted[a])' : x.limit > 0} \subseteq rate'[a]
               ELSE (\E x \in admitted'[a] : x.limit > 0) => ~HasRoom(rate)'
    BY <1>1, <1>3, <1>4 DEF BucketInv, Recent, HasRoom
  <2>2. ASSUME NEW d \in Callers
        PROVE  /\ call'[d].at = "kept" => call'[d].agent \in DOMAIN rate'
               /\ call'[d].at = "throwaway" =>
                    call'[d].agent \notin DOMAIN rate' /\ ~HasRoom(rate)'
    BY <1>4 DEF BucketInv, HasRoom, Idle, TypeOK
  <2>3. QED
    BY <1>2, <2>1, <2>2 DEF BucketInv
<1>6. RateLimited'
  <2> SUFFICES ASSUME NEW a \in DOMAIN rate', NEW x \in admitted'[a], x.limit > 0
               PROVE  Cardinality(InWindowOf(a, x)') <= x.limit
    BY DEF RateLimited
  <2>1. a \in Agents /\ x \in admitted[a]
    BY <1>1, <1>3, <1>4 DEF TypeOK
  <2>2. InWindowOf(a, x)' = InWindowOf(a, x)
    BY <1>1, <2>1, EarlierWindows
  <2>3. QED
    BY <1>4, <2>1, <2>2 DEF RateLimited
<1>7. QED
  BY <1>5, <1>6

\* A new bucket is empty: the agent has not sent against a limit before, since every
\* such send went to its bucket, or found no room, and then there is none now.
LEMMA GetBucketStep ==
  ASSUME TypeOK, BucketInv, RateLimited, NEW c \in Callers, GetBucket(c)
  PROVE  BucketInv' /\ RateLimited'
<1> DEFINE b == call[c].agent
<1>1. /\ call[c].at = "check"
      /\ b \in Agents
      /\ UNCHANGED <<now, admitted>>
      /\ call \in [Callers -> Busy \cup {Idle}]
  BY BusyCall DEF GetBucket, TypeOK
<1>2. CASE /\ b \in DOMAIN rate
           /\ call' = [call EXCEPT ![c].at = "kept"]
           /\ UNCHANGED rate
  <2>1. \A d \in Callers : d # c => call'[d] = call[d]
    BY <1>1, <1>2
  <2>2. call'[c].at = "kept" /\ call'[c].agent = b
    BY <1>1, <1>2, BusyCall DEF Busy
  <2>3. BucketInv'
    BY <1>1, <1>2, <2>1, <2>2 DEF BucketInv, Recent, HasRoom
  <2>4. RateLimited'
    BY <1>1, <1>2 DEF RateLimited, InWindowOf
  <2>5. QED
    BY <2>3, <2>4
<1>3. CASE /\ b \notin DOMAIN rate
           /\ HasRoom(rate)
           /\ rate' = With(rate, b, {})
           /\ call' = [call EXCEPT ![c].at = "kept"]
  <2>1. \A d \in Callers : d # c => call'[d] = call[d]
    BY <1>1, <1>3
  <2>2. call'[c].at = "kept" /\ call'[c].agent = b
    BY <1>1, <1>3, BusyCall DEF Busy
  <2>3. /\ DOMAIN rate' = DOMAIN rate \cup {b}
        /\ rate'[b] = {}
        /\ \A a \in DOMAIN rate : rate'[a] = rate[a]
    BY <1>3 DEF With
  <2>4. \A a \in Agents \ DOMAIN rate : \A x \in admitted[a] : ~(x.limit > 0)
    BY <1>3 DEF BucketInv
  <2>5. \A d \in Callers : call[d].at # "throwaway"
    BY <1>3 DEF BucketInv
  <2>6. ASSUME NEW a \in Agents
        PROVE  IF a \in DOMAIN rate'
               THEN /\ IsFiniteSet(rate'[a])
                    /\ {x \in Recent(admitted[a])' : x.limit > 0} \subseteq rate'[a]
               ELSE (\E x \in admitted'[a] : x.limit > 0) => ~HasRoom(rate)'
    <3>1. CASE a \in DOMAIN rate
      BY <1>1, <2>3, <3>1 DEF BucketInv, Recent
    <3>2. CASE a \notin DOMAIN rate /\ a = b
      BY <1>1, <2>3, <2>4, <3>2, FS_EmptySet DEF Recent
    <3>3. CASE a \notin DOMAIN rate /\ a # b
      BY <1>1, <2>3, <2>4, <3>3
    <3>4. QED
      BY <3>1, <3>2, <3>3
  <2>7. ASSUME NEW d \in Callers
        PROVE  /\ call'[d].at = "kept" => call'[d].agent \in DOMAIN rate'
               /\ call'[d].at # "throwaway"
    BY <2>1, <2>2, <2>3, <2>5 DEF BucketInv
  <2>8. BucketInv'
    BY <1>1, <2>6, <2>7 DEF BucketInv
  <2>9. RateLimited'
    BY <1>1, <2>3, <2>4 DEF RateLimited, InWindowOf
  <2>10. QED
    BY <2>8, <2>9
<1>4. CASE /\ b \notin DOMAIN rate
           /\ ~HasRoom(rate)
           /\ call' = [call EXCEPT ![c].at = "throwaway"]
           /\ UNCHANGED rate
  <2>1. \A d \in Callers : d # c => call'[d] = call[d]
    BY <1>1, <1>4
  <2>2. call'[c].at = "throwaway" /\ call'[c].agent = b
    BY <1>1, <1>4, BusyCall DEF Busy
  <2>3. BucketInv'
    BY <1>1, <1>4, <2>1, <2>2 DEF BucketInv, Recent, HasRoom
  <2>4. RateLimited'
    BY <1>1, <1>4 DEF RateLimited, InWindowOf
  <2>5. QED
    BY <2>3, <2>4
<1>5. QED
  BY <1>2, <1>3, <1>4 DEF GetBucket

\* The bucket's lock makes count and append one step: the bucket holds every limited
\* send of the last minute, so the new one is within the limit if the count is below.
LEMMA RecordStep ==
  ASSUME TypeOK, BucketInv, RateLimited, NEW c \in Callers, TryRecord(c)
  PROVE  BucketInv' /\ RateLimited'
<1> DEFINE b == call[c].agent
           fresh == Recent(rate[b])
           limited(a) == {x \in Recent(admitted[a]) : x.limit > 0}
<1> USE LimiterAssumption
<1>1. /\ call[c].at # "idle"
      /\ call[c].at = "kept"
      /\ b \in Agents
      /\ call[c].limit \in Nat
      /\ b \in DOMAIN rate
      /\ now' = now
  BY BusyCall DEF TryRecord, BucketInv, storeVars
<1>2. IsFiniteSet(rate[b]) /\ limited(b) \subseteq rate[b]
  BY <1>1 DEF BucketInv
<1>3. IsFiniteSet(fresh) /\ limited(b) \subseteq fresh
  BY <1>2, FS_Subset DEF Recent
<1>4. CASE Below(Cardinality(fresh), call[c].limit)
  <2>1. Admit(c) /\ rate' = [rate EXCEPT ![b] = fresh \cup {Sent(c)}]
    BY <1>4 DEF TryRecord
  <2>2. /\ Sent(c).at = now
        /\ Sent(c).limit = call[c].limit
        /\ call' = [call EXCEPT ![c] = Idle]
        /\ admitted' = [admitted EXCEPT ![b] = @ \cup {Sent(c)}]
        /\ \A a \in Agents :
             /\ IsFiniteSet(admitted'[a])
             /\ \A x \in admitted'[a] : x.no < Cardinality(admitted'[a])
    BY <1>1, <2>1, Numbered
  <2>3. /\ admitted'[b] = admitted[b] \cup {Sent(c)}
        /\ \A a \in Agents : a # b => admitted'[a] = admitted[a]
    BY <1>1, <2>2 DEF TypeOK
  <2>4. /\ DOMAIN rate' = DOMAIN rate
        /\ rate'[b] = fresh \cup {Sent(c)}
        /\ \A a \in DOMAIN rate : a # b => rate'[a] = rate[a]
    BY <1>1, <2>1
  <2>5. IsFiniteSet(fresh \cup {Sent(c)})
    BY <1>3, FS_AddElement
  <2>6. Cardinality(fresh \cup {Sent(c)}) <= call[c].limit
    <3>1. Cardinality(fresh) \in Nat /\ Cardinality(fresh) < call[c].limit
      BY <1>3, <1>4, FS_CardinalityType DEF Below
    <3>2. /\ Cardinality(fresh \cup {Sent(c)}) \in Nat
          /\ Cardinality(fresh \cup {Sent(c)}) <= Cardinality(fresh) + 1
      BY <1>3, AddOne
    <3>3. QED
      BY <1>1, <3>1, <3>2
  <2>7. ASSUME NEW a \in Agents
        PROVE  IF a \in DOMAIN rate'
               THEN /\ IsFiniteSet(rate'[a])
                    /\ {x \in Recent(admitted[a])' : x.limit > 0} \subseteq rate'[a]
               ELSE (\E x \in admitted'[a] : x.limit > 0) => ~HasRoom(rate)'
    <3>1. CASE a = b
      BY <1>1, <1>3, <2>3, <2>4, <2>5, <3>1 DEF Recent
    <3>2. CASE a # b
      BY <1>1, <2>3, <2>4, <3>2 DEF BucketInv, Recent, HasRoom
    <3>3. QED
      BY <3>1, <3>2
  <2>8. ASSUME NEW d \in Callers
        PROVE  /\ call'[d].at = "kept" => call'[d].agent \in DOMAIN rate'
               /\ call'[d].at = "throwaway" =>
                    call'[d].agent \notin DOMAIN rate' /\ ~HasRoom(rate)'
    BY <2>2, <2>4 DEF BucketInv, HasRoom, Idle, TypeOK
  <2>9. BucketInv'
    BY <2>2, <2>7, <2>8 DEF BucketInv
  <2>10. RateLimited'
    <3> SUFFICES ASSUME NEW a \in DOMAIN rate', NEW x \in admitted'[a], x.limit > 0
                 PROVE  Cardinality(InWindowOf(a, x)') <= x.limit
      BY DEF RateLimited
    <3>1. a \in Agents /\ a \in DOMAIN rate
      BY <2>4 DEF TypeOK
    <3>2. CASE x \in admitted[a]
      <4>1. InWindowOf(a, x)' = InWindowOf(a, x)
        BY <1>1, <2>1, <3>1, <3>2, EarlierWindows
      <4>2. QED
        BY <3>1, <3>2, <4>1 DEF RateLimited
    <3>3. CASE x \notin admitted[a]
      <4>1. a = b /\ x = Sent(c)
        BY <2>3, <3>1, <3>3
      <4>2. InWindowOf(a, x)' \subseteq limited(b) \cup {Sent(c)}
        BY <2>2, <2>3, <4>1 DEF InWindowOf, Recent
      <4>3. InWindowOf(a, x)' \in SUBSET (fresh \cup {Sent(c)})
        BY <1>3, <4>2
      <4>4. /\ IsFiniteSet(InWindowOf(a, x)')
            /\ Cardinality(InWindowOf(a, x)') <= Cardinality(fresh \cup {Sent(c)})
        BY <2>5, <4>3, FS_Subset
      <4>5. /\ Cardinality(InWindowOf(a, x)') \in Nat
            /\ Cardinality(fresh \cup {Sent(c)}) \in Nat
        BY <2>5, <4>4, FS_CardinalityType
      <4>6. QED
        BY <1>1, <2>2, <2>6, <4>1, <4>4, <4>5
    <3>4. QED
      BY <3>2, <3>3
  <2>11. QED
    BY <2>9, <2>10
<1>5. CASE ~Below(Cardinality(fresh), call[c].limit)
  <2>1. /\ rate' = [rate EXCEPT ![b] = fresh]
        /\ call' = [call EXCEPT ![c] = Idle]
        /\ admitted' = admitted
    BY <1>5 DEF TryRecord
  <2>2. /\ DOMAIN rate' = DOMAIN rate
        /\ rate'[b] = fresh
        /\ \A a \in DOMAIN rate : a # b => rate'[a] = rate[a]
    BY <1>1, <2>1
  <2>3. ASSUME NEW a \in Agents
        PROVE  IF a \in DOMAIN rate'
               THEN /\ IsFiniteSet(rate'[a])
                    /\ {x \in Recent(admitted[a])' : x.limit > 0} \subseteq rate'[a]
               ELSE (\E x \in admitted'[a] : x.limit > 0) => ~HasRoom(rate)'
    <3>1. CASE a = b
      BY <1>1, <1>3, <2>1, <2>2, <3>1 DEF Recent
    <3>2. CASE a # b
      BY <1>1, <2>1, <2>2, <3>2 DEF BucketInv, Recent, HasRoom
    <3>3. QED
      BY <3>1, <3>2
  <2>4. ASSUME NEW d \in Callers
        PROVE  /\ call'[d].at = "kept" => call'[d].agent \in DOMAIN rate'
               /\ call'[d].at = "throwaway" =>
                    call'[d].agent \notin DOMAIN rate' /\ ~HasRoom(rate)'
    BY <2>1, <2>2 DEF BucketInv, HasRoom, Idle, TypeOK
  <2>5. BucketInv'
    BY <2>1, <2>3, <2>4 DEF BucketInv
  <2>6. RateLimited'
    BY <2>1, <2>2 DEF RateLimited, InWindowOf
  <2>7. QED
    BY <2>5, <2>6
<1>6. QED
  BY <1>4, <1>5

\* Time passes: what is recent afterwards was recent before.
LEMMA TickStep ==
  ASSUME TypeOK, BucketInv, RateLimited, Tick
  PROVE  BucketInv' /\ RateLimited'
<1> USE LimiterAssumption
<1>1. now' = now + 1 /\ now \in Nat /\ UNCHANGED <<rate, call, admitted>>
  BY DEF Tick, TypeOK
<1>2. \A a \in Agents : Recent(admitted[a])' \subseteq Recent(admitted[a])
  BY <1>1 DEF Recent, TypeOK, Sends
<1>3. BucketInv'
  BY <1>1, <1>2 DEF BucketInv, HasRoom
<1>4. RateLimited'
  BY <1>1 DEF RateLimited, InWindowOf
<1>5. QED
  BY <1>3, <1>4

\* Every step keeps the bucket invariant and the rate limit.
LEMMA RateStep ==
  ASSUME TypeOK, BucketInv, RateLimited, [Next]_vars
  PROVE  BucketInv' /\ RateLimited'
<1>1. CASE Tick
  BY <1>1, TickStep
<1>2. ASSUME NEW o \in Owners, NEW n \in Limits \cup {NoRow}, SetRow(o, n)
      PROVE  BucketInv' /\ RateLimited'
  BY <1>2, OtherStep DEF SetRow
<1>3. ASSUME NEW c \in Callers, NEW a \in Agents, Begin(c, a)
      PROVE  BucketInv' /\ RateLimited'
  BY <1>3, OtherStep DEF Begin, TypeOK
<1>4. ASSUME NEW c \in Callers, Fetch(c) \/ FallBack(c) PROVE BucketInv' /\ RateLimited'
  BY <1>4, QueryResult, OtherStep
<1>5. ASSUME NEW c \in Callers, Put(c) PROVE BucketInv' /\ RateLimited'
  <2>1. call'[c].at = "check"
    BY <1>5, BusyCall DEF Put, Busy, TypeOK
  <2>2. \A d \in Callers : d # c => call'[d] = call[d]
    BY <1>5 DEF Put, TypeOK
  <2>3. QED
    BY <1>5, <2>1, <2>2, OtherStep DEF Put
<1>6. ASSUME NEW c \in Callers, Return(c) PROVE BucketInv' /\ RateLimited'
  BY <1>6, OtherStep DEF Return, Idle, TypeOK
<1>7. ASSUME NEW c \in Callers, SendUnlimited(c) PROVE BucketInv' /\ RateLimited'
  BY <1>7, UnlimitedStep
<1>8. ASSUME NEW c \in Callers, GetBucket(c) PROVE BucketInv' /\ RateLimited'
  BY <1>8, GetBucketStep
<1>9. ASSUME NEW c \in Callers, TryRecord(c) PROVE BucketInv' /\ RateLimited'
  BY <1>9, RecordStep
<1>10. ASSUME NEW c \in Callers, RecordThrowaway(c) PROVE BucketInv' /\ RateLimited'
  BY <1>10, ThrowawayStep
<1>11. CASE UNCHANGED vars
  BY <1>11, OtherStep DEF vars
<1>12. QED
  BY <1>1, <1>2, <1>3, <1>4, <1>5, <1>6, <1>7, <1>8, <1>9, <1>10, <1>11 DEF Next

\* The first state has the invariant.
LEMMA InitInv == Init => TypeOK /\ BucketInv /\ RateLimited
<1> SUFFICES ASSUME Init PROVE TypeOK /\ BucketInv /\ RateLimited
  OBVIOUS
<1>1. TypeOK
  BY LimiterAssumption DEF Init, TypeOK
<1>2. BucketInv
  BY FS_EmptySet DEF Init, BucketInv, Idle
<1>3. RateLimited
  BY DEF Init, RateLimited
<1>4. QED
  BY <1>1, <1>2, <1>3

\* Every variable keeps its type, and a bucket holds every limited send of the last
\* minute of the agent it belongs to.
THEOREM BucketsComplete == Spec => []TypeOK /\ []BucketInv
<1>1. TypeOK /\ BucketInv /\ RateLimited /\ [Next]_vars
        => (TypeOK /\ BucketInv /\ RateLimited)'
  BY TypeStep, RateStep
<1>2. QED
  BY InitInv, <1>1, PTL DEF Spec

\* A send that was checked against a limit is within that limit, counting the limited
\* sends of the minute before it, whatever calls run at once and however the limits
\* change, as long as the agent has a bucket.
THEOREM SendsStayWithinLimit == Spec => []RateLimited
<1>1. TypeOK /\ BucketInv /\ RateLimited /\ [Next]_vars
        => (TypeOK /\ BucketInv /\ RateLimited)'
  BY TypeStep, RateStep
<1>2. QED
  BY InitInv, <1>1, PTL DEF Spec

-------------------------------------------------------------------------------
(* The ceilings.                                                           *)

\* Room is tested and used in one critical section, so one entry more still fits.
LEMMA FitsOneMore ==
  ASSUME NEW f, NEW a, NEW v, IsFiniteSet(DOMAIN f), HasRoom(f)
  PROVE  /\ IsFiniteSet(DOMAIN With(f, a, v))
         /\ Cardinality(DOMAIN With(f, a, v)) <= MaxEntries
<1>1. DOMAIN With(f, a, v) = DOMAIN f \cup {a}
  BY DEF With
<1>2. IsFiniteSet(DOMAIN f \cup {a})
  BY FS_AddElement
<1>3. /\ Cardinality(DOMAIN f) \in Nat
      /\ Cardinality(DOMAIN f \cup {a}) \in Nat
      /\ Cardinality(DOMAIN f \cup {a}) <= Cardinality(DOMAIN f) + 1
  BY AddOne
<1>4. Cardinality(DOMAIN f) < MaxEntries
  BY DEF HasRoom
<1>5. QED
  BY <1>1, <1>2, <1>3, <1>4, LimiterAssumption

\* Neither map outgrows maxMapEntries.
THEOREM MapsStayBounded == Spec => []MapsBounded
<1> DEFINE Inv == /\ IsFiniteSet(DOMAIN cache)
                  /\ IsFiniteSet(DOMAIN rate)
                  /\ MapsBounded
<1>1. Init => Inv
  <2> SUFFICES ASSUME Init PROVE Inv
    OBVIOUS
  <2>1. DOMAIN cache = {} /\ DOMAIN rate = {}
    BY DEF Init
  <2>2. IsFiniteSet({}) /\ Cardinality({}) = 0
    BY FS_EmptySet
  <2>3. QED
    BY <2>1, <2>2, LimiterAssumption DEF MapsBounded
<1>2. Inv /\ [Next]_vars => Inv'
  <2> SUFFICES ASSUME Inv, [Next]_vars PROVE Inv'
    OBVIOUS
  <2>1. ASSUME NEW c \in Callers, Put(c) PROVE Inv'
    <3>1. rate' = rate
      BY <2>1 DEF Put
    <3>2. CASE HasRoom(cache)
      BY <2>1, <3>1, <3>2, FitsOneMore DEF Put, MapsBounded
    <3>3. CASE ~HasRoom(cache)
      BY <2>1, <3>1, <3>3 DEF Put, MapsBounded
    <3>4. QED
      BY <3>2, <3>3
  <2>2. ASSUME NEW c \in Callers, GetBucket(c) PROVE Inv'
    <3>1. cache' = cache
      BY <2>2 DEF GetBucket
    <3>2. CASE HasRoom(rate) /\ rate' = With(rate, call[c].agent, {})
      BY <3>1, <3>2, FitsOneMore DEF MapsBounded
    <3>3. CASE rate' = rate
      BY <3>1, <3>3 DEF MapsBounded
    <3>4. QED
      BY <2>2, <3>2, <3>3 DEF GetBucket
  <2>3. ASSUME NEW c \in Callers, TryRecord(c) PROVE Inv'
    <3>1. cache' = cache /\ DOMAIN rate' = DOMAIN rate
      BY <2>3 DEF TryRecord
    <3>2. QED
      BY <3>1 DEF MapsBounded
  <2>4. CASE UNCHANGED <<cache, rate>>
    BY <2>4 DEF MapsBounded
  <2>5. QED
    BY <2>1, <2>2, <2>3, <2>4 DEF Next, vars, Tick, SetRow, Begin, Fetch, FallBack, Return,
       SendUnlimited, RecordThrowaway
<1>3. Inv => MapsBounded
  OBVIOUS
<1>4. QED
  BY <1>1, <1>2, <1>3, PTL DEF Spec

-------------------------------------------------------------------------------
(* The age of the limits in use.                                           *)

\* A fetch for agent a could give limit l at tick t or later.
HadSince(a, l, t) == \E u \in 0..now : u >= t /\ Readable(a, l, u)

\* How old the limit of a call may be: a fetched one since the fetch began, the lack of
\* a row of the agent's own likewise, and a limit that the call acts on as
\* LimitsNotStale says.
CallAge(c) ==
  /\ Fetching(c) => call[c].begun <= now /\ now <= call[c].begun + MaxFetch
  /\ call[c].at = "fallback" =>
       \E u \in 0..now : u >= call[c].begun /\ <<u, NoRow>> \in had[call[c].agent]
  /\ call[c].at = "put" => HadSince(call[c].agent, call[c].limit, call[c].begun)
  /\ call[c].at \in {"check", "kept", "throwaway"} =>
       HadSince(call[c].agent, call[c].limit, call[c].begun - CacheTTL - MaxFetch + 1)

\* The inductive invariant: a cached limit was in force at most one fetch before its
\* entry was written.
AgeInv ==
  /\ \A o \in Owners : <<now, row[o]>> \in had[o]
  /\ \A a \in DOMAIN cache : HadSince(a, cache[a].limit, cache[a].at - MaxFetch)
  /\ \A c \in Callers : CallAge(c)

\* What a row was stays on record.
LEMMA HistoryGrows ==
  ASSUME TypeOK, [Next]_vars
  PROVE  /\ now <= now' /\ now' \in Nat
         /\ \A o \in Owners : had[o] \subseteq had'[o]
<1>1. CASE Tick
  BY <1>1 DEF Tick, TypeOK
<1>2. ASSUME NEW b \in Owners, NEW n \in Limits \cup {NoRow}, SetRow(b, n)
      PROVE  /\ now <= now' /\ now' \in Nat
             /\ \A o \in Owners : had[o] \subseteq had'[o]
  BY <1>2 DEF SetRow, TypeOK
<1>3. CASE UNCHANGED <<now, had>>
  BY <1>3 DEF TypeOK
<1>4. \/ Tick
      \/ \E o \in Owners, n \in Limits \cup {NoRow} : SetRow(o, n)
      \/ UNCHANGED <<now, had>>
  BY DEF Next, vars, storeVars, Begin, Fetch, FallBack, Put, Return, SendUnlimited, GetBucket,
         TryRecord, RecordThrowaway
<1>5. QED
  BY <1>1, <1>2, <1>3, <1>4

\* What could be read stays readable.
LEMMA ReadableStays ==
  ASSUME TypeOK, [Next]_vars
  PROVE  \A a \in Agents : \A l, u : Readable(a, l, u) => Readable(a, l, u)'
<1>1. /\ now <= now' /\ now \in Nat /\ now' \in Nat
      /\ \A o \in Owners : had[o] \subseteq had'[o]
  BY HistoryGrows DEF TypeOK
<1>2. SUFFICES ASSUME NEW a \in Agents, NEW l, NEW u, Readable(a, l, u)
               PROVE  Readable(a, l, u)'
  OBVIOUS
<1>3. a \in Owners /\ Everyone \in Owners
  BY DEF Owners
<1>4. CASE <<u, l>> \in had[a]
  BY <1>1, <1>3, <1>4 DEF Readable
<1>5. ASSUME <<u, NoRow>> \in had[a],
             NEW v \in u .. now, NEW n \in Limits \cup {NoRow},
             v <= u + MaxFetch, <<v, n>> \in had[Everyone], l = LimitOf(n)
      PROVE  Readable(a, l, u)'
  <2>1. u \in Nat
    BY <1>3, <1>5 DEF TypeOK
  <2>2. v \in u .. now'
    BY <1>1, <2>1
  <2>3. <<u, NoRow>> \in had'[a] /\ <<v, n>> \in had'[Everyone]
    BY <1>1, <1>3, <1>5
  <2>4. QED
    BY <1>5, <2>2, <2>3 DEF Readable
<1>6. QED
  BY <1>2, <1>4, <1>5 DEF Readable

\* Records last, and count for any earlier time.
LEMMA HadStays ==
  ASSUME TypeOK, [Next]_vars, NEW a \in Agents, NEW l, NEW t \in Int, NEW r \in Int,
         r <= t, HadSince(a, l, t)
  PROVE  HadSince(a, l, r)'
<1>1. PICK u \in 0..now : u >= t /\ Readable(a, l, u)
  BY DEF HadSince
<1>2. Readable(a, l, u)'
  BY <1>1, ReadableStays
<1>3. u \in 0..now' /\ u >= r
  BY <1>1, HistoryGrows DEF TypeOK
<1>4. QED
  BY <1>2, <1>3 DEF HadSince

\* A call that keeps its limit and its beginning keeps the age of its limit.
LEMMA SameLimit ==
  ASSUME TypeOK, AgeInv, [Next]_vars, NEW c \in Callers,
         call[c].at \in {"check", "kept", "throwaway"},
         call'[c].agent = call[c].agent, call'[c].limit = call[c].limit,
         call'[c].begun = call[c].begun
  PROVE  HadSince(call[c].agent, call[c].limit, call[c].begun - CacheTTL - MaxFetch + 1)'
<1> DEFINE t == call[c].begun - CacheTTL - MaxFetch + 1
<1>1. call[c].agent \in Agents /\ call[c].begun \in Nat
  BY BusyCall
<1>2. t \in Int /\ t <= t
  BY <1>1, LimiterAssumption
<1>3. HadSince(call[c].agent, call[c].limit, t)
  BY DEF AgeInv, CallAge
<1>4. QED
  BY <1>1, <1>2, <1>3, HadStays

\* The cache keeps its part of the invariant where it does not change.
LEMMA SameCache ==
  ASSUME TypeOK, AgeInv, [Next]_vars, cache' = cache
  PROVE  \A a \in DOMAIN cache' : HadSince(a, cache[a].limit, cache[a].at - MaxFetch)'
<1> SUFFICES ASSUME NEW a \in DOMAIN cache
             PROVE  HadSince(a, cache[a].limit, cache[a].at - MaxFetch)'
  OBVIOUS
<1> DEFINE t == cache[a].at - MaxFetch
<1>1. a \in Agents /\ t \in Int /\ t <= t
  BY LimiterAssumption DEF TypeOK
<1>2. HadSince(a, cache[a].limit, t)
  BY DEF AgeInv
<1>3. QED
  BY <1>1, <1>2, HadStays

\* The calls that a step does not touch keep theirs, if no tick overruns a fetch.
LEMMA SameCall ==
  ASSUME TypeOK, AgeInv, [Next]_vars, NEW c \in Callers, call'[c] = call[c],
         Fetching(c) => now' <= call[c].begun + MaxFetch
  PROVE  CallAge(c)'
<1>1. ASSUME Fetching(c) PROVE call[c].begun <= now' /\ now' <= call[c].begun + MaxFetch
  <2>1. call[c].begun <= now /\ call[c].begun \in Nat
    BY <1>1, BusyCall DEF AgeInv, CallAge, Fetching
  <2>2. QED
    BY <1>1, <2>1, HistoryGrows DEF TypeOK
<1>2. ASSUME call[c].at = "put" PROVE HadSince(call[c].agent, call[c].limit, call[c].begun)'
  <2>1. /\ call[c].agent \in Agents
        /\ call[c].begun \in Int
        /\ call[c].begun <= call[c].begun
    BY <1>2, BusyCall
  <2>2. HadSince(call[c].agent, call[c].limit, call[c].begun)
    BY <1>2 DEF AgeInv, CallAge
  <2>3. QED
    BY <2>1, <2>2, HadStays
<1>3. ASSUME call[c].at \in {"check", "kept", "throwaway"}
      PROVE  HadSince(call[c].agent, call[c].limit, call[c].begun - CacheTTL - MaxFetch + 1)'
  BY <1>3, SameLimit
<1>4. ASSUME call[c].at = "fallback"
      PROVE  \E u \in 0..now' : u >= call[c].begun /\ <<u, NoRow>> \in had'[call[c].agent]
  <2>1. PICK u \in 0..now : u >= call[c].begun /\ <<u, NoRow>> \in had[call[c].agent]
    BY <1>4 DEF AgeInv, CallAge
  <2>2. call[c].agent \in Owners
    BY <1>4, BusyCall DEF Owners
  <2>3. <<u, NoRow>> \in had'[call[c].agent] /\ u \in 0..now'
    BY <2>1, <2>2, HistoryGrows DEF TypeOK
  <2>4. QED
    BY <2>1, <2>3
<1>5. QED
  BY <1>1, <1>2, <1>3, <1>4 DEF CallAge, Fetching

\* A step of call c that leaves clock, store and cache alone.
LEMMA CallStep ==
  ASSUME TypeOK, AgeInv, [Next]_vars, UNCHANGED <<now, row, had, cache>>,
         NEW c \in Callers, \A d \in Callers : d # c => call'[d] = call[d], CallAge(c)'
  PROVE  AgeInv'
<1>1. \A o \in Owners : (<<now, row[o]>> \in had[o])'
  BY DEF AgeInv
<1>2. \A a \in DOMAIN cache' : HadSince(a, cache[a].limit, cache[a].at - MaxFetch)'
  BY SameCache
<1>3. ASSUME NEW d \in Callers PROVE CallAge(d)'
  <2>1. CASE d = c
    BY <2>1
  <2>2. CASE d # c
    <3>1. Fetching(d) => now' <= call[d].begun + MaxFetch
      BY DEF AgeInv, CallAge
    <3>2. QED
      BY <2>2, <3>1, SameCall
  <2>3. QED
    BY <2>1, <2>2
<1>4. QED
  BY <1>1, <1>2, <1>3 DEF AgeInv

\* A fetch ends with the limit in force; writing it to the cache dates it at most one
\* fetch later.
LEMMA PutStep ==
  ASSUME TypeOK, AgeInv, [Next]_vars, NEW c \in Callers, Put(c), CacheTTL + MaxFetch > 0
  PROVE  AgeInv'
<1> DEFINE a == call[c].agent
           l == call[c].limit
           b == call[c].begun
<1> USE LimiterAssumption
<1>1. /\ call[c] \in Busy
      /\ a \in Agents /\ b \in Nat
      /\ call[c].at = "put"
      /\ UNCHANGED <<now, row, had>>
      /\ now \in Nat
  BY BusyCall DEF Put, storeVars, TypeOK
<1>2. b <= now /\ now <= b + MaxFetch /\ HadSince(a, l, b)
  BY <1>1 DEF AgeInv, CallAge, Fetching
<1>3. HadSince(a, l, now - MaxFetch)' /\ HadSince(a, l, b - CacheTTL - MaxFetch + 1)'
  <2>1. PICK u \in 0..now : u >= b /\ Readable(a, l, u)
    BY <1>2 DEF HadSince
  <2>2. u >= now - MaxFetch /\ u >= b - CacheTTL - MaxFetch + 1
    BY <1>1, <1>2, <2>1
  <2>3. /\ \E v \in 0..now : v >= now - MaxFetch /\ Readable(a, l, v)
        /\ \E v \in 0..now : v >= b - CacheTTL - MaxFetch + 1 /\ Readable(a, l, v)
    BY <2>1, <2>2
  <2>4. a' = a /\ l' = l /\ b' = b
    BY <1>1 DEF Put, Busy, TypeOK
  <2>5. QED
    BY <1>1, <2>3, <2>4 DEF HadSince, Readable
<1>4. CallAge(c)'
  <2>1. /\ call'[c].at = "check"
        /\ ~Fetching(c)'
    BY <1>1 DEF Put, Busy, TypeOK, Fetching
  <2>2. QED
    BY <1>3, <2>1 DEF CallAge
<1>5. ASSUME NEW d \in Callers PROVE CallAge(d)'
  <2>1. CASE d # c
    <3>1. call'[d] = call[d]
      BY <1>1, <2>1 DEF Put, TypeOK
    <3>2. Fetching(d) => now' <= call[d].begun + MaxFetch
      BY <1>1 DEF AgeInv, CallAge
    <3>3. QED
      BY <3>1, <3>2, SameCall
  <2>2. QED
    BY <1>4, <2>1
<1>6. ASSUME NEW x \in DOMAIN cache'
      PROVE  HadSince(x, cache[x].limit, cache[x].at - MaxFetch)'
  <2>1. CASE cache' = cache
    BY <2>1, SameCache
  <2>2. CASE cache' = With(cache, a, [limit |-> l, at |-> now])
    <3>1. CASE x = a
      <4>1. cache'[x].limit = l /\ cache'[x].at = now
        BY <2>2, <3>1 DEF With
      <4>2. a' = a /\ l' = l
        BY <1>1 DEF Put, Busy, TypeOK
      <4>3. QED
        BY <1>1, <1>3, <3>1, <4>1, <4>2 DEF HadSince, Readable
    <3>2. CASE x # a
      <4>1. x \in DOMAIN cache /\ cache'[x] = cache[x]
        BY <2>2, <3>2 DEF With
      <4> DEFINE t == cache[x].at - MaxFetch
      <4>2. x \in Agents /\ t \in Int /\ t <= t
        BY <4>1 DEF TypeOK
      <4>3. HadSince(x, cache[x].limit, t)
        BY <4>1 DEF AgeInv
      <4>4. PICK u \in 0..now : u >= t /\ Readable(x, cache[x].limit, u)
        BY <4>3 DEF HadSince
      <4>5. QED
        BY <1>1, <4>1, <4>4 DEF HadSince, Readable
    <3>3. QED
      BY <3>1, <3>2
  <2>3. QED
    BY <2>1, <2>2 DEF Put
<1>7. \A o \in Owners : (<<now, row[o]>> \in had[o])'
  BY <1>1 DEF AgeInv
<1>8. QED
  BY <1>5, <1>6, <1>7 DEF AgeInv

\* A call begins with a cached limit younger than the cache lifetime, or fetches.
LEMMA BeginStep ==
  ASSUME TypeOK, AgeInv, [Next]_vars, NEW c \in Callers, NEW a \in Agents, Begin(c, a)
  PROVE  AgeInv'
<1> USE LimiterAssumption
<1>1. /\ UNCHANGED <<now, row, had, cache>>
      /\ now \in Nat
      /\ \A d \in Callers : d # c => call'[d] = call[d]
  BY DEF Begin, storeVars, TypeOK
<1>2. CASE Fresh(a)
  <2>1. /\ call'[c].at = "check"
        /\ call'[c].agent = a
        /\ call'[c].limit = cache[a].limit
        /\ call'[c].begun = now
    BY <1>2 DEF Begin, TypeOK
  <2>2. a \in DOMAIN cache /\ now - cache[a].at < CacheTTL /\ cache[a].at \in Nat
    BY <1>2 DEF Fresh, TypeOK
  <2>3. PICK u \in 0..now :
          u >= cache[a].at - MaxFetch /\ Readable(a, cache[a].limit, u)
    BY <2>2 DEF AgeInv, HadSince
  <2>4. u >= now - CacheTTL - MaxFetch + 1
    BY <1>1, <2>2, <2>3
  <2>5. ~Fetching(c)'
    BY <2>1 DEF Fetching
  <2>6. CallAge(c)'
    BY <1>1, <2>1, <2>3, <2>4, <2>5 DEF CallAge, HadSince, Readable
  <2>7. QED
    BY <1>1, <2>6, CallStep
<1>3. CASE ~Fresh(a)
  <2>1. call'[c].at = "fetch" /\ call'[c].begun = now
    BY <1>3 DEF Begin, TypeOK
  <2>2. CallAge(c)'
    BY <1>1, <2>1 DEF CallAge, Fetching
  <2>3. QED
    BY <1>1, <2>2, CallStep
<1>4. QED
  BY <1>2, <1>3

\* A fetch that does not fail returns the agent's row; or, one query later, the row
\* for everyone, or nothing.
LEMMA FetchStep ==
  ASSUME TypeOK, AgeInv, [Next]_vars, NEW c \in Callers, Fetch(c) \/ FallBack(c),
         ~FetchFails
  PROVE  AgeInv'
<1> USE LimiterAssumption
<1> DEFINE a == call[c].agent
           b == call[c].begun
<1>1. /\ UNCHANGED <<now, row, had, cache>>
      /\ now \in Nat
      /\ call[c] \in Busy
      /\ a \in Agents
      /\ b \in Nat
  BY QueryResult, BusyCall DEF storeVars, TypeOK
<1>2. /\ \A d \in Callers : d # c => call'[d] = call[d]
      /\ call'[c].at \in {"fallback", "put"}
      /\ call'[c].agent = a
      /\ call'[c].begun = b
  BY QueryResult
<1>3. b <= now /\ now <= b + MaxFetch
  BY QueryResult DEF AgeInv, CallAge, Fetching
<1>4. <<now, row[a]>> \in had[a] /\ <<now, row[Everyone]>> \in had[Everyone] /\ now \in 0 .. now
  BY <1>1 DEF AgeInv, Owners
<1>5. CASE row[a] # NoRow /\ Fetched(c, row[a])
  <2>1. call'[c].at = "put" /\ call'[c].limit = row[a]
    BY <1>1, <1>5 DEF Fetched, TypeOK, Busy
  <2>2. Readable(a, row[a], now)
    BY <1>4 DEF Readable
  <2>3. \E u \in 0 .. now : u >= b /\ Readable(a, row[a], u)
    BY <1>3, <1>4, <2>2
  <2>4. HadSince(call[c].agent, call[c].limit, call[c].begun)'
    BY <1>1, <1>2, <2>1, <2>3 DEF HadSince, Readable
  <2>5. CallAge(c)'
    BY <1>1, <1>2, <1>3, <2>1, <2>4 DEF CallAge
  <2>6. QED
    BY <1>1, <1>2, <2>5, CallStep
<1>6. CASE row[a] = NoRow /\ call' = [call EXCEPT ![c].at = "fallback"]
  <2>1. call'[c].at = "fallback"
    BY <1>1, <1>6 DEF TypeOK, Busy
  <2>2. \E u \in 0 .. now : u >= b /\ <<u, NoRow>> \in had[a]
    BY <1>3, <1>4, <1>6
  <2>3. CallAge(c)'
    BY <1>1, <1>2, <1>3, <2>1, <2>2 DEF CallAge
  <2>4. QED
    BY <1>1, <1>2, <2>3, CallStep
<1>7. CASE call[c].at = "fallback" /\ Fetched(c, LimitOf(row[Everyone]))
  <2> DEFINE l == LimitOf(row[Everyone])
  <2>1. call'[c].at = "put" /\ call'[c].limit = l
    BY <1>1, <1>7 DEF Fetched, TypeOK, Busy
  <2>2. PICK u \in 0 .. now : u >= b /\ <<u, NoRow>> \in had[a]
    BY <1>7 DEF AgeInv, CallAge
  <2>3. now \in u .. now /\ now <= u + MaxFetch
    BY <1>1, <1>3, <2>2
  <2>4. row[Everyone] \in Limits \cup {NoRow}
    BY DEF TypeOK, Owners
  <2>5. Readable(a, l, u)
    BY <1>4, <2>2, <2>3, <2>4 DEF Readable
  <2>6. \E v \in 0 .. now : v >= b /\ Readable(a, l, v)
    BY <2>2, <2>5
  <2>7. HadSince(call[c].agent, call[c].limit, call[c].begun)'
    BY <1>1, <1>2, <2>1, <2>6 DEF HadSince, Readable
  <2>8. CallAge(c)'
    BY <1>1, <1>2, <1>3, <2>1, <2>7 DEF CallAge
  <2>9. QED
    BY <1>1, <1>2, <2>8, CallStep
<1>8. QED
  BY <1>5, <1>6, <1>7 DEF Fetch, FallBack

\* A tick waits for fetches that have reached MaxFetch; a change of a row takes
\* nothing off the record.
LEMMA EnvironmentStep ==
  ASSUME TypeOK, AgeInv, [Next]_vars,
         Tick \/ \E o \in Owners, n \in Limits \cup {NoRow} : SetRow(o, n)
  PROVE  AgeInv'
<1> USE LimiterAssumption
<1>1. call' = call /\ cache' = cache
  BY DEF Tick, SetRow
<1>2. \A o \in Owners : (<<now, row[o]>> \in had[o])'
  <2>1. CASE Tick
    BY <2>1 DEF Tick, TypeOK
  <2>2. ASSUME NEW b \in Owners, NEW n \in Limits \cup {NoRow}, SetRow(b, n)
        PROVE  \A o \in Owners : <<now', row'[o]>> \in had'[o]
    BY <2>2 DEF SetRow, TypeOK, AgeInv
  <2>3. QED
    BY <2>1, <2>2
<1>3. ASSUME NEW c \in Callers, Fetching(c) PROVE now' <= call[c].begun + MaxFetch
  <2>1. call[c].begun \in Nat /\ now \in Nat /\ now <= call[c].begun + MaxFetch
    BY <1>3, BusyCall DEF AgeInv, CallAge, Fetching, TypeOK
  <2>2. now' = now \/ (now' = now + 1 /\ now < call[c].begun + MaxFetch)
    BY <1>3 DEF Tick, SetRow
  <2>3. QED
    BY <2>1, <2>2
<1>4. \A c \in Callers : CallAge(c)'
  BY <1>1, <1>3, SameCall
<1>5. QED
  BY <1>1, <1>2, <1>4, SameCache DEF AgeInv

\* A call acts on limits no older than a cache lifetime and one fetch before it began,
\* when the store returns no error.  This holds for every number of agents and calls,
\* and for a full cache, which is no longer refreshed.
THEOREM LimitsStayFresh ==
  ASSUME ~FetchFails, CacheTTL + MaxFetch > 0
  PROVE  Spec => []LimitsNotStale
<1> USE LimiterAssumption
<1>1. Init => AgeInv
  <2> SUFFICES ASSUME Init PROVE AgeInv
    OBVIOUS
  <2>1. \A c \in Callers : call[c].at = "idle"
    BY DEF Init, Idle
  <2>2. \A o \in Owners : <<now, row[o]>> \in had[o]
    BY DEF Init
  <2>3. DOMAIN cache = {}
    BY DEF Init
  <2>4. QED
    BY <2>1, <2>2, <2>3 DEF AgeInv, CallAge, Fetching
<1>2. TypeOK /\ AgeInv /\ [Next]_vars => AgeInv'
  <2> SUFFICES ASSUME TypeOK, AgeInv, [Next]_vars PROVE AgeInv'
    OBVIOUS
  <2>1. CASE Tick \/ \E o \in Owners, n \in Limits \cup {NoRow} : SetRow(o, n)
    BY <2>1, EnvironmentStep
  <2>2. ASSUME NEW c \in Callers, NEW a \in Agents, Begin(c, a) PROVE AgeInv'
    BY <2>2, BeginStep
  <2>3. ASSUME NEW c \in Callers, Fetch(c) \/ FallBack(c) PROVE AgeInv'
    BY <2>3, FetchStep
  <2>4. ASSUME NEW c \in Callers, Put(c) PROVE AgeInv'
    BY <2>4, PutStep
  <2>5. ASSUME NEW c \in Callers, GetBucket(c) PROVE AgeInv'
    <3>1. /\ UNCHANGED <<now, row, had, cache>>
          /\ call[c].at = "check"
          /\ call[c] \in Busy
          /\ \A d \in Callers : d # c => call'[d] = call[d]
      BY <2>5, BusyCall DEF GetBucket, storeVars, TypeOK
    <3>2. /\ call'[c].agent = call[c].agent
          /\ call'[c].limit = call[c].limit
          /\ call'[c].begun = call[c].begun
          /\ call'[c].at \in {"kept", "throwaway"}
      BY <2>5, <3>1 DEF GetBucket, TypeOK, Busy
    <3>3. HadSince(call[c].agent, call[c].limit, call[c].begun - CacheTTL - MaxFetch + 1)'
      BY <3>1, <3>2, SameLimit
    <3>4. CallAge(c)'
      BY <3>2, <3>3 DEF CallAge, Fetching
    <3>5. QED
      BY <3>1, <3>4, CallStep
  <2>6. ASSUME NEW c \in Callers,
               \/ Return(c) \/ SendUnlimited(c) \/ TryRecord(c) \/ RecordThrowaway(c)
        PROVE  AgeInv'
    <3>1. /\ UNCHANGED <<now, row, had, cache>>
          /\ call' = [call EXCEPT ![c] = Idle]
      BY <2>6 DEF Return, SendUnlimited, TryRecord, RecordThrowaway, Admit, storeVars
    <3>2. /\ \A d \in Callers : d # c => call'[d] = call[d]
          /\ call'[c].at = "idle"
      BY <3>1 DEF Idle, TypeOK
    <3>3. CallAge(c)'
      BY <3>2 DEF CallAge, Fetching
    <3>4. QED
      BY <3>1, <3>2, <3>3, CallStep
  <2>7. CASE UNCHANGED vars
    <3>1. ASSUME NEW c \in Callers PROVE CallAge(c)'
      <4>1. call'[c] = call[c] /\ now' = now
        BY <2>7 DEF vars
      <4>2. Fetching(c) => now' <= call[c].begun + MaxFetch
        BY <4>1 DEF AgeInv, CallAge
      <4>3. QED
        BY <4>1, <4>2, SameCall
    <3>2. \A o \in Owners : (<<now, row[o]>> \in had[o])'
      BY <2>7 DEF AgeInv, vars, storeVars
    <3>3. QED
      BY <2>7, <3>1, <3>2, SameCache DEF AgeInv, vars
  <2>8. QED
    BY <2>1, <2>2, <2>3, <2>4, <2>5, <2>6, <2>7 DEF Next
<1>3. TypeOK /\ AgeInv => LimitsNotStale
  <2> SUFFICES ASSUME TypeOK, AgeInv, NEW c \in Callers,
                      call[c].at \in {"check", "kept", "throwaway"}
               PROVE  \E t \in 0..now :
                        /\ t > call[c].begun - CacheTTL - MaxFetch
                        /\ Readable(call[c].agent, call[c].limit, t)
    BY DEF LimitsNotStale
  <2>1. PICK t \in 0..now :
          /\ t >= call[c].begun - CacheTTL - MaxFetch + 1
          /\ Readable(call[c].agent, call[c].limit, t)
    BY DEF AgeInv, CallAge, HadSince
  <2>2. call[c].begun \in Nat
    BY BusyCall
  <2>3. t > call[c].begun - CacheTTL - MaxFetch
    BY <2>1, <2>2
  <2>4. QED
    BY <2>1, <2>3
<1>4. QED
  BY <1>1, <1>2, <1>3, BucketsComplete, PTL DEF Spec
===============================================================================
