------------------------- MODULE RedisTransport_proofs -------------------------
(***************************************************************************)
(* Lemmas about the transport, for the proofs about the components that    *)
(* read through it.                                                        *)
(***************************************************************************)
EXTENDS RedisTransport, TLAPS

\* The readers' steps keep the transport's variables well typed.
LEMMA ReaderTypeOK ==
  ASSUME TransportTypeOK, NEW s \in Subscribers, ReaderStep(s)
  PROVE  TransportTypeOK'
<1> USE TransportAssumption DEF TransportTypeOK, Ids, redisVars
<1>1. ASSUME NEW B \in NextBatches(TopicOf[s]), Claim(TopicOf[s], B)
      PROVE  /\ stream' \in [Topics -> SUBSET Ids]
             /\ cursor' \in [Topics -> Int]
             /\ pel' \in [Topics -> SUBSET Ids]
             /\ B \subseteq Ids
  BY <1>1 DEF Claim, NextBatches, Undelivered
<1>2. CASE Poll(s)
  BY <1>2 DEF Poll, Stop
<1>3. CASE ReadBatch(s)
  BY <1>1, <1>3 DEF ReadBatch
<1>4. CASE ReadNothing(s)
  BY <1>4 DEF ReadNothing
<1>5. CASE ReadCancelled(s)
  BY <1>5 DEF ReadCancelled, Stop
<1>6. CASE ReadFails(s)
  BY <1>1, <1>6 DEF ReadFails
<1>7. ASSUME NEW i \in batch[s],
             EmitMalformed(s, i) \/ EmitSend(s, i) \/ EmitAbandon(s, i)
      PROVE  TransportTypeOK'
  <2>1. CASE EmitMalformed(s, i)
    BY <2>1 DEF EmitMalformed, Passed
  <2>2. CASE EmitSend(s, i)
    BY <2>2 DEF EmitSend, Passed
  <2>3. CASE EmitAbandon(s, i)
    BY <2>3 DEF EmitAbandon, Stop
  <2>4. QED
    BY <1>7, <2>1, <2>2, <2>3
<1>8. QED
  BY <1>2, <1>3, <1>4, <1>5, <1>6, <1>7 DEF ReaderStep

\* XGROUP CREATE leaves the cursor an integer.
LEMMA CreateGroupTypeOK ==
  ASSUME TransportTypeOK, NEW t \in Topics, CreateGroup(t)
  PROVE  cursor' \in [Topics -> Int] /\ stream' = stream /\ pel' = pel
<1>1. PICK newest \in stream[t] \cup {0} :
        cursor' = [cursor EXCEPT ![t] = IF @ = NoGroup THEN newest ELSE @]
  BY DEF CreateGroup
<1>2. newest \in Int
  <2>1. Ids \subseteq Int
    BY TransportAssumption DEF Ids
  <2>2. QED
    BY <2>1 DEF TransportTypeOK
<1>3. QED
  BY <1>1, <1>2 DEF CreateGroup, TransportTypeOK

\* What one XREADGROUP ">" hands out lies behind the group's cursor, which moves to
\* the last of it; so it is handed out once.
LEMMA ClaimMovesOn ==
  ASSUME TransportTypeOK, NEW t \in Topics, NEW B \in NextBatches(t), Claim(t, B)
  PROVE  /\ B \subseteq stream[t] /\ B \subseteq Ids
         /\ cursor[t] # NoGroup
         /\ \A i \in B : i > cursor[t] /\ i <= cursor'[t]
         /\ cursor'[t] \in Int /\ cursor'[t] > cursor[t] /\ cursor'[t] # NoGroup
         /\ \A u \in Topics \ {t} : cursor'[u] = cursor[u]
         /\ pel' = [pel EXCEPT ![t] = @ \cup B]
         /\ stream' = stream
<1> USE TransportAssumption DEF TransportTypeOK
<1>1. PICK last \in B : (\A i \in B : i <= last) /\ cursor' = [cursor EXCEPT ![t] = last]
  BY DEF Claim
<1>2. B \subseteq stream[t] /\ cursor[t] # NoGroup /\ \A i \in B : i > cursor[t]
  BY <1>1 DEF NextBatches, Undelivered
<1>3. B \subseteq Ids /\ Ids \subseteq Nat \ {0}
  BY <1>2 DEF Ids
<1>4. cursor'[t] = last /\ last \in Nat /\ last > cursor[t] /\ last # NoGroup
  BY <1>1, <1>2, <1>3 DEF NoGroup
<1>5. QED
  BY <1>1, <1>2, <1>3, <1>4 DEF Claim
===============================================================================
