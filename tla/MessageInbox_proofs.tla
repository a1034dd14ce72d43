-------------------------- MODULE MessageInbox_proofs --------------------------
(***************************************************************************)
(* Proofs about MessageInbox: mailboxes are read once and in order, what is *)
(* acknowledged is accounted for and what is trimmed is justified, for any *)
(* number of agents, calls and messages, with lost replies and restarts.   *)
(***************************************************************************)
EXTENDS MessageInbox, RedisTransport_proofs, FiniteSetTheorems, TLAPS

-------------------------------------------------------------------------------
(* Type correctness.                                                       *)

\* XADD, with the trimming, leaves a stream of ids.
LEMMA AddTrimmingTypeOK ==
  ASSUME TransportTypeOK, NEW t \in Topics, NEW i \in Ids, NEW len, AddTrimming(t, i, len)
  PROVE  TransportTypeOK'
<1>1. PICK kept \in SUBSET (stream[t] \cup {i}) : stream' = [stream EXCEPT ![t] = kept]
  BY DEF AddTrimming
<1>2. kept \subseteq Ids
  BY <1>1 DEF TransportTypeOK
<1>3. stream' \in [Topics -> SUBSET Ids]
  BY <1>1, <1>2 DEF TransportTypeOK
<1>4. QED
  BY <1>3 DEF AddTrimming, TransportTypeOK, readerVars

\* The history of ids follows the transport's types.
LEMMA RecordedTypeOK ==
  ASSUME TypeOK, TransportTypeOK', Recorded
  PROVE  added' \in [Topics -> SUBSET Ids] /\ claimed' \in [Topics -> SUBSET Ids]
BY DEF TypeOK, TransportTypeOK, Recorded

\* One of the messages returned of a stream is the newest.  (That a finite set of ids
\* has a greatest one takes an induction; that the set of the returned ones keeps it
\* does not, and makes NewestReturned well defined.)
HasNewest(t) ==
  \E i \in Ids \cup {NoId} :
    /\ i = NoId \/ returned[t][i] > 0
    /\ \A j \in Ids : returned[t][j] > 0 => j <= i

\* The newest returned id is what its name says.
LEMMA NewestReturnedIs ==
  ASSUME NEW t, HasNewest(t)
  PROVE  /\ NewestReturned(t) \in Ids \cup {NoId}
         /\ NewestReturned(t) = NoId \/ returned[t][NewestReturned(t)] > 0
         /\ \A j \in Ids : returned[t][j] > 0 => j <= NewestReturned(t)
BY DEF HasNewest, NewestReturned

TypeInv == TypeOK /\ \A t \in Topics : HasNewest(t)

\* Stream ids start at one: NoId is below them all.
LEMMA IdsArePositive == Ids \subseteq Nat \ {0}
BY TransportAssumption DEF Ids

\* Returning a message keeps the types, and the newest one there is.
LEMMA AckAndReturnTypeInv ==
  ASSUME TypeInv, NEW s \in Subscribers, AckAndReturn(s)
  PROVE  TypeInv'
<1> USE TransportAssumption, InboxAssumption
<1> DEFINE t == TopicOf[s]
           i == holding[s]
<1>1. t \in Topics /\ i \in Ids
  <2>1. holding[s] # NoId
    BY DEF TypeInv, TypeOK, AckAndReturn
  <2>2. QED
    BY <2>1 DEF TypeInv, TypeOK
<1>n. Ids \subseteq Nat /\ i \in Nat /\ i > 0
  <2> HIDE DEF i
  <2>1. i \in Nat \ {0}
    BY <1>1, IdsArePositive
  <2>2. QED
    BY <2>1, IdsArePositive
<1>2. returned' = [returned EXCEPT ![t][i] = @ + 1]
  BY DEF AckAndReturn
<1>3. returned \in [Topics -> [Ids -> Nat]] /\ returned[t] \in [Ids -> Nat] /\ returned[t][i] \in Nat
  BY <1>1 DEF TypeInv, TypeOK
<1>4. returned' = [returned EXCEPT ![t] = [returned[t] EXCEPT ![i] = returned[t][i] + 1]]
  BY <1>1, <1>2, <1>3
<1> HIDE DEF t, i
<1>q. [returned[t] EXCEPT ![i] = returned[t][i] + 1] \in [Ids -> Nat]
  BY <1>1, <1>3
<1>5. returned' \in [Topics -> [Ids -> Nat]]
  BY <1>3, <1>4, <1>q
<1> USE DEF t, i
<1>6. TypeOK'
  BY <1>1, <1>5 DEF TypeInv, TypeOK, AckAndReturn, Ack, Ends, Answered, limitVars, seenVars, readerVars,
                    TransportTypeOK
<1>7. ASSUME NEW u \in Topics PROVE HasNewest(u)'
  <2>1. PICK n \in Ids \cup {NoId} :
          /\ n = NoId \/ returned[u][n] > 0
          /\ \A j \in Ids : returned[u][j] > 0 => j <= n
    BY DEF TypeInv, HasNewest
  <2>2. CASE u # t
    <3>1. returned'[u] = returned[u]
      BY <2>2, <1>4
    <3>2. QED
      BY <2>1, <3>1 DEF HasNewest
  <2>3. CASE u = t
    <3> HIDE DEF t, i
    <3>0. returned'[t] = [returned[t] EXCEPT ![i] = returned[t][i] + 1]
      BY <1>1, <1>3, <1>4
    <3>1. /\ returned'[u][i] > 0
          /\ \A j \in Ids \ {i} : returned'[u][j] = returned[u][j]
          /\ \A j \in Ids : returned[u][j] > 0 => returned'[u][j] > 0
      BY <2>3, <1>1, <1>3, <3>0
    <3>2. n \in Nat
      BY <1>n DEF NoId
    <3>3. CASE n <= i
      <4>1. \A j \in Ids : returned'[u][j] > 0 => j <= i
        BY <2>1, <2>3, <3>1, <3>2, <3>3, <1>n
      <4>2. QED
        BY <3>1, <4>1, <1>1 DEF HasNewest
    <3>4. CASE n > i
      <4>1. \A j \in Ids : returned'[u][j] > 0 => j <= n
        BY <2>1, <2>3, <3>1, <3>2, <3>4, <1>n
      <4>2. n # NoId
        BY <3>2, <3>4, <1>n DEF NoId
      <4>3. QED
        BY <2>1, <3>1, <4>1, <4>2 DEF HasNewest
    <3>5. QED
      BY <3>2, <3>3, <3>4, <1>n
  <2>4. QED
    BY <2>2, <2>3
<1>8. QED
  BY <1>6, <1>7 DEF TypeInv

\* So does every other step.
LEMMA StepTypeInv ==
  TypeInv /\ [Next]_vars => TypeInv'
<1> USE TransportAssumption, InboxAssumption
<1> SUFFICES ASSUME TypeInv, [Next]_vars PROVE TypeInv'
  OBVIOUS
<1>t. TypeOK /\ TransportTypeOK
  BY DEF TypeInv, TypeOK
<1>r. ASSUME TypeOK', UNCHANGED returned PROVE TypeInv'
  BY <1>r DEF TypeInv, HasNewest
<1> USE DEF limitVars, seenVars, receiveVars, Limits, Answered
<1>1. CASE Restart
  BY <1>1, <1>t, <1>r DEF Restart, Vanish, redisVars, TypeOK, TransportTypeOK, Idle
<1>2. ASSUME NEW a \in Owners, NEW len \in Lengths \cup {NoRow}, SetMaxLen(a, len) PROVE TypeInv'
  <2>1. /\ maxLen' \in [Owners -> Lengths \cup {NoRow}]
        /\ hadLens' \in [Owners -> SUBSET (Lengths \cup {NoRow})]
    BY <1>2, <1>t DEF SetMaxLen, TypeOK
  <2>2. changes' \in Nat
    BY <1>2, <1>t DEF SetMaxLen, TypeOK
  <2>3. QED
    BY <1>2, <2>1, <2>2, <1>t, <1>r
    DEF SetMaxLen, TypeOK, TransportTypeOK, transportVars, redisVars, readerVars
<1>3. ASSUME NEW c \in Senders, NEW t \in Topics, NEW a \in Agents, Begin(c, t, a)
      PROVE  TypeInv'
  <2>1. \A len \in Limits : Ready(t, len) \in Sending
    BY DEF Ready, Sending
  <2>2. [at |-> "fallback", to |-> t] \in Looking
    BY DEF Looking
  <2>3. maxLen[a] # NoRow => maxLen[a] \in Limits
    BY <1>t DEF TypeOK, Owners
  <2>4. send' \in [Senders -> Looking \cup Sending \cup {Idle}]
    <3>1. PICK new \in Looking \cup Sending : send' = [send EXCEPT ![c] = new]
      BY <1>3, <2>1, <2>2, <2>3 DEF Begin
    <3>2. QED
      BY <3>1, <1>t DEF TypeOK
  <2>5. UNCHANGED <<transportVars, limitVars, seenVars, receiveVars>>
    BY <1>3 DEF Begin
  <2>6. QED
    BY <2>4, <2>5, <1>t, <1>r DEF TypeOK, TransportTypeOK, transportVars, redisVars, readerVars
<1>b. ASSUME NEW c \in Senders, FallBack(c) PROVE TypeInv'
  <2>1. send[c] \in Looking
    BY <1>b, <1>t DEF FallBack, TypeOK, Idle, Sending
  <2>2. \A len \in Limits : Ready(send[c].to, len) \in Sending
    BY <2>1 DEF Ready, Sending, Looking
  <2>3. send' \in [Senders -> Looking \cup Sending \cup {Idle}]
    BY <1>b, <2>2, <1>t DEF FallBack, TypeOK
  <2>4. UNCHANGED <<transportVars, limitVars, seenVars, receiveVars>>
    BY <1>b DEF FallBack
  <2>5. QED
    BY <2>3, <2>4, <1>t, <1>r DEF TypeOK, TransportTypeOK, transportVars, redisVars, readerVars
<1>4. ASSUME NEW c \in Senders, PublishRetried(c) \/ Publish(c) PROVE TypeInv'
  <2>1. send[c] \in Sending
    <3>1. send[c].at = "ready" /\ send[c] \in Looking \cup Sending \cup {Idle}
      BY <1>4, <1>t DEF PublishRetried, Publish, TypeOK
    <3>2. QED
      BY <3>1 DEF Idle, Looking
  <2>2. PICK i \in Ids : AddTrimming(send[c].to, i, send[c].len)
    BY <1>4 DEF PublishRetried, Publish, AddEntry
  <2>3. TransportTypeOK'
    BY <2>1, <2>2, <1>t, AddTrimmingTypeOK DEF Sending
  <2>4. added' \in [Topics -> SUBSET Ids] /\ claimed' \in [Topics -> SUBSET Ids]
    BY <1>4, <2>3, <1>t, RecordedTypeOK DEF PublishRetried, Publish
  <2>5. send' \in [Senders -> Looking \cup Sending \cup {Idle}]
    <3>1. CASE PublishRetried(c)
      <4>1. send[c].lost + 1 \in 0 .. Retries
        BY <2>1, <3>1 DEF PublishRetried, Sending
      <4>2. [send[c] EXCEPT !.lost = @ + 1] \in Sending
        BY <2>1, <4>1 DEF Sending
      <4>3. QED
        BY <3>1, <4>2, <1>t DEF PublishRetried, TypeOK
    <3>2. CASE Publish(c)
      BY <3>2, <1>t DEF Publish, TypeOK
    <3>3. QED
      BY <1>4, <3>1, <3>2
  <2>6. QED
    BY <1>4, <2>3, <2>4, <2>5, <1>t, <1>r DEF PublishRetried, Publish, TypeOK
<1>5. ASSUME NEW c \in Senders, SendFails(c) PROVE TypeInv'
  BY <1>5, <1>t, <1>r
  DEF SendFails, TypeOK, TransportTypeOK, transportVars, redisVars, readerVars
<1>6. ASSUME NEW s \in Subscribers, StartReceive(s) PROVE TypeInv'
  <2>1. NewestReturned(TopicOf[s]) \in Ids \cup {NoId}
    BY NewestReturnedIs DEF TypeInv
  <2>2. QED
    BY <1>6, <2>1, <1>t, <1>r DEF StartReceive, OpenRequest, redisVars, TypeOK, TransportTypeOK
<1>7. ASSUME NEW s \in Subscribers, SubscribeStep(s) PROVE TypeInv'
  <2>1. TransportTypeOK'
    <3>1. CASE Subscribe(s)
      BY <1>t, <3>1, CreateGroupTypeOK DEF Subscribe, TransportTypeOK
    <3>2. CASE SubscribeFails(s)
      BY <1>t, <3>2, CreateGroupTypeOK DEF SubscribeFails, redisVars, readerVars, TransportTypeOK
    <3>3. QED
      BY <1>7, <3>1, <3>2 DEF SubscribeStep
  <2>2. QED
    BY <1>7, <2>1, <1>t, <1>r DEF SubscribeStep, TypeOK
<1>8. ASSUME NEW s \in Subscribers, TakeDelivery(s) PROVE TypeInv'
  BY <1>8, <1>t, <1>r DEF TakeDelivery, TakeFrom, redisVars, TypeOK, TransportTypeOK
<1>9. ASSUME NEW s \in Subscribers, ReturnEmpty(s) PROVE TypeInv'
  BY <1>9, <1>t, <1>r
  DEF ReturnEmpty, TypeOK, TransportTypeOK, transportVars, redisVars, readerVars
<1>10. ASSUME NEW s \in Subscribers, AckAndReturn(s) PROVE TypeInv'
  BY <1>10, AckAndReturnTypeInv
<1>11. ASSUME NEW s \in Subscribers, AckFails(s) PROVE TypeInv'
  <2>1. TransportTypeOK'
    BY <1>11, <1>t DEF AckFails, Ack, transportVars, redisVars, readerVars, TransportTypeOK
  <2>2. holding[s] \in Ids
    BY <1>11, <1>t DEF AckFails, TypeOK
  <2>3. dropped' \in [Topics -> SUBSET Ids]
    <3>1. dropped \in [Topics -> SUBSET Ids]
      BY <1>t DEF TypeOK
    <3>2. dropped' = dropped \/ dropped' = [dropped EXCEPT ![TopicOf[s]] = @ \cup {holding[s]}]
      BY <1>11 DEF AckFails
    <3>3. QED
      BY <3>1, <3>2, <2>2
  <2>4. QED
    BY <1>11, <2>1, <2>3, <1>t, <1>r DEF AckFails, Ends, TypeOK
<1>12. ASSUME NEW s \in Subscribers, CancelRequest(s) PROVE TypeInv'
  BY <1>12, <1>t, <1>r DEF CancelRequest, Cancel, redisVars, TypeOK, TransportTypeOK
<1>13. ASSUME NEW s \in Subscribers, Reader(s) PROVE TypeInv'
  <2>1. TransportTypeOK'
    BY <1>13, <1>t, ReaderTypeOK DEF Reader
  <2>2. QED
    BY <1>13, <2>1, <1>t, <1>r, RecordedTypeOK DEF Reader, TypeOK
<1>14. CASE UNCHANGED vars
  BY <1>14, <1>t, <1>r
  DEF vars, inboxVars, transportVars, redisVars, readerVars, TypeOK, TransportTypeOK
<1>15. QED
  BY <1>1, <1>2, <1>3, <1>b, <1>4, <1>5, <1>6, <1>7, <1>8, <1>9, <1>10, <1>11, <1>12, <1>13,
     <1>14 DEF Next, SendMessage, ReportEvent, Agents

\* Every variable keeps its type: the mailboxes, the calls that send and receive, and
\* the histories; a call holds a delivery just while it acknowledges it.
LEMMA TypeInvariant == Spec => []TypeInv
<1>1. Init => TypeInv
  <2> SUFFICES ASSUME Init PROVE TypeInv
    OBVIOUS
  <2>1. TypeOK
    BY TransportAssumption, InboxAssumption
    DEF Init, TransportInit, TypeOK, TransportTypeOK, NoGroup, Idle
  <2>2. \A t \in Topics : HasNewest(t)
    <3>1. ASSUME NEW t \in Topics PROVE \A j \in Ids : ~(returned[t][j] > 0)
      BY <3>1 DEF Init
    <3>2. QED
      BY <3>1 DEF HasNewest
  <2>3. QED
    BY <2>1, <2>2 DEF TypeInv
<1>2. QED
  BY <1>1, StepTypeInv, PTL DEF Spec

\* Type correctness of the inbox: calls, readers, the stream and its history.
THEOREM TypeCorrect == Spec => []TypeOK
<1>1. TypeInv => TypeOK
  BY DEF TypeInv
<1>2. QED
  BY <1>1, TypeInvariant, PTL

-------------------------------------------------------------------------------
(* The inductive invariant.                                                *)

\* What the reader and the handler of slot s have of the group's entries.
Carried(s) == batch[s] \cup ({chan[s], holding[s]} \ {NoId})

\* Each of it in one place, and a batch only between two reads.
OwnCarry(s) ==
  /\ chan[s] \notin batch[s] /\ holding[s] \notin batch[s]
  /\ chan[s] # NoId => chan[s] # holding[s]
  /\ reader[s] # "emit" => batch[s] = {}

\* Entries handed to the group lie behind its cursor.
ClaimInv ==
  \A t \in Topics :
    /\ pel[t] \subseteq claimed[t]
    /\ \A i \in claimed[t] : cursor[t] # NoGroup /\ i <= cursor[t]

\* An entry is carried by one slot at most, and unacknowledged as long.
CarryInv ==
  \A s \in Subscribers :
    /\ OwnCarry(s)
    /\ Carried(s) \subseteq pel[TopicOf[s]]
    /\ \A u \in Subscribers \ {s} :
         TopicOf[u] = TopicOf[s] => Carried(u) \cap Carried(s) = {}

\* What was returned had been handed to the group and is acknowledged.
ReturnInv ==
  \A t \in Topics : \A i \in Ids :
    returned[t][i] # 0 => returned[t][i] = 1 /\ i \in claimed[t] /\ i \notin pel[t]

\* What was acknowledged was returned, or malformed, or dropped.
AccountInv ==
  \A t \in Topics : \A i \in claimed[t] \ pel[t] :
    returned[t][i] # 0 \/ i \in Malformed[t] \/ i \in dropped[t]

\* A call that waits carries only what was claimed after it began: what had been
\* returned by then is behind the cursor.
FloorInv ==
  \A s \in Subscribers :
    /\ floor[s] # NoId => floor[s] \in claimed[TopicOf[s]]
    /\ receive[s] = "admitted" => reader[s] = "off"
    /\ receive[s] \in {"waiting", "acking"} => \A i \in Carried(s) : i > floor[s]

InboxInv == ClaimInv /\ CarryInv /\ ReturnInv /\ AccountInv /\ FloorInv

\* A step of one slot that takes up nothing new, and acknowledges at most what it gives
\* up, leaves the carriers exclusive.
LEMMA SlotReleases ==
  ASSUME CarryInv, NEW s \in Subscribers, NEW X,
         \A u \in Subscribers \ {s} :
           /\ reader'[u] = reader[u]
           /\ batch'[u] = batch[u]
           /\ chan'[u] = chan[u]
           /\ holding'[u] = holding[u],
         OwnCarry(s)',
         X \subseteq Carried(s),
         Carried(s)' \subseteq Carried(s) \ X,
         pel[TopicOf[s]] \ X \subseteq pel'[TopicOf[s]],
         \A t \in Topics \ {TopicOf[s]} : pel'[t] = pel[t]
  PROVE  CarryInv'
<1>1. \A u \in Subscribers \ {s} : Carried(u)' = Carried(u) /\ (OwnCarry(u) => OwnCarry(u)')
  BY DEF Carried, OwnCarry
<1>2. ASSUME NEW u \in Subscribers
      PROVE  /\ OwnCarry(u)'
             /\ Carried(u)' \subseteq Carried(u)
             /\ Carried(u)' \subseteq pel'[TopicOf[u]]
  <2>1. CASE u = s
    BY <2>1 DEF CarryInv
  <2>2. CASE u # s
    <3>1. Carried(u) \subseteq pel[TopicOf[u]]
      BY DEF CarryInv
    <3>2. TopicOf[u] \in Topics
      BY TransportAssumption
    <3>3. TopicOf[u] = TopicOf[s] => Carried(u) \cap X = {}
      BY <2>2 DEF CarryInv
    <3>4. Carried(u) \subseteq pel'[TopicOf[u]]
      BY <3>1, <3>2, <3>3
    <3>5. QED
      BY <1>1, <2>2, <3>4 DEF CarryInv
  <2>3. QED
    BY <2>1, <2>2
<1>3. \A u \in Subscribers : \A w \in Subscribers \ {u} :
        TopicOf[w] = TopicOf[u] => Carried(w)' \cap Carried(u)' = {}
  BY <1>2 DEF CarryInv
<1>4. QED
  BY <1>2, <1>3 DEF CarryInv

\* What each part of the invariant does not depend on cannot disturb it.
LEMMA Frames ==
  /\ ClaimInv /\ UNCHANGED <<pel, claimed, cursor>> => ClaimInv'
  /\ CarryInv /\ UNCHANGED <<pel, reader, batch, chan, holding>> => CarryInv'
  /\ ReturnInv /\ UNCHANGED <<pel, claimed, returned>> => ReturnInv'
  /\ AccountInv /\ UNCHANGED <<pel, claimed, returned, dropped>> => AccountInv'
  /\ FloorInv /\ UNCHANGED <<claimed, reader, batch, chan, holding, receive, floor>> => FloorInv'
<1>1. UNCHANGED <<reader, batch, chan, holding>> =>
        \A s \in Subscribers : Carried(s)' = Carried(s) /\ (OwnCarry(s) => OwnCarry(s)')
  BY DEF Carried, OwnCarry
<1>2. ClaimInv /\ UNCHANGED <<pel, claimed, cursor>> => ClaimInv'
  BY DEF ClaimInv
<1>3. CarryInv /\ UNCHANGED <<pel, reader, batch, chan, holding>> => CarryInv'
  BY <1>1 DEF CarryInv
<1>4. ReturnInv /\ UNCHANGED <<pel, claimed, returned>> => ReturnInv'
  BY DEF ReturnInv
<1>5. AccountInv /\ UNCHANGED <<pel, claimed, returned, dropped>> => AccountInv'
  BY DEF AccountInv
<1>6. FloorInv /\ UNCHANGED <<claimed, reader, batch, chan, holding, receive, floor>> => FloorInv'
  BY <1>1 DEF FloorInv
<1>7. QED
  BY <1>2, <1>3, <1>4, <1>5, <1>6

\* A call that ends gives up its floor, and what it held.
LEMMA AnswersLower ==
  ASSUME TypeInv, FloorInv, NEW s \in Subscribers, Answered(s),
         UNCHANGED <<claimed, reader, batch, chan>>,
         \A u \in Subscribers \ {s} : holding'[u] = holding[u]
  PROVE  FloorInv'
<1>1. /\ receive'[s] = "idle" /\ floor'[s] = NoId
      /\ \A u \in Subscribers \ {s} : receive'[u] = receive[u] /\ floor'[u] = floor[u]
  BY DEF Answered, TypeInv, TypeOK
<1>2. \A u \in Subscribers \ {s} : Carried(u)' = Carried(u)
  BY DEF Carried
<1>3. QED
  BY <1>1, <1>2 DEF FloorInv

\* A step that hands out, acknowledges, and records nothing keeps the histories right.
LEMMA HistoryStays ==
  ASSUME TypeInv, ClaimInv, Recorded, UNCHANGED pel
  PROVE  claimed' = claimed
BY DEF ClaimInv, Recorded, TypeInv, TypeOK

\* Handing a batch to the group: the entries are fresh, and newer than whatever any
\* call that waits on the stream had seen.
LEMMA ClaimIsFresh ==
  ASSUME TypeInv, InboxInv, NEW s \in Subscribers, NEW B \in NextBatches(TopicOf[s]),
         Claim(TopicOf[s], B), Recorded, UNCHANGED <<returned, dropped, floor>>
  PROVE  /\ ClaimInv' /\ ReturnInv' /\ AccountInv'
         /\ B \subseteq Ids /\ B \cap claimed[TopicOf[s]] = {}
         /\ \A i \in B : i > floor[s]
         /\ pel'[TopicOf[s]] = pel[TopicOf[s]] \cup B
         /\ \A u \in Topics \ {TopicOf[s]} : pel'[u] = pel[u]
         /\ \A u \in Topics : claimed[u] \subseteq claimed'[u]
<1> USE TransportAssumption
<1> DEFINE t == TopicOf[s]
<1>t. t \in Topics /\ TransportTypeOK
  BY DEF TypeInv, TypeOK
<1>i. ClaimInv /\ ReturnInv /\ AccountInv /\ FloorInv
  BY DEF InboxInv
<1>1. /\ B \subseteq stream[t] /\ B \subseteq Ids
      /\ cursor[t] # NoGroup
      /\ \A i \in B : i > cursor[t] /\ i <= cursor'[t]
      /\ cursor'[t] \in Int /\ cursor'[t] > cursor[t] /\ cursor'[t] # NoGroup
      /\ \A u \in Topics \ {t} : cursor'[u] = cursor[u]
      /\ pel' = [pel EXCEPT ![t] = @ \cup B]
      /\ stream' = stream
  BY <1>t, ClaimMovesOn
<1>2. /\ pel'[t] = pel[t] \cup B
      /\ \A u \in Topics \ {t} : pel'[u] = pel[u]
  BY <1>1, <1>t DEF TransportTypeOK
<1>3. \A u \in Topics : claimed'[u] = claimed[u] \cup pel'[u]
  BY DEF Recorded
<1>4. /\ claimed'[t] = claimed[t] \cup B
      /\ \A u \in Topics \ {t} : claimed'[u] = claimed[u]
  BY <1>2, <1>3, <1>i, ZenonT(60) DEF ClaimInv
<1>c. cursor[t] \in Int /\ Ids \subseteq Nat \ {0} /\ claimed[t] \subseteq Ids
  BY <1>t, IdsArePositive DEF TransportTypeOK, TypeInv, TypeOK
<1>5. B \cap claimed[t] = {}
  <2> SUFFICES ASSUME NEW i \in B, i \in claimed[t] PROVE FALSE
    OBVIOUS
  <2>1. i > cursor[t]
    BY <1>1
  <2>2. i <= cursor[t]
    BY <1>i, <1>t DEF ClaimInv
  <2>3. i \in Ids
    BY <1>1
  <2>4. i \in Nat
    BY <2>3, IdsArePositive
  <2>5. QED
    BY <2>1, <2>2, <2>4, <1>c
<1>6. ClaimInv'
  <2> SUFFICES ASSUME NEW u \in Topics
               PROVE  /\ pel'[u] \subseteq claimed'[u]
                      /\ \A i \in claimed'[u] : cursor'[u] # NoGroup /\ i <= cursor'[u]
    BY DEF ClaimInv
  <2>1. CASE u # t
    BY <2>1, <1>1, <1>2, <1>4, <1>i DEF ClaimInv
  <2>2. CASE u = t
    <3>1. ASSUME NEW i \in claimed[t] PROVE i <= cursor'[t]
      <4>1. i \in Int /\ i <= cursor[t]
        <5>1. i \in Nat \ {0}
          BY <3>1, <1>c
        <5>2. i <= cursor[t]
          BY <3>1, <1>i, <1>t DEF ClaimInv
        <5>3. QED
          BY <5>1, <5>2
      <4>2. QED
        BY <4>1, <1>1, <1>c
    <3>2. QED
      BY <2>2, <3>1, <1>1, <1>2, <1>3, <1>4
  <2>3. QED
    BY <2>1, <2>2
<1>7. ReturnInv'
  BY <1>2, <1>4, <1>5, <1>i DEF ReturnInv
<1>8. AccountInv'
  BY <1>2, <1>4, <1>i DEF AccountInv
<1>9. ASSUME NEW i \in B PROVE i > floor[s]
  <2>1. i \in Nat \ {0} /\ i > cursor[t]
    BY <1>1, <1>c
  <2>2. CASE floor[s] = NoId
    BY <2>1, <2>2 DEF NoId
  <2>3. CASE floor[s] # NoId
    <3>1. floor[s] \in claimed[t]
      BY <2>3, <1>i DEF FloorInv
    <3>2. floor[s] \in Int /\ floor[s] <= cursor[t]
      BY <3>1, <1>i, <1>c DEF ClaimInv
    <3>3. QED
      BY <2>1, <3>2, <1>c
  <2>4. QED
    BY <2>2, <2>3
<1>10. QED
  BY <1>1, <1>2, <1>4, <1>5, <1>6, <1>7, <1>8, <1>9

\* The reader goroutines keep the invariant, whatever becomes of the calls that
\* started them.
LEMMA ReaderKeepsInbox ==
  ASSUME TypeInv, InboxInv, NEW s \in Subscribers, Reader(s)
  PROVE  InboxInv'
<1> USE TransportAssumption
<1> DEFINE t == TopicOf[s]
<1>g. UNCHANGED <<receive, holding, returned, dropped, floor>> /\ Recorded
  BY DEF Reader, receiveVars
<1>t. t \in Topics /\ TransportTypeOK
  BY DEF TypeInv, TypeOK
<1>i. ClaimInv /\ CarryInv /\ ReturnInv /\ AccountInv /\ FloorInv /\ OwnCarry(s)
  BY DEF InboxInv, CarryInv
<1>o. /\ reader[s] # "off"
      /\ \A u \in Subscribers \ {s} :
           /\ reader'[u] = reader[u]
           /\ batch'[u] = batch[u]
           /\ chan'[u] = chan[u]
           /\ holding'[u] = holding[u]
  <2>1. \A u \in Subscribers \ {s} :
           /\ reader'[u] = reader[u]
           /\ batch'[u] = batch[u]
           /\ chan'[u] = chan[u]
    BY <1>t DEF Reader, ReaderStep, Poll, ReadBatch, ReadNothing, ReadCancelled, ReadFails,
                EmitMalformed, EmitSend, EmitAbandon, Passed, Stop, TransportTypeOK
  <2>2. reader[s] # "off"
    BY DEF Reader, ReaderStep, Poll, ReadBatch, ReadNothing, ReadCancelled, ReadFails,
           EmitMalformed, EmitSend, EmitAbandon
  <2>3. QED
    BY <2>1, <2>2, <1>g
<1>n. NoId \notin Ids
  BY IdsArePositive DEF NoId
<1>f. ASSUME \A u \in Topics : claimed[u] \subseteq claimed'[u],
             \A i \in Carried(s)' : i \in Carried(s) \/ i > floor[s]
      PROVE  FloorInv'
  <2> SUFFICES ASSUME NEW u \in Subscribers
               PROVE  /\ floor'[u] # NoId => floor'[u] \in claimed'[TopicOf[u]]
                      /\ receive'[u] = "admitted" => reader'[u] = "off"
                      /\ receive'[u] \in {"waiting", "acking"} =>
                           \A i \in Carried(u)' : i > floor'[u]
    BY DEF FloorInv
  <2>1. CASE u = s
    BY <2>1, <1>f, <1>g, <1>i, <1>o DEF FloorInv
  <2>2. CASE u # s
    <3>1. Carried(u)' = Carried(u)
      BY <2>2, <1>o DEF Carried
    <3>2. QED
      BY <2>2, <3>1, <1>f, <1>g, <1>i, <1>o DEF FloorInv
  <2>3. QED
    BY <2>1, <2>2
\* Steps that hand nothing out.
<1>q. ASSUME UNCHANGED redisVars, OwnCarry(s)', Carried(s)' \subseteq Carried(s)
      PROVE  InboxInv'
  <2>1. UNCHANGED <<pel, cursor, claimed>>
    BY <1>q, <1>g, <1>i, HistoryStays DEF redisVars
  <2>2. CarryInv'
    BY <1>q, <1>i, <1>o, <2>1, SlotReleases
  <2>3. FloorInv'
    BY <1>q, <1>f, <2>1
  <2>4. QED
    BY <2>1, <2>2, <2>3, <1>g, <1>i, Frames DEF InboxInv
<1>1. CASE Poll(s) \/ ReadNothing(s) \/ ReadCancelled(s)
  <2>1. UNCHANGED redisVars /\ UNCHANGED <<chan, holding>>
    BY <1>1, <1>g DEF Poll, ReadNothing, ReadCancelled
  <2>2. reader[s] # "emit" /\ (batch'[s] = {} \/ batch'[s] = batch[s])
    BY <1>1, <1>t DEF Poll, ReadNothing, ReadCancelled, Stop, TransportTypeOK
  <2>3. batch[s] = {} /\ batch'[s] = {}
    BY <2>2, <1>i DEF OwnCarry
  <2>4. QED
    BY <2>1, <2>3, <1>i, <1>q DEF OwnCarry, Carried
<1>2. ASSUME NEW B \in NextBatches(t), Claim(t, B)
      PROVE  /\ ClaimInv' /\ ReturnInv' /\ AccountInv'
             /\ B \subseteq Ids /\ B \cap claimed[t] = {}
             /\ \A i \in B : i > floor[s]
             /\ pel'[t] = pel[t] \cup B
             /\ \A u \in Topics \ {t} : pel'[u] = pel[u]
             /\ \A u \in Topics : claimed[u] \subseteq claimed'[u]
  BY <1>2, <1>g, ClaimIsFresh
<1>3. CASE ReadBatch(s)
  <2>1. PICK B \in NextBatches(t) : Claim(t, B) /\ batch' = [batch EXCEPT ![s] = B]
    BY <1>3 DEF ReadBatch
  <2>2. reader[s] = "read" /\ reader'[s] = "emit" /\ UNCHANGED <<chan, holding>>
    BY <1>3, <1>g, <1>t DEF ReadBatch, TransportTypeOK
  <2>3. batch[s] = {} /\ batch'[s] = B
    BY <2>1, <2>2, <1>i, <1>t DEF OwnCarry, TransportTypeOK
  <2>4. Carried(s)' = Carried(s) \cup B
    BY <2>2, <2>3 DEF Carried
  <2>5. \A u \in Subscribers : TopicOf[u] = t => Carried(u) \subseteq claimed[t]
    BY <1>i, <1>t DEF CarryInv, ClaimInv
  <2>6. OwnCarry(s)'
    BY <2>1, <2>2, <2>3, <2>5, <1>2, <1>i, <1>n DEF OwnCarry, Carried
  <2>7. CarryInv'
    <3>1. ASSUME NEW u \in Subscribers
          PROVE  OwnCarry(u)' /\ Carried(u)' \subseteq pel'[TopicOf[u]]
      <4>1. CASE u = s
        BY <4>1, <2>1, <2>4, <2>6, <1>2, <1>i DEF CarryInv
      <4>2. CASE u # s
        <5>1. Carried(u)' = Carried(u) /\ (OwnCarry(u) => OwnCarry(u)')
          BY <4>2, <1>o DEF Carried, OwnCarry
        <5>2. pel[TopicOf[u]] \subseteq pel'[TopicOf[u]]
          BY <2>1, <1>2
        <5>3. QED
          BY <5>1, <5>2, <1>i DEF CarryInv
      <4>3. QED
        BY <4>1, <4>2
    <3>2. ASSUME NEW u \in Subscribers, NEW w \in Subscribers \ {u}, TopicOf[w] = TopicOf[u]
          PROVE  Carried(w)' \cap Carried(u)' = {}
      <4>1. \A v \in Subscribers \ {s} : Carried(v)' = Carried(v)
        BY <1>o DEF Carried
      <4>2. \A v \in Subscribers \ {s} : TopicOf[v] = t => Carried(v) \cap B = {}
        BY <2>1, <2>5, <1>2
      <4>3. Carried(w) \cap Carried(u) = {}
        BY <3>2, <1>i DEF CarryInv
      <4>4. QED
        BY <3>2, <4>1, <4>2, <4>3, <2>4
    <3>3. QED
      BY <3>1, <3>2 DEF CarryInv
  <2>8. FloorInv'
    BY <2>1, <2>4, <1>2, <1>f
  <2>9. QED
    BY <2>1, <2>7, <2>8, <1>2 DEF InboxInv
<1>4. CASE ReadFails(s)
  <2>1. UNCHANGED <<batch, chan, holding>> /\ reader[s] = "read"
    BY <1>4, <1>g DEF ReadFails
  <2>2. OwnCarry(s)' /\ Carried(s)' = Carried(s)
    BY <2>1, <1>i DEF OwnCarry, Carried
  <2>3. ASSUME NEW B \in NextBatches(t), Claim(t, B) PROVE InboxInv'
    <3>0. /\ {} \subseteq Carried(s) /\ Carried(s)' \subseteq Carried(s) \ {}
          /\ pel[t] \ {} \subseteq pel'[t]
          /\ \A u \in Topics \ {t} : pel'[u] = pel[u]
      BY <2>2, <2>3, <1>2
    <3>1. CarryInv'
      BY <3>0, <2>2, <1>i, <1>o, SlotReleases
    <3>2. FloorInv'
      BY <2>2, <2>3, <1>2, <1>f
    <3>3. QED
      BY <2>3, <3>1, <3>2, <1>2 DEF InboxInv
  <2>4. QED
    BY <1>4, <2>2, <2>3, <1>q DEF ReadFails
<1>5. ASSUME NEW i \in batch[s], EmitMalformed(s, i) PROVE InboxInv'
  <2>1. /\ i \in Malformed[t]
        /\ batch'[s] = batch[s] \ {i}
        /\ reader'[s] # "emit" => batch[s] = {i}
        /\ UNCHANGED <<chan, holding, cursor>>
    BY <1>5, <1>g, <1>t DEF EmitMalformed, Passed, TransportTypeOK
  <2>2. OwnCarry(s)' /\ Carried(s)' = Carried(s) \ {i} /\ i \in Carried(s)
    BY <2>1, <1>i DEF OwnCarry, Carried
  <2>3. CASE UNCHANGED pel
    <3>1. UNCHANGED redisVars
      BY <1>5, <2>3 DEF EmitMalformed, redisVars
    <3>2. QED
      BY <3>1, <2>2, <1>q
  <2>4. CASE pel' = [pel EXCEPT ![t] = @ \ {i}]
    <3>1. /\ pel'[t] = pel[t] \ {i}
          /\ \A u \in Topics \ {t} : pel'[u] = pel[u]
      BY <2>4, <1>t DEF TransportTypeOK
    <3>2. \A u \in Topics : claimed'[u] = claimed[u] /\ pel'[u] \subseteq pel[u]
      BY <3>1, <1>g, <1>i DEF ClaimInv, Recorded
    <3>3. ClaimInv'
      BY <2>1, <3>2, <1>i DEF ClaimInv
    <3>4. CarryInv'
      BY <2>2, <3>1, <1>i, <1>o, SlotReleases
    <3>5. ReturnInv'
      BY <3>2, <1>g, <1>i DEF ReturnInv
    <3>6. AccountInv'
      BY <2>1, <3>1, <3>2, <1>g, <1>i DEF AccountInv
    <3>7. FloorInv'
      BY <2>2, <3>2, <1>f
    <3>8. QED
      BY <3>3, <3>4, <3>5, <3>6, <3>7 DEF InboxInv
  <2>5. QED
    BY <1>5, <2>3, <2>4 DEF EmitMalformed
<1>6. ASSUME NEW i \in batch[s], EmitSend(s, i) PROVE InboxInv'
  <2>1. /\ UNCHANGED redisVars /\ UNCHANGED holding
        /\ chan[s] = NoId /\ chan'[s] = i
        /\ batch'[s] = batch[s] \ {i}
        /\ reader'[s] # "emit" => batch[s] = {i}
    BY <1>6, <1>g, <1>t DEF EmitSend, Passed, TransportTypeOK
  <2>2. OwnCarry(s)' /\ Carried(s)' \subseteq Carried(s)
    BY <2>1, <1>6, <1>i DEF OwnCarry, Carried
  <2>3. QED
    BY <2>1, <2>2, <1>q
<1>7. ASSUME NEW i \in batch[s], EmitAbandon(s, i) PROVE InboxInv'
  <2>1. UNCHANGED redisVars /\ UNCHANGED <<chan, holding>> /\ batch'[s] = {}
    BY <1>7, <1>g, <1>t DEF EmitAbandon, Stop, TransportTypeOK
  <2>2. OwnCarry(s)' /\ Carried(s)' \subseteq Carried(s)
    BY <2>1, <1>i DEF OwnCarry, Carried
  <2>3. QED
    BY <2>1, <2>2, <1>q
<1>8. QED
  BY <1>1, <1>3, <1>4, <1>5, <1>6, <1>7 DEF Reader, ReaderStep

\* Subscribing moves no cursor that has handed anything out, and starts its reader
\* with nothing to carry.
LEMMA SubscribeKeepsInbox ==
  ASSUME TypeInv, InboxInv, NEW s \in Subscribers, SubscribeStep(s)
  PROVE  InboxInv'
<1> USE TransportAssumption
<1>g. UNCHANGED <<holding, returned, dropped, added, claimed>> /\ receive[s] = "admitted"
  BY DEF SubscribeStep, seenVars
<1>t. TopicOf[s] \in Topics /\ TransportTypeOK /\ receive \in [Subscribers -> {"idle", "admitted", "waiting", "acking"}]
  BY DEF TypeInv, TypeOK
<1>i. ClaimInv /\ CarryInv /\ ReturnInv /\ AccountInv /\ FloorInv
  BY DEF InboxInv
<1>1. ASSUME CreateGroup(TopicOf[s]) PROVE ClaimInv' /\ UNCHANGED pel
  <2>1. \A a \in Topics : cursor[a] # NoGroup => cursor'[a] = cursor[a]
    BY <1>1, <1>t DEF CreateGroup, TransportTypeOK
  <2>2. QED
    BY <1>1, <2>1, <1>g, <1>i DEF ClaimInv, CreateGroup
<1>2. ASSUME Subscribe(s), receive' = [receive EXCEPT ![s] = "waiting"], UNCHANGED floor
      PROVE  InboxInv'
  <2>1. ClaimInv' /\ UNCHANGED pel
    BY <1>1, <1>2 DEF Subscribe
  <2>2. /\ \A u \in Subscribers \ {s} :
             /\ reader'[u] = reader[u]
             /\ batch'[u] = batch[u]
             /\ chan'[u] = chan[u]
             /\ holding'[u] = holding[u]
             /\ receive'[u] = receive[u]
        /\ batch'[s] = {} /\ chan'[s] = NoId
    BY <1>2, <1>g, <1>t DEF Subscribe, TransportTypeOK
  <2>3. holding[s] = NoId
    BY <1>g DEF TypeInv, TypeOK
  <2>4. OwnCarry(s)' /\ Carried(s)' = {}
    BY <2>2, <2>3, <1>g DEF OwnCarry, Carried
  <2>5. {} \subseteq Carried(s) /\ Carried(s)' \subseteq Carried(s) \ {} /\ pel[TopicOf[s]] \ {} \subseteq pel'[TopicOf[s]]
    BY <2>1, <2>4
  <2>6. CarryInv'
    BY <2>1, <2>2, <2>4, <2>5, <1>i, SlotReleases, ZenonT(60)
  <2>7. FloorInv'
    <3>1. \A u \in Subscribers \ {s} : Carried(u)' = Carried(u)
      BY <2>2 DEF Carried
    <3>2. receive'[s] = "waiting" /\ UNCHANGED floor
      BY <1>2, <1>t
    <3>3. QED
      BY <2>2, <2>4, <3>1, <3>2, <1>g, <1>i DEF FloorInv
  <2>8. QED
    BY <2>1, <2>6, <2>7, <1>g, <1>i, Frames DEF InboxInv
<1>3. ASSUME SubscribeFails(s), Answered(s) PROVE InboxInv'
  <2>1. ClaimInv' /\ UNCHANGED pel
    BY <1>1, <1>3, <1>g, <1>i, Frames DEF SubscribeFails, redisVars
  <2>2. UNCHANGED <<reader, batch, chan>>
    BY <1>3 DEF SubscribeFails, readerVars
  <2>3. FloorInv'
    BY <1>3, <2>2, <1>g, <1>i, AnswersLower
  <2>4. QED
    BY <2>1, <2>2, <2>3, <1>g, <1>i, Frames DEF InboxInv
<1>4. QED
  BY <1>2, <1>3 DEF SubscribeStep

\* A call that starts has the newest message returned so far as its floor, and no
\* reader of an earlier call runs in its slot.
LEMMA StartKeepsInbox ==
  ASSUME TypeInv, InboxInv, NEW s \in Subscribers, StartReceive(s)
  PROVE  InboxInv'
<1> USE TransportAssumption
<1>1. /\ UNCHANGED <<cursor, pel, reader, batch, chan, holding, returned, dropped, claimed>>
      /\ reader[s] = "off"
      /\ receive' = [receive EXCEPT ![s] = "admitted"]
      /\ floor' = [floor EXCEPT ![s] = NewestReturned(TopicOf[s])]
  BY DEF StartReceive, OpenRequest, redisVars, seenVars
<1>2. TopicOf[s] \in Topics
  OBVIOUS
<1>3. NewestReturned(TopicOf[s]) # NoId => NewestReturned(TopicOf[s]) \in claimed[TopicOf[s]]
  <2> DEFINE n == NewestReturned(TopicOf[s])
  <2>1. n \in Ids \cup {NoId} /\ (n = NoId \/ returned[TopicOf[s]][n] > 0)
    BY <1>2, NewestReturnedIs DEF TypeInv
  <2>2. ASSUME n # NoId PROVE n \in claimed[TopicOf[s]]
    <3>1. n \in Ids /\ returned[TopicOf[s]][n] # 0
      BY <2>1, <2>2
    <3>2. QED
      BY <3>1, <1>2 DEF InboxInv, ReturnInv
  <2>3. QED
    BY <2>2
<1>4. FloorInv'
  <2> SUFFICES ASSUME NEW u \in Subscribers
               PROVE  /\ floor'[u] # NoId => floor'[u] \in claimed'[TopicOf[u]]
                      /\ receive'[u] = "admitted" => reader'[u] = "off"
                      /\ receive'[u] \in {"waiting", "acking"} =>
                           \A i \in Carried(u)' : i > floor'[u]
    BY DEF FloorInv
  <2>1. Carried(u)' = Carried(u)
    BY <1>1 DEF Carried
  <2>2. CASE u = s
    BY <2>2, <1>1, <1>3 DEF TypeInv, TypeOK
  <2>3. CASE u # s
    BY <2>1, <2>3, <1>1 DEF InboxInv, FloorInv, TypeInv, TypeOK
  <2>4. QED
    BY <2>2, <2>3
<1>5. QED
  BY <1>1, <1>4, Frames DEF InboxInv

\* Taking the delivery from the channel moves it from the reader to the handler.
LEMMA TakeKeepsInbox ==
  ASSUME TypeInv, InboxInv, NEW s \in Subscribers, TakeDelivery(s)
  PROVE  InboxInv'
<1> USE TransportAssumption
<1>i. ClaimInv /\ CarryInv /\ ReturnInv /\ AccountInv /\ FloorInv /\ OwnCarry(s)
  BY DEF InboxInv, CarryInv
<1>1. /\ UNCHANGED <<cursor, pel, reader, batch, returned, dropped, claimed, floor>>
      /\ chan[s] # NoId
      /\ chan' = [chan EXCEPT ![s] = NoId]
      /\ holding' = [holding EXCEPT ![s] = chan[s]]
      /\ receive[s] = "waiting"
      /\ receive' = [receive EXCEPT ![s] = "acking"]
  BY DEF TakeDelivery, TakeFrom, redisVars, seenVars
<1>2. /\ chan'[s] = NoId /\ holding'[s] = chan[s] /\ receive'[s] = "acking"
      /\ \A u \in Subscribers \ {s} :
           chan'[u] = chan[u] /\ holding'[u] = holding[u] /\ receive'[u] = receive[u]
  BY <1>1 DEF TypeInv, TypeOK, TransportTypeOK
<1>3. NoId \notin batch[s]
  BY IdsArePositive DEF TypeInv, TypeOK, TransportTypeOK, NoId
<1>4. OwnCarry(s)' /\ Carried(s)' \subseteq Carried(s)
  BY <1>1, <1>2, <1>3, <1>i DEF OwnCarry, Carried
<1>5. {} \subseteq Carried(s) /\ Carried(s)' \subseteq Carried(s) \ {} /\ pel[TopicOf[s]] \ {} \subseteq pel'[TopicOf[s]]
  BY <1>1, <1>4
<1>6. CarryInv'
  BY <1>1, <1>2, <1>4, <1>5, <1>i, SlotReleases
<1>7. FloorInv'
  <2>1. \A u \in Subscribers \ {s} : Carried(u)' = Carried(u)
    BY <1>1, <1>2 DEF Carried
  <2>2. QED
    BY <2>1, <1>1, <1>2, <1>4, <1>i DEF FloorInv
<1>8. QED
  BY <1>1, <1>6, <1>7, <1>i, Frames DEF InboxInv

\* The end of a call: what it held is acknowledged, and then returned or dropped, or
\* stays in the pending list where nobody claims it again.
LEMMA EndKeepsInbox ==
  ASSUME TypeInv, InboxInv, NEW s \in Subscribers, AckAndReturn(s) \/ AckFails(s)
  PROVE  InboxInv'
<1> USE TransportAssumption
<1> DEFINE t == TopicOf[s]
           i == holding[s]
<1>i. ClaimInv /\ CarryInv /\ ReturnInv /\ AccountInv /\ FloorInv /\ OwnCarry(s)
  BY DEF InboxInv, CarryInv
<1>1. /\ UNCHANGED <<cursor, reader, batch, chan, claimed>>
      /\ Answered(s)
      /\ receive' = [receive EXCEPT ![s] = "idle"]
      /\ holding' = [holding EXCEPT ![s] = NoId]
      /\ receive[s] = "acking"
  BY DEF AckAndReturn, AckFails, Ack, Ends, Answered, seenVars, transportVars, redisVars, readerVars
<1>2. /\ holding'[s] = NoId /\ receive'[s] = "idle"
      /\ \A u \in Subscribers \ {s} : holding'[u] = holding[u] /\ receive'[u] = receive[u]
  BY <1>1 DEF TypeInv, TypeOK
<1>3. i \in Ids /\ i # NoId /\ t \in Topics
  BY <1>1 DEF TypeInv, TypeOK
<1>n. NoId \notin batch[s]
  BY IdsArePositive DEF TypeInv, TypeOK, TransportTypeOK, NoId
<1>4. OwnCarry(s)' /\ Carried(s)' \subseteq Carried(s) \ {i} /\ i \in Carried(s)
  BY <1>1, <1>2, <1>3, <1>n, <1>i DEF OwnCarry, Carried
<1>5. i \in pel[t] /\ i \in claimed[t]
  BY <1>3, <1>4, <1>i DEF CarryInv, ClaimInv
<1>6. \/ UNCHANGED <<pel, dropped, returned>>
      \/ pel' = [pel EXCEPT ![t] = @ \ {i}] /\ UNCHANGED returned
           /\ dropped' = [dropped EXCEPT ![t] = @ \cup {i}]
      \/ pel' = [pel EXCEPT ![t] = @ \ {i}] /\ UNCHANGED dropped
           /\ returned' = [returned EXCEPT ![t][i] = @ + 1]
  BY DEF AckAndReturn, AckFails, Ack, transportVars, redisVars
<1>7. /\ pel[t] \ {i} \subseteq pel'[t]
      /\ \A u \in Topics \ {t} : pel'[u] = pel[u]
      /\ \A u \in Topics : pel'[u] \subseteq pel[u]
  <2> HIDE DEF t, i
  <2>1. pel \in [Topics -> SUBSET Ids]
    BY DEF TypeInv, TypeOK, TransportTypeOK
  <2>2. pel' = pel \/ pel' = [pel EXCEPT ![t] = @ \ {i}]
    BY <1>6
  <2>3. QED
    BY <2>1, <2>2, <1>3
<1>8. ClaimInv'
  BY <1>1, <1>7, <1>i DEF ClaimInv
<1>9. CarryInv'
  <2>1. {i} \subseteq Carried(s)
    BY <1>4
  <2>2. QED
    BY <2>1, <1>1, <1>2, <1>4, <1>7, <1>i, SlotReleases
<1>10. FloorInv'
  <2>1. \A u \in Subscribers \ {s} : holding'[u] = holding[u]
    BY <1>2
  <2>2. QED
    BY <2>1, <1>1, <1>i, AnswersLower
<1>11. CASE UNCHANGED <<pel, dropped, returned>>
  BY <1>1, <1>8, <1>9, <1>10, <1>11, <1>i, Frames DEF InboxInv
<1>12. ASSUME pel' = [pel EXCEPT ![t] = @ \ {i}] PROVE pel'[t] = pel[t] \ {i}
  BY <1>12, <1>3 DEF TypeInv, TypeOK, TransportTypeOK
<1>13. CASE /\ pel' = [pel EXCEPT ![t] = @ \ {i}] /\ UNCHANGED returned
            /\ dropped' = [dropped EXCEPT ![t] = @ \cup {i}]
  <2>1. ReturnInv'
    BY <1>1, <1>7, <1>13, <1>i DEF ReturnInv
  <2>2. AccountInv'
    <3>1. /\ dropped'[t] = dropped[t] \cup {i}
          /\ \A u \in Topics \ {t} : dropped'[u] = dropped[u]
      BY <1>13, <1>3 DEF TypeInv, TypeOK
    <3>2. QED
      BY <3>1, <1>1, <1>7, <1>12, <1>13, <1>i DEF AccountInv
  <2>3. QED
    BY <2>1, <2>2, <1>8, <1>9, <1>10 DEF InboxInv
<1>14. CASE /\ pel' = [pel EXCEPT ![t] = @ \ {i}] /\ UNCHANGED dropped
            /\ returned' = [returned EXCEPT ![t][i] = @ + 1]
  <2>1. returned[t][i] = 0
    BY <1>3, <1>5, <1>i DEF ReturnInv
  <2>2. /\ returned'[t][i] = 1
        /\ \A u \in Topics : \A j \in Ids : u # t \/ j # i => returned'[u][j] = returned[u][j]
    <3> HIDE DEF t, i
    <3>1. returned \in [Topics -> [Ids -> Nat]]
      BY DEF TypeInv, TypeOK
    <3>2. QED
      BY <3>1, <2>1, <1>14, <1>3
  <2>3. ReturnInv'
    BY <2>2, <1>1, <1>5, <1>7, <1>12, <1>14, <1>i DEF ReturnInv
  <2>4. AccountInv'
    <3> SUFFICES ASSUME NEW u \in Topics, NEW j \in claimed'[u] \ pel'[u]
                 PROVE  returned'[u][j] # 0 \/ j \in Malformed[u] \/ j \in dropped'[u]
      BY DEF AccountInv
    <3>1. j \in Ids
      BY <1>1 DEF TypeInv, TypeOK
    <3>2. CASE u = t /\ j = i
      BY <3>2, <2>2
    <3>3. CASE u # t \/ j # i
      <4>1. j \in claimed[u] \ pel[u]
        BY <3>3, <1>1, <1>7
      <4>2. QED
        BY <4>1, <3>1, <3>3, <2>2, <1>14, <1>i DEF AccountInv
    <3>4. QED
      BY <3>2, <3>3
  <2>5. QED
    BY <2>3, <2>4, <1>8, <1>9, <1>10 DEF InboxInv
<1>15. QED
  BY <1>6, <1>11, <1>13, <1>14

\* No step breaks the invariant.
LEMMA StepInboxInv ==
  TypeInv /\ InboxInv /\ [Next]_vars => InboxInv'
<1> SUFFICES ASSUME TypeInv, InboxInv, [Next]_vars PROVE InboxInv'
  OBVIOUS
<1> USE TransportAssumption, InboxAssumption
<1> USE DEF limitVars, seenVars, receiveVars, Limits, Answered
<1>i. ClaimInv /\ CarryInv /\ ReturnInv /\ AccountInv /\ FloorInv
  BY DEF InboxInv
<1>f. ASSUME UNCHANGED <<cursor, pel, reader, batch, chan, receive, holding, returned, dropped,
                         claimed, floor>>
      PROVE  InboxInv'
  BY <1>f, <1>i, Frames DEF InboxInv
<1>1. CASE Restart
  <2>1. /\ UNCHANGED <<cursor, pel, claimed, returned, dropped>>
        /\ floor' = [s \in Subscribers |-> NoId]
        /\ reader' = [s \in Subscribers |-> "off"]
        /\ batch' = [s \in Subscribers |-> {}]
        /\ chan' = [s \in Subscribers |-> NoId]
        /\ holding' = [s \in Subscribers |-> NoId]
        /\ receive' = [s \in Subscribers |-> "idle"]
    BY <1>1 DEF Restart, Vanish, redisVars
  <2>2. \A s \in Subscribers : OwnCarry(s)' /\ Carried(s)' = {}
    BY <2>1 DEF OwnCarry, Carried
  <2>3. CarryInv'
    BY <2>2 DEF CarryInv
  <2>4. FloorInv'
    BY <2>1, <1>i DEF FloorInv
  <2>5. QED
    BY <2>1, <2>3, <2>4, <1>i, Frames DEF InboxInv
<1>2. ASSUME NEW a \in Owners, NEW len \in Lengths \cup {NoRow}, SetMaxLen(a, len) PROVE InboxInv'
  BY <1>2, <1>f DEF SetMaxLen, transportVars, redisVars, readerVars
<1>3. ASSUME NEW c \in Senders, NEW t \in Topics, NEW a \in Agents, Begin(c, t, a)
      PROVE  InboxInv'
  BY <1>3, <1>f DEF Begin, transportVars, redisVars, readerVars
<1>b. ASSUME NEW c \in Senders, FallBack(c) PROVE InboxInv'
  BY <1>b, <1>f DEF FallBack, transportVars, redisVars, readerVars
<1>4. ASSUME NEW c \in Senders, PublishRetried(c) \/ Publish(c) PROVE InboxInv'
  <2>1. UNCHANGED <<cursor, pel, readerVars>> /\ Recorded
    BY <1>4 DEF PublishRetried, Publish, AddEntry, AddTrimming
  <2>2. claimed' = claimed
    BY <2>1, <1>i, HistoryStays
  <2>3. QED
    BY <1>4, <2>1, <2>2, <1>f DEF PublishRetried, Publish, readerVars
<1>5. ASSUME NEW c \in Senders, SendFails(c) PROVE InboxInv'
  BY <1>5, <1>f DEF SendFails, transportVars, redisVars, readerVars
<1>6. ASSUME NEW s \in Subscribers, StartReceive(s) PROVE InboxInv'
  BY <1>6, StartKeepsInbox
<1>7. ASSUME NEW s \in Subscribers, SubscribeStep(s) PROVE InboxInv'
  BY <1>7, SubscribeKeepsInbox
<1>8. ASSUME NEW s \in Subscribers, TakeDelivery(s) PROVE InboxInv'
  BY <1>8, TakeKeepsInbox
<1>9. ASSUME NEW s \in Subscribers, ReturnEmpty(s) PROVE InboxInv'
  <2>1. /\ UNCHANGED <<cursor, pel, reader, batch, chan, holding, returned, dropped, claimed>>
        /\ Answered(s)
    BY <1>9 DEF ReturnEmpty, transportVars, redisVars, readerVars
  <2>2. FloorInv'
    BY <2>1, <1>i, AnswersLower
  <2>3. QED
    BY <2>1, <2>2, <1>i, Frames DEF InboxInv
<1>10. ASSUME NEW s \in Subscribers, AckAndReturn(s) PROVE InboxInv'
  BY <1>10, EndKeepsInbox
<1>11. ASSUME NEW s \in Subscribers, AckFails(s) PROVE InboxInv'
  BY <1>11, EndKeepsInbox
<1>12. ASSUME NEW s \in Subscribers, CancelRequest(s) PROVE InboxInv'
  BY <1>12, <1>f DEF CancelRequest, Cancel, redisVars
<1>13. ASSUME NEW s \in Subscribers, Reader(s) PROVE InboxInv'
  BY <1>13, ReaderKeepsInbox
<1>14. CASE UNCHANGED vars
  BY <1>14, <1>f DEF vars, inboxVars, transportVars, redisVars, readerVars
<1>15. QED
  BY <1>1, <1>2, <1>3, <1>b, <1>4, <1>5, <1>6, <1>7, <1>8, <1>9, <1>10, <1>11, <1>12, <1>13,
     <1>14 DEF Next, SendMessage, ReportEvent, Agents

\* The invariant of claims, carried messages, returns and acknowledgements.
LEMMA InboxInvariant == Spec => [](TypeInv /\ InboxInv)
<1>1. Init => InboxInv
  <2> SUFFICES ASSUME Init PROVE InboxInv
    OBVIOUS
  <2> USE TransportAssumption DEF Init, TransportInit
  <2>1. ClaimInv /\ AccountInv /\ ReturnInv
    BY DEF ClaimInv, AccountInv, ReturnInv
  <2>2. CarryInv
    BY DEF CarryInv, OwnCarry, Carried
  <2>3. FloorInv
    BY DEF FloorInv, Carried
  <2>4. QED
    BY <2>1, <2>2, <2>3 DEF InboxInv
<1>2. QED
  BY <1>1, TypeInvariant, StepInboxInv, PTL DEF Spec

\* However calls, lingering readers, lost replies and restarts interleave, no message
\* is returned by two receive_message calls.
THEOREM ReadOnce == Spec => []ReturnedOnce
<1>1. TypeInv /\ InboxInv => ReturnedOnce
  <2> SUFFICES ASSUME TypeInv, InboxInv, NEW t \in Topics, NEW i \in Ids
               PROVE  returned[t][i] <= 1
    BY DEF ReturnedOnce
  <2>1. returned[t][i] # 0 => returned[t][i] = 1
    BY DEF InboxInv, ReturnInv
  <2>2. QED
    BY <2>1
<1>2. QED
  BY <1>1, InboxInvariant, PTL

\* A call of receive_message returns nothing older than what had been returned before
\* it began.
THEOREM ReadInOrder == Spec => []NewerOnly
<1>1. TypeInv /\ InboxInv => NewerOnly
  <2> SUFFICES ASSUME TypeInv, InboxInv, NEW s \in Subscribers, receive[s] = "acking"
               PROVE  holding[s] > floor[s]
    BY DEF NewerOnly
  <2>1. holding[s] \in Carried(s)
    BY DEF TypeInv, TypeOK, Carried
  <2>2. QED
    BY <2>1 DEF InboxInv, FloorInv
<1>2. QED
  BY <1>1, InboxInvariant, PTL

\* What the group has acknowledged was returned, malformed, or dropped by a call whose
\* acknowledgement failed; and nothing that was returned is pending.
THEOREM AcksAccountedFor == Spec => []AckedIsAccounted
<1>1. TypeInv /\ InboxInv => AckedIsAccounted
  <2> SUFFICES ASSUME TypeInv, InboxInv, NEW t \in Topics
               PROVE  /\ \A i \in claimed[t] \ pel[t] :
                           (i \in Ids /\ returned[t][i] > 0) \/ i \in Malformed[t] \/ i \in dropped[t]
                      /\ \A i \in pel[t] : returned[t][i] = 0
    BY DEF AckedIsAccounted
  <2>t. claimed[t] \subseteq Ids /\ pel[t] \subseteq Ids /\ \A i \in Ids : returned[t][i] \in Nat
    BY DEF TypeInv, TypeOK, TransportTypeOK
  <2>1. \A i \in claimed[t] \ pel[t] : returned[t][i] # 0 \/ i \in Malformed[t] \/ i \in dropped[t]
    BY DEF InboxInv, AccountInv
  <2>2. \A i \in pel[t] : returned[t][i] = 0
    BY <2>t DEF InboxInv, ReturnInv
  <2>3. QED
    BY <2>t, <2>1, <2>2
<1>2. QED
  BY <1>1, InboxInvariant, PTL

-------------------------------------------------------------------------------
(* Trimming.                                                               *)

\* There is a limit, once in force, with at least as many newer entries as it.
Justified(t, i) ==
  \E a \in Payers(t) : \E len \in hadLens[a] \ {0, NoRow} :
    Cardinality({j \in added[t] : j > i}) >= len

\* A call in progress trims not at all, or to a limit that some row for it has held.
Limited(t, len) == len = 0 \/ \E a \in Payers(t) : len \in hadLens[a] \ {NoRow}

TrimInv ==
  /\ \A t \in Topics : stream[t] \subseteq added[t] /\ IsFiniteSet(added[t])
  /\ \A a \in Owners : maxLen[a] \in hadLens[a]
  /\ \A c \in Senders : send[c].at = "ready" => Limited(send[c].to, send[c].len)
  /\ \A t \in Topics : \A i \in added[t] \ stream[t] : Justified(t, i)

\* More entries and more limits justify no less.
LEMMA JustifiedStays ==
  ASSUME TypeInv, TypeInv', NEW t \in Topics, NEW i, Justified(t, i),
         added[t] \subseteq added'[t], IsFiniteSet(added'[t]),
         \A a \in Owners : hadLens[a] \subseteq hadLens'[a]
  PROVE  Justified(t, i)'
<1>p. PICK a \in Payers(t) : \E len \in hadLens[a] \ {0, NoRow} :
        Cardinality({j \in added[t] : j > i}) >= len
  BY DEF Justified
<1>1. PICK len \in hadLens[a] \ {0, NoRow} : Cardinality({j \in added[t] : j > i}) >= len
  BY <1>p
<1>2. a \in Owners
  BY DEF Payers, Agents, Owners
<1>3. len \in Nat
  BY <1>1, <1>2, InboxAssumption DEF TypeInv, TypeOK
<1> DEFINE old == {j \in added[t] : j > i}
           new == {j \in added'[t] : j > i}
<1>4. IsFiniteSet(new) /\ new \subseteq added'[t]
  BY FS_Subset
<1>5. old \subseteq new
  OBVIOUS
<1>6. IsFiniteSet(old) /\ Cardinality(old) <= Cardinality(new)
  BY <1>4, <1>5, FS_Subset
<1>7. Cardinality(old) \in Nat /\ Cardinality(new) \in Nat
  BY <1>4, <1>6, FS_CardinalityType
<1>8. Cardinality(new) >= len
  <2> HIDE DEF old, new
  <2>1. Cardinality(old) >= len
    BY <1>1 DEF old
  <2>2. QED
    BY <2>1, <1>3, <1>6, <1>7
<1>9. len \in hadLens'[a] \ {0, NoRow}
  BY <1>1, <1>2
<1>10. QED
  BY <1>8, <1>9 DEF Justified

\* XADD with MAXLEN drops an entry only behind as many newer ones as it was told to
\* keep.
LEMMA PublishKeepsTrim ==
  ASSUME TypeInv, TypeInv', TrimInv, NEW c \in Senders, PublishRetried(c) \/ Publish(c)
  PROVE  TrimInv'
<1> USE TransportAssumption, InboxAssumption
<1> DEFINE t == send[c].to
           len == send[c].len
<1>1. send[c].at = "ready" /\ send[c] \in Sending /\ t \in Topics /\ len \in Nat
  <2>1. send[c].at = "ready" /\ send[c] \in Looking \cup Sending \cup {Idle}
    BY DEF PublishRetried, Publish, TypeInv, TypeOK
  <2>2. send[c] \in Sending
    BY <2>1 DEF Looking, Idle
  <2>3. t \in Topics /\ len \in Limits
    BY <2>2 DEF Sending
  <2> HIDE DEF t, len
  <2>4. Limits \subseteq Nat
    BY DEF Limits
  <2>5. QED
    BY <2>1, <2>2, <2>3, <2>4
<1>2. PICK i \in Ids : AddTrimming(t, i, len)
  BY DEF PublishRetried, Publish, AddEntry
<1>3. PICK kept \in SUBSET (stream[t] \cup {i}) :
        /\ kept = stream[t] \cup {i} \/ (len # 0 /\ Cardinality(kept) >= len)
        /\ \A j \in (stream[t] \cup {i}) \ kept, k \in kept : j < k
        /\ stream' = [stream EXCEPT ![t] = kept]
  BY <1>2 DEF AddTrimming
<1>4. /\ stream'[t] = kept
      /\ \A u \in Topics \ {t} : stream'[u] = stream[u]
      /\ \A u \in Topics : added'[u] = added[u] \cup stream'[u]
  BY <1>1, <1>3 DEF PublishRetried, Publish, Recorded, TypeInv, TypeOK, TransportTypeOK
<1>5. UNCHANGED <<maxLen, hadLens>>
  BY DEF PublishRetried, Publish, limitVars
<1>6. kept \subseteq added[t] \cup {i} /\ IsFiniteSet(added[t] \cup {i})
  BY <1>1, <1>3, FS_AddElement, ZenonT(60) DEF TrimInv
<1>7. ASSUME NEW u \in Topics PROVE stream'[u] \subseteq added'[u] /\ IsFiniteSet(added'[u])
  <2>1. CASE u = t
    <3>1. added'[t] \subseteq added[t] \cup {i}
      BY <1>1, <1>4, <1>6
    <3>2. QED
      BY <2>1, <3>1, <1>4, <1>6, FS_Subset
  <2>2. CASE u # t
    BY <2>2, <1>4 DEF TrimInv
  <2>3. QED
    BY <2>1, <2>2
<1>8. ASSUME NEW u \in Topics, NEW j \in added'[u] \ stream'[u] PROVE Justified(u, j)'
  <2>1. CASE j \in added[u] \ stream[u]
    <3>1. Justified(u, j)
      BY <2>1 DEF TrimInv
    <3>2. QED
      BY <3>1, <1>4, <1>5, <1>7, JustifiedStays
  <2>2. CASE j \notin added[u] \ stream[u]
    <3>1. u = t /\ j \in (stream[t] \cup {i}) \ kept
      BY <2>2, <1>4, <1>8
    <3>2. len # 0 /\ Cardinality(kept) >= len
      BY <3>1, <1>3
    <3>3. PICK a \in Payers(t) : len \in hadLens[a] \ {0, NoRow}
      BY <3>2, <1>1 DEF TrimInv, Limited
    <3> DEFINE new == {k \in added'[t] : k > j}
    <3>4. kept \subseteq new
      <4>1. \A k \in kept : j < k
        BY <3>1, <1>3
      <4>2. kept \subseteq Ids /\ j \in Ids /\ Ids \subseteq Nat
        BY <3>1, <1>1, <1>3, IdsArePositive DEF TypeInv, TypeOK, TransportTypeOK
      <4>3. QED
        BY <4>1, <4>2, <1>1, <1>4
    <3>5. IsFiniteSet(new)
      BY <1>1, <1>7, FS_Subset
    <3>6. IsFiniteSet(kept) /\ Cardinality(kept) <= Cardinality(new)
      BY <3>4, <3>5, FS_Subset
    <3>7. Cardinality(kept) \in Nat /\ Cardinality(new) \in Nat
      BY <3>5, <3>6, FS_CardinalityType
    <3>8. Cardinality(new) >= len
      <4> HIDE DEF new, len
      <4>1. QED
        BY <3>2, <3>6, <3>7, <1>1
    <3>9. QED
      BY <3>1, <3>2, <3>3, <3>8, <1>5 DEF Justified
  <2>3. QED
    BY <2>1, <2>2
<1>9. ASSUME NEW d \in Senders, send'[d].at = "ready"
      PROVE  Limited(send[d].to, send[d].len)'
  <2>1. send[d].at = "ready" /\ send'[d].to = send[d].to /\ send'[d].len = send[d].len
    <3>1. send' = [send EXCEPT ![c] = Idle] \/ send' = [send EXCEPT ![c].lost = @ + 1]
      BY DEF PublishRetried, Publish
    <3>2. CASE d # c
      BY <3>1, <3>2, <1>9 DEF TypeInv, TypeOK
    <3>3. CASE d = c
      BY <3>1, <3>3, <1>1, <1>9 DEF TypeInv, TypeOK, Idle, Sending
    <3>4. QED
      BY <3>2, <3>3
  <2>2. QED
    BY <2>1, <1>5 DEF TrimInv, Limited
<1>10. QED
  BY <1>5, <1>7, <1>8, <1>9 DEF TrimInv

\* Every step keeps what was trimmed below what is kept.
LEMMA StepTrimInv ==
  TypeInv /\ TypeInv' /\ TrimInv /\ [Next]_vars => TrimInv'
<1> SUFFICES ASSUME TypeInv, TypeInv', TrimInv, [Next]_vars PROVE TrimInv'
  OBVIOUS
<1> USE TransportAssumption, InboxAssumption
<1> USE DEF limitVars, seenVars, receiveVars, Limits, Answered
<1>f. ASSUME UNCHANGED <<stream, added, maxLen, hadLens, send>> PROVE TrimInv'
  BY <1>f DEF TrimInv, Justified, Limited
\* Entries and limits stay, and some calls end or begin.
<1>g. ASSUME UNCHANGED <<stream, added, maxLen, hadLens>>,
             \A c \in Senders : send'[c] = send[c] \/ send'[c] = Idle \/
               send'[c].at = "fallback" \/ Limited(send'[c].to, send'[c].len)
      PROVE  TrimInv'
  <2>1. \A t \in Topics, i \in Ids : Justified(t, i) => Justified(t, i)'
    BY <1>g DEF Justified
  <2>2. \A t \in Topics : added[t] \subseteq Ids
    BY DEF TypeInv, TypeOK
  <2>3. \A t \in Topics : \A i \in added'[t] \ stream'[t] : Justified(t, i)'
    BY <2>1, <2>2, <1>g DEF TrimInv
  <2>4. ASSUME NEW c \in Senders, send'[c].at = "ready"
        PROVE  Limited(send[c].to, send[c].len)'
    BY <1>g, <2>4 DEF TrimInv, Limited, Idle
  <2>5. QED
    BY <2>3, <2>4, <1>g DEF TrimInv
<1>1. CASE Restart
  BY <1>1, <1>g DEF Restart, Vanish, redisVars
<1>2. ASSUME NEW a \in Owners, NEW len \in Lengths \cup {NoRow}, SetMaxLen(a, len) PROVE TrimInv'
  <2>1. /\ UNCHANGED <<stream, added, send>>
        /\ maxLen' = [maxLen EXCEPT ![a] = len]
        /\ hadLens' = [hadLens EXCEPT ![a] = @ \cup {len}]
    BY <1>2 DEF SetMaxLen, transportVars, redisVars
  <2>2. \A b \in Owners : hadLens[b] \subseteq hadLens'[b] /\ maxLen'[b] \in hadLens'[b]
    BY <2>1 DEF TypeInv, TypeOK, TrimInv
  <2>3. \A t \in Topics : \A i \in added'[t] \ stream'[t] : Justified(t, i)'
    BY <2>1, <2>2, JustifiedStays DEF TrimInv
  <2>4. ASSUME NEW c \in Senders, send'[c].at = "ready"
        PROVE  Limited(send[c].to, send[c].len)'
    <3>1. Limited(send[c].to, send[c].len) /\ send[c].to \in Topics
      BY <2>1, <2>4 DEF TrimInv, TypeInv, TypeOK, Looking, Sending, Idle
    <3>2. Payers(send[c].to) \subseteq Owners
      BY <3>1 DEF Payers, Owners, Agents
    <3>3. QED
      BY <3>1, <3>2, <2>1, <2>2 DEF Limited
  <2>5. QED
    BY <2>1, <2>2, <2>3, <2>4 DEF TrimInv
<1>3. ASSUME NEW c \in Senders, NEW t \in Topics, NEW a \in Payers(t), Begin(c, t, a)
      PROVE  TrimInv'
  <2>1. a \in Owners
    BY <1>3 DEF Payers, Agents, Owners
  <2>2. \A d \in Senders \ {c} : send'[d] = send[d]
    BY <1>3 DEF Begin, TypeInv, TypeOK
  <2>3. send'[c].at = "fallback" \/ Limited(send'[c].to, send'[c].len)
    <3>1. \/ maxLen[a] # NoRow /\ send'[c] = Ready(t, maxLen[a])
          \/ send'[c] = [at |-> "fallback", to |-> t]
          \/ send'[c] = Ready(t, 0)
      BY <1>3 DEF Begin, TypeInv, TypeOK
    <3>2. maxLen[a] \in hadLens[a]
      BY <2>1 DEF TrimInv
    <3>3. QED
      BY <3>1, <3>2, <1>3 DEF Limited, Ready
  <2>4. UNCHANGED <<stream, added, maxLen, hadLens>>
    BY <1>3 DEF Begin, transportVars, redisVars
  <2>5. QED
    BY <2>2, <2>3, <2>4, <1>g
<1>b. ASSUME NEW c \in Senders, FallBack(c) PROVE TrimInv'
  <2>1. \A d \in Senders \ {c} : send'[d] = send[d]
    BY <1>b DEF FallBack, TypeInv, TypeOK
  <2>2. Limited(send'[c].to, send'[c].len)
    <3>1. PICK len \in Limits :
            /\ len = maxLen[Everyone] \/ len = 0
            /\ send' = [send EXCEPT ![c] = Ready(send[c].to, len)]
      BY <1>b DEF FallBack
    <3>2. send'[c] = Ready(send[c].to, len)
      BY <3>1 DEF TypeInv, TypeOK
    <3>3. maxLen[Everyone] \in hadLens[Everyone]
      BY DEF TrimInv, Owners
    <3>4. Everyone \in Payers(send[c].to) /\ len # NoRow
      BY <3>1 DEF Payers, Owners, NoRow
    <3>5. QED
      BY <3>1, <3>2, <3>3, <3>4 DEF Limited, Ready
  <2>3. UNCHANGED <<stream, added, maxLen, hadLens>>
    BY <1>b DEF FallBack, transportVars, redisVars
  <2>4. QED
    BY <2>1, <2>2, <2>3, <1>g
<1>4. ASSUME NEW c \in Senders, PublishRetried(c) \/ Publish(c) PROVE TrimInv'
  BY <1>4, PublishKeepsTrim
<1>5. ASSUME NEW c \in Senders, SendFails(c) PROVE TrimInv'
  <2>1. \A d \in Senders : send'[d] = send[d] \/ send'[d] = Idle
    BY <1>5 DEF SendFails, TypeInv, TypeOK
  <2>2. QED
    BY <1>5, <2>1, <1>g DEF SendFails, transportVars, redisVars
<1>6. ASSUME NEW s \in Subscribers, StartReceive(s) PROVE TrimInv'
  BY <1>6, <1>f DEF StartReceive, OpenRequest, redisVars
<1>7. ASSUME NEW s \in Subscribers, SubscribeStep(s) PROVE TrimInv'
  BY <1>7, <1>f DEF SubscribeStep, Subscribe, SubscribeFails, CreateGroup, redisVars
<1>8. ASSUME NEW s \in Subscribers, TakeDelivery(s) PROVE TrimInv'
  BY <1>8, <1>f DEF TakeDelivery, TakeFrom, redisVars
<1>9. ASSUME NEW s \in Subscribers, ReturnEmpty(s) PROVE TrimInv'
  BY <1>9, <1>f DEF ReturnEmpty, transportVars, redisVars
<1>10. ASSUME NEW s \in Subscribers, AckAndReturn(s) PROVE TrimInv'
  BY <1>10, <1>f DEF AckAndReturn, Ack
<1>11. ASSUME NEW s \in Subscribers, AckFails(s) PROVE TrimInv'
  BY <1>11, <1>f DEF AckFails, Ack, transportVars, redisVars
<1>12. ASSUME NEW s \in Subscribers, CancelRequest(s) PROVE TrimInv'
  BY <1>12, <1>f DEF CancelRequest, Cancel, redisVars
<1>13. ASSUME NEW s \in Subscribers, Reader(s) PROVE TrimInv'
  <2>1. UNCHANGED <<stream, maxLen, hadLens, send>> /\ Recorded
    BY <1>13 DEF Reader, ReaderStep, Poll, ReadBatch, ReadNothing, ReadCancelled, ReadFails,
                 EmitMalformed, EmitSend, EmitAbandon, Claim, redisVars
  <2>2. added' = added
    BY <2>1 DEF Recorded, TrimInv, TypeInv, TypeOK
  <2>3. QED
    BY <2>1, <2>2, <1>f
<1>14. CASE UNCHANGED vars
  BY <1>14, <1>f DEF vars, inboxVars, transportVars, redisVars
<1>15. QED
  <2>1. ASSUME NEW c \in Senders, SendMessage(c) PROVE TrimInv'
    BY <2>1, <1>3 DEF SendMessage, Agents, Payers
  <2>2. ASSUME NEW c \in Senders, ReportEvent(c) PROVE TrimInv'
    BY <2>2, <1>3 DEF ReportEvent, Payers, Owners, Agents
  <2>3. QED
    BY <1>1, <1>2, <1>b, <1>4, <1>5, <1>6, <1>7, <1>8, <1>9, <1>10, <1>11, <1>12, <1>13, <1>14,
       <2>1, <2>2 DEF Next

\* Redis discards a message of a mailbox only when the mailbox has at least as many
\* newer ones as some limit that its owner's row or the row for everyone has had; a
\* result on the shared stream, as some limit of any row.
THEOREM TrimsJustified == Spec => []TrimJustified
<1>1. Init => TrimInv
  <2> SUFFICES ASSUME Init PROVE TrimInv
    OBVIOUS
  <2>1. \A t \in Topics : stream[t] = {} /\ added[t] = {}
    BY DEF Init, TransportInit
  <2>2. \A a \in Owners : maxLen[a] \in hadLens[a]
    BY DEF Init
  <2>3. \A c \in Senders : send[c] = Idle
    BY DEF Init
  <2>4. QED
    BY <2>1, <2>2, <2>3, FS_EmptySet DEF TrimInv, Idle
<1>2. TrimInv => TrimJustified
  BY DEF TrimInv, TrimJustified, Justified, Payers
<1>3. QED
  BY <1>1, <1>2, TypeInvariant, StepTrimInv, PTL DEF Spec

===============================================================================
