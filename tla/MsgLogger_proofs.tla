---------------------------- MODULE MsgLogger_proofs ----------------------------
(***************************************************************************)
(* Proofs about MsgLogger: the order of entries and what Close guarantees, *)
(* for any number of entries and any capacity of the channel.              *)
(***************************************************************************)
EXTENDS MsgLogger, TLAPS

\* The row of an entry was taken from the channel, and before the one in hand.
RowsTaken ==
  \A j \in DOMAIN rows : \E m \in 1..Taken :
    accepted[m] = rows[j] /\ (hand # NoEntry => m < Taken)

\* What the worker's state says about the end.
EndInv ==
  /\ before <= Len(accepted)
  /\ shutdown = "run" => worker = "select"
  /\ worker = "stopped" => hand = NoEntry /\ before <= Taken
  /\ shutdown \in {"closed", "storeClosed"} => worker = "stopped"

-------------------------------------------------------------------------------
(* Types and the pipeline.                                                 *)

\* Every variable keeps its type.
LEMMA LoggerTypes == TypeOK /\ [Next]_vars => TypeOK'
<1> SUFFICES ASSUME TypeOK, [Next]_vars PROVE TypeOK'
  OBVIOUS
<1> USE DEF TypeOK, logVars
<1>1. ASSUME NEW e \in Entries, Log(e) PROVE TypeOK'
  <2>1. CASE Len(queue) < Cap
    <3>1. queue' = Append(queue, e) /\ accepted' = Append(accepted, e)
      BY <1>1, <2>1 DEF Log
    <3>2. queue' \in Seq(Entries)
      BY <3>1
    <3>3. accepted' \in Seq(Entries)
      BY <3>1
    <3>4. QED
      BY <1>1, <2>1, <3>2, <3>3 DEF Log
  <2>2. CASE ~(Len(queue) < Cap)
    BY <1>1, <2>2 DEF Log
  <2>3. QED
    BY <2>1, <2>2
<1>2. CASE Receive
  BY <1>2 DEF Receive, Ready
<1>3. CASE SeeDone
  BY <1>3 DEF SeeDone
<1>4. CASE Write
  <2>1. hand \in Entries
    BY <1>4 DEF Write
  <2>2. rows' \in Seq(Entries)
    <3>1. CASE rows' = rows
      BY <3>1
    <3>2. CASE rows' = Append(rows, hand)
      BY <2>1, <3>2
    <3>3. QED
      BY <1>4, <3>1, <3>2 DEF Write, Written
  <2>3. failed' \subseteq Entries
    BY <1>4, <2>1 DEF Write, Written
  <2>4. /\ hand' = NoEntry
        /\ UNCHANGED <<queue, worker, shutdown, dropped, accepted, before>>
    BY <1>4 DEF Write, Written
  <2>5. QED
    BY <2>2, <2>3, <2>4
<1>5. CASE Stop
  BY <1>5 DEF Stop
<1>6. CASE Close
  BY <1>6 DEF Close
<1>7. CASE CloseReturns \/ CloseStore \/ Exit
  BY <1>7 DEF CloseReturns, CloseStore, Exit
<1>8. CASE UNCHANGED vars
  BY <1>8 DEF vars
<1>9. QED
  BY <1>1, <1>2, <1>3, <1>4, <1>5, <1>6, <1>7, <1>8 DEF Next, Drain

\* Steps that move no entry.
LEMMA NothingMoves ==
  ASSUME UNCHANGED <<queue, hand, rows, failed, accepted>>
  PROVE  /\ Pipeline => Pipeline'
         /\ RowsTaken => RowsTaken'
         /\ RowsInOrder => RowsInOrder'
BY DEF Pipeline, RowsTaken, RowsInOrder, Taken, InSeq

\* An accepted entry joins the end of both sequences.
LEMMA LogStep ==
  ASSUME TypeOK, Pipeline, RowsTaken, RowsInOrder, NEW e \in Entries, Log(e),
         Len(queue) < Cap
  PROVE  Pipeline' /\ RowsTaken' /\ RowsInOrder' /\ Taken' = Taken
<1>1. /\ queue' = Append(queue, e)
      /\ accepted' = Append(accepted, e)
      /\ hand' = hand /\ rows' = rows /\ failed' = failed
  BY DEF Log
<1>2. /\ Len(queue') = Len(queue) + 1
      /\ Len(accepted') = Len(accepted) + 1
      /\ Len(queue) \in Nat /\ Len(accepted) \in Nat
      /\ \A k \in 1..Len(accepted) : accepted'[k] = accepted[k]
      /\ \A k \in 1..Len(queue) : queue'[k] = queue[k]
      /\ queue'[Len(queue) + 1] = e
      /\ accepted'[Len(accepted) + 1] = e
      /\ DOMAIN accepted = 1..Len(accepted)
      /\ DOMAIN accepted' = 1..Len(accepted')
  BY <1>1 DEF TypeOK
<1>3. Len(queue) <= Len(accepted)
  BY DEF Pipeline
<1>4. Taken' = Taken /\ Taken \in Nat /\ Taken <= Len(accepted)
  BY <1>2, <1>3 DEF Taken
<1>5. ASSUME NEW k \in 1..Len(queue') PROVE queue'[k] = accepted'[Taken' + k]
  <2>1. CASE k = Len(queue) + 1
    BY <1>2, <1>4, <2>1 DEF Taken
  <2>2. CASE k # Len(queue) + 1
    <3>1. k \in 1..Len(queue) /\ Taken + k \in 1..Len(accepted)
      BY <1>2, <1>3, <2>2 DEF Taken
    <3>2. QED
      BY <1>2, <1>4, <3>1 DEF Pipeline
  <2>3. QED
    BY <2>1, <2>2
<1>6. Pipeline'
  <2>1. Len(queue') <= Len(accepted')
    BY <1>2, <1>3
  <2>2. hand' # NoEntry => Taken' > 0 /\ hand' = accepted'[Taken']
    BY <1>1, <1>2, <1>4 DEF Pipeline
  <2>3. \A k \in 1..Taken' : accepted'[k] \in InSeq(rows') \cup failed'
                             \/ (k = Taken' /\ hand' # NoEntry)
    BY <1>1, <1>2, <1>4 DEF Pipeline
  <2>4. QED
    BY <1>5, <2>1, <2>2, <2>3 DEF Pipeline, InSeq
<1>7. RowsTaken'
  BY <1>1, <1>2, <1>4 DEF RowsTaken
<1>8. RowsInOrder'
  BY <1>1, <1>2 DEF RowsInOrder
<1>9. QED
  BY <1>4, <1>6, <1>7, <1>8

\* The worker takes the oldest entry.
LEMMA ReceiveStep ==
  ASSUME TypeOK, Pipeline, RowsTaken, RowsInOrder, Receive
  PROVE  Pipeline' /\ RowsTaken' /\ RowsInOrder' /\ Taken' = Taken + 1
<1>1. /\ hand = NoEntry
      /\ queue # << >>
      /\ hand' = Head(queue)
      /\ queue' = Tail(queue)
      /\ UNCHANGED <<rows, failed, accepted>>
  BY DEF Receive, Ready, logVars
<1>2. /\ Len(queue) \in Nat /\ Len(queue) > 0
      /\ Len(accepted) \in Nat
      /\ Len(queue') = Len(queue) - 1
      /\ hand' = queue[1]
      /\ \A k \in 1..Len(queue') : queue'[k] = queue[k + 1]
  BY <1>1 DEF TypeOK
<1>3. Len(queue) <= Len(accepted)
  BY DEF Pipeline
<1>4. Taken' = Taken + 1 /\ Taken \in Nat /\ Taken + 1 <= Len(accepted)
  BY <1>1, <1>2, <1>3 DEF Taken
<1>5. hand' = accepted'[Taken']
  BY <1>1, <1>2, <1>4 DEF Pipeline
<1>6. \A k \in 1..Len(queue') : queue'[k] = accepted'[Taken' + k]
  BY <1>1, <1>2, <1>4 DEF Pipeline
<1>7. hand' \in Entries
  BY <1>2 DEF TypeOK
<1>8. hand' # NoEntry
  BY <1>7, LoggerAssumption
<1>9. \A k \in 1..Taken' : accepted'[k] \in InSeq(rows') \cup failed' \/ k = Taken'
  <2> SUFFICES ASSUME NEW k \in 1..Taken', k # Taken'
               PROVE  accepted[k] \in InSeq(rows) \cup failed
    BY <1>1
  <2>1. k \in 1..Taken
    BY <1>4
  <2>2. QED
    BY <1>1, <2>1 DEF Pipeline
<1>10. Len(queue') <= Len(accepted') /\ Taken' > 0
  BY <1>1, <1>2, <1>3, <1>4
<1>11. Pipeline'
  BY <1>5, <1>6, <1>8, <1>9, <1>10 DEF Pipeline, InSeq
<1>12. RowsTaken'
  <2> SUFFICES ASSUME NEW j \in DOMAIN rows
               PROVE  \E m \in 1..Taken' : accepted[m] = rows[j] /\ m < Taken'
    BY <1>1 DEF RowsTaken
  <2>1. PICK m \in 1..Taken : accepted[m] = rows[j]
    BY DEF RowsTaken
  <2>2. QED
    BY <1>4, <2>1
<1>13. RowsInOrder'
  BY <1>1 DEF RowsInOrder
<1>14. QED
  BY <1>4, <1>11, <1>12, <1>13

\* A write puts the entry behind the rows of all earlier ones, or loses it with a
\* message.
LEMMA WriteStep ==
  ASSUME TypeOK, Pipeline, RowsTaken, RowsInOrder, Write
  PROVE  Pipeline' /\ RowsTaken' /\ RowsInOrder' /\ Taken' = Taken
<1>1. /\ hand # NoEntry /\ hand' = NoEntry
      /\ UNCHANGED <<queue, accepted>>
  BY DEF Write, Written
<1>2. Taken' = Taken /\ Len(queue) <= Len(accepted) /\ Taken > 0
  BY <1>1 DEF Taken, Pipeline
<1>3. hand = accepted[Taken]
  BY <1>1 DEF Pipeline
<1>4. /\ Taken \in Nat
      /\ Taken \in DOMAIN accepted
      /\ \A m \in 1..Taken : m \in DOMAIN accepted
  BY <1>2 DEF Taken, TypeOK
<1>5. /\ InSeq(rows) \subseteq InSeq(rows')
      /\ failed \subseteq failed'
      /\ hand \in InSeq(rows') \cup failed'
  <2>1. CASE Written
    <3>1. /\ rows' = Append(rows, hand)
          /\ failed' = failed
      BY <2>1 DEF Written
    <3>2. /\ \A j \in DOMAIN rows : j \in DOMAIN rows' /\ rows'[j] = rows[j]
          /\ Len(rows) + 1 \in DOMAIN rows' /\ rows'[Len(rows) + 1] = hand
      BY <1>1, <3>1 DEF TypeOK
    <3>3. QED
      BY <3>1, <3>2 DEF InSeq
  <2>2. CASE ~Written
    BY <2>2 DEF Write
  <2>3. QED
    BY <2>1, <2>2
<1>6. Pipeline'
  BY <1>1, <1>2, <1>3, <1>5 DEF Pipeline
<1>7. CASE rows' = rows
  BY <1>1, <1>2, <1>6, <1>7 DEF RowsTaken, RowsInOrder
<1>8. CASE Written
  <2>1. rows' = Append(rows, hand)
    BY <1>8 DEF Written
  <2>2. /\ Len(rows) \in Nat
        /\ DOMAIN rows = 1..Len(rows)
        /\ DOMAIN rows' = 1..(Len(rows) + 1)
        /\ \A j \in 1..Len(rows) : rows'[j] = rows[j]
        /\ rows'[Len(rows) + 1] = hand
    BY <1>1, <2>1 DEF TypeOK
  <2>3. RowsTaken'
    <3> SUFFICES ASSUME NEW j \in DOMAIN rows'
                 PROVE  \E m \in 1..Taken : accepted[m] = rows'[j]
      BY <1>1, <1>2 DEF RowsTaken
    <3>1. CASE j = Len(rows) + 1
      BY <1>2, <1>3, <1>4, <2>2, <3>1
    <3>2. CASE j # Len(rows) + 1
      BY <2>2, <3>2 DEF RowsTaken
    <3>3. QED
      BY <3>1, <3>2
  <2>4. RowsInOrder'
    <3> SUFFICES ASSUME NEW j \in DOMAIN rows', NEW k \in DOMAIN rows', j < k
                 PROVE  \E m, n \in DOMAIN accepted :
                          m < n /\ accepted[m] = rows'[j] /\ accepted[n] = rows'[k]
      BY <1>1 DEF RowsInOrder
    <3>1. j \in DOMAIN rows /\ rows'[j] = rows[j]
      BY <2>2
    <3>2. CASE k = Len(rows) + 1
      <4>1. PICK m \in 1..Taken : accepted[m] = rows[j] /\ m < Taken
        BY <1>1, <3>1 DEF RowsTaken
      <4>2. QED
        BY <1>3, <1>4, <2>2, <3>1, <3>2, <4>1
    <3>3. CASE k # Len(rows) + 1
      BY <2>2, <3>1, <3>3 DEF RowsInOrder
    <3>4. QED
      BY <3>2, <3>3
  <2>5. QED
    BY <1>2, <1>6, <2>3, <2>4
<1>9. QED
  BY <1>7, <1>8 DEF Write

\* Every step keeps the pipeline and its order, and never gives an entry back.
LEMMA PipelineStep ==
  ASSUME TypeOK, Pipeline, RowsTaken, RowsInOrder, [Next]_vars
  PROVE  /\ Pipeline' /\ RowsTaken' /\ RowsInOrder'
         /\ Taken <= Taken' /\ Taken \in Nat
<1>1. Taken \in Nat
  BY DEF Taken, TypeOK, Pipeline
<1>2. ASSUME NEW e \in Entries, Log(e)
      PROVE  Pipeline' /\ RowsTaken' /\ RowsInOrder' /\ Taken <= Taken'
  <2>1. CASE Len(queue) < Cap
    BY <1>1, <1>2, <2>1, LogStep
  <2>2. CASE ~(Len(queue) < Cap)
    <3>1. UNCHANGED <<queue, hand, rows, failed, accepted>>
      BY <1>2, <2>2 DEF Log
    <3>2. QED
      BY <1>1, <3>1, NothingMoves DEF Taken
  <2>3. QED
    BY <2>1, <2>2
<1>3. CASE Receive
  BY <1>1, <1>3, ReceiveStep
<1>4. CASE Write
  BY <1>1, <1>4, WriteStep
<1>5. CASE UNCHANGED <<queue, hand, rows, failed, accepted>>
  BY <1>1, <1>5, NothingMoves DEF Taken
<1>6. SeeDone \/ Stop \/ Close \/ CloseReturns \/ CloseStore \/ Exit \/ UNCHANGED vars
        => UNCHANGED <<queue, hand, rows, failed, accepted>>
  BY DEF SeeDone, Stop, Close, CloseReturns, CloseStore, Exit, vars, logVars
<1>7. QED
  BY <1>1, <1>2, <1>3, <1>4, <1>5, <1>6 DEF Next, Drain

\* The worker returns with nothing in its hand and nothing in the channel, and only
\* after Close.
LEMMA EndStep ==
  ASSUME TypeOK, Pipeline, RowsTaken, RowsInOrder, EndInv, [Next]_vars
  PROVE  EndInv'
<1>1. Taken <= Taken' /\ Taken \in Nat
  BY PipelineStep
<1>2. Len(accepted) \in Nat /\ before \in Nat /\ Len(accepted') \in Nat
      /\ Taken' \in Int
  <2>1. TypeOK'
    BY LoggerTypes
  <2>2. QED
    BY <2>1 DEF TypeOK, Taken
<1>3. ASSUME NEW e \in Entries, Log(e) PROVE EndInv'
  <2>1. /\ UNCHANGED <<worker, hand, shutdown, before>>
        /\ Len(accepted) <= Len(accepted')
    BY <1>3 DEF Log, TypeOK
  <2>2. QED
    BY <1>1, <1>2, <2>1 DEF EndInv
<1>4. CASE Receive
  <2>1. /\ UNCHANGED <<worker, shutdown, before, accepted>>
        /\ worker # "stopped"
    BY <1>4 DEF Receive
  <2>2. QED
    BY <2>1 DEF EndInv
<1>5. CASE SeeDone
  BY <1>5 DEF SeeDone, EndInv
<1>6. CASE Write
  <2>1. UNCHANGED <<worker, shutdown, before, accepted>> /\ hand # NoEntry
    BY <1>6 DEF Write
  <2>2. QED
    BY <2>1 DEF EndInv
<1>7. CASE Stop
  <2>1. /\ UNCHANGED <<queue, hand, shutdown, accepted, before>>
        /\ worker' = "stopped"
        /\ hand = NoEntry
        /\ Len(queue) = 0
        /\ shutdown # "run"
    BY <1>7 DEF Stop, Ready, EndInv
  <2>2. Taken' = Len(accepted)
    BY <1>2, <2>1 DEF Taken
  <2>3. QED
    BY <2>1, <2>2 DEF EndInv
<1>8. CASE Close
  <2>1. /\ UNCHANGED <<queue, worker, hand, accepted>>
        /\ before' = Len(accepted)
        /\ shutdown' = "closing"
        /\ worker = "select"
    BY <1>8 DEF Close, EndInv
  <2>2. QED
    BY <1>2, <2>1 DEF EndInv
<1>9. CASE CloseReturns \/ CloseStore \/ Exit
  BY <1>9 DEF CloseReturns, CloseStore, Exit, EndInv, Taken
<1>10. CASE UNCHANGED vars
  BY <1>10 DEF vars, logVars, EndInv, Taken
<1>11. QED
  BY <1>3, <1>4, <1>5, <1>6, <1>7, <1>8, <1>9, <1>10 DEF Next, Drain

-------------------------------------------------------------------------------
(* The theorems.                                                           *)

Inv == TypeOK /\ Pipeline /\ RowsTaken /\ RowsInOrder /\ EndInv

\* The conjunction is inductive.
LEMMA Inductive == Spec => []Inv
<1>1. Init => Inv
  <2> SUFFICES ASSUME Init PROVE Inv
    OBVIOUS
  <2> USE LoggerAssumption DEF Init
  <2>1. TypeOK
    BY DEF TypeOK
  <2>2. Taken = 0
    BY DEF Taken
  <2>3. Pipeline
    BY <2>2 DEF Pipeline
  <2>4. RowsTaken /\ RowsInOrder
    BY DEF RowsTaken, RowsInOrder
  <2>5. EndInv
    BY DEF EndInv
  <2>6. QED
    BY <2>1, <2>3, <2>4, <2>5 DEF Inv
<1>2. Inv /\ [Next]_vars => Inv'
  BY LoggerTypes, PipelineStep, EndStep DEF Inv
<1>3. QED
  BY <1>1, <1>2, PTL DEF Spec

\* Between Log and the store no entry is skipped, repeated or overtaken, whatever the
\* capacity of the channel and whatever the store refuses.
THEOREM NothingOvertakes == Spec => []Pipeline
<1>1. Inv => Pipeline
  BY DEF Inv
<1>2. QED
  BY <1>1, Inductive, PTL

\* The rows of the store stand in the order in which Log accepted their entries.
THEOREM RowsStayOrdered == Spec => []RowsInOrder
<1>1. Inv => RowsInOrder
  BY DEF Inv
<1>2. QED
  BY <1>1, Inductive, PTL

\* Close returns only after every entry that was logged before the call has been
\* written or refused by the store.
THEOREM CloseFlushes == Spec => []FlushedBeforeClose
<1>1. Inv => FlushedBeforeClose
  <2> SUFFICES ASSUME Inv, shutdown \in {"closed", "storeClosed"}, NEW k \in 1..before
               PROVE  accepted[k] \in InSeq(rows) \cup failed
    BY DEF FlushedBeforeClose
  <2>1. hand = NoEntry /\ before <= Taken
    BY DEF Inv, EndInv
  <2>2. before \in Nat /\ Taken \in Int
    BY DEF Inv, TypeOK, Taken
  <2>3. k \in 1..Taken
    BY <2>1, <2>2
  <2>4. QED
    BY <2>1, <2>3 DEF Inv, Pipeline
<1>2. QED
  BY <1>1, Inductive, PTL

\* No write is under way when the store is closed.
THEOREM StoreOutlivesWorker == Spec => []NoWriteAfterClose
<1>1. Inv => NoWriteAfterClose
  BY DEF Inv, EndInv, NoWriteAfterClose
<1>2. QED
  BY <1>1, Inductive, PTL
===============================================================================
