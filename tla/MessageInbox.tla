------------------------------ MODULE MessageInbox ------------------------------
(***************************************************************************)
(* internal/gateway: send_message and receive_message, and the streams of  *)
(* limited length that they and the task reports write to.                 *)
(*                                                                         *)
(* send_message adds a document to the recipient's stream, which Redis may *)
(* trim to the recipient's max_stream_len; complete_task and fail_task add *)
(* to one stream that all agents share, trimmed to the reporter's.         *)
(* receive_message subscribes, takes one delivery and acknowledges it      *)
(* before it returns it.  Topic a stands for agent.messages.<a>, and       *)
(* Events for agent.events.completed or agent.events.failed.               *)
(*                                                                         *)
(* Calls refused by validation, authentication, policy, size or rate       *)
(* change nothing here (AdminServer and Limiter have those checks).  A     *)
(* malformed entry is one whose document, envelope included, is longer     *)
(* than parseMsg accepts although its body was not too long to be sent.    *)
(*                                                                         *)
(* The properties are about stream entries: a message whose XADD the Redis *)
(* client repeats stands in its stream twice, as two entries.              *)
(***************************************************************************)
EXTENDS RedisTransport

CONSTANTS
  Events,       \* the stream that all agents report to
  Everyone,     \* "*", the agent of the limits row for agents without their own
  Senders,      \* send_message and report calls in progress
  Lengths,      \* the values an administrator may give max_stream_len; 0 is none
  MaxChanges,   \* bound: changes of the limits rows
  MaxEntries    \* bound: entries added, in all streams

Agents == Topics \ {Events}
Owners == Agents \cup {Everyone}
NoRow == -1
Limits == Lengths \cup {0}

ASSUME InboxAssumption ==
  /\ Events \in Topics
  /\ Lengths \subseteq Nat
  /\ Everyone \notin Topics
  /\ MaxChanges \in Nat
  /\ MaxEntries \in Nat
  /\ \A s \in Subscribers : TopicOf[s] # Events

VARIABLES
  maxLen,    \* the max_stream_len of each limits row, or NoRow
  changes,   \* how often one was changed
  send,      \* control state of each sending handler
  receive,   \* control state of each receive_message handler
  holding,   \* the delivery that a receive_message handler has taken
  hadLens,   \* history: what maxLen has been
  added,     \* history: entries added to each stream
  claimed,   \* history: entries of each stream handed to the group
  returned,  \* history: how often each message was returned
  dropped,   \* history: messages acknowledged by a call that did not return them
  floor      \* history: the newest message returned before the call in progress began

limitVars == <<maxLen, changes, hadLens>>
receiveVars == <<receive, holding, returned, dropped, floor>>
seenVars == <<added, claimed>>
inboxVars == <<limitVars, send, receiveVars, seenVars>>
vars == <<transportVars, inboxVars>>

Idle == [at |-> "idle"]
Looking == [at : {"fallback"}, to : Topics]

\* lost counts the attempts of XADD that took effect although no reply came.
Sending == [at : {"ready"}, to : Topics, len : Limits, lost : 0 .. Retries]

Init ==
  /\ TransportInit
  /\ maxLen = [a \in Owners |-> NoRow]
  /\ changes = 0
  /\ hadLens = [a \in Owners |-> {maxLen[a]}]
  /\ send = [c \in Senders |-> Idle]
  /\ receive = [s \in Subscribers |-> "idle"]
  /\ holding = [s \in Subscribers |-> NoId]
  /\ added = [t \in Topics |-> {}]
  /\ claimed = [t \in Topics |-> {}]
  /\ returned = [t \in Topics |-> [i \in Ids |-> 0]]
  /\ dropped = [t \in Topics |-> {}]
  /\ floor = [s \in Subscribers |-> NoId]

TypeOK ==
  /\ TransportTypeOK
  /\ maxLen \in [Owners -> Lengths \cup {NoRow}]
  /\ changes \in Nat
  /\ hadLens \in [Owners -> SUBSET (Lengths \cup {NoRow})]
  /\ send \in [Senders -> Looking \cup Sending \cup {Idle}]
  /\ receive \in [Subscribers -> {"idle", "admitted", "waiting", "acking"}]
  /\ holding \in [Subscribers -> Ids \cup {NoId}]
  /\ \A s \in Subscribers : receive[s] = "acking" <=> holding[s] # NoId
  /\ added \in [Topics -> SUBSET Ids]
  /\ claimed \in [Topics -> SUBSET Ids]
  /\ returned \in [Topics -> [Ids -> Nat]]
  /\ dropped \in [Topics -> SUBSET Ids]
  /\ floor \in [Subscribers -> Ids \cup {NoId}]

\* What a step of Redis adds to the history of the streams.
Recorded ==
  /\ added' = [t \in Topics |-> added[t] \cup stream'[t]]
  /\ claimed' = [t \in Topics |-> claimed[t] \cup pel'[t]]

\* An administrator adds, edits or deletes a limits row.
SetMaxLen(a, len) ==
  /\ changes < MaxChanges
  /\ len # maxLen[a]
  /\ changes' = changes + 1
  /\ maxLen' = [maxLen EXCEPT ![a] = len]
  /\ hadLens' = [hadLens EXCEPT ![a] = @ \cup {len}]
  /\ UNCHANGED <<transportVars, seenVars, send, receiveVars>>

-------------------------------------------------------------------------------
(* Sending.                                                                *)

Room(t, n) ==
  /\ Cardinality(IdsOf[t] \ added[t]) >= n
  /\ Cardinality(UNION {{u} \X added[u] : u \in Topics}) + n <= MaxEntries

Ready(t, len) == [at |-> "ready", to |-> t, len |-> len, lost |-> 0]

\* A call has passed its checks and built its document, and reads (GetStreamMaxLen) the
\* max_stream_len of the agent that the stream is trimmed for, payer: first its own row.
\* A read that fails gives no limit.  (Limits from the limiter's cache are those of
\* queries that some call made earlier: this call's queries stand for them then.)
Begin(c, t, payer) ==
  /\ send[c] = Idle
  /\ Room(t, 1)
  /\ \/ /\ maxLen[payer] # NoRow
        /\ send' = [send EXCEPT ![c] = Ready(t, maxLen[payer])]
     \/ /\ maxLen[payer] = NoRow
        /\ send' = [send EXCEPT ![c] = [at |-> "fallback", to |-> t]]
     \/ Faults /\ send' = [send EXCEPT ![c] = Ready(t, 0)]
  /\ UNCHANGED <<transportVars, limitVars, seenVars, receiveVars>>

\* Then the row for everyone; without that there is no limit either.
FallBack(c) ==
  /\ send[c].at = "fallback"
  /\ \E len \in Limits :
       /\ \/ len = maxLen[Everyone]
          \/ len = 0 /\ (maxLen[Everyone] = NoRow \/ Faults)
       /\ send' = [send EXCEPT ![c] = Ready(send[c].to, len)]
  /\ UNCHANGED <<transportVars, limitVars, seenVars, receiveVars>>

\* (Variant: the stream is trimmed to the sender's limit.)
SendMessageOwnLimit(c) == \E from, to \in Agents : Begin(c, to, from)

SendMessage(c) == \E to \in Agents : Begin(c, to, to)

\* complete_task and fail_task.
ReportEvent(c) == \E from \in Agents : Begin(c, Events, from)

AddEntry(c) == \E i \in Ids : AddTrimming(send[c].to, i, send[c].len)

\* Redis executes XADD and its reply is lost: the client sends the command again.  (The
\* bound on entries leaves room for the attempt that follows.)
PublishRetried(c) ==
  /\ send[c].at = "ready"
  /\ Faults
  /\ send[c].lost < Retries
  /\ Room(send[c].to, 2)
  /\ AddEntry(c)
  /\ send' = [send EXCEPT ![c].lost = @ + 1]
  /\ Recorded
  /\ UNCHANGED <<limitVars, receiveVars>>

\* The attempt whose reply arrives; or the last one, whose reply is lost: then the
\* caller gets an error for a message that is in the stream.
Publish(c) ==
  /\ send[c].at = "ready"
  /\ AddEntry(c)
  /\ send' = [send EXCEPT ![c] = Idle]
  /\ Recorded
  /\ UNCHANGED <<limitVars, receiveVars>>

\* An error before or from XADD.
SendFails(c) ==
  /\ send[c].at = "ready"
  /\ Faults
  /\ send' = [send EXCEPT ![c] = Idle]
  /\ UNCHANGED <<transportVars, limitVars, seenVars, receiveVars>>

-------------------------------------------------------------------------------
(* receive_message.                                                        *)

NewestReturned(t) ==
  CHOOSE i \in Ids \cup {NoId} :
    /\ i = NoId \/ returned[t][i] > 0
    /\ \A j \in Ids : returned[t][j] > 0 => j <= i

StartReceive(s) ==
  /\ receive[s] = "idle"
  /\ OpenRequest(s)
  /\ receive' = [receive EXCEPT ![s] = "admitted"]
  /\ floor' = [floor EXCEPT ![s] = NewestReturned(TopicOf[s])]
  /\ UNCHANGED <<limitVars, seenVars, send, holding, returned, dropped>>

Answered(s) ==
  /\ receive' = [receive EXCEPT ![s] = "idle"]
  /\ floor' = [floor EXCEPT ![s] = NoId]

SubscribeStep(s) ==
  /\ receive[s] = "admitted"
  /\ \/ Subscribe(s) /\ receive' = [receive EXCEPT ![s] = "waiting"] /\ UNCHANGED floor
     \/ SubscribeFails(s) /\ Answered(s)
  /\ UNCHANGED <<limitVars, seenVars, send, holding, returned, dropped>>

\* (Variant: the ok of the receive is ignored, so a closed channel gives a delivery.)
TakeDeliveryOrClosed(s) ==
  /\ receive[s] = "waiting"
  /\ TakeFrom(s) \/ (Drained(s) /\ UNCHANGED transportVars)
  /\ holding' = [holding EXCEPT ![s] = chan[s]]
  /\ receive' = [receive EXCEPT ![s] = "acking"]
  /\ UNCHANGED <<limitVars, seenVars, send, returned, dropped, floor>>

TakeDelivery(s) ==
  /\ receive[s] = "waiting"
  /\ TakeFrom(s)
  /\ holding' = [holding EXCEPT ![s] = chan[s]]
  /\ receive' = [receive EXCEPT ![s] = "acking"]
  /\ UNCHANGED <<limitVars, seenVars, send, returned, dropped, floor>>

\* The timeout or the cancellation, at any time, and a closed channel.
ReturnEmpty(s) ==
  /\ receive[s] = "waiting"
  /\ Answered(s)
  /\ UNCHANGED <<transportVars, limitVars, seenVars, send, holding, returned, dropped>>

Ends(s) == Answered(s) /\ holding' = [holding EXCEPT ![s] = NoId]

\* (Variant: the error of Ack is ignored, and the message returned.)
AckAndReturnAnyway(s) ==
  /\ receive[s] = "acking"
  /\ Ack(TopicOf[s], holding[s]) \/ (Faults /\ UNCHANGED transportVars)
  /\ returned' = [returned EXCEPT ![TopicOf[s]][holding[s]] = @ + 1]
  /\ Ends(s)
  /\ UNCHANGED <<limitVars, seenVars, send, dropped>>

\* XACK, and the message is returned.  (The size check after it never fails:
\* parseMsg accepts no document that long.)
AckAndReturn(s) ==
  /\ receive[s] = "acking"
  /\ Ack(TopicOf[s], holding[s])
  /\ returned' = [returned EXCEPT ![TopicOf[s]][holding[s]] = @ + 1]
  /\ Ends(s)
  /\ UNCHANGED <<limitVars, seenVars, send, dropped>>

\* XACK fails, or took effect and its reply is lost: the call returns an error
\* and the message is never delivered again.
AckFails(s) ==
  /\ receive[s] = "acking"
  /\ Faults \/ ctx[s] = "cancelled"
  /\ \/ UNCHANGED <<transportVars, dropped>>
     \/ /\ Ack(TopicOf[s], holding[s])
        /\ dropped' = [dropped EXCEPT ![TopicOf[s]] = @ \cup {holding[s]}]
  /\ Ends(s)
  /\ UNCHANGED <<limitVars, seenVars, send, returned>>

CancelRequest(s) ==
  /\ receive[s] = "idle" \/ Faults
  /\ Cancel(s)
  /\ UNCHANGED <<limitVars, seenVars, send, receiveVars>>

Reader(s) == ReaderStep(s) /\ Recorded /\ UNCHANGED <<limitVars, send, receiveVars>>

-------------------------------------------------------------------------------

\* The gateway ends and starts again: its calls and readers are gone.
Restart ==
  /\ Faults
  /\ Vanish
  /\ send' = [c \in Senders |-> Idle]
  /\ receive' = [s \in Subscribers |-> "idle"]
  /\ holding' = [s \in Subscribers |-> NoId]
  /\ floor' = [s \in Subscribers |-> NoId]
  /\ UNCHANGED <<limitVars, seenVars, returned, dropped>>

Next ==
  \/ Restart
  \/ \E a \in Owners, len \in Lengths \cup {NoRow} : SetMaxLen(a, len)
  \/ \E c \in Senders :
       \/ SendMessage(c) \/ ReportEvent(c) \/ FallBack(c)
       \/ PublishRetried(c) \/ Publish(c) \/ SendFails(c)
  \/ \E s \in Subscribers :
       \/ StartReceive(s) \/ SubscribeStep(s) \/ TakeDelivery(s) \/ ReturnEmpty(s)
       \/ AckAndReturn(s) \/ AckFails(s) \/ CancelRequest(s) \/ Reader(s)

Spec == Init /\ [][Next]_vars

-------------------------------------------------------------------------------
(* Properties.                                                             *)

\* However calls, lingering readers, lost replies and restarts interleave, no
\* entry of a mailbox is returned by two receive_message calls.
ReturnedOnce == \A t \in Topics, i \in Ids : returned[t][i] <= 1

\* A call returns nothing older than what had been returned before it began,
\* although the readers of earlier calls go on claiming batches: a mailbox is read
\* in the order it was written, with gaps.
NewerOnly == \A s \in Subscribers : receive[s] = "acking" => holding[s] > floor[s]

\* The handler acknowledges before it returns: what is acknowledged was returned,
\* or was dropped by parseMsg, or belongs to a call whose acknowledgement failed;
\* and nothing returned can be claimed again from the pending list.
AckedIsAccounted ==
  \A t \in Topics :
    /\ claimed[t] \ pel[t] \subseteq
         {i \in Ids : returned[t][i] > 0} \cup Malformed[t] \cup dropped[t]
    /\ \A i \in pel[t] : returned[t][i] = 0

\* The limits rows that the writers of stream t go by.
Payers(t) == IF t = Events THEN Owners ELSE {t, Everyone}

\* Redis discards a message of a mailbox only when the mailbox has at least as many
\* newer ones as the smallest limit that its owner's row or the row for everyone ever
\* had; a result on the shared stream, as the smallest limit of any row, be it 1.
TrimJustified ==
  \A t \in Topics : \A i \in added[t] \ stream[t] :
    \E a \in Payers(t) : \E len \in hadLens[a] \ {0, NoRow} :
      Cardinality({j \in added[t] : j > i}) >= len
===============================================================================
