------------------------------- MODULE MsgLogger -------------------------------
(***************************************************************************)
(* internal/gateway/msglog.go: the EmbeddedMessageLogger, with the part of *)
(* cmd/gateway that closes it.                                             *)
(*                                                                         *)
(* Tool handlers hand entries to a channel of capacity Cap and never wait; *)
(* one worker goroutine writes them to the store.  Close tells the worker  *)
(* to write what is queued and waits for its end; then the store is        *)
(* closed.  Handlers may be running all the while: an HTTP shutdown gives  *)
(* up on them after its timeout.  An entry is a model value.               *)
(***************************************************************************)
EXTENDS Integers, Sequences

CONSTANTS
  Entries,     \* what the handlers log, each entry once
  NoEntry,     \* the worker writes nothing
  Cap,         \* capacity of the channel (256 by default)
  WriteFails   \* whether the store may refuse an entry

ASSUME LoggerAssumption ==
  /\ NoEntry \notin Entries
  /\ Cap \in Nat \ {0}
  /\ WriteFails \in BOOLEAN

VARIABLES
  queue,     \* l.ch
  worker,    \* drain: in its main select, flushing, or returned (l.closed)
  hand,      \* the entry that drain writes
  shutdown,  \* main: "run", "closing" (l.done is closed), "closed" (Close has
             \* returned), "storeClosed", "exited"
  rows,      \* the entries in the store, in order
  failed,    \* entries whose write returned an error, which is logged
  dropped,   \* entries that found the channel full, which is logged
  accepted,  \* history: the entries that entered the channel, in order
  before     \* history: how many had entered it when Close was called

logVars == <<rows, failed, dropped>>
vars == <<queue, worker, hand, shutdown, logVars, accepted, before>>

InSeq(s) == {s[k] : k \in DOMAIN s}

Logged == InSeq(accepted) \cup dropped

Init ==
  /\ queue = << >>
  /\ worker = "select"
  /\ hand = NoEntry
  /\ shutdown = "run"
  /\ rows = << >>
  /\ failed = {}
  /\ dropped = {}
  /\ accepted = << >>
  /\ before = 0

TypeOK ==
  /\ queue \in Seq(Entries)
  /\ worker \in {"select", "flush", "stopped"}
  /\ hand \in Entries \cup {NoEntry}
  /\ shutdown \in {"run", "closing", "closed", "storeClosed", "exited"}
  /\ rows \in Seq(Entries)
  /\ failed \subseteq Entries
  /\ dropped \subseteq Entries
  /\ accepted \in Seq(Entries)
  /\ before \in Nat

-------------------------------------------------------------------------------
(* The handlers.                                                           *)

\* The select of Log: send, or drop the entry when the channel is full.
Log(e) ==
  /\ shutdown # "exited"
  /\ e \notin Logged
  /\ IF Len(queue) < Cap
     THEN /\ queue' = Append(queue, e)
          /\ accepted' = Append(accepted, e)
          /\ UNCHANGED dropped
     ELSE /\ dropped' = dropped \cup {e}
          /\ UNCHANGED <<queue, accepted>>
  /\ UNCHANGED <<worker, hand, shutdown, rows, failed, before>>

-------------------------------------------------------------------------------
(* The worker goroutine.                                                   *)

Ready == hand = NoEntry /\ shutdown # "exited"

\* Both selects of drain take an entry when there is one; the outer one takes either
\* of its cases when done is closed as well.
Receive ==
  /\ Ready
  /\ worker \in {"select", "flush"}
  /\ queue # << >>
  /\ hand' = Head(queue)
  /\ queue' = Tail(queue)
  /\ UNCHANGED <<worker, shutdown, logVars, accepted, before>>

SeeDone ==
  /\ Ready
  /\ worker = "select"
  /\ shutdown # "run"
  /\ worker' = "flush"
  /\ UNCHANGED <<queue, hand, shutdown, logVars, accepted, before>>

Written ==
  /\ rows' = Append(rows, hand)
  /\ hand' = NoEntry
  /\ UNCHANGED <<queue, failed>>

\* (Variant: an entry whose write failed is queued again.)
WriteRetries ==
  /\ hand # NoEntry
  /\ shutdown # "exited"
  /\ \/ Written
     \/ /\ WriteFails
        /\ Len(queue) < Cap
        /\ queue' = Append(queue, hand)
        /\ hand' = NoEntry
        /\ UNCHANGED <<rows, failed>>
  /\ UNCHANGED <<worker, shutdown, dropped, accepted, before>>

\* write: an error of the store is logged and the entry forgotten.
Write ==
  /\ hand # NoEntry
  /\ shutdown # "exited"
  /\ \/ Written
     \/ /\ WriteFails \/ shutdown = "storeClosed"
        /\ failed' = failed \cup {hand}
        /\ hand' = NoEntry
        /\ UNCHANGED <<queue, rows>>
  /\ UNCHANGED <<worker, shutdown, dropped, accepted, before>>

\* (Variant: the worker returns as soon as it sees done.)
StopAtOnce ==
  /\ Ready
  /\ worker = "flush"
  /\ worker' = "stopped"
  /\ UNCHANGED <<queue, hand, shutdown, logVars, accepted, before>>

\* (Variant: the inner select has no default and waits for an entry.)
StopNever == FALSE

Stop ==
  /\ Ready
  /\ worker = "flush"
  /\ queue = << >>
  /\ worker' = "stopped"
  /\ UNCHANGED <<queue, hand, shutdown, logVars, accepted, before>>

-------------------------------------------------------------------------------
(* The end of the process.                                                 *)

Close ==
  /\ shutdown = "run"
  /\ shutdown' = "closing"
  /\ before' = Len(accepted)
  /\ UNCHANGED <<queue, worker, hand, logVars, accepted>>

\* (Variant: Close does not wait for the worker.)
CloseReturnsAtOnce ==
  /\ shutdown = "closing"
  /\ shutdown' = "closed"
  /\ UNCHANGED <<queue, worker, hand, logVars, accepted, before>>

CloseReturns ==
  /\ shutdown = "closing"
  /\ worker = "stopped"
  /\ shutdown' = "closed"
  /\ UNCHANGED <<queue, worker, hand, logVars, accepted, before>>

\* The deferred function of main closes the store next.
CloseStore ==
  /\ shutdown = "closed"
  /\ shutdown' = "storeClosed"
  /\ UNCHANGED <<queue, worker, hand, logVars, accepted, before>>

\* main returns, or the process ends before that: a signal that kills it, or log.Fatalf,
\* which runs no deferred function.
Exit ==
  /\ shutdown # "exited"
  /\ shutdown' = "exited"
  /\ UNCHANGED <<queue, worker, hand, logVars, accepted, before>>

Drain == Receive \/ SeeDone \/ Write \/ Stop

Next ==
  \/ \E e \in Entries : Log(e)
  \/ Drain
  \/ Close
  \/ CloseReturns
  \/ CloseStore
  \/ Exit

Spec == Init /\ [][Next]_vars

\* The worker is a goroutine that runs when it can, and every store call returns;
\* main goes on when Close can return.
FairSpec == Spec /\ WF_vars(Drain) /\ WF_vars(CloseReturns)

-------------------------------------------------------------------------------
(* Properties.                                                             *)

\* How many of the accepted entries the worker has taken from the channel.
Taken == Len(accepted) - Len(queue)

\* Channel, worker and store hold every accepted entry exactly where the order of
\* acceptance puts it: nothing is skipped, repeated or overtaken on the way.
Pipeline ==
  /\ Len(queue) <= Len(accepted)
  /\ \A k \in 1..Len(queue) : queue[k] = accepted[Taken + k]
  /\ hand # NoEntry => Taken > 0 /\ hand = accepted[Taken]
  /\ \A k \in 1..Taken :
       accepted[k] \in InSeq(rows) \cup failed \/ (k = Taken /\ hand # NoEntry)

\* Close returns only when everything that was logged before it is in the store, or
\* was refused by it, although handlers go on logging meanwhile.
FlushedBeforeClose ==
  shutdown \in {"closed", "storeClosed"} =>
    \A k \in 1..before : accepted[k] \in InSeq(rows) \cup failed

\* The worker never holds an entry for a store that is closed.
NoWriteAfterClose == shutdown = "storeClosed" => hand = NoEntry

\* The store holds entries in the order in which they were logged.
RowsInOrder ==
  \A j, k \in DOMAIN rows : j < k =>
    \E m, n \in DOMAIN accepted :
      m < n /\ accepted[m] = rows[j] /\ accepted[n] = rows[k]

\* Close returns although handlers go on logging, if they log finitely much more; the
\* process may be ended first.
CloseTerminates == shutdown = "closing" ~> shutdown \in {"closed", "exited"}

\* msglog.go:55 "Entries are dropped with a WARN log when the channel is full": no
\* entry is lost in any other way by a shutdown that runs to its end.
LossIsLogged ==
  shutdown = "exited" /\ worker = "stopped" =>
    InSeq(accepted) \subseteq InSeq(rows) \cup failed
===============================================================================
