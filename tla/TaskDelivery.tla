----------------------------- MODULE TaskDelivery -----------------------------
(***************************************************************************)
(* What the gateway promises about a single task: the stages of its life   *)
(* and the moves between them.  Several tasks may move in one step (one    *)
(* read claims a batch, one crash strands many).                           *)
(*                                                                         *)
(* A task reaches its agent at most once (held is entered only from        *)
(* claimed), is reported at most once and only after it was held, and ends *)
(* in one of three final stages:                                           *)
(*   reported  a result document is on an event stream                     *)
(*   skipped   it is not in the group's pending entries list and will      *)
(*             never reach an agent (older than the group, or malformed)   *)
(*   stranded  it is in that list, and no part of the system holds it      *)
(* A task that was claimed is never skipped: until a result is published,  *)
(* its stream entry stays where an operator can find it.                   *)
(***************************************************************************)
CONSTANT Tasks

VARIABLE stage

Stages ==
  {"absent", "queued", "claimed", "held", "reporting",
   "reported", "skipped", "stranded"}

Moves ==
  {<<"absent", "queued">>,
   <<"queued", "claimed">>, <<"queued", "skipped">>, <<"queued", "stranded">>,
   <<"claimed", "held">>, <<"claimed", "stranded">>,
   <<"held", "reporting">>, <<"held", "stranded">>,
   <<"reporting", "reported">>, <<"reporting", "stranded">>}

Init == stage = [t \in Tasks |-> "absent"]

Next ==
  /\ stage' \in [Tasks -> Stages]
  /\ \A t \in Tasks : stage'[t] # stage[t] => <<stage[t], stage'[t]>> \in Moves

Spec == Init /\ [][Next]_stage
===============================================================================
