---------------------------- MODULE MCMessageInbox ----------------------------
(***************************************************************************)
(* Small instances of MessageInbox for TLC.                                *)
(***************************************************************************)
EXTENDS MessageInbox, TLC

CONSTANTS a1, a2

EntryIds == a1 :> {1, 2, 3} @@ a2 :> {} @@ Events :> {1, 2}
SecondTooLong == [t \in Topics |-> IF t = a1 THEN {2} ELSE {}]
AllForA1 == [s \in Subscribers |-> a1]

Symmetry == Permutations(Subscribers) \cup Permutations(Senders)
===============================================================================
