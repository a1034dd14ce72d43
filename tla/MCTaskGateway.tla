----------------------------- MODULE MCTaskGateway -----------------------------
(***************************************************************************)
(* Small instances of TaskGateway for TLC.                                 *)
(***************************************************************************)
EXTENDS TaskGateway, TLC

CONSTANTS a1, a2, s1, s2

OneMalformed == a1 :> {2}
ThreeForA1 == a1 :> {1, 2, 3}
AllWellFormed == [a \in Topics |-> {}]
AllForA1 == [s \in Subscribers |-> a1]

\* Two streams whose entries got the same id.
SharedId == a1 :> {1} @@ a2 :> {1}
OneSlotEach == s1 :> a1 @@ s2 :> a2

Symmetry ==
  Permutations(Subscribers) \cup Permutations(Reporters) \cup Permutations(Kinds)
===============================================================================
