------------------------------- MODULE MCLimiter -------------------------------
(***************************************************************************)
(* Small instances of Limiter for TLC.                                     *)
(***************************************************************************)
EXTENDS Limiter, TLC

\* No agent has a row of its own yet.
OnlyDefault == {r \in [Owners -> Limits \cup {NoRow}] : \A a \in Agents : r[a] = NoRow}

AnyRows == [Owners -> Limits \cup {NoRow}]

Symmetry == Permutations(Callers) \cup Permutations(Agents)
===============================================================================
