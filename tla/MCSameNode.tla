---------------------------- MODULE MCSameNode ----------------------------
(***************************************************************************)
(* Instances of SameNode for TLC: where the ranks run.                     *)
(***************************************************************************)
EXTENDS SameNode

\* Every way to spread the ranks over nodes, a node being called after its first rank.
AnyPlacement ==
    {place \in [Rank -> Rank] : \A r \in Rank : place[r] <= r /\ place[place[r]] = place[r]}

OneNode == {[r \in Rank |-> 0]}
===========================================================================
