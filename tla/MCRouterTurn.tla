---------------------------- MODULE MCRouterTurn ----------------------------
(***************************************************************************)
(* Small instances of RouterTurn: seats s1 and s2 of sellers, and own.     *)
(***************************************************************************)
EXTENDS RouterTurn, TLC

CONSTANTS s1, s2, own

TurnSymmetry == Permutations(Turns)

Order(service, seat, grants) == [service |-> service, target |-> seat, grants |-> grants]
Full(service) == OneUse \cup {service}

\* What processRequest mints.
SnapshotOf(seat) == Order("trust_snapshot", seat, Full("trust_snapshot"))
ArenaOrders == {SnapshotOf(s1), SnapshotOf(s2)}

\* What other hosts may have granted: one authority is missing.
HostOrders ==
  {SnapshotOf(s1), SnapshotOf(own),
   Order("best_execution", s1, {"router-exec", "best_execution"}),
   Order("verify_delivery", s1, {"router-exec"}),
   Order("verify_delivery", s1, {"router-exec", "escalation"})}
  \cup {Order("trust_snapshot", s1, Full("trust_snapshot") \ {g})
          : g \in {"router-exec", "router-probe", "probe-exec", "probe-target"}}
=============================================================================
