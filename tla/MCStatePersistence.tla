------------------------- MODULE MCStatePersistence -------------------------
(* A small instance of StatePersistence for TLC. *)
EXTENDS StatePersistence

Throttled == {[status |-> 429, says |-> "plain"]}

OnTheSameHost == [e \in Endpoint |-> CHOOSE h \in Host : TRUE]

\* An operator and the sweeper do not save at once.
Apart == saver["admin"] = "none" \/ saver["sweeper"] = "none"

OneOrTheOther == PInit /\ [][PNext /\ Apart']_<<vars, persistence>> /\ PFairness

=============================================================================
