--------------------------- MODULE MCConfigReload ---------------------------
(* A small instance of ConfigReload for TLC. *)
EXTENDS ConfigReload

\* SetCooldownJitter, SetCircuitBreakerThreshold, SetCircuitHalfOpenProbes
\* and SetLabelCap.
PushedInOrder == <<"jitter", "threshold", "probes", "labels">>

=============================================================================
