---------------------------- MODULE MCStreamWalk ----------------------------
(* A small instance of StreamWalk for TLC: an endpoint behind two proxies   *)
(* and a direct one.                                                        *)
EXTENDS StreamWalk, TLC

CONSTANTS e1, e2

Hosts == [e \in Endpoint |-> e]

Patient == [e \in Endpoint |-> IF e = e2 THEN 4 ELSE 30]

Proxied == [e \in Endpoint |-> IF e = e1 THEN 2 ELSE 0]

=============================================================================
