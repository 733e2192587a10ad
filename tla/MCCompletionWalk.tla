-------------------------- MODULE MCCompletionWalk --------------------------
(* A small instance of CompletionWalk for TLC: a Command Code endpoint that *)
(* may take as long as the whole budget, and a proxied pair on one host.    *)
EXTENDS CompletionWalk, TLC

CONSTANTS e1, e2, e3

Hosts == [e \in Endpoint |-> IF e = e1 THEN "h1" ELSE "h2"]

Patient == [e \in Endpoint |-> IF e = e3 THEN 4 ELSE 30]

Proxied == [e \in Endpoint |-> IF e = e2 THEN 2 ELSE 0]

=============================================================================
