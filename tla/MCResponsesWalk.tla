--------------------------- MODULE MCResponsesWalk ---------------------------
(* A small instance of ResponsesWalk for TLC: a Chat Completions endpoint   *)
(* behind two proxies and a Command Code endpoint reached directly.         *)
EXTENDS ResponsesWalk, TLC

CONSTANTS e1, e2

Hosts == [e \in Endpoint |-> e]

Patient == [e \in Endpoint |-> IF e = e2 THEN 7 ELSE 30]

Proxied == [e \in Endpoint |-> IF e = e1 THEN 2 ELSE 0]

=============================================================================
