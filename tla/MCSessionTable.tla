--------------------------- MODULE MCSessionTable ---------------------------
(* A small instance of SessionTable for TLC: one session more than the cap. *)
EXTENDS SessionTable

CONSTANTS s1, s2, e1, e2

\* The second session is there to be trimmed for, wherever it is bound.
Crowded ==
    Init /\ [][Next /\ session'[s2].ep # e2]_vars /\ Fairness

=============================================================================
