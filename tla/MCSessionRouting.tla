-------------------------- MODULE MCSessionRouting --------------------------
(* A small instance of SessionRouting for TLC: one conversation with two    *)
(* requests at a time, one with images; a chain and a substitute that share *)
(* an endpoint; and a model sync that swaps an endpoint and changes what    *)
(* the others can do.                                                       *)
EXTENDS SessionRouting, TLC

CONSTANTS e1, e2, e3, r1

Smart == [s \in Session |-> "smart"]

Shared == [e \in Endpoint |-> IF e = e3 THEN "other" ELSE "host"]

Before == [chain |-> ("smart" :> <<e1, e2>> @@ "work" :> <<e2, e3>>),
           can |-> (e1 :> {} @@ e2 :> {"vision"} @@ e3 :> {"vision"})]

After == [chain |-> ("smart" :> <<e1, e3>> @@ "work" :> <<e3>>),
          can |-> (e1 :> {"vision"} @@ e2 :> {} @@ e3 :> {"vision"})]

Catalogues == {Before, After}

Work == <<"work", "smart">>

\* The session starts as low as it can.
Depth(s, es) ==
    IF e3 \in es THEN e3 ELSE IF e2 \in es THEN e2 ELSE e1

\* At most one of the two requests is retrying.
OneFails ==
    \E r \in Request : request[r].phase \in {"idle", "failed"} \/ request[r].tried = {}

OneWithImages == [r \in Request |-> IF r = r1 THEN {"vision"} ELSE {}]

=============================================================================
