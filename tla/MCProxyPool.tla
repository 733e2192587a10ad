---------------------------- MODULE MCProxyPool ----------------------------
(* Small instance of ProxyPool for TLC. *)
EXTENDS ProxyPool, TLC

CONSTANTS p1, p2

\* A refresh drops p1 or brings it back, or finds every source unreachable.
Changing == {<<p1, p2>>, <<p2>>, <<>>}

Anything == [p \in Proxy |-> BOOLEAN]

=============================================================================
