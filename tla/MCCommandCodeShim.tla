-------------------------- MODULE MCCommandCodeShim --------------------------
(* A small instance of CommandCodeShim for TLC: a reload takes a key away. *)
EXTENDS CommandCodeShim

CONSTANTS k1, k2

BothOrOne == {<<k1, k2>>, <<k2>>}
=============================================================================
