---------------------------- MODULE MCStreamRelay ----------------------------
(* A small instance of StreamRelay for TLC: every dialect, with tool calls  *)
(* coalesced and passed on as they come.                                    *)
EXTENDS StreamRelay

\* The last event, unless it is the stream's end, follows without a pause.
LastAtOnce ==
    heard' = heard \/ Len(heard') < MaxEvents \/ body # "open" \/ waited = 0

Brief == RelayInit /\ [][RelayNext /\ LastAtOnce]_relay_vars /\ RelayFairness

=============================================================================
