--------------------------- MODULE UpstreamDialect ---------------------------
(***************************************************************************)
(* What the relay reads of a streamed answer: Chat Completions events,     *)
(* either the upstream's own or those a translator makes of a Responses    *)
(* stream (responsesSSEToChatReader) or of Command Code's NDJSON events    *)
(* (ccStreamToChatReader).                                                 *)
(*                                                                         *)
(* Of an event the model keeps what the relay tells apart: whether it has  *)
(* text, and which part of which tool call it carries.  Reasoning, roles   *)
(* and usage make a preamble.  Both translators carry incomplete lines     *)
(* over to the next read, so an event is one step here.                    *)
(***************************************************************************)
EXTENDS Naturals, Sequences

CONSTANTS
    Index,      \* places of tool calls in an answer
    NoCall      \* no tool call

Chunk(text, call, part) ==
    [kind |-> "chunk", text |-> text, call |-> call, part |-> part]

Special(kind) == [kind |-> kind, text |-> FALSE, call |-> NoCall, part |-> "none"]

Preamble == Chunk(FALSE, NoCall, "none")
TextEvent == Chunk(TRUE, NoCall, "none")
ErrorEvent == Special("error")
DoneEvent == Special("done")

\* The first part of a call names it, a whole call comes in one event.
Parts == {"name", "args", "whole"}
CallEvent(i, part) == Chunk(FALSE, i, part)
Names(e) == e.part \in {"name", "whole"}

\* What a Chat Completions upstream may send, text next to a call included.
ChatEvent ==
    {Preamble, TextEvent, Special("garbage"), ErrorEvent, DoneEvent}
    \cup {CallEvent(i, part) : i \in Index, part \in {"name", "args"}}
    \cup {Chunk(TRUE, i, "name") : i \in Index}

----------------------------------------------------------------------------
(* The translators. *)

NewTranslator ==
    [opened |-> {},         \* responses: calls the client was told of
     calls |-> 0,           \* commandcode: toolCallIndex
     emitted |-> FALSE,     \* commandcode: chunkIndex > 0
     finished |-> FALSE,    \* commandcode: sawFinish
     failed |-> FALSE,      \* commandcode: the reason of the last step
     tokens |-> FALSE,      \* commandcode: outputTokens > 0
     done |-> FALSE]        \* the end of the body was translated

\* A step's reason stands for the finish that gives none.
CommandCodeEvent ==
    {"text", "reasoning", "tool", "step", "failed step",
     "finish", "empty finish", "failed finish", "bare finish", "error", "other"}

Fails(t, e) == e \in {"failed finish", "error"} \/ (e = "bare finish" /\ t.failed)

\* ccStreamToChatReader.translateLine
FromCommandCode(t, e) ==
    IF Fails(t, e) THEN <<ErrorEvent>>
    ELSE CASE e = "text" -> <<TextEvent>>
           [] e = "tool" -> <<CallEvent(t.calls, "whole")>>
           [] e \in {"reasoning", "finish", "empty finish", "bare finish"} -> <<Preamble>>
           [] OTHER -> <<>>

AfterCommandCode(t, e) ==
    [t EXCEPT !.emitted = @ \/ e \in {"text", "reasoning", "tool"},
              !.calls = IF e = "tool" THEN @ + 1 ELSE @,
              !.finished = @ \/ e \in {"step", "failed step", "finish", "empty finish",
                                       "failed finish", "bare finish"},
              !.failed = IF e \in {"step", "failed step"} THEN e = "failed step" ELSE @,
              !.tokens = IF e = "empty finish" THEN FALSE
                         ELSE @ \/ e \in {"step", "failed step", "finish", "failed finish"}]

ResponsesEvent ==
    {[type |-> t, at |-> NoCall] : t \in {"text", "terminal", "error", "other"}}
    \cup {[type |-> t, at |-> i] : t \in {"item", "arguments"}, i \in Index}

\* responsesStreamTranslator.consume: arguments nobody announced open a
\* nameless call; an error event is like any event it does not know.
FromResponses(t, e) ==
    CASE e.type = "text" -> <<TextEvent>>
      [] e.type = "item" -> <<CallEvent(e.at, "name")>>
      [] e.type = "arguments" ->
            (IF e.at \in t.opened THEN <<>> ELSE <<CallEvent(e.at, "open")>>)
            \o <<CallEvent(e.at, "args")>>
      [] e.type = "terminal" -> <<Preamble>>
      [] OTHER -> <<>>

AfterResponses(t, e) ==
    IF e.at = NoCall THEN t ELSE [t EXCEPT !.opened = @ \cup {e.at}]

\* The end of a body that ended with a whole line.  Command Code's has to have
\* finished, with some output.
AtEnd(dialect, t) ==
    IF dialect = "commandcode" /\ (~t.finished \/ (~t.emitted /\ ~t.tokens))
    THEN <<ErrorEvent>>
    ELSE <<DoneEvent>>

\* A last line that nothing terminates; then nobody looks at how it ended.
LastLine(dialect, t) ==
    (IF dialect = "commandcode"
     THEN {FromCommandCode(t, e) : e \in {x \in CommandCodeEvent : x = "tool" => t.calls \in Index}}
     ELSE {FromResponses(t, e) : e \in ResponsesEvent}) \ {<<>>}

\* What is read at the end of a translated body, whatever ended it.
LastWords(dialect, t) == {AtEnd(dialect, t)} \cup LastLine(dialect, t)

=============================================================================
