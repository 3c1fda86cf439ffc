----------------------------- MODULE MCAgentStream -----------------------------
(* Bodies of up to three events for AgentStream, cut in up to three chunks. *)
EXTENDS Integers, Sequences, TLC

Silent == [text |-> "none", calls |-> <<>>, finish |-> FALSE, usage |-> [read |-> -1, hits |-> <<>>],
           done |-> FALSE]
Call(i, n, p) == [index |-> i, name |-> n, part |-> p]

MCMeanings ==
  (<<"hel", "lo">> :> [Silent EXCEPT !.text = "hello"]) @@
  (<<"call", "first">> :> [Silent EXCEPT !.calls = <<Call(1, "modify", "{"), Call(2, "close", "{")>>]) @@
  (<<"call", "more">> :> [Silent EXCEPT !.calls = <<Call(2, "none", "}")>>]) @@
  (<<"fin", "ish">> :> [Silent EXCEPT !.finish = TRUE, !.usage = [read |-> 3, hits |-> <<-1, 5, 7>>]]) @@
  (<<"DO", "NE">> :> [Silent EXCEPT !.done = TRUE])
MCWhole == {<<"{", "}">>}

\* One of the events has two lines, one is not JSON.
Events ==
  {<<"hel", "lo">>, <<"hel", "nl", "lo">>, <<"call", "first">>, <<"call", "more">>, <<"fin", "ish">>,
   <<"DO", "NE">>, <<"hel">>}
Gap == <<"nl", "nl">>
Texts == {a \o Gap \o b \o g \o c \o e : a, b, c \in Events, g \in {Gap, Gap \o <<"nl">>}, e \in {<<>>, Gap}}

MCStreams == [body : Texts, first : 1 .. 5, second : 5 .. 7]
=============================================================================
