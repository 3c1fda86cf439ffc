------------------------------ MODULE AgentStream ------------------------------
(***************************************************************************)
(* How the agent reads the model's streamed answer: the body arrives in    *)
(* chunks cut anywhere, an empty line ends an event, an event carries text,*)
(* parts of tool calls, the reason it finished or the usage of the cache.  *)
(*                                                                         *)
(* The body is a sequence of symbols: "nl" for a line break, anything else *)
(* for a part of a line; Meanings tells what the lines of an event say,    *)
(* and an event it does not know is not JSON. Carriage returns are left    *)
(* out.                                                                    *)
(***************************************************************************)
EXTENDS Integers, Sequences

CONSTANTS
  Meanings,  \* [Seq of symbols -> [text, calls, finish, usage, done]]
  Whole      \* the sequences of parts that make the JSON object of a tool's input

NoTool == [name |-> "none", parts |-> <<>>]
Blank == [content |-> <<>>, tool |-> NoTool, pending |-> <<>>, usage |-> [read |-> 0, hit |-> 0],
          done |-> FALSE]

\* buffer.split at the empty lines: the events, and what follows the last of them.
Nothing == [events |-> <<>>, rest |-> <<>>]
Split(acc, s) ==
  IF s = "nl" /\ acc.rest # <<>> /\ acc.rest[Len(acc.rest)] = "nl"
  THEN [events |-> Append(acc.events, SubSeq(acc.rest, 1, Len(acc.rest) - 1)), rest |-> <<>>]
  ELSE [events |-> acc.events, rest |-> Append(acc.rest, s)]
Pieces(text) ==
  LET after[n \in 0 .. Len(text)] == IF n = 0 THEN Nothing ELSE Split(after[n - 1], text[n])
  IN after[Len(text)]

\* readCacheUsage: what an event does not tell stays; of the places that tell the hits the
\* first one counts. A missing number is -1.
CacheUsage(current, usage) ==
  LET hits == SelectSeq(usage.hits, LAMBDA n : n >= 0) IN
    [read |-> IF usage.read >= 0 THEN usage.read ELSE current.read,
     hit |-> IF hits # <<>> THEN Head(hits) ELSE current.hit]

\* The parts of a call are collected under its index; the name it was given last counts.
Collected(pending, calls) ==
  [i \in DOMAIN pending \cup {calls[k].index : k \in DOMAIN calls} |->
     LET old == IF i \in DOMAIN pending THEN pending[i] ELSE NoTool
         named == SelectSeq(calls, LAMBDA c : c.index = i /\ c.name # "none")
         added == SelectSeq(calls, LAMBDA c : c.index = i /\ c.part # "none")
     IN [name |-> IF named = <<>> THEN old.name ELSE named[Len(named)].name,
         parts |-> old.parts \o [k \in DOMAIN added |-> added[k].part]]]

\* The first call whose input can be read.
FirstWhole(pending, tool) ==
  LET whole == {i \in DOMAIN pending : pending[i].parts \in Whole} IN
    IF whole = {} THEN tool ELSE pending[CHOOSE i \in whole : \A j \in whole : i <= j]

\* processChatCompletionsSseEvent
Processed(state, event) ==
  LET lines == SelectSeq(event, LAMBDA s : s # "nl") IN
    IF state.done \/ lines \notin DOMAIN Meanings THEN state
    ELSE LET said == Meanings[lines]
             pending == Collected(state.pending, said.calls)
         IN IF said.done THEN [state EXCEPT !.done = TRUE]
            ELSE [state EXCEPT
                   !.content = IF said.text = "none" THEN @ ELSE Append(@, said.text),
                   !.usage = CacheUsage(@, said.usage),
                   !.tool = IF said.finish THEN FirstWhole(pending, @) ELSE @,
                   !.pending = IF said.finish THEN <<>> ELSE pending]
Handled(state, events) ==
  LET after[n \in 0 .. Len(events)] == IF n = 0 THEN state ELSE Processed(after[n - 1], events[n])
  IN after[Len(events)]

\* readChatCompletionsStream: what follows the last empty line waits for the next chunk, and
\* is an event at the end of the body. Mistake: it is dropped.
RestDropped(rest, chunk) == chunk
Buffered(rest, chunk) == rest \o chunk

ChunkRead(acc, chunk) ==
  LET pieces == Pieces(Buffered(acc.rest, chunk)) IN
    [state |-> Handled(acc.state, pieces.events), rest |-> pieces.rest]
ReadStream(chunks) ==
  LET after[n \in 0 .. Len(chunks)] ==
        IF n = 0 THEN [state |-> Blank, rest |-> <<>>] ELSE ChunkRead(after[n - 1], chunks[n])
  IN Processed(after[Len(chunks)].state, after[Len(chunks)].rest)

\* streamLayered: an error status, or a body that breaks off with an error, is no answer.
Streamed(response) ==
  IF response.ok THEN LET state == ReadStream(response.chunks) IN
                        [content |-> state.content, tool |-> state.tool, usage |-> state.usage]
  ELSE [content |-> <<"error">>, tool |-> NoTool, usage |-> Blank.usage]
=============================================================================
