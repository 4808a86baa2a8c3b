------------------------------- MODULE Proxy -------------------------------
(* scripts/anthropic_proxy.py: the thread each request of a client gets, the *)
(* translation of what the model streams into the events the client reads    *)
(* (MessageStream), the overflow the client can recover from, and the log    *)
(* all threads write, from which scripts/context_watch.py tells the turns.   *)
EXTENDS Naturals, Sequences, SequencesExt, FiniteSets

CONSTANTS
  Agents,      \* the clients that share the proxy, each with one request at a time
  MaxAsks,     \* bound: requests in a behaviour
  MaxChunks,   \* bound: chunks in a behaviour
  Slots,       \* bound: tool calls of one answer, 1..Slots
  Resends      \* how often a client sends a request again that failed

ASSUME ProxyAssumption == MaxAsks \in Nat /\ MaxChunks \in Nat /\ Slots \in Nat /\ Resends \in Nat

VARIABLES
  at,       \* where the thread of each client's request is
  prompt,   \* whether the client's prompt fits the window
  fails,    \* how often the client's request has failed, unchanged
  said,     \* the locals of stream_anthropic
  due,      \* pieces yielded and not yet written
  heard,    \* the events the client was sent of the message it waits for
  chunks,   \* how many chunks the upstream has streamed
  log,      \* the rows of the proxy's log, with whose request each is about
  alone     \* history: no request was made while another's thread was at work

vars == <<at, prompt, fails, said, due, heard, chunks, log, alone>>

NoCall == "none"
Unsaid == [index |-> 0, open |-> "none", pending |-> [s \in 1..Slots |-> NoCall],
           finish |-> "stop"]

Init ==
  /\ at = [a \in Agents |-> "idle"]
  /\ prompt = [a \in Agents |-> "fits"]
  /\ fails = [a \in Agents |-> 0]
  /\ said = [a \in Agents |-> Unsaid]
  /\ due = [a \in Agents |-> <<>>]
  /\ heard = [a \in Agents |-> <<>>]
  /\ chunks = 0
  /\ log = <<>>
  /\ alone = TRUE

Going(a) == at[a] \in {"asking", "streaming", "ending"}

note(a, event) == log' = Append(log, [event |-> event, of |-> a])
Goes(a, where) == at' = [at EXCEPT ![a] = where]

-----------------------------------------------------------------------------
(* The request, and what the upstream answers it with before anything streams *)

\* A new request, its prompt grown, or the one that failed once more.  The row
\* is written before the upstream is touched.
Ask(a) ==
  /\ at[a] = "idle"
  /\ Cardinality({i \in DOMAIN log : log[i].event = "request"}) < MaxAsks
  /\ prompt' \in IF fails[a] = 0 THEN {[prompt EXCEPT ![a] = p] : p \in {"fits", "over"}} ELSE {prompt}
  /\ Goes(a, "asking")
  /\ note(a, "request")
  /\ heard' = [heard EXCEPT ![a] = <<>>]
  /\ alone' = (alone /\ \A b \in Agents : ~Going(b))
  /\ UNCHANGED <<chunks, fails, said, due>>

\* How an upstream may say that the prompt is too long -- with both counts in
\* fields, with both in its prose, or with one of them -- and an error that
\* says something else.
Overflows == {"fielded", "prose", "one count"}
overflow_of(detail) == detail \in {"fielded", "prose"}

UpstreamError(a) ==
  /\ at[a] = "asking"
  /\ \E detail \in IF prompt[a] = "over" THEN Overflows ELSE {"other"} :
       IF overflow_of(detail)
          THEN /\ log' = log \o <<[event |-> "upstream_error", of |-> a], [event |-> "too_long", of |-> a]>>
               /\ prompt' = [prompt EXCEPT ![a] = "fits"]     \* the client compacts
               /\ fails' = [fails EXCEPT ![a] = 0]
               /\ Goes(a, "idle")
          ELSE /\ note(a, "upstream_error")
               /\ fails' = [fails EXCEPT ![a] = @ + 1]
               /\ Goes(a, IF fails[a] >= Resends THEN "dead" ELSE "idle")
               /\ UNCHANGED prompt
  /\ UNCHANGED <<chunks, said, due, heard, alone>>

UpstreamUnreachable(a) ==
  /\ at[a] = "asking"
  /\ note(a, "upstream_unreachable")
  /\ fails' = [fails EXCEPT ![a] = @ + 1]
  /\ Goes(a, IF fails[a] >= Resends THEN "dead" ELSE "idle")
  /\ UNCHANGED <<chunks, prompt, said, due, heard, alone>>

\* An answer that is not streamed is one object, written once.
UpstreamReplies(a) ==
  /\ at[a] = "asking" /\ prompt[a] = "fits"
  /\ note(a, "done")
  /\ fails' = [fails EXCEPT ![a] = 0]
  /\ Goes(a, "idle")
  /\ UNCHANGED <<chunks, prompt, said, due, heard, alone>>

-----------------------------------------------------------------------------
(* stream_anthropic *)

Piece(event, index, kind) == [event |-> event, index |-> index, kind |-> kind]
close(s) == IF s.open = "none" THEN <<>> ELSE <<Piece("content_block_stop", s.index - 1, s.open)>>
Block(index, kind, deltas) ==
  <<Piece("content_block_start", index, kind)>> \o deltas \o <<Piece("content_block_stop", index, kind)>>

StreamStarts(a) ==
  /\ at[a] = "asking" /\ prompt[a] = "fits"
  /\ said' = [said EXCEPT ![a] = Unsaid]
  /\ due' = [due EXCEPT ![a] = <<Piece("message_start", 0, "none")>>]
  /\ Goes(a, "streaming")
  /\ UNCHANGED <<chunks, prompt, fails, heard, log, alone>>

\* Some more of a block of this kind, in a new block unless one is open.
\* Here index counts the blocks opened, so the open one is index - 1.
Spoken(p, kind) ==
  IF p.s.open = kind
  THEN [p EXCEPT !.out = Append(@, Piece("content_block_delta", p.s.index - 1, kind))]
  ELSE [s |-> [p.s EXCEPT !.index = @ + 1, !.open = kind],
        out |-> p.out \o close(p.s) \o <<Piece("content_block_start", p.s.index, kind),
                                         Piece("content_block_delta", p.s.index, kind)>>]
\* The arguments gathered for a call so far, when a fragment of them arrives.
Gathered(args, piece) ==
  CASE piece = "nothing" -> IF args = NoCall THEN "empty" ELSE args
    [] piece = "opening" -> "half"
    [] piece = "rest" -> IF args = "whole" THEN "half" ELSE "whole"

Chunks == [reasoning : BOOLEAN, content : BOOLEAN, slot : 0..Slots,
           piece : {"nothing", "opening", "rest"}, finish : {"none", "length", "tool_calls"}]

\* What a chunk may carry, one thing after the other in the order they are looked at.
Streamed(s, c) ==
  LET p == [s |-> s, out |-> <<>>]
      q == IF c.reasoning THEN Spoken(p, "thinking") ELSE p
  IN IF c.content THEN Spoken(q, "text") ELSE q
Chunk(a, c) ==
  LET t == Streamed(said[a], c)
  IN /\ at[a] = "streaming" /\ due[a] = <<>>
     /\ chunks < MaxChunks /\ chunks' = chunks + 1
     /\ c.slot = 0 => c.piece = "nothing"
     /\ due' = [due EXCEPT ![a] = t.out]
     /\ said' = [said EXCEPT ![a] =
          [t.s EXCEPT !.finish = IF c.finish = "none" THEN @ ELSE c.finish,
                      !.pending = [s \in DOMAIN @ |-> IF s = c.slot THEN Gathered(@[s], c.piece) ELSE @[s]]]]
     /\ UNCHANGED <<at, prompt, fails, heard, log, alone>>

\* Whether the arguments parse: none at all do, half an object does not.
Parses_Anything(args) == TRUE
Parses(args) == args \in {"empty", "whole"}

\* What the arguments gathered for one slot add to what is sent: a call that is
\* whole is a block of its own with its arguments in one delta.
Arguments(index, args) ==
  IF args = "empty" THEN <<>>
  ELSE <<Piece("content_block_delta", index, IF args = "half" THEN "half" ELSE "tool_use")>>
Called(p, args) ==
  IF args = NoCall THEN p
  ELSE IF ~Parses(args) THEN [p EXCEPT !.dropped = TRUE]
  ELSE [index |-> p.index + 1, dropped |-> p.dropped, sent |-> TRUE,
        out |-> p.out \o Block(p.index, "tool_use", Arguments(p.index, args))]

\* The calls one after the other, in the order of their slots: what there is to
\* send up to each.
Calling(s) ==
  LET c[n \in 0..Slots] ==
        IF n = 0 THEN [index |-> s.index, dropped |-> FALSE, sent |-> FALSE, out |-> close(s)]
        ELSE Called(c[n - 1], s.pending[n])
  IN c
Calls(s) == Calling(s)[Slots]

settled(s, p) ==
  IF s.finish = "tool_calls" \/ (p.sent /\ ~p.dropped) THEN "tool_use" ELSE "end_turn"

\* The calls, a note where the answer was cut, the reason and the end.
Ending(s, p) ==
  LET cut == s.finish = "length" \/ p.dropped
      note_of == IF cut THEN Block(p.index, "text", <<Piece("content_block_delta", p.index, "text")>>)
                 ELSE <<>>
  IN p.out \o note_of \o <<Piece("message_delta", 0, settled(s, p)), Piece("message_stop", 0, "none")>>

\* The upstream has no more: [DONE], or simply the end of its answer.
StreamEnds(a) ==
  /\ at[a] = "streaming" /\ due[a] = <<>>
  /\ due' = [due EXCEPT ![a] = Ending(said[a], Calls(said[a]))]
  /\ Goes(a, "ending")
  /\ UNCHANGED <<chunks, prompt, fails, said, heard, log, alone>>

Write(a) ==
  /\ due[a] # <<>>
  /\ heard' = [heard EXCEPT ![a] = Append(@, Head(due[a]))]
  /\ due' = [due EXCEPT ![a] = Tail(@)]
  /\ UNCHANGED <<chunks, at, prompt, fails, said, log, alone>>

Done(a) ==
  /\ at[a] = "ending" /\ due[a] = <<>>
  /\ note(a, "done")
  /\ fails' = [fails EXCEPT ![a] = 0]
  /\ Goes(a, "idle")
  /\ UNCHANGED <<chunks, prompt, said, due, heard, alone>>

\* The client hangs up, which a write finds out.
ClientGone(a) ==
  /\ due[a] # <<>>
  /\ due' = [due EXCEPT ![a] = <<>>]
  /\ note(a, "client_gone")
  /\ Goes(a, "idle")
  /\ UNCHANGED <<chunks, prompt, fails, said, heard, alone>>

\* The upstream's answer breaks off.  A reset is taken for the client's; anything
\* else ends the thread without a row.  The client is left with an open message.
UpstreamBreaks(a) ==
  /\ at[a] = "streaming" /\ due[a] = <<>>
  /\ note(a, "client_gone") \/ UNCHANGED log
  /\ Goes(a, "idle")
  /\ UNCHANGED <<chunks, prompt, fails, said, due, heard, alone>>

-----------------------------------------------------------------------------
(* context_watch.turns: the log read back *)

\* asked is the row of the request the next end is taken for, nought if none is
\* in hand, and paired are the turns told so far: the row of the request each
\* is thought to be, and the row it ended with.  Those of requests that failed
\* are told as turns that cost nothing.
Failures == {"upstream_error", "client_gone"}
Ends == Failures \cup {"done"}

\* A seeded fault: the request in hand is not let go when its end is told.
Told_KeepsAsked(p, n, row) ==
  CASE row.event = "request" -> [p EXCEPT !.asked = n]
    [] row.event \in Failures \/ (row.event = "done" /\ p.asked # 0) ->
         [asked |-> p.asked, paired |-> p.paired \cup {[turn |-> p.asked, end |-> n]}]
    [] OTHER -> p

\* What row n adds to what is told.
Told(p, n, row) ==
  CASE row.event = "request" -> [p EXCEPT !.asked = n]
    [] row.event \in Failures \/ (row.event = "done" /\ p.asked # 0) ->
         [asked |-> 0, paired |-> p.paired \cup {[turn |-> p.asked, end |-> n]}]
    [] OTHER -> p
Telling(rows) ==
  LET t[n \in 0..Len(rows)] ==
        IF n = 0 THEN [asked |-> 0, paired |-> {}] ELSE Told(t[n - 1], n, rows[n])
  IN t
turns(rows) == Telling(rows)[Len(rows)].paired

-----------------------------------------------------------------------------
Next ==
  \E a \in Agents :
    \/ Ask(a)
    \/ UpstreamError(a)
    \/ UpstreamUnreachable(a)
    \/ UpstreamReplies(a)
    \/ StreamStarts(a)
    \/ \E c \in Chunks : Chunk(a, c)
    \/ StreamEnds(a)
    \/ Write(a)
    \/ Done(a)
    \/ ClientGone(a)
    \/ UpstreamBreaks(a)

Spec == Init /\ [][Next]_vars

Client == INSTANCE MessageStream

\* Whatever the model streams and wherever the line breaks, each client is sent
\* the beginning of a well-formed message (stream_anthropic): no block inside
\* another, no number used twice, no half of a tool call, nothing after the
\* reason but the end.
StreamSpec == Client!Spec

\* The request row j is the one that row i is about: its client's last before it.
Own(j, i) ==
  /\ j \in 1..(i - 1) /\ log[j].event = "request" /\ log[j].of = log[i].of
  /\ \A k \in (j + 1)..(i - 1) : log[k].event = "request" => log[k].of # log[i].of

\* turns, "exact rather than a guess": as long as no request was made while another
\* was being answered, each end on record, and nothing else, is told as a turn of
\* the very request it ended, whatever became of those before it.  And of requests
\* that overlap none is told as two turns, no end twice, and no failure is missed.
PairedInTurn ==
  LET told == turns(log)
  IN /\ alone => /\ \A p \in told : Own(p.turn, p.end)
                 /\ {p.end : p \in told} = {i \in DOMAIN log : log[i].event \in Ends}
     /\ \A p, q \in told : p.end = q.end \/ (p.turn = q.turn /\ p.turn # 0) => p = q
     /\ \A i \in DOMAIN log : log[i].event \in Failures => \E p \in told : p.end = i

=============================================================================
