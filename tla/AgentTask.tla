----------------------------- MODULE AgentTask -----------------------------
(***************************************************************************)
(* One task of a benchmark put to a model: the rounds of run_agent_ollama  *)
(* in each bench, the chat call under it with its retries, its stream, the *)
(* loop detector and the rescue of an answer left in the thinking, the     *)
(* live transcript, and the row the task ends with.                        *)
(*                                                                         *)
(* A reply is told apart by what the parsers find in it, a thought by      *)
(* whether it holds a closed final answer, a line of it by which line it   *)
(* is.  The messages sent are not kept: the model may answer anything.     *)
(***************************************************************************)
EXTENDS Naturals, Sequences

CONSTANTS
  Loops,        \* the benches' loops under study
  MaxRounds,    \* BENCH_MAX_ROUNDS
  MaxTools,     \* BENCH_MAX_TOOL_CALLS
  Retries,      \* BENCH_OLLAMA_RETRIES
  Rescue,       \* the harness rescues answers: BENCH_REALISM is off
  Lines,        \* what a line of thinking may say
  MaxLines,     \* lines the model may think in one stream
  LineRepeat, Sizes, BlockRepeat  \* the detector's limits

ASSUME TaskAssumption ==
  /\ MaxRounds \in Nat \ {0} /\ MaxTools \in Nat /\ Retries \in Nat \ {0} /\ MaxLines \in Nat
  /\ Rescue \in BOOLEAN /\ LineRepeat \in Nat \ {0} /\ BlockRepeat \in Nat \ {0}
  /\ Sizes \subseteq Nat \ {0}

\* What sets the loops of the benches apart: whether the clock is looked at
\* between rounds, whether a second cut-off reply ends the task, whether a
\* reply is the answer as it stands and a bad one gets a single second try.
Repohard == [name |-> "repohard", deadline |-> TRUE, lengths |-> FALSE, plain |-> FALSE]
Arch == [name |-> "arch", deadline |-> TRUE, lengths |-> FALSE, plain |-> FALSE]
Claim == [name |-> "claim", deadline |-> FALSE, lengths |-> FALSE, plain |-> FALSE]
Audittrap == [name |-> "audittrap", deadline |-> TRUE, lengths |-> TRUE, plain |-> FALSE]
Pyhard == [name |-> "pyhard", deadline |-> FALSE, lengths |-> FALSE, plain |-> TRUE]
Cursor == [name |-> "cursor", deadline |-> FALSE, lengths |-> FALSE, plain |-> FALSE]
Benches == {Repohard, Arch, Claim, Audittrap, Pyhard, Cursor}

ASSUME LoopsAssumption == Loops \subseteq Benches

VARIABLES
  bench, pc,
  round, tools, nudges, cuts,  \* the loop's counters
  late,       \* the task's deadline has passed
  attempt,
  runner,     \* the model's runner: gone, loaded, expired or wedged
  said,       \* what the content of the stream amounts to
  thought,    \* what its thinking holds
  lines, consec, hits,  \* the detector
  reason,     \* done_reason of the reply
  page,       \* tags and answer of this round in the transcript, repeats left out
  inThink, thinkOpened, contentStarted,  \* RoundTranscript
  final,      \* a final answer was parsed from the last reply
  row,        \* the task's row
  heard       \* history: what has arrived since the last request, as it came

counters == <<round, tools, nudges, cuts>>
detector == <<lines, consec, hits>>
stream == <<said, thought, detector>>
tags == <<page, inThink, thinkOpened, contentStarted>>
vars == <<bench, pc, counters, late, attempt, runner, stream, reason, tags, final, row, heard>>

Said == {"blank", "chatter", "tool", "final", "both"}
Thought == {"none", "draft", "closed"}
Marks == {"<", ">", "c"}
Rounds == IF bench.plain THEN 2 ELSE MaxRounds

TypeOK ==
  /\ bench \in Loops
  /\ pc \in {"top", "ready", "stream", "reply", "cursor", "over"}
  /\ round \in 0..Rounds /\ tools \in 0..MaxTools /\ nudges \in 0..2 /\ cuts \in 0..2
  /\ late \in BOOLEAN /\ attempt \in 1..Retries
  /\ runner \in {"gone", "loaded", "expired", "wedged"}
  /\ said \in Said /\ thought \in Thought
  /\ lines \in Seq(Lines) /\ Len(lines) <= MaxLines
  /\ consec \in Nat /\ hits \in [Sizes -> Nat]
  /\ reason \in {"none", "stop", "length", "incomplete_stream", "think_loop", "think_budget",
                 "think_promoted"}
  /\ page \in Seq(Marks)
  /\ inThink \in BOOLEAN /\ thinkOpened \in BOOLEAN /\ contentStarted \in BOOLEAN
  /\ final \in BOOLEAN
  /\ row \in {"none", "graded", "empty", "timeout", "error"}
  /\ heard \in [said : Said, thought : Thought]

Silence == [said |-> "blank", thought |-> "none"]
NoHits == [bl \in Sizes |-> 0]

Init ==
  /\ bench \in Loops
  /\ pc = IF bench.name = "cursor" THEN "cursor" ELSE "top"
  /\ round = 0 /\ tools = 0 /\ nudges = 0 /\ cuts = 0
  /\ late = FALSE /\ attempt = 1
  /\ runner \in {"gone", "loaded", "expired"}
  /\ said = "blank" /\ thought = "none" /\ lines = <<>> /\ consec = 0 /\ hits = NoHits
  /\ reason = "none" /\ page = <<>>
  /\ inThink = FALSE /\ thinkOpened = FALSE /\ contentStarted = FALSE
  /\ final = FALSE /\ row = "none" /\ heard = Silence

----------------------------------------------------------------------------
(* RoundTranscript. *)

\* A mark on the page, repeats left out.
Marked(p, mark) == IF p # <<>> /\ p[Len(p)] = mark THEN p ELSE Append(p, mark)

\* begin_round, which has closed the round before.
BeginRound ==
  page' = <<>> /\ inThink' = FALSE /\ thinkOpened' = FALSE /\ contentStarted' = FALSE

\* on_thinking_delta opens a block of thinking once in a round.
OnThinking ==
  /\ page' = IF thinkOpened THEN page ELSE Marked(page, "<")
  /\ thinkOpened' = TRUE /\ inThink' = (inThink \/ ~thinkOpened)
  /\ UNCHANGED contentStarted

\* A seeded fault: the answer does not close the thinking.
OnContent_LeavesOpen ==
  /\ page' = Marked(page, "c")
  /\ contentStarted' = TRUE
  /\ UNCHANGED <<thinkOpened, inThink>>

\* on_content_delta.
OnContent ==
  /\ page' = Marked(IF inThink THEN Marked(page, ">") ELSE page, "c")
  /\ inThink' = FALSE /\ contentStarted' = TRUE
  /\ UNCHANGED thinkOpened

\* end_round writes an answer that no delta delivered, and closes the block.
EndRound(content) ==
  LET closed == IF inThink THEN Marked(page, ">") ELSE page
  IN /\ page' = IF content # "blank" /\ ~contentStarted THEN Marked(closed, "c") ELSE closed
     /\ inThink' = FALSE
     /\ contentStarted' = (contentStarted \/ content # "blank")
     /\ UNCHANGED thinkOpened

----------------------------------------------------------------------------
(* ThinkLoopDetector. *)

\* _on_line.
ConsecAfter(l) == IF lines # <<>> /\ lines[Len(lines)] = l THEN consec + 1 ELSE 1

\* A seeded fault: the first repetition of a block is not looked at.
HitsAfter_FromThird(ls) ==
  [bl \in Sizes |->
     IF Len(ls) <= 2 * bl THEN hits[bl]
     ELSE IF \A i \in 0..bl - 1 : ls[Len(ls) - i] = ls[Len(ls) - bl - i] THEN hits[bl] + 1
     ELSE 0]

\* _check_block_cycles: for each size, in how many lines running the last block
\* was the one before it.  Too few lines leave a count as it is.
HitsAfter(ls) ==
  [bl \in Sizes |->
     IF Len(ls) < 2 * bl THEN hits[bl]
     ELSE IF \A i \in 0..bl - 1 : ls[Len(ls) - i] = ls[Len(ls) - bl - i] THEN hits[bl] + 1
     ELSE 0]

Looping(c, h) == c >= LineRepeat \/ \E bl \in Sizes : h[bl] >= BlockRepeat

----------------------------------------------------------------------------
(* ollama_chat. *)

\* force_unload; no answer leaves the runner as it was.
ForceUnload == runner' \in {"gone", runner}

\* wait_model_ready: an entry that has expired is unloaded, again and again.
UnloadExpired ==
  /\ pc = "ready" /\ runner = "expired"
  /\ ForceUnload
  /\ UNCHANGED <<bench, pc, counters, late, attempt, stream, reason, tags, final, row, heard>>

\* chat posts the request; the runner is as /api/ps has shown it, or its three
\* minutes are up, or nothing was shown.
Request ==
  /\ pc = "ready"
  /\ pc' = "stream"
  /\ runner' = IF runner = "wedged" THEN "wedged" ELSE "loaded"
  /\ heard' = Silence
  /\ UNCHANGED <<bench, counters, late, attempt, stream, reason, tags, final, row>>

\* Each stream has its own parts and its own detector, lost with it.
NoDetector == lines' = <<>> /\ consec' = 0 /\ hits' = NoHits
NoStream == said' = "blank" /\ thought' = "none" /\ NoDetector

\* A seeded fault: a draft is promoted like an answer the thought has closed.
Return_PromotesDraft(r) ==
  LET promoted == Rescue /\ said = "blank" /\ thought # "none"
      content == IF promoted THEN "final" ELSE said
  IN /\ said' = content
     /\ reason' = IF promoted THEN "think_promoted" ELSE r
     /\ EndRound(content)
     /\ pc' = "reply"
     /\ NoDetector

\* The stream is over and chat returns: maybe_promote_response, end_round.
Return(r) ==
  LET promoted == Rescue /\ said = "blank" /\ thought = "closed"
      content == IF promoted THEN "final" ELSE said
  IN /\ said' = content
     /\ reason' = IF promoted THEN "think_promoted" ELSE r
     /\ EndRound(content)
     /\ pc' = "reply"
     /\ NoDetector

\* A thought goes on, and keeps the answer it has closed.
Drafted(a, t) == IF a = "closed" THEN a ELSE t

\* A line of thinking arrives; it may close the final answer drafted in it.
Think ==
  /\ pc = "stream" /\ runner = "loaded" /\ Len(lines) < MaxLines
  /\ ~(Rescue /\ Looping(consec, hits))
  /\ \E l \in Lines, t \in {"draft", "closed"} :
       /\ lines' = Append(lines, l)
       /\ thought' = Drafted(thought, t)
       /\ heard' = [heard EXCEPT !.thought = Drafted(@, t)]
       /\ consec' = ConsecAfter(l)
  /\ hits' = HitsAfter(lines')
  /\ OnThinking
  /\ UNCHANGED <<bench, pc, counters, late, attempt, runner, said, reason, final, row>>

\* A piece of the answer arrives, and only adds to what the parsers find.
Pieces == {"chatter", "tool", "final"}
Joined(a, piece) ==
  IF a \in {"blank", "chatter"} THEN piece
  ELSE IF piece \in {"chatter", a} \/ a = "both" THEN a
  ELSE "both"

Answer ==
  /\ pc = "stream" /\ runner = "loaded"
  /\ ~(Rescue /\ Looping(consec, hits))
  /\ \E piece \in Pieces :
       /\ said' = Joined(said, piece)
       /\ heard' = [heard EXCEPT !.said = Joined(@, piece)]
  /\ OnContent
  /\ UNCHANGED <<bench, pc, counters, late, attempt, runner, thought, detector, reason, final,
                 row>>

\* The stream ends: with its last object, or at the end of the connection.
Done ==
  /\ pc = "stream" /\ runner = "loaded"
  /\ ~(Rescue /\ Looping(consec, hits))
  /\ \E r \in {"stop", "length", "incomplete_stream"} : Return(r)
  /\ UNCHANGED <<bench, counters, late, attempt, runner, thought, final, row, heard>>

\* The detector aborts what it takes for a loop, for its lines or for phrases
\* and characters that are not told apart here; so does a think budget.
Abort ==
  /\ pc = "stream" /\ runner = "loaded" /\ Rescue /\ lines # <<>>
  /\ \E r \in {"think_loop", "think_budget"} : Return(r)
  /\ UNCHANGED <<bench, counters, late, attempt, runner, thought, final, row, heard>>

\* A seeded fault: every failed attempt is the first.
Again_Uncounted(kind) ==
  /\ pc' = "ready" /\ UNCHANGED <<attempt, row>>

\* Another attempt, from the start, or the exception that _error_row files.
Again(kind) ==
  \/ attempt < Retries /\ attempt' = attempt + 1 /\ pc' = "ready" /\ UNCHANGED row
  \/ attempt = Retries /\ row' = kind /\ pc' = "over" /\ UNCHANGED attempt

\* Nothing arrives within the stall window: the runner is stuck, and is unloaded
\* unless that gets no answer.
Stall ==
  /\ pc = "stream"
  /\ runner' \in {"gone", "wedged"}
  /\ Again("timeout")
  /\ NoStream
  /\ UNCHANGED <<bench, counters, late, reason, tags, final, heard>>

\* An HTTP error, before anything of a stream; a runner that crashed a second
\* time ends the call.
HttpError ==
  /\ pc = "stream" /\ said = "blank" /\ lines = <<>>
  /\ \/ Again("error")
     \/ attempt >= 2 /\ row' = "error" /\ pc' = "over" /\ UNCHANGED attempt
  /\ UNCHANGED <<bench, counters, late, runner, stream, reason, tags, final, heard>>

\* The connection is lost or refused, at any point; a body that breaks off in a
\* chunk is no error that chat retries.
Lost ==
  /\ pc = "stream"
  /\ \/ Again("error")
     \/ lines # <<>> /\ row' = "error" /\ pc' = "over" /\ UNCHANGED attempt
  /\ NoStream
  /\ UNCHANGED <<bench, counters, late, runner, reason, tags, final, heard>>

----------------------------------------------------------------------------
(* The loop. *)

\* task.grade, on the final answer parsed from the last reply.
Graded(f) == IF f THEN "graded" ELSE "empty"

\* The top of the loop: out of time, out of rounds, or a round begins.
Top ==
  /\ pc = "top"
  /\ \/ /\ round < Rounds /\ bench.deadline /\ late
        /\ row' = "timeout" /\ pc' = "over"
        /\ UNCHANGED <<round, attempt, stream, reason, tags>>
     \/ /\ round < Rounds /\ ~(bench.deadline /\ late)
        /\ round' = round + 1 /\ attempt' = 1
        /\ BeginRound /\ NoStream /\ reason' = "none"
        /\ pc' = "ready"
        /\ UNCHANGED row
     \/ /\ round = Rounds
        /\ row' = Graded(final) /\ pc' = "over"
        /\ UNCHANGED <<round, attempt, stream, reason, tags>>
  /\ UNCHANGED <<bench, tools, nudges, cuts, late, runner, final, heard>>

Aborted == reason \in {"think_loop", "think_budget"}
HasFinal == said \in {"final", "both"}
HasCall == said \in {"tool", "both"}

\* What each reply does to the loop's counters, and whether the task is over.
Reply(over, n, k, t) ==
  /\ final' = IF bench.plain THEN said # "blank" ELSE HasFinal
  /\ IF over THEN row' = Graded(final') /\ pc' = "over" ELSE pc' = "top" /\ UNCHANGED row
  /\ nudges' = n /\ cuts' = k /\ tools' = t
  /\ UNCHANGED <<bench, round, late, attempt, runner, stream, reason, tags, heard>>

\* pyhard: an aborted and empty reply is asked for once more.
Plain ==
  /\ pc = "reply" /\ bench.plain
  /\ Reply(~(Aborted /\ said = "blank" /\ round = 1), nudges, cuts, tools)

InLoop == pc = "reply" /\ ~bench.plain

Accept == InLoop /\ said = "final" /\ Reply(TRUE, nudges, cuts, tools)

\* The tail of an aborted thought is sent back, twice in a task.
Nudge ==
  /\ InLoop /\ said # "final" /\ Aborted /\ nudges < 2
  /\ Reply(FALSE, nudges + 1, cuts, tools)

Unnudged == InLoop /\ said # "final" /\ ~(Aborted /\ nudges < 2)

\* A reply that was cut off without a call or an answer, in audittrap.
CutOff ==
  /\ Unnudged /\ ~HasCall /\ bench.lengths /\ reason = "length" /\ round < Rounds
  /\ Reply(cuts = 1, nudges, cuts + 1, tools)

ProtocolError ==
  /\ Unnudged /\ ~HasCall
  /\ ~(bench.lengths /\ reason = "length" /\ round < Rounds)
  /\ Reply(round = Rounds /\ bench.name # "claim", nudges, cuts, tools)

\* A seeded fault: dispatch does not look at the budget.
Dispatch_Unbounded == Unnudged /\ HasCall /\ Reply(FALSE, nudges, cuts, tools + 1)

\* ToolSession.dispatch: past the budget the call gets an error instead.
Dispatch ==
  /\ Unnudged /\ HasCall
  /\ Reply(FALSE, nudges, cuts, IF tools < MaxTools THEN tools + 1 ELSE tools)

\* The Cursor agent, asked once: killed at its time-out, or failed, silent,
\* unreadable or in error by its own account, or answering with or without a
\* patch, whatever its exit status.
AskCursor ==
  /\ pc = "cursor"
  /\ \E r \in {"timeout", "error", "graded", "empty"} : row' = r /\ final' = (r = "graded")
  /\ said' = IF final' THEN "final" ELSE said
  /\ pc' = "over"
  /\ UNCHANGED <<bench, counters, late, attempt, runner, thought, detector, reason, tags, heard>>

TimeIsUp ==
  /\ pc # "over" /\ bench.deadline /\ ~late /\ late' = TRUE
  /\ UNCHANGED <<bench, pc, counters, attempt, runner, stream, reason, tags, final, row,
                 heard>>

----------------------------------------------------------------------------

Chat == UnloadExpired \/ Think \/ Answer \/ Stall \/ HttpError \/ Lost \/ Done \/ Abort
Loop == Top \/ Plain \/ Accept \/ Nudge \/ CutOff \/ ProtocolError \/ Dispatch \/ AskCursor

Next == Chat \/ Request \/ Loop \/ TimeIsUp

\* The harness goes on, and does not wait for a runner for longer than three
\* minutes.  A stream ends: the server stops at num_predict tokens, and silence
\* is a stall.
Ends == Done \/ Abort \/ Stall
Fairness == WF_vars(Request) /\ WF_vars(Loop) /\ WF_vars(Ends)

Spec == Init /\ [][Next]_vars /\ Fairness

----------------------------------------------------------------------------
(* Properties. *)

Inside(p, i) == \E j \in 1..i : p[j] = "<" /\ \A k \in j..i : p[k] # ">"

\* However its stream was cut off, retried or promoted, the transcript never
\* shows the answer as thinking, and a round that has ended is closed.
AnswerIsNoThinking ==
  /\ \A i \in DOMAIN page : page[i] = "c" => ~Inside(page, i)
  /\ pc \in {"top", "reply"} => page = <<>> \/ ~Inside(page, Len(page))

\* A row is graded exactly for what has arrived since the last request: a final
\* answer, for pyhard any answer, or, with nothing said and answers rescued, one
\* the thought has closed.  Never for a draft, an earlier attempt or an earlier
\* round, and no answer that has arrived is filed as none.
Answered ==
  \/ heard.said \in {"final", "both"}
  \/ bench.plain /\ heard.said # "blank"
  \/ Rescue /\ heard.said = "blank" /\ heard.thought = "closed"
GradedWasSaid ==
  bench.name # "cursor" /\ row \in {"graded", "empty"} => (row = "graded" <=> Answered)

\* No line is taken after a loop the detector looks for: the same line LineRepeat
\* times, or so many lines with a period of one of its sizes.
Periodic(n, p) == Len(lines) >= n /\ \A i \in Len(lines) - n + p + 1..Len(lines) : lines[i] = lines[i - p]
NoLoopGoesOn ==
  [][Rescue /\ Len(lines') > Len(lines) =>
       ~Periodic(LineRepeat, 1) /\ \A bl \in Sizes : ~Periodic(2 * bl + BlockRepeat - 1, bl)]_vars

\* Every task ends with a row.
TaskEnds == <>(row # "none")

=============================================================================
