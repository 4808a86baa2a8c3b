---------------------------- MODULE ContextGuard ----------------------------
(* scripts/cc-context-guard.py: the hook every tool call goes through, each   *)
(* in a process of its own.  The parent and its subagents share the files and *)
(* the ledger of repeated refusals; each has a transcript and a window.  The  *)
(* hook decides from transcript and files, a refusal is counted in the ledger *)
(* in two steps, a call that is allowed runs, and either is then on record.   *)
EXTENDS Naturals, Sequences, SequencesExt, FiniteSets

CONSTANTS
  Agents, Parent,  \* who calls; Parent is the one whose transcript names the session
  NumFiles,        \* the files are 1..NumFiles
  Long, Fat,       \* those of more than max_lines lines, and of more than max_bytes
  MaxLines,        \* args.max_lines
  Denied,          \* args.deny: the tools the stage may not use
  StopAt,          \* results a window takes before stop_pct of it are used
  RepeatCap,       \* REPEAT_CAP
  LoopAfter,       \* _LOOP_AFTER
  MaxCalls         \* bound: calls in a behaviour

File == 1..NumFiles
ASSUME GuardAssumption ==
  /\ Parent \in Agents /\ NumFiles \in Nat \ {0} /\ Long \subseteq File /\ Fat \subseteq File
  /\ MaxLines \in Nat \ {0} /\ StopAt \in Nat /\ RepeatCap \in Nat /\ LoopAfter \in Nat \ {0}
  /\ MaxCalls \in Nat

VARIABLES
  transcript,   \* what is on record of each agent: calls with what came of them, compactions
  mtime,        \* when each file was last written
  clock,        \* half seconds
  ledger,       \* /tmp/cc-refusals-<session>.json
  hook,         \* the hook process of each agent's call
  calls         \* how many calls were made

vars == <<transcript, mtime, clock, ledger, hook, calls>>

-----------------------------------------------------------------------------
(* Calls *)

Endless == 1000
\* The rest of a call's fields tell what the rules look at: a command is named
\* for what it does, a text for what it is.
Call(tool, does, file, from, to) == [tool |-> tool, does |-> does, file |-> file, from |-> from, to |-> to]
Calls ==
  {Call("Read", "read", f, 1, Endless) : f \in File}
    \cup {Call("Read", "read", f, n, MaxLines) : f \in File, n \in 1..MaxLines}
    \cup {Call("Bash", does, 1, 0, 0) : does \in {"show", "dump", "sleep", "commit", "touch", "probe"}}
    \cup {Call("Edit", does, 1, 0, 0) : does \in {"code", "ledger", "switch"}}

Bulky == {"Read", "Bash"}
Idle == [at |-> "idle"]

Init ==
  /\ transcript = [a \in Agents |-> <<>>]
  /\ mtime = [f \in File |-> 0]
  /\ clock = 1
  /\ ledger = [a \in Agents |-> [reason |-> <<"none", 0>>, n |-> 0]]
  /\ hook = [a \in Agents |-> Idle]
  /\ calls = 0

-----------------------------------------------------------------------------
(* What the rules look up in the transcript *)

\* own_transcript: whose record is looked at.  A subagent's file is named after it
\* and may not be on disk yet when its first calls come; until then the one the
\* call names is taken, which is the session's: the parent's.
own_transcript(a) == IF transcript[a] = <<>> THEN {a, Parent} ELSE {a}

\* The records since the last compaction, which is what the prompt carries, by
\* their places: none of what follows is a compaction.
Calling(t, i) == t[i].kind = "call"
segment_records(t) == {i \in DOMAIN t : \A j \in i..Len(t) : Calling(t, j)}

conversation_tokens(t) ==
  Cardinality({i \in segment_records(t) : t[i].ok /\ t[i].call.tool \in Bulky})

\* Earlier reads of the file that did not fail, refusals among the failures.
prior_reads_Refused(t, f) ==
  {t[i] : i \in {i \in segment_records(t) : t[i].call.tool = "Read" /\ t[i].call.file = f}}
prior_reads(t, f) ==
  {t[i] : i \in {i \in segment_records(t) : t[i].ok /\ t[i].call.tool = "Read" /\ t[i].call.file = f}}

\* A timestamp on record is cut to the second.
Stamp(r) == r.at - (r.at % 2)

\* The parent's calls are collected together with those of its subagents.
Collected(a) ==
  IF a = Parent
  THEN transcript[Parent] \o FlattenSeq([i \in 1..(Cardinality(Agents) - 1) |->
                                          transcript[SetToSeq(Agents \ {Parent})[i]]])
  ELSE transcript[a]

\* This very command's last outputs were all the same; what a refusal said counts as output.
already_answered(a, c) ==
  LET said == SelectSeq(Collected(a), LAMBDA r : r.kind = "call" /\ r.call = c)
  IN /\ Len(said) >= LoopAfter
     /\ \A i \in (Len(said) - LoopAfter + 1)..Len(said) : said[i].text = said[Len(said)].text

-----------------------------------------------------------------------------
(* The rules, in the order main() comes to them *)

WantsEverything(c) == c.to - c.from + 1 > MaxLines
AlreadyRead(t, c) ==
  \E r \in prior_reads(t, c.file) :
    r.call.from <= c.from /\ r.call.to >= c.to /\ mtime[c.file] <= Stamp(r)

\* w is whose record is looked at.
Rules(w, c, overspent) ==
  LET t == transcript[w]
      bash == c.tool = "Bash"
  IN << <<"budget", overspent>>,
        <<"answered", bash /\ already_answered(w, c)>>,
        <<"sleep", bash /\ c.does = "sleep">>,
        <<"tampers", bash /\ c.does = "touch">>,
        <<"switch", c.tool = "Edit" /\ c.does = "switch">>,
        <<"ledger", c.tool = "Edit" /\ c.does = "ledger">>,
        <<"denied", c.tool \in Denied>>,
        <<"window", conversation_tokens(t) >= StopAt /\ c.tool \in Bulky /\ c.does # "commit">>,
        <<"bytes", c.tool = "Read" /\ WantsEverything(c) /\ c.file \in Fat>>,
        <<"lines", c.tool = "Read" /\ WantsEverything(c) /\ c.file \in Long>>,
        <<"reread", c.tool = "Read" /\ AlreadyRead(t, c)>>,
        <<"dump", bash /\ c.does = "dump" /\ c.file \in Long>> >>

\* The first ninety characters of a refusal: the rule, and what of the call or
\* the conversation its words begin with.  Those of the budget and of the
\* window count something that grows from call to call.
Reason(a, w, c, rule) ==
  <<rule, CASE rule = "budget" -> Len(transcript[a])
            [] rule = "window" -> Len(transcript[w])
            [] rule \in {"bytes", "lines", "reread", "dump"} -> c.file
            [] OTHER -> 0>>

\* The first rule that applies refuses the call.
main(a, w, c, overspent) ==
  LET rules == Rules(w, c, overspent)
      hits == {i \in DOMAIN rules : rules[i][2]}
  IN IF hits = {} THEN {<<"allow", 0>>}
     ELSE {Reason(a, w, c, rules[i][1]) : i \in {i \in hits : \A j \in hits : i <= j}}

-----------------------------------------------------------------------------
(* The steps of a call *)

\* Whether the budget is spent is another hook's record (FlowState) and may come out either way.
Decide(a) ==
  /\ hook[a].at = "idle" /\ calls < MaxCalls
  /\ \E w \in own_transcript(a), c \in Calls, overspent \in BOOLEAN :
       \E reason \in main(a, w, c, overspent) :
         hook' = [hook EXCEPT ![a] =
           [at |-> IF reason[1] = "allow" THEN "allowed" ELSE "refusing",
            call |-> c, reason |-> reason, since |-> clock, seen |-> ledger, said |-> 0]]
  /\ calls' = calls + 1
  /\ UNCHANGED <<transcript, mtime, clock, ledger>>

\* _repeats, its first half: the ledger as it is when this process reads it.
Repeats_Anyone(a, reason) ==
  LET most == CHOOSE b \in Agents : \A d \in Agents : ledger[b].n >= ledger[d].n
  IN IF ledger[most].reason = reason THEN ledger[most].n + 1 ELSE 1
Repeats(a, reason) == IF ledger[a].reason = reason THEN ledger[a].n + 1 ELSE 1

Count(a) ==
  /\ hook[a].at = "refusing"
  /\ hook' = [hook EXCEPT ![a].at = "counted", ![a].seen = ledger,
                          ![a].said = Repeats(a, hook[a].reason)]
  /\ UNCHANGED <<transcript, mtime, clock, ledger, calls>>

Record(a, ok, text) ==
  transcript' = [transcript EXCEPT ![a] =
    Append(@, [kind |-> "call", call |-> hook[a].call, ok |-> ok, at |-> hook[a].since,
               text |-> text, seen |-> IF ok THEN mtime[hook[a].call.file] ELSE 0])]

\* Its second half and the refusal itself: all of the ledger it read is written
\* back, and past the cap the words are others and say how many times it was.
deny(a) ==
  /\ hook[a].at = "counted"
  /\ ledger' = [hook[a].seen EXCEPT ![a] = [reason |-> hook[a].reason, n |-> hook[a].said]]
  /\ Record(a, FALSE, <<hook[a].reason[1], hook[a].reason[2],
                        IF hook[a].said > RepeatCap THEN hook[a].said ELSE 0>>)
  /\ hook' = [hook EXCEPT ![a] = Idle]
  /\ UNCHANGED <<mtime, clock, calls>>

\* The call runs: an edit writes the file, a command prints what it finds.
Execute(a) ==
  /\ hook[a].at = "allowed"
  /\ mtime' = IF hook[a].call.tool = "Edit" THEN [mtime EXCEPT ![hook[a].call.file] = clock] ELSE mtime
  /\ Record(a, TRUE, <<"ran", mtime[hook[a].call.file], 0>>)
  /\ clock' = clock + 1
  /\ hook' = [hook EXCEPT ![a] = Idle]
  /\ UNCHANGED <<ledger, calls>>

Compact(a) ==
  /\ hook[a].at = "idle" /\ transcript[a] # <<>> /\ Last(transcript[a]).kind = "call"
  /\ transcript' = [transcript EXCEPT ![a] = Append(@, [kind |-> "compacted"])]
  /\ UNCHANGED <<mtime, clock, ledger, hook, calls>>

Next == \E a \in Agents : Decide(a) \/ Count(a) \/ deny(a) \/ Execute(a) \/ Compact(a)

Spec == Init /\ [][Next]_vars

-----------------------------------------------------------------------------
\* Whoever is refused a file as already read is refused what a read did return:
\* an earlier one, in this agent's own conversation -- or, while it has none on
\* record, in its parent's -- and since that was last compacted, was given all
\* that is asked for, and nobody wrote the file since.  A refused read is no such
\* read, so narrowing one is never refused for it.
RereadIsAbove ==
  [][\A a \in Agents : hook[a].at = "idle" /\ hook'[a].at = "refusing" /\ hook'[a].reason[1] = "reread"
       => \E w \in Agents : \E i \in DOMAIN transcript[w] :
            LET r == transcript[w][i] IN
            /\ w = a \/ (w = Parent /\ transcript[a] = <<>>)
            /\ r.kind = "call" /\ r.ok /\ r.call.tool = "Read" /\ r.call.file = hook'[a].call.file
            /\ r.call.from <= hook'[a].call.from /\ hook'[a].call.to <= r.call.to
            /\ r.seen = mtime[r.call.file]
            /\ \A j \in i..Len(transcript[w]) : transcript[w][j].kind = "call"]_vars

\* The calls on record that were refused in these words.
Refusals(t, reason) ==
  {i \in DOMAIN t : Calling(t, i) /\ ~t[i].ok /\ <<t[i].text[1], t[i].text[2]>> = reason}

\* However the hooks of several agents overtake each other in the ledger, nobody
\* is told off for going in circles who was not refused before, in the same
\* words, as often as the cap says.
ToldOffForRepeats ==
  \A a \in Agents : hook[a].at = "counted" /\ hook[a].said > RepeatCap
    => Cardinality(Refusals(transcript[a], hook[a].reason)) >= RepeatCap
=============================================================================
