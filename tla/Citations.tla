----------------------------- MODULE Citations -----------------------------
(***************************************************************************)
(* What the verifier (cc_verify.py), the evidence (cc_evidence.py) and the *)
(* diff reader (cc_diff.py) decide: whether a quote is in the lines cited, *)
(* whether a command was run and printed what is said of it, whether the   *)
(* session read the lines, and whether an added test tests anything.       *)
(*                                                                         *)
(* A line of a file or a quote is its indentation and its words; a word    *)
(* "Q" is a quote mark with a backslash before it, "q" one without.  What  *)
(* the regular expressions take apart is given here taken apart.           *)
(***************************************************************************)
EXTENDS Integers, SequencesExt

CONSTANTS
  MinClip,   \* how long a clipped quote must be: 20 characters
  MinWords   \* how many words name a command: 4

ASSUME CitationsAssumption == MinClip \in Nat /\ MinWords \in Nat

None == "none"
Accepted == {"pass", "indent-drift", "rewrapped", "clipped", "partial", "escaped"}

----------------------------------------------------------------------------
(* Quotes: cc_verify.file_quote and what it calls. *)

Windows(ls, n) == {SubSeq(ls, i, i + n - 1) : i \in 1..Len(ls) - n + 1}
Within(s, t) == \E i \in 0..Len(t) - Len(s) : SubSeq(t, i + 1, i + Len(s)) = s

\* _flat: the words of some lines, one line after another.
Wording(ls) ==
  LET w[n \in 0..Len(ls)] == IF n = 0 THEN <<>> ELSE w[n - 1] \o ls[n].says IN w
Words(ls) == Wording(ls)[Len(ls)]

Size(ls) == Len(Words(ls)) + FoldLeft(LAMBDA n, l : n + l.at, 0, ls)
Says(ls) == [i \in DOMAIN ls |-> ls[i].says]

\* textwrap.dedent.
Dedented(ls) ==
  [i \in DOMAIN ls |-> [ls[i] EXCEPT !.at = @ - Min({ls[j].at : j \in DOMAIN ls})]]

\* _unslashed_quotes.
Unslashed(ws) == [k \in DOMAIN ws |-> IF ws[k] = "Q" THEN "q" ELSE ws[k]]
Unescaped(ls) == [i \in DOMAIN ls |-> [ls[i] EXCEPT !.says = Unslashed(@)]]

\* The lines that are not blank.
Keeping(ls) ==
  LET k[n \in 0..Len(ls)] ==
        IF n = 0 THEN <<>>
        ELSE IF ls[n].says = <<>> THEN k[n - 1] ELSE Append(k[n - 1], ls[n])
  IN k
Kept(ls) == Keeping(ls)[Len(ls)]

\* A quote may number its lines, from a first number by steps of one or not,
\* before the code, in words before it, or after it.  Whether the numbers may be
\* taken off is for the citation, or for their counting up, to say.
Labelled(q, first) ==
  LET counts == Len(Kept(q.lines)) = 1 \/ q.step = 1
  IN CASE q.label = "gutter" -> IF Len(Kept(q.lines)) = 1 THEN first > 0 /\ q.from = first
                                                          ELSE q.step = 1
       [] q.label = "words" -> (first = 0 \/ q.from = first) /\ counts
       [] q.label = "after" -> first = 0 \/ q.from = first
       [] OTHER -> TRUE

\* _significant: the lines that carry content; a label that stays is a word.
Significant(q, first) ==
  LET ls == Kept(q.lines)
  IN IF Labelled(q, first) THEN ls
     ELSE [i \in DOMAIN ls |-> [ls[i] EXCEPT !.says = <<"label">> \o @]]

\* locate: the first place in the file that holds the quote, if any, or, for a quote
\* that is long enough, the first whose lines its lines are clipped from.
Locate(f, q) ==
  LET kept == SelectSeq([i \in DOMAIN f |-> i], LAMBDA i : f[i].says # <<>>)
      hay == [k \in DOMAIN kept |-> f[kept[k]]]
      needle == Dedented(Significant(q, 0))
      n == Len(needle)
      Starts == 1..Len(hay) - n + 1
      Exact == {k \in Starts : Dedented(SubSeq(hay, k, k + n - 1)) = needle}
      Clipped == {k \in Starts : \A i \in 1..n : Within(needle[i].says, hay[k + i - 1].says)}
      found == IF n = 0 THEN {} ELSE IF Exact # {} THEN Exact
               ELSE IF Size(needle) < MinClip THEN {} ELSE Clipped
  IN IF found = {} THEN <<>> ELSE <<kept[Min(found)], kept[Min(found) + n - 1]>>

\* A seeded fault: a clipped line may come from any line of the range.
ClippedFrom_Anywhere(cited, quoted) ==
  /\ Size(quoted) >= MinClip
  /\ \A i \in DOMAIN quoted :
       \E w \in {quoted[i].says} \cup {<<x>> : x \in ToSet(quoted[i].says)} :
          \E j \in DOMAIN cited : Within(w, cited[j].says)

\* Each line quoted is in the line cited at its place.
ClippedFrom(cited, quoted) ==
  /\ Len(cited) = Len(quoted) /\ Size(quoted) >= MinClip
  /\ \A i \in DOMAIN quoted : Within(quoted[i].says, cited[i].says)

\* _judged_quote, the rules in their order.
JudgedQuote(f, start, end, q) ==
  LET cited == Kept(SubSeq(f, start, Min({end, Len(f)})))
      quoted == Significant(q, start)
      flat == Words(cited) = Words(quoted) /\ cited # <<>>
  IN IF start < 1 \/ end < start \/ start > Len(f) THEN "fail"
     ELSE IF quoted = <<>> THEN "unverified"
     ELSE IF cited = quoted THEN "pass"
     ELSE IF Dedented(cited) = Dedented(quoted) THEN "indent-drift"
     ELSE IF Len(Kept(q.lines)) = 1 /\ end > start /\ flat THEN "rewrapped"
     ELSE IF Says(cited) = Says(quoted) THEN "retouched"
     ELSE IF flat THEN "rewrapped"
     ELSE IF ClippedFrom(cited, quoted) THEN "clipped"
     ELSE IF \/ Unescaped(cited) = Unescaped(quoted)
             \/ Unescaped(Dedented(cited)) = Unescaped(Dedented(quoted)) THEN "escaped"
     ELSE IF \E w \in Windows(cited, Len(quoted)) : Dedented(w) = Dedented(quoted) THEN "partial"
     ELSE IF Locate(f, q) # <<>> THEN "wrong-lines"
     ELSE "fail"

\* _closer, of the two readings of a quote.
Closer(first, second) ==
  LET told(v) == IF v = "fail" THEN 0 ELSE IF v = "unverified" THEN 1 ELSE 2
  IN IF first \in Accepted THEN first ELSE IF second \in Accepted THEN second
     ELSE IF told(second) > told(first) THEN second ELSE first

\* file_quote; others holds the quote with its line breaks read the other way, if
\* it can be.
FileQuote(f, start, end, q, others) ==
  LET v == JudgedQuote(f, start, end, q)
  IN IF v \in Accepted \/ others = {} THEN v
     ELSE Closer(v, JudgedQuote(f, start, end, CHOOSE o \in others : TRUE))

TheOne(hits) == IF \E p \in hits : hits = {p} THEN CHOOSE p \in hits : TRUE ELSE None

\* resolve_path: the one file that holds the quote at these lines, or else the
\* one that nearly does.
ResolvePath(tree, start, end, q, others) ==
  LET Judged(p) == FileQuote(tree[p], start, end, q, others)
      hits == {p \in DOMAIN tree : Judged(p) \in Accepted}
  IN IF hits # {} THEN TheOne(hits)
     ELSE TheOne({p \in DOMAIN tree : Judged(p) \in {"retouched", "wrong-lines"}})

----------------------------------------------------------------------------
(* Commands: cc_verify.command_result and what it calls.  A command is the  *)
(* sequence of its parts; some parts set a variable, some are the payload   *)
(* put to a hook, one marks code given to the interpreter as it stands.     *)
(* What a call printed is the sequence of its words, "EXIT" a line of the   *)
(* shell's own, "---" where the next case of a loop starts.                 *)

Settings(c) == {p \in ToSet(c) : p \in {"S=1", "S=2"}}
Payloads(c) == {p \in ToSet(c) : p \in {"{1}", "{2}"}}

SameCommand(wanted, ran) ==
  IF Payloads(wanted) # {}
  THEN Payloads(wanted) \subseteq ToSet(ran) /\ Settings(wanted) \subseteq Settings(ran)
  ELSE IF Contains(wanted, "-c") THEN Within(wanted, ran)
  ELSE LET ws == ToSet(wanted)
       IN Cardinality(ws) >= MinWords /\ Cardinality(ws \cap ToSet(ran)) * 10 >= Cardinality(ws) * 7

\* A seeded fault: the variables set around a command do not tell.
Matching_AnySettings(call, wanted) ==
  /\ call.tool = "Bash"
  /\ Within(wanted, call.ran) \/ Within(call.ran, wanted) \/ SameCommand(wanted, call.ran)

\* _matching.
Matching(call, wanted) ==
  /\ call.tool = "Bash"
  /\ Within(wanted, call.ran) \/ Within(call.ran, wanted) \/ SameCommand(wanted, call.ran)
  /\ Settings(wanted) \subseteq Settings(call.ran)

\* _section: what was printed for the payload cited, up to where the next case
\* starts, when the cases of a loop are told apart, and everything otherwise.
Section(call, wanted) ==
  LET labelled == Payloads(wanted) \cap ToSet(call.text)
      from == Min({i \in DOMAIN call.text : call.text[i] = CHOOSE p \in labelled : TRUE})
      next == {i \in from + 1..Len(call.text) : call.text[i] = "---"}
  IN IF labelled = {} THEN call.text
     ELSE SubSeq(call.text, from + 1, IF next = {} THEN Len(call.text) ELSE Min(next) - 1)

\* _said, _tokens, _SILENCE and _CLAIMS_REFUSAL, for the words at hand.
Spoken(printed) == SelectSeq(printed, LAMBDA w : w \notin {"EXIT", "---"})
Tokens(said) == ToSet(said) \ {"no", "EXIT", "---"}
Silent(said) == ToSet(said) \cap {"no", "allowed"} # {}
Refuses(said) == ToSet(said) \cap {"denied", "deny"} # {}

\* A word is there as it stands, or, if it is a long one, by its opening.
Hits(said, body) ==
  {w \in Tokens(said) : w \in ToSet(body) \/ (w = "denied" /\ "deny" \in ToSet(body))}

\* _supports: what is said was printed word for word; or nothing was printed, and
\* nothing or silence is said; or most of what is said was printed, all of it if it
\* also speaks of silence, or the probe printed that it had nothing to print.
Supports(printed, said) ==
  LET body == Spoken(printed)
      found == Cardinality(Hits(said, body))
      asked == Cardinality(Tokens(said))
  IN \/ said # <<>> /\ Within(said, printed)
     \/ body = <<>> /\ (Silent(said) \/ Tokens(said) = {})
     \/ body # <<>> /\ Tokens(said) # {} /\ Silent(said) /\ body = <<"allowed">>
     \/ body # <<>> /\ Tokens(said) # {} /\ Silent(said) /\ found = asked
     \/ body # <<>> /\ Tokens(said) # {} /\ ~Silent(said) /\ found * 2 >= asked

Stopped(call, said) == ~call.ok /\ Refuses(said) /\ ~call.shellFailed

\* One turn of the loop over the calls; a verdict ends it.
Considered(wanted, said, acc, call) ==
  IF acc.verdict # None \/ ~Matching(call, wanted) THEN acc
  ELSE IF Stopped(call, said) THEN [acc EXCEPT !.verdict = "pass"]
  ELSE IF ~Supports(Section(call, wanted), said) THEN [acc EXCEPT !.seen = TRUE]
  ELSE IF call.ok THEN [acc EXCEPT !.verdict = "pass"]
  ELSE [acc EXCEPT !.seen = TRUE, !.failed = TRUE]

\* The loop over the calls.
Considering(calls, wanted, said) ==
  LET c[n \in 0..Len(calls)] ==
        IF n = 0 THEN [verdict |-> None, seen |-> FALSE, failed |-> FALSE]
        ELSE Considered(wanted, said, c[n - 1], calls[n])
  IN c

\* command_result, for what is said of the command, in words.
CommandResult(calls, wanted, said) ==
  LET end == Considering(calls, wanted, said)[Len(calls)]
  IN IF said = <<>> THEN "unverified"
     ELSE IF end.verdict # None THEN end.verdict
     ELSE IF end.failed \/ end.seen THEN "fail" ELSE "unverified"

----------------------------------------------------------------------------
(* The session's evidence: cc_evidence.py. *)

Paired(acc, e) ==
  IF e.type = "use"
  THEN [calls |-> Append(acc.calls, [id |-> e.id, known |-> TRUE, ok |-> TRUE]),
        byId |-> [acc.byId EXCEPT ![e.id] = Len(acc.calls) + 1]]
  ELSE IF acc.byId[e.id] = 0
  THEN [acc EXCEPT !.calls = Append(@, [id |-> e.id, known |-> FALSE, ok |-> e.ok])]
  ELSE [acc EXCEPT !.calls[acc.byId[e.id]].ok = e.ok]

\* The loop over the blocks of a transcript.
Collecting(events) ==
  LET c[n \in 0..Len(events)] ==
        IF n = 0 THEN [calls |-> <<>>, byId |-> [i \in {e.id : e \in ToSet(events)} |-> 0]]
        ELSE Paired(c[n - 1], events[n])
  IN c

\* collect: the tool calls of a transcript in the order they were made, each
\* with its result, and the results whose call was not seen.
Collect(events) == Collecting(events)[Len(events)].calls

\* The lines a Read says it showed, or was asked for when it does not say, and the
\* hits of a Grep.
Shown(c) ==
  CASE c.tool = "Read" /\ c.said -> {<<c.first, c.first + Max({c.count, 1}) - 1>>}
    [] c.tool = "Read" /\ ~c.said /\ c.ok ->
         {<<c.first, IF c.count = 0 THEN 1000000000 ELSE c.first + c.count - 1>>}
    [] c.tool = "Grep" /\ c.ok -> {<<n, n>> : n \in c.first..c.first + c.count - 1}
    [] OTHER -> {}

\* covered_ranges.
CoveredRanges(calls) == UNION {Shown(calls[i]) : i \in DOMAIN calls}

\* The first of some ranges, in the order they are sorted in.
First(ranges) ==
  CHOOSE r \in ranges : \A s \in ranges : r[1] < s[1] \/ (r[1] = s[1] /\ r[2] <= s[2])

\* A seeded fault: a hole of one line is not seen.
ReachEnds_Hole(acc, end) ==
  acc.left = {} \/ acc.reach >= end \/ First(acc.left)[1] > acc.reach + 2

\* The loop over the ranges ends with them, at the last line asked for, or at a
\* hole that no range left can fill, since they all start later still.
ReachEnds(acc, end) ==
  acc.left = {} \/ acc.reach >= end \/ First(acc.left)[1] > acc.reach + 1

FurtherReach(acc, end) ==
  IF ReachEnds(acc, end) THEN acc
  ELSE [left |-> acc.left \ {First(acc.left)},
        reach |-> Max({acc.reach, First(acc.left)[2]})]

\* The ranges left and the last line reached, after each turn.
Reaching(ranges, start, end) ==
  LET c[n \in 0..Cardinality(ranges)] ==
        IF n = 0 THEN [left |-> ranges, reach |-> start - 1] ELSE FurtherReach(c[n - 1], end)
  IN c

\* covers.
Covers(ranges, start, end) == Reaching(ranges, start, end)[Cardinality(ranges)].reach >= end

----------------------------------------------------------------------------
(* The change: cc_diff.hollow_tests.  An added line opens a test, asserts, *)
(* asserts of a mock, catches an exception, passes, opens another function *)
(* or does something else.  Of the lines around them, "@@" starts a hunk   *)
(* and "context" opens a function that was there before.                   *)

NoTest == [name |-> 0, asserts |-> 0, mocky |-> 0, silenced |-> FALSE, pending |-> FALSE]

Closed(hollow, t) ==
  IF t.name > 0 /\ (t.silenced \/ (t.asserts > 0 /\ t.asserts = t.mocky))
  THEN hollow \cup {t.name} ELSE hollow

\* A seeded fault: what one test caught is held against the next.
Opened_StillSilenced(t, i) == [t EXCEPT !.name = i, !.asserts = 0, !.mocky = 0]

Opened(t, i) == [NoTest EXCEPT !.name = i]

\* What a line added makes of the test it is in.
Counted(t, line) ==
  LET one(b) == IF b THEN 1 ELSE 0
  IN [t EXCEPT !.silenced = @ \/ (t.pending /\ line = "pass"),
               !.pending = (line = "except"),
               !.asserts = @ + one(line \in {"assert", "mock"}),
               !.mocky = @ + one(line = "mock")]

\* What is there before is left out by _files, and hunks are passed over.
Skipped == {"context", "@@"}

\* One turn of the loop over the lines added.
LineCounted(acc, line, n) ==
  IF line = "test"
  THEN [hollow |-> Closed(acc.hollow, acc.test), test |-> Opened(acc.test, n)]
  ELSE IF line \in Skipped \/ acc.test.name = 0 THEN acc
  ELSE [acc EXCEPT !.test = Counted(@, line)]

Counting(added) ==
  LET c[n \in 0..Len(added)] ==
        IF n = 0 THEN [hollow |-> {}, test |-> NoTest] ELSE LineCounted(c[n - 1], added[n], n)
  IN c

\* hollow_tests.
HollowTests(added) ==
  LET end == Counting(added)[Len(added)]
  IN Closed(end.hollow, end.test)

=============================================================================
