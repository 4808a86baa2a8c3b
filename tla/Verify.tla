------------------------------- MODULE Verify -------------------------------
(***************************************************************************)
(* The verifier at work: it reads an answer into claims, each with its     *)
(* evidence (cc_verify.normalise, then parse_ledger, a line at a time), or *)
(* it judges one citation.                                                 *)
(*                                                                         *)
(* A line of an answer is told apart by what the two passes find in it:    *)
(*   section    a heading CLAIMS             numbered  an item "1. ..."    *)
(*   claim      CLAIM:, naming a file        evidence0 cites nothing known *)
(*   claim+     a claim that also cites      evidence1, evidence2          *)
(*   evidenceq  cites lines, and quotes them on the same line              *)
(*   evidenceqr quotes a line of the file, and names a command run         *)
(*   quote      QUOTE:, the text below       quoted    QUOTE: and text     *)
(*   quote@     QUOTE with its own address   quotes    two, each addressed *)
(*   run        RUN:                         other     another header      *)
(*   cite       a sentence that cites        said      ... Evidence: cite  *)
(*   citeq      ... and quotes what it cites                               *)
(*   prose, blank, dots (an elision in a quote)                            *)
(***************************************************************************)
EXTENDS Citations

CONSTANTS
  Answers,   \* the answers to read
  QuoteQuestions, TreeQuestions, CommandQuestions, ReadQuestions, EventQuestions, TestQuestions

VARIABLES
  answer, at,                  \* the answer, and the last line read
  claimed, listing, opening,   \* normalise, between lines
  claims,                      \* what was read: per claim its line and its pieces of evidence
  evidence, cited,             \* the piece a quote attaches to, and those last cited
  quote,                       \* the open quote: its line and what it holds
  given,                       \* history: the quotes the answer has given under a claim
  question, verdict

reader == <<answer, at, claimed, listing, opening, claims, evidence, cited, quote, given>>
vars == <<reader, question, verdict>>

RawHeaders ==
  {"claim", "claim+", "evidence0", "evidence1", "evidence2", "evidenceq", "evidenceqr", "quote",
   "quoted", "quote@", "quotes", "run", "other"}
Kinds ==
  RawHeaders \cup {"section", "numbered", "cite", "citeq", "said", "prose", "blank", "dots"}
ASSUME VerifyAssumption == \A a \in Answers : a \in Seq(Kinds)

\* The questions: what is cited or recorded, taken apart into words and lines.  A
\* quote has one other reading at most.
Texts == Seq([at : Nat, says : Seq(STRING)])
Quotings == [lines : Texts, label : STRING, from : Nat, step : Nat]
ASSUME QuotesAssumption ==
  /\ \A q \in QuoteQuestions :
       /\ q.of = "quote" /\ q.file \in Texts /\ q.start \in Nat /\ q.end \in Nat
       /\ q.quote \in Quotings /\ q.others \subseteq Quotings /\ \A o, p \in q.others : o = p
  /\ \A q \in TreeQuestions :
       /\ q.of = "tree" /\ \A p \in DOMAIN q.tree : q.tree[p] \in Texts
       /\ q.start \in Nat /\ q.end \in Nat
       /\ q.quote \in Quotings /\ q.others \subseteq Quotings /\ \A o, p \in q.others : o = p

\* A command may be empty, the one cited (a RUN with nothing after it) or the one run.
ASSUME CommandsAssumption ==
  \A q \in CommandQuestions :
    /\ q.of = "command" /\ q.wanted \in Seq(STRING) /\ q.said \in Seq(STRING)
    /\ q.calls \in Seq([tool : STRING, ran : Seq(STRING), text : Seq(STRING), ok : BOOLEAN,
                        shellFailed : BOOLEAN])

AddedLines == {"test", "assert", "mock", "except", "pass", "def", "other"} \cup Skipped

ASSUME EvidenceAssumption ==
  /\ \A q \in ReadQuestions :
       /\ q.of = "reading" /\ q.start \in Nat /\ q.end \in Nat
       /\ q.calls \in Seq([tool : STRING, said : BOOLEAN, first : Nat, count : Nat, ok : BOOLEAN])
  /\ \A q \in EventQuestions :
       q.of = "events" /\ q.events \in Seq([type : {"use", "result"}, id : Nat, ok : BOOLEAN])
  /\ \A q \in TestQuestions :
       q.of = "tests" /\ q.added \in Seq(AddedLines)

NoQuote == [line |-> 0, holds |-> <<>>]
NoQuestion == [of |-> "nothing"]

Init ==
  /\ answer \in Answers /\ at = 0
  /\ claimed = FALSE /\ listing = FALSE /\ opening = TRUE
  /\ claims = <<>> /\ evidence = 0 /\ cited = <<>> /\ quote = NoQuote /\ given = {}
  /\ question = NoQuestion /\ verdict = None

----------------------------------------------------------------------------
(* normalise: the lines a line becomes.                                     *)

\* Whether the answer marks none of its findings.
Unmarked == \A i \in DOMAIN answer : answer[i] \notin {"claim", "claim+", "numbered"}

\* What a line is read as under a heading that said the word for all.
Marked(l) ==
  CASE listing /\ l = "numbered" -> "claim"
    [] listing /\ Unmarked /\ opening /\ l \in {"cite", "citeq", "prose"} -> "claim"
    [] listing /\ Unmarked /\ opening /\ l = "said" -> "claim+"
    [] OTHER -> l

Normal(l) ==
  CASE claimed /\ l \in {"cite", "said"} -> <<"evidence1">>
    [] claimed /\ l = "citeq" -> <<"evidenceq">>
    [] ~claimed /\ l = "said" -> <<"prose", "evidence1">>
    [] l = "claim+" -> <<"claim", "evidence1">>
    [] OTHER -> <<l>>

Normalise ==
  LET raw == answer[at + 1]
      l == Marked(raw)
  IN IF raw = "section" THEN listing' = TRUE /\ UNCHANGED <<claimed, opening>>
     ELSE /\ opening' = (raw = "blank")
          /\ claimed' = (l = "claim" \/ (claimed /\ l \in {"cite", "citeq", "said", "blank"}))
          /\ UNCHANGED listing

----------------------------------------------------------------------------
(* parse_ledger, one line of the outcome: a record of what is read so far.  *)

Piece(kind, path, lines) == [kind |-> kind, path |-> path, lines |-> lines, quote |-> 0]
Current(r) == r.claims[Len(r.claims)]
Pieces(r) == Current(r).pieces
Added(r, ps) == [r EXCEPT !.claims[Len(r.claims)].pieces = @ \o ps]

\* The pieces a quote falls into at its elisions.
Elided(holds) ==
  Cardinality({i \in DOMAIN holds :
    /\ holds[i] = "text"
    /\ \A j \in 1..i - 1 : holds[j] = "text" => "dots" \in ToSet(SubSeq(holds, j, i))})

\* close_quote: an elided quote is shared out over the citations it falls to,
\* any other goes to the last; a piece without a file takes the claim's.
ClosedQuote(r) ==
  IF r.quote.line = 0 THEN r
  ELSE LET full == \E i \in DOMAIN r.quote.holds : r.quote.holds[i] = "text"
           shared == Len(r.cited) > 1 /\ Elided(r.quote.holds) = Len(r.cited)
           takes(i) == IF shared THEN i \in ToSet(r.cited) ELSE i = r.evidence
           named == IF Current(r).names THEN Current(r).line ELSE 0
           After(p, i) ==
             [p EXCEPT !.quote = IF ~takes(i) THEN @ ELSE IF full THEN r.quote.line ELSE 0,
                       !.path = IF i = r.evidence /\ @ = 0 THEN named ELSE @]
       IN [r EXCEPT !.quote = NoQuote,
                    !.given = IF full THEN @ \cup {r.quote.line} ELSE @,
                    !.claims[Len(r.claims)].pieces = [i \in DOMAIN @ |-> After(@[i], i)]]

\* Pieces cited on a line: a later quote attaches to the last of them.
Cite(r, ps) ==
  LET n == Len(Pieces(r))
      s == Added(r, ps)
  IN [s EXCEPT !.evidence = n + Len(ps), !.cited = [i \in DOMAIN ps |-> n + i]]

\* Pieces of which the first carries a quote of its own, written on the same line.
CiteQuoted(r, i, ps) == [Cite(r, [ps EXCEPT ![1].quote = i]) EXCEPT !.given = @ \cup {i}]

\* A seeded fault: the evidence of the claim before is still at hand.
ReadClaim_KeepsEvidence(r, i, names) ==
  [r EXCEPT !.claims = Append(@, [line |-> i, names |-> names,
                                  pieces |-> IF r.evidence = 0 THEN <<>>
                                             ELSE <<r.claims[Len(r.claims)].pieces[r.evidence]>>]),
            !.evidence = IF r.evidence = 0 THEN 0 ELSE 1, !.cited = <<>>]

ReadClaim(r, i, names) ==
  [r EXCEPT !.claims = Append(@, [line |-> i, names |-> names, pieces |-> <<>>]),
            !.evidence = 0, !.cited = <<>>]

\* A seeded fault: a second quote under a citation replaces the first.
Attached_Again(r) ==
  IF r.evidence = 0 THEN Cite(r, <<Piece("file", 0, 0)>>) ELSE r

\* The piece a QUOTE header is about: a new one if there is none, a sibling
\* without the lines if the one at hand has its quote.
Attached(r) ==
  IF r.evidence = 0 THEN Cite(r, <<Piece("file", 0, 0)>>)
  ELSE LET p == Pieces(r)[r.evidence]
       IN IF p.quote # 0 THEN Cite(r, <<[p EXCEPT !.lines = 0, !.quote = 0]>>) ELSE r

\* Several quotes on one header line are pieces of their own; the piece made for
\* a quote to come is taken back if it says nothing yet.
ReadQuotes(r, s, i) ==
  LET empty == s # r /\ Pieces(s)[s.evidence] = Piece("file", 0, 0)
      own == [Piece("file", IF Current(r).names THEN Current(r).line ELSE 0, i) EXCEPT !.quote = i]
      u == IF empty THEN [s EXCEPT !.claims[Len(s.claims)].pieces = Front(@)] ELSE s
  IN [Cite(u, <<own, own>>) EXCEPT !.cited = <<Len(Pieces(u)) + 2>>, !.given = @ \cup {i}]

\* A header's own address fills in what the evidence left out, and replaces what
\* a sibling was copied from.
ReadQuote(r, i, l) ==
  LET s == Attached(r)
      sibling == r.evidence # 0 /\ s # r
      fills(x) == l = "quote@" /\ (sibling \/ x = 0)
      Addressed(p) ==
        [p EXCEPT !.path = IF fills(@) THEN i ELSE @, !.lines = IF fills(@) THEN i ELSE @,
                  !.kind = IF l = "quote@" /\ (sibling \/ @ = None) THEN "file" ELSE @]
  IN IF l = "quotes" THEN ReadQuotes(r, s, i)
     ELSE [s EXCEPT !.claims[Len(s.claims)].pieces[s.evidence] = Addressed(@),
                    !.quote = [line |-> i, holds |-> IF l = "quoted" THEN <<"text">> ELSE <<>>]]

\* One line; i is where it stands in the answer.
Parsed(r0, i, l) ==
  LET header == l \in RawHeaders
      r == IF header THEN ClosedQuote(r0) ELSE r0
  IN IF ~header /\ r.quote.line # 0
     THEN [r EXCEPT !.quote.holds = Append(@, IF l \in {"dots", "blank"} THEN l ELSE "text")]
     ELSE IF l = "claim" THEN ReadClaim(r, i, answer[i] \in {"claim", "claim+", "cite", "citeq"})
     ELSE IF r.claims = <<>> THEN r
     ELSE CASE l = "evidence0" -> Cite(r, <<Piece(None, 0, 0)>>)
            [] l = "evidence1" -> Cite(r, <<Piece("file", i, i)>>)
            [] l = "evidence2" -> Cite(r, <<Piece("file", i, i), Piece("file", i, i)>>)
            [] l = "evidenceq" -> CiteQuoted(r, i, <<Piece("file", i, i)>>)
            [] l = "evidenceqr" -> CiteQuoted(r, i, <<Piece("file", 0, i), Piece("command", 0, 0)>>)
            [] l \in {"quote", "quoted", "quote@", "quotes"} -> ReadQuote(r, i, l)
            [] l = "run" -> Cite(r, <<Piece("command", 0, 0)>>)
            [] l = "cite" /\ r.evidence # 0 -> Cite(r, <<Piece("file", i, i)>>)
            [] l = "citeq" /\ r.evidence # 0 -> CiteQuoted(r, i, <<Piece("file", i, i)>>)
            [] OTHER -> r

\* The one or two lines that a line becomes.
Parsings(r, i, ls) ==
  LET s == Parsed(r, i, ls[1])
  IN IF Len(ls) = 1 THEN s ELSE Parsed(s, i, ls[2])

Read(r) ==
  /\ claims' = r.claims /\ evidence' = r.evidence /\ cited' = r.cited
  /\ quote' = r.quote /\ given' = r.given

SoFar == [claims |-> claims, evidence |-> evidence, cited |-> cited, quote |-> quote, given |-> given]

ReadLine ==
  /\ at < Len(answer) /\ question = NoQuestion
  /\ at' = at + 1
  /\ Normalise
  /\ Read(Parsings(SoFar, at + 1, Normal(Marked(answer[at + 1]))))
  /\ UNCHANGED <<answer, question, verdict>>

\* The last quote is closed.
EndOfAnswer ==
  /\ at = Len(answer) /\ quote.line # 0
  /\ Read(ClosedQuote(SoFar))
  /\ UNCHANGED <<answer, at, claimed, listing, opening, question, verdict>>

----------------------------------------------------------------------------
(* One citation judged. *)

Idle == answer = <<>> /\ question = NoQuestion

Asked(q, v) == question' = q /\ verdict' = v /\ UNCHANGED reader

JudgeQuote ==
  Idle /\ \E q \in QuoteQuestions : Asked(q, FileQuote(q.file, q.start, q.end, q.quote, q.others))

FindFile ==
  Idle /\ \E q \in TreeQuestions : Asked(q, ResolvePath(q.tree, q.start, q.end, q.quote, q.others))

JudgeCommand ==
  Idle /\ \E q \in CommandQuestions : Asked(q, CommandResult(q.calls, q.wanted, q.said))

JudgeReading ==
  Idle /\ \E q \in ReadQuestions : Asked(q, Covers(CoveredRanges(q.calls), q.start, q.end))

CollectCalls == Idle /\ \E q \in EventQuestions : Asked(q, Collect(q.events))

JudgeTests == Idle /\ \E q \in TestQuestions : Asked(q, HollowTests(q.added))

Next ==
  \/ ReadLine \/ EndOfAnswer
  \/ JudgeQuote \/ FindFile \/ JudgeCommand \/ JudgeReading \/ CollectCalls \/ JudgeTests

Spec == Init /\ [][Next]_vars

----------------------------------------------------------------------------
(* Properties. *)

Ends(k) == IF k = Len(claims) THEN Len(answer) + 1 ELSE claims[k + 1].line

\* What a claim rests on was written under that claim: no quote and no address
\* of another claim's counts for it.
ClaimsStandAlone ==
  \A k \in DOMAIN claims : \A i \in DOMAIN claims[k].pieces :
    LET p == claims[k].pieces[i]
    IN {p.path, p.lines, p.quote} \ {0} \subseteq claims[k].line..Ends(k) - 1

\* Every quote given under a claim is kept, with that claim: later quotes,
\* citations and headers replace none.  There is one exception: where a line quotes
\* the file and names a command too, a later quote with an elision is shared out over
\* the two, and takes the place of the quote that was there.
SharedOver(ps, q) ==
  \E i \in DOMAIN ps : /\ ps[i].lines = q /\ ps[i].quote > q
                       /\ \E j \in DOMAIN ps \ {i} : ps[j].quote = ps[i].quote
NoQuoteLost ==
  \A q \in given : \E k \in DOMAIN claims :
    LET ps == claims[k].pieces
    IN /\ q \in claims[k].line..Ends(k) - 1
       /\ (\E i \in DOMAIN ps : ps[i].quote = q) \/ (answer[q] = "evidenceqr" /\ SharedOver(ps, q))

Of(kind) == question.of = kind
Flat(ls) == Words(Unescaped(ls))
CitedLines(q) == SubSeq(q.file, q.start, Min({q.end, Len(q.file)}))
Readings(q) == {q.quote} \cup q.others

\* An accepted quote is in the lines cited: every line of it, its label aside
\* and a quote mark's backslash aside, is a run of words of those lines.  A file
\* found for a quote without one is the only file of the tree that it is in, read
\* either way.
AcceptedIsThere ==
  /\ Of("quote") /\ verdict \in Accepted =>
       \E r \in Readings(question) :
         \A i \in DOMAIN Kept(r.lines) :
            Within(Flat(<<Kept(r.lines)[i]>>), Flat(CitedLines(question)))
  /\ Of("tree") /\ verdict # None =>
       \A p \in DOMAIN question.tree \ {verdict} :
         \A r \in Readings(question) :
           JudgedQuote(question.tree[p], question.start, question.end, r) \notin Accepted

\* A command counts only if the session ran it under the settings cited: a part of
\* it, or all its payloads, or, without one, a precise command as written and any
\* other by most of its words.  It counts exactly if a run that worked printed what is
\* said of it or one was stopped where a refusal is what is said, whatever its other
\* runs did; and it is left open only if nothing is said of it or nothing ran it.
CommandsWereRun ==
  Of("command") =>
    LET q == question
        words == ToSet(q.wanted)
        Ran(c) ==
          /\ c.tool = "Bash" /\ Settings(q.wanted) \subseteq ToSet(c.ran)
          /\ \/ Within(c.ran, q.wanted)
             \/ Payloads(q.wanted) # {} /\ Payloads(q.wanted) \subseteq ToSet(c.ran)
             \/ Payloads(q.wanted) = {} /\ "-c" \in words /\ Within(q.wanted, c.ran)
             \/ /\ Payloads(q.wanted) = {} /\ "-c" \notin words
                /\ Cardinality(words \cap ToSet(c.ran)) * 2 >= Cardinality(words)
        Bears(c) == (c.ok /\ Supports(Section(c, q.wanted), q.said)) \/ Stopped(c, q.said)
        matching == {c \in ToSet(q.calls) : Matching(c, q.wanted)}
    IN /\ verdict = "pass" => \E c \in ToSet(q.calls) : Ran(c) /\ Bears(c)
       /\ verdict = "fail" => matching # {} /\ \A c \in matching : ~Bears(c)
       /\ verdict \notin {"pass", "fail"} => q.said = <<>> \/ matching = {}

\* The events that make a call: those that use a tool, and the results of a use
\* that was not seen.
Makes(es, i) ==
  es[i].type = "use" \/ \A j \in 1..i - 1 : es[j].type = "use" => es[j].id # es[i].id

\* The results of a use: those that come before its id is used again.
ResultsOf(es, u) ==
  {j \in u + 1..Len(es) :
     /\ es[j].type = "result" /\ es[j].id = es[u].id
     /\ \A m \in u + 1..j - 1 : es[m].type = "use" => es[m].id # es[u].id}

\* The outcome of a call: that of its last result, and good until there is one.
Outcome(es, i) ==
  IF es[i].type = "result" THEN es[i].ok
  ELSE \A j \in ResultsOf(es, i) : (\A k \in ResultsOf(es, i) : k <= j) => es[j].ok

\* What a session's record says is read whole and in no one's favour.  Lines count
\* as read exactly if each of them is in some read, however many reads put them
\* before the model and in what order; the calls come in their order, each with
\* the outcome of its own last result, and no result is dropped.
SessionEvidence ==
  /\ Of("reading") =>
       verdict = \A n \in question.start..question.end :
                   \E r \in CoveredRanges(question.calls) : n \in r[1]..r[2]
  /\ Of("events") =>
       LET es == question.events
       IN \E by \in [DOMAIN verdict -> DOMAIN es] :
            /\ \A k, l \in DOMAIN verdict : k < l => by[k] < by[l]
            /\ ToSet(by) = {i \in DOMAIN es : Makes(es, i)}
            /\ \A k \in DOMAIN verdict :
                 verdict[k] = [id |-> es[by[k]].id, known |-> es[by[k]].type = "use",
                               ok |-> Outcome(es, by[k])]

\* The lines added up to the next test: those of the test itself, which end where
\* another function begins or another hunk does, and those of whatever comes then.
UpToNext(added, t) == {j \in t + 1..Len(added) : \A m \in t + 1..j : added[m] # "test"}
OwnLines(added, t) ==
  {j \in UpToNext(added, t) : \A m \in t + 1..j : added[m] \notin Skipped \cup {"def"}}
OthersLines(added, t) == UpToNext(added, t) \ OwnLines(added, t)

\* An added test that passes over an exception is called hollow whatever is added
\* after it; one that asserts anything real is called hollow for nothing else, unless
\* what is added after it passes over something; and where no line added after it
\* asserts or passes, exactly those are that assert of mocks only.
HollowForItsOwnLines ==
  Of("tests") =>
    LET a == question.added
        Own(t, kinds) == {j \in OwnLines(a, t) : a[j] \in kinds}
        Others(t, kinds) == {j \in OthersLines(a, t) : a[j] \in kinds}
        Swallows(t) == \E j \in Own(t, {"except"}) : j + 1 \in Own(t, {"pass"})
        OnlyMocks(t) == Own(t, {"mock"}) # {} /\ Own(t, {"assert"}) = {}
        tests == {t \in DOMAIN a : a[t] = "test"}
    IN /\ verdict \subseteq tests
       /\ \A t \in tests :
            /\ Swallows(t) => t \in verdict
            /\ Own(t, {"assert"}) # {} /\ Others(t, {"pass"}) = {} =>
                 (t \in verdict <=> Swallows(t))
            /\ Others(t, {"assert", "mock", "pass"}) = {} =>
                 (t \in verdict <=> Swallows(t) \/ OnlyMocks(t))

=============================================================================
