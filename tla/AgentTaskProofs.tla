-------------------------- MODULE AgentTaskProofs --------------------------
(***************************************************************************)
(* Theorems about AgentTask, for any benches, budgets, retries, lines and  *)
(* limits of the detector, whether or not the harness rescues answers.     *)
(***************************************************************************)
EXTENDS AgentTask, TLAPS

----------------------------------------------------------------------------
(* The invariant. *)

\* A task that goes on has no row yet, and one cut-off reply at the most.
Unfinished == pc # "over" => row = "none" /\ cuts <= 1

\* While a stream goes on, what it amounts to is what has arrived since the last
\* request; a reply is that, or the answer promoted out of its thinking.
Amounts(content) == content \in {"final", "both"} \/ (bench.plain /\ content # "blank")
StreamWasHeard == pc = "stream" => said = heard.said /\ thought = heard.thought
ReplyWasHeard == pc = "reply" => (Amounts(said) <=> Answered)

\* Between rounds, the final answer is the one of the last reply.
FinalWasHeard == pc = "top" /\ round > 0 => (final <=> Answered)
Idle == pc = "ready" => said = "blank" /\ thought = "none"
OneCursor == pc = "cursor" => bench.name = "cursor"
NoThoughtYet == pc = "stream" /\ lines = <<>> => thought = "none"
Heard ==
  /\ StreamWasHeard /\ ReplyWasHeard /\ FinalWasHeard
  /\ Idle /\ NoThoughtYet /\ OneCursor

\* What is on the page as the answer is outside the thinking, and an open block
\* is known to be open.
Closed(p) == ~Inside(p, Len(p))
Apart(p) == \A i \in DOMAIN p : p[i] = "c" => ~Inside(p, i)
PageOK ==
  /\ Apart(page)
  /\ ~inThink => Closed(page)
  /\ pc \in {"top", "reply"} => ~inThink

\* The detector's counts are no smaller than the repetitions there are.
Repeats(ls, n, p) == Len(ls) >= n /\ \A i \in Len(ls) - n + p + 1..Len(ls) : ls[i] = ls[i - p]
LinesCounted(ls, c) == \A n \in Nat \ {0} : Repeats(ls, n, 1) => c >= n
BlocksCounted(ls, h) ==
  \A bl \in Sizes, k \in Nat \ {0} : Repeats(ls, 2 * bl + k - 1, bl) => h[bl] >= k
Counted == LinesCounted(lines, consec) /\ BlocksCounted(lines, hits)

IInv ==
  /\ TypeOK /\ Unfinished /\ Heard /\ GradedWasSaid
  /\ PageOK /\ Counted

----------------------------------------------------------------------------
(* The page. *)

LEMMA InsideOfPrefix ==
  ASSUME NEW p \in Seq(Marks), NEW m \in Marks, NEW i \in 0..Len(p)
  PROVE  Inside(Append(p, m), i) <=> Inside(p, i)
BY DEF Inside

\* A mark keeps the answer apart; one that closes a block closes it, and the
\* answer may follow what is closed.
LEMMA MarkedPage ==
  ASSUME NEW p \in Seq(Marks), NEW m \in Marks, Apart(p)
  PROVE  /\ Marked(p, m) \in Seq(Marks)
         /\ m # "c" => Apart(Marked(p, m))
         /\ m = ">" => Closed(Marked(p, m))
         /\ m = "c" /\ Closed(p) => Apart(Marked(p, m)) /\ Closed(Marked(p, m))
<1>1. CASE p # <<>> /\ p[Len(p)] = m
  <2>1. Marked(p, m) = p /\ Len(p) \in DOMAIN p
    BY <1>1 DEF Marked
  <2>2. m = ">" => Closed(p)
    BY <1>1, <2>1 DEF Closed, Inside
  <2> QED
    BY <2>1, <2>2
<1>2. CASE ~(p # <<>> /\ p[Len(p)] = m)
  <2> DEFINE q == Append(p, m)
  <2>1. Marked(p, m) = q
    BY <1>2 DEF Marked
  <2>2. q \in Seq(Marks) /\ Len(q) = Len(p) + 1 /\ q[Len(q)] = m
        /\ \A i \in 1..Len(p) : q[i] = p[i]
    OBVIOUS
  <2>3. \A i \in DOMAIN p : q[i] = "c" => ~Inside(q, i)
    BY <2>2, InsideOfPrefix DEF Apart
  <2>4. m = ">" => Closed(q)
    BY <2>2 DEF Closed, Inside
  <2>5. m = "c" /\ Closed(p) => ~Inside(q, Len(q))
    BY <2>2 DEF Closed, Inside
  <2>6. Apart(q) <=> (m = "c" => ~Inside(q, Len(q)))
    BY <2>2, <2>3 DEF Apart
  <2> QED
    BY <2>1, <2>2, <2>4, <2>5, <2>6 DEF Closed
<1> QED
  BY <1>1, <1>2

LEMMA EndRoundPage ==
  ASSUME TypeOK, PageOK, NEW content, EndRound(content)
  PROVE  page' \in Seq(Marks) /\ Apart(page') /\ Closed(page') /\ inThink' = FALSE
<1> DEFINE closed == IF inThink THEN Marked(page, ">") ELSE page
<1>1. closed \in Seq(Marks) /\ Apart(closed) /\ Closed(closed)
  BY MarkedPage DEF TypeOK, PageOK, Marks
<1>2. page' \in {closed, Marked(closed, "c")} /\ inThink' = FALSE
  BY DEF EndRound
<1> HIDE DEF closed
<1> QED
  BY <1>1, <1>2, MarkedPage DEF Marks

----------------------------------------------------------------------------
(* The detector. *)

\* One more line extends whatever repeats by one.
LEMMA OneLineMore ==
  ASSUME NEW ls \in Seq(Lines), NEW l \in Lines, NEW n \in Nat \ {0}, NEW p \in Nat \ {0},
         n > p, Repeats(Append(ls, l), n, p)
  PROVE  /\ Len(ls) >= n - 1
         /\ Repeats(ls, n - 1, p)
         /\ \A i \in Len(ls) + 1 - n + p + 1..Len(ls) + 1 : Append(ls, l)[i] = Append(ls, l)[i - p]
<1> DEFINE ns == Append(ls, l)
<1>1. Len(ns) = Len(ls) + 1 /\ Len(ls) \in Nat /\ \A i \in 1..Len(ls) : ns[i] = ls[i]
  OBVIOUS
<1>2. Len(ns) >= n /\ \A i \in Len(ns) - n + p + 1..Len(ns) : ns[i] = ns[i - p]
  BY DEF Repeats
<1> HIDE DEF ns
<1>3. \A i \in Len(ls) + 1 - n + p + 1..Len(ls) + 1 : ns[i] = ns[i - p]
  BY <1>1, <1>2
<1>4. ASSUME NEW i \in Len(ls) - (n - 1) + p + 1..Len(ls) PROVE ls[i] = ls[i - p]
  <2>1. i \in 1..Len(ls) /\ i - p \in 1..Len(ls) /\ i \in Len(ls) + 1 - n + p + 1..Len(ls) + 1
    BY <1>1, <1>2
  <2> QED
    BY <1>1, <1>3, <2>1
<1>5. Len(ls) >= n - 1
  BY <1>1, <1>2
<1>6. Repeats(ls, n - 1, p)
  BY <1>4, <1>5 DEF Repeats
<1> QED
  BY <1>3, <1>5, <1>6 DEF ns

LEMMA LineCounted ==
  ASSUME TypeOK, Counted, NEW l \in Lines
  PROVE  ConsecAfter(l) \in Nat /\ LinesCounted(Append(lines, l), ConsecAfter(l))
<1> DEFINE ns == Append(lines, l)
<1>1. lines \in Seq(Lines) /\ consec \in Nat
  BY DEF TypeOK
<1>2. ConsecAfter(l) \in Nat \ {0}
  BY <1>1 DEF ConsecAfter
<1>3. ASSUME NEW n \in Nat \ {0}, Repeats(ns, n, 1) PROVE ConsecAfter(l) >= n
  <2>1. CASE n = 1
    BY <1>2, <2>1
  <2>2. CASE n > 1
    <3>1. Len(lines) >= n - 1 /\ Repeats(lines, n - 1, 1) /\ ns[Len(lines) + 1] = ns[Len(lines)]
      BY <1>1, <1>3, <2>2, OneLineMore
    <3>2. lines # <<>> /\ lines[Len(lines)] = l
      BY <1>1, <2>2, <3>1
    <3>3. consec >= n - 1
      BY <2>2, <3>1 DEF Counted, LinesCounted
    <3> QED
      BY <1>1, <3>2, <3>3 DEF ConsecAfter
  <2> QED
    BY <2>1, <2>2
<1> QED
  BY <1>2, <1>3 DEF LinesCounted

LEMMA BlockCounted ==
  ASSUME TypeOK, Counted, NEW l \in Lines
  PROVE  /\ HitsAfter(Append(lines, l)) \in [Sizes -> Nat]
         /\ BlocksCounted(Append(lines, l), HitsAfter(Append(lines, l)))
<1> DEFINE ns == Append(lines, l)
           h == HitsAfter(ns)
<1>1. lines \in Seq(Lines) /\ hits \in [Sizes -> Nat] /\ Sizes \subseteq Nat \ {0}
      /\ ns \in Seq(Lines) /\ Len(ns) = Len(lines) + 1
  BY TaskAssumption DEF TypeOK
<1>2. h \in [Sizes -> Nat]
  BY <1>1 DEF HitsAfter
<1>3. ASSUME NEW bl \in Sizes, NEW k \in Nat \ {0}, Repeats(ns, 2 * bl + k - 1, bl)
      PROVE  h[bl] >= k
  <2>1. bl \in Nat \ {0} /\ 2 * bl + k - 1 \in Nat \ {0} /\ 2 * bl + k - 1 > bl
        /\ Len(ns) >= 2 * bl + k - 1
    BY <1>1, <1>3 DEF Repeats
  <2> DEFINE n == 2 * bl + k - 1
  <2>a. n \in Nat \ {0} /\ n > bl /\ Repeats(ns, n, bl)
    BY <1>3, <2>1
  <2> HIDE DEF n
  <2>b. /\ Repeats(lines, n - 1, bl)
        /\ \A i \in Len(lines) + 1 - n + bl + 1..Len(lines) + 1 : ns[i] = ns[i - bl]
    BY <1>1, <2>1, <2>a, OneLineMore
  <2>2. /\ Repeats(lines, 2 * bl + k - 2, bl)
        /\ \A i \in Len(ns) - (2 * bl + k - 1) + bl + 1..Len(ns) : ns[i] = ns[i - bl]
    <3>1. n - 1 = 2 * bl + k - 2 /\ n = 2 * bl + k - 1 /\ Len(ns) = Len(lines) + 1
      BY <1>1, <2>1 DEF n
    <3> HIDE DEF ns
    <3> QED
      BY <2>b, <3>1
  <2>3. \A i \in 0..bl - 1 : ns[Len(ns) - i] = ns[Len(ns) - bl - i]
    <3>1. ASSUME NEW i \in 0..bl - 1 PROVE ns[Len(ns) - i] = ns[Len(ns) - bl - i]
      <4>1. Len(ns) - i \in Len(ns) - (2 * bl + k - 1) + bl + 1..Len(ns)
            /\ (Len(ns) - i) - bl = Len(ns) - bl - i
        BY <1>1, <2>1
      <4> QED
        BY <2>2, <4>1
    <3> QED
      BY <3>1
  <2>4. h[bl] = hits[bl] + 1
    <3>1. ~(Len(ns) < 2 * bl)
      BY <1>1, <2>1
    <3> HIDE DEF ns
    <3> QED
      BY <2>3, <3>1 DEF HitsAfter
  <2>5. k > 1 => hits[bl] >= k - 1
    <3>1. SUFFICES ASSUME k > 1 PROVE hits[bl] >= k - 1
      OBVIOUS
    <3>2. Repeats(lines, 2 * bl + (k - 1) - 1, bl) /\ k - 1 \in Nat \ {0}
      BY <2>1, <2>2, <3>1
    <3> QED
      BY <3>2 DEF Counted, BlocksCounted
  <2> QED
    BY <1>1, <2>4, <2>5
<1> QED
  BY <1>2, <1>3 DEF BlocksCounted

----------------------------------------------------------------------------
(* The steps. *)

USE TaskAssumption, LoopsAssumption DEF counters, detector, stream, tags

LEMMA BenchType == ASSUME TypeOK PROVE /\ bench.plain \in BOOLEAN /\ bench.deadline \in BOOLEAN
                                       /\ bench.lengths \in BOOLEAN
                                       /\ Rounds \in Nat \ {0}
<1>1. bench \in Benches
  BY DEF TypeOK
<1>2. bench.plain \in BOOLEAN /\ bench.deadline \in BOOLEAN /\ bench.lengths \in BOOLEAN
  <2>1. CASE bench = Repohard
    BY <2>1 DEF Repohard
  <2>2. CASE bench = Arch
    BY <2>2 DEF Arch
  <2>3. CASE bench = Claim
    BY <2>3 DEF Claim
  <2>4. CASE bench = Audittrap
    BY <2>4 DEF Audittrap
  <2>5. CASE bench = Pyhard
    BY <2>5 DEF Pyhard
  <2>6. CASE bench = Cursor
    BY <2>6 DEF Cursor
  <2> QED
    BY <1>1, <2>1, <2>2, <2>3, <2>4, <2>5, <2>6 DEF Benches
<1> QED
  BY <1>2 DEF Rounds

LEMMA InitInv == Init => IInv
<1> SUFFICES ASSUME Init PROVE IInv
  OBVIOUS
<1>1. TypeOK
  <2>1. Rounds \in Nat \ {0}
    BY DEF Rounds
  <2>2. /\ lines \in Seq(Lines) /\ Len(lines) <= MaxLines /\ page \in Seq(Marks)
        /\ hits \in [Sizes -> Nat] /\ consec \in Nat
    BY DEF Init, NoHits
  <2>3. round \in 0..Rounds /\ tools \in 0..MaxTools /\ attempt \in 1..Retries
    BY <2>1 DEF Init
  <2>4. bench \in Loops /\ pc \in {"top", "cursor"} /\ runner \in {"gone", "loaded", "expired"}
    BY DEF Init
  <2>5. /\ said \in Said /\ thought \in Thought /\ reason = "none" /\ row = "none"
        /\ nudges \in 0..2 /\ cuts \in 0..2
    BY DEF Init, Said, Thought
  <2>7. heard \in [said : Said, thought : Thought]
    BY DEF Init, Silence, Said, Thought
  <2>6. /\ late \in BOOLEAN /\ inThink \in BOOLEAN
        /\ thinkOpened \in BOOLEAN /\ contentStarted \in BOOLEAN /\ final \in BOOLEAN
    BY DEF Init
  <2> QED
    BY <2>2, <2>3, <2>4, <2>5, <2>6, <2>7 DEF TypeOK
<1>2. Unfinished /\ Heard /\ GradedWasSaid
  BY DEF Init, Unfinished, Heard, StreamWasHeard, ReplyWasHeard, FinalWasHeard, Idle, NoThoughtYet,
         OneCursor, GradedWasSaid
<1>3. PageOK
  BY DEF Init, PageOK, Apart, Closed, Inside
<1>4. Counted
  <2>1. lines = <<>> /\ Sizes \subseteq Nat \ {0}
    BY DEF Init
  <2>2. \A n \in Nat \ {0} : \A p : ~Repeats(<<>>, n, p)
    BY DEF Repeats
  <2>3. \A bl \in Sizes, k \in Nat \ {0} : 2 * bl + k - 1 \in Nat \ {0}
    BY <2>1
  <2> QED
    BY <2>1, <2>2, <2>3 DEF Counted, LinesCounted, BlocksCounted
<1> QED
  BY <1>1, <1>2, <1>3, <1>4 DEF IInv

\* What the answers to a reply have in common.
Replies == Plain \/ Accept \/ Nudge \/ CutOff \/ ProtocolError \/ Dispatch
Replied ==
  /\ pc = "reply" /\ UNCHANGED <<bench, round, late, attempt, runner, stream, reason, tags, heard>>
  /\ final' = IF bench.plain THEN said # "blank" ELSE HasFinal
  /\ \/ row' = Graded(final') /\ pc' = "over"
     \/ pc' = "top" /\ row' = row /\ cuts' <= 1
  /\ nudges' \in 0..2 /\ cuts' \in 0..2 /\ tools' \in 0..MaxTools

LEMMA RepliesAre == ASSUME TypeOK, Unfinished, Replies PROVE Replied
<1>1. cuts \in 0..2 /\ nudges \in 0..2 /\ tools \in 0..MaxTools
  BY DEF TypeOK
<1>2. pc = "reply" => cuts \in 0..1
  BY <1>1 DEF Unfinished
<1>3. CASE Plain
  BY <1>1, <1>2, <1>3 DEF Plain, Reply, Replied
<1>4. CASE Accept
  BY <1>1, <1>2, <1>4 DEF Accept, InLoop, Reply, Replied
<1>5. CASE Nudge
  BY <1>1, <1>2, <1>5 DEF Nudge, InLoop, Reply, Replied
<1>6. CASE CutOff
  BY <1>1, <1>2, <1>6 DEF CutOff, Unnudged, InLoop, Reply, Replied
<1>7. CASE ProtocolError
  BY <1>1, <1>2, <1>7 DEF ProtocolError, Unnudged, InLoop, Reply, Replied
<1>8. CASE Dispatch
  BY <1>1, <1>2, <1>8 DEF Dispatch, Unnudged, InLoop, Reply, Replied
<1> QED
  BY <1>3, <1>4, <1>5, <1>6, <1>7, <1>8 DEF Replies

\* A step is one of these.
LEMMA Steps ==
  ASSUME [Next]_vars
  PROVE  \/ UnloadExpired \/ Think \/ Answer \/ Stall \/ HttpError \/ Lost \/ Done \/ Abort
         \/ Request \/ Top \/ Replies \/ AskCursor \/ TimeIsUp \/ UNCHANGED vars
BY DEF Next, Chat, Loop, Replies

\* The types of the task and its chat call.
TypeTask ==
  /\ bench \in Loops
  /\ pc \in {"top", "ready", "stream", "reply", "cursor", "over"}
  /\ round \in 0..Rounds /\ tools \in 0..MaxTools /\ nudges \in 0..2 /\ cuts \in 0..2
  /\ late \in BOOLEAN /\ attempt \in 1..Retries
  /\ runner \in {"gone", "loaded", "expired", "wedged"}
  /\ final \in BOOLEAN
  /\ row \in {"none", "graded", "empty", "timeout", "error"}

\* The types of the stream and the page.
TypeStream ==
  /\ said \in Said /\ thought \in Thought
  /\ lines \in Seq(Lines) /\ Len(lines) <= MaxLines
  /\ consec \in Nat /\ hits \in [Sizes -> Nat]
  /\ reason \in {"none", "stop", "length", "incomplete_stream", "think_loop", "think_budget",
                 "think_promoted"}
  /\ page \in Seq(Marks)
  /\ inThink \in BOOLEAN /\ thinkOpened \in BOOLEAN /\ contentStarted \in BOOLEAN
  /\ heard \in [said : Said, thought : Thought]

LEMMA TypeParts == TypeOK <=> TypeTask /\ TypeStream
BY DEF TypeOK, TypeTask, TypeStream

LEMMA TypeTaskStep == ASSUME TypeOK, Unfinished, [Next]_vars PROVE TypeTask'
<1>0. /\ TypeTask /\ Rounds \in Nat \ {0} /\ bench.plain \in BOOLEAN /\ bench.deadline \in BOOLEAN
  BY BenchType, TypeParts
<1>a. bench' = bench => Rounds' = Rounds
  BY DEF Rounds
<1>1. CASE UnloadExpired
  BY <1>0, <1>a, <1>1 DEF TypeTask, UnloadExpired, ForceUnload
<1>2. CASE Think
  BY <1>0, <1>a, <1>2 DEF TypeTask, Think
<1>3. CASE Answer
  BY <1>0, <1>a, <1>3 DEF TypeTask, Answer
<1>4. CASE Stall
  <2>1. runner' \in {"gone", "wedged"}
    BY <1>4 DEF Stall
  <2>2. attempt' \in 1..Retries /\ pc' \in {"ready", "over"} /\ row' \in {row, "timeout"}
    BY <1>0, <1>4 DEF TypeTask, Stall, Again
  <2> QED
    BY <1>0, <1>a, <1>4, <2>1, <2>2 DEF TypeTask, Stall
<1>5. CASE HttpError
  BY <1>0, <1>a, <1>5 DEF TypeTask, HttpError, Again
<1>6. CASE Lost
  BY <1>0, <1>a, <1>6 DEF TypeTask, Lost, Again
<1>7. CASE Done
  BY <1>0, <1>a, <1>7 DEF TypeTask, Done, Return
<1>8. CASE Abort
  BY <1>0, <1>a, <1>8 DEF TypeTask, Abort, Return
<1>9. CASE Request
  BY <1>0, <1>a, <1>9 DEF TypeTask, Request
<1>10. CASE Top
  BY <1>0, <1>a, <1>10 DEF TypeTask, Top, Graded
<1>11. CASE Replies
  <2>1. Replied
    BY <1>11, RepliesAre
  <2>2. final' \in BOOLEAN
    <3>1. CASE bench.plain
      BY <2>1, <3>1 DEF Replied
    <3>2. CASE ~bench.plain
      BY <2>1, <3>2 DEF Replied, HasFinal
    <3> QED
      BY <3>1, <3>2
  <2>3. Graded(final') \in {"graded", "empty"}
    BY DEF Graded
  <2> QED
    BY <1>0, <1>a, <2>1, <2>2, <2>3 DEF TypeTask, Replied
<1>12. CASE AskCursor
  BY <1>0, <1>a, <1>12 DEF TypeTask, AskCursor
<1>13. CASE TimeIsUp
  BY <1>0, <1>a, <1>13 DEF TypeTask, TimeIsUp
<1>14. CASE UNCHANGED vars
  BY <1>0, <1>a, <1>14 DEF TypeTask, vars
<1> QED
  BY <1>1, <1>2, <1>3, <1>4, <1>5, <1>6, <1>7, <1>8, <1>9, <1>10, <1>11, <1>12, <1>13, <1>14, Steps

\* A stream that is given up leaves nothing behind.
LEMMA NothingLeft ==
  ASSUME NoDetector
  PROVE  /\ lines' = <<>> /\ Len(lines') = 0 /\ lines' \in Seq(Lines)
         /\ consec' \in Nat /\ hits' \in [Sizes -> Nat] /\ Counted'
<1>1. lines' = <<>> /\ consec' = 0 /\ hits' = [bl \in Sizes |-> 0] /\ Sizes \subseteq Nat \ {0}
  BY DEF NoDetector, NoHits
<1>2. \A n \in Nat \ {0} : \A p : ~Repeats(<<>>, n, p)
  BY DEF Repeats
<1>3. \A bl \in Sizes, k \in Nat \ {0} : 2 * bl + k - 1 \in Nat \ {0}
  BY <1>1
<1> QED
  BY <1>1, <1>2, <1>3 DEF Counted, LinesCounted, BlocksCounted

LEMMA TypeStreamStep == ASSUME TypeOK, Unfinished, PageOK, Counted, [Next]_vars PROVE TypeStream'
<1>0. TypeStream
  BY TypeParts
<1>1. CASE UnloadExpired
  BY <1>0, <1>1 DEF TypeStream, UnloadExpired
<1>2. CASE Think
  <2>1. PICK l \in Lines : lines' = Append(lines, l) /\ consec' = ConsecAfter(l)
    BY <1>2 DEF Think
  <2>2. consec' \in Nat /\ hits' \in [Sizes -> Nat]
    BY <1>2, <2>1, LineCounted, BlockCounted DEF Think
  <2>3. lines' \in Seq(Lines) /\ Len(lines') <= MaxLines
    BY <1>0, <1>2, <2>1 DEF TypeStream, Think
  <2>4. thought' \in Thought /\ said' = said /\ reason' = reason
        /\ heard' \in [said : Said, thought : Thought]
    BY <1>0, <1>2 DEF TypeStream, Think, Drafted, Thought
  <2>5. page' \in Seq(Marks)
    BY <1>0, <1>2, MarkedPage DEF TypeStream, Think, OnThinking, Marks, PageOK
  <2>6. inThink' \in BOOLEAN /\ thinkOpened' \in BOOLEAN /\ contentStarted' \in BOOLEAN
    BY <1>0, <1>2 DEF TypeStream, Think, OnThinking
  <2> QED
    BY <1>0, <2>2, <2>3, <2>4, <2>5, <2>6 DEF TypeStream
<1>3. CASE Answer
  <2>1. said' \in Said /\ contentStarted' \in BOOLEAN /\ inThink' \in BOOLEAN
    BY <1>0, <1>3 DEF TypeStream, Answer, OnContent, Joined, Pieces, Said
  <2>4. heard' \in [said : Said, thought : Thought]
    BY <1>0, <1>3 DEF TypeStream, Answer, Joined, Pieces, Said
  <2>2. Marked(page, ">") \in Seq(Marks) /\ Apart(Marked(page, ">"))
    BY <1>0, MarkedPage DEF TypeStream, Marks, PageOK
  <2>3. page' \in Seq(Marks)
    BY <1>0, <1>3, <2>2, MarkedPage DEF TypeStream, Answer, OnContent, Marks, PageOK
  <2> QED
    BY <1>0, <1>3, <2>1, <2>3, <2>4 DEF TypeStream, Answer, OnContent
<1>4. CASE Stall
  BY <1>0, <1>4, NothingLeft DEF TypeStream, Stall, NoStream, Said, Thought
<1>5. CASE HttpError
  BY <1>0, <1>5 DEF TypeStream, HttpError
<1>6. CASE Lost
  BY <1>0, <1>6, NothingLeft DEF TypeStream, Lost, NoStream, Said, Thought
<1>7. CASE Done \/ Abort
  <2>1. PICK r \in {"stop", "length", "incomplete_stream", "think_loop", "think_budget"} : Return(r)
    BY <1>7 DEF Done, Abort
  <2>2. thought' = thought /\ heard' = heard
    BY <1>7 DEF Done, Abort
  <2>3. said' \in Said
    BY <1>0, <2>1 DEF Return, TypeStream, Said
  <2>4. /\ reason' \in {"stop", "length", "incomplete_stream", "think_loop", "think_budget",
                       "think_promoted"}
        /\ NoDetector /\ EndRound(said')
    BY <2>1 DEF Return
  <2>5. page' \in Seq(Marks) /\ inThink' \in BOOLEAN /\ thinkOpened' \in BOOLEAN
        /\ contentStarted' \in BOOLEAN
    BY <1>0, <2>4, EndRoundPage DEF EndRound, TypeStream
  <2> QED
    BY <1>0, <2>2, <2>3, <2>4, <2>5, NothingLeft DEF TypeStream
<1>9. CASE Request
  <2>1. heard' \in [said : Said, thought : Thought]
    BY <1>9 DEF Request, Silence, Said, Thought
  <2> QED
    BY <1>0, <1>9, <2>1 DEF TypeStream, Request
<1>10. CASE Top
  <2>a. heard' = heard
    BY <1>10 DEF Top
  <2>1. CASE UNCHANGED <<stream, reason, tags>>
    BY <1>0, <2>a, <2>1 DEF TypeStream
  <2>2. CASE BeginRound /\ NoStream /\ reason' = "none"
    <3>1. page' = <<>> /\ <<>> \in Seq(Marks) /\ said' \in Said /\ thought' \in Thought
      BY <2>2 DEF BeginRound, NoStream, Said, Thought
    <3>2. inThink' \in BOOLEAN /\ thinkOpened' \in BOOLEAN /\ contentStarted' \in BOOLEAN
      BY <2>2 DEF BeginRound
    <3>3. lines' \in Seq(Lines) /\ Len(lines') <= MaxLines /\ consec' \in Nat /\ hits' \in [Sizes -> Nat]
      BY <2>2, NothingLeft DEF NoStream
    <3> QED
      BY <1>0, <2>a, <2>2, <3>1, <3>2, <3>3 DEF TypeStream
  <2> QED
    BY <1>10, <2>1, <2>2 DEF Top
<1>11. CASE Replies
  <2>1. Replied
    BY <1>11, RepliesAre
  <2> QED
    BY <1>0, <2>1 DEF TypeStream, Replied
<1>12. CASE AskCursor
  BY <1>0, <1>12 DEF TypeStream, AskCursor, Said
<1>13. CASE TimeIsUp
  BY <1>0, <1>13 DEF TypeStream, TimeIsUp
<1>14. CASE UNCHANGED vars
  BY <1>0, <1>14 DEF TypeStream, vars
<1> QED
  BY <1>1, <1>2, <1>3, <1>4, <1>5, <1>6, <1>7, <1>9, <1>10, <1>11, <1>12, <1>13, <1>14, Steps

\* A task that has its row is over.
LEMMA TaskStep == ASSUME TypeOK, Unfinished, [Next]_vars PROVE Unfinished'
<1> USE DEF TypeOK, Unfinished
<1>1. CASE UnloadExpired
  BY <1>1 DEF UnloadExpired, ForceUnload
<1>2. CASE Think
  BY <1>2 DEF Think
<1>3. CASE Answer
  BY <1>3 DEF Answer
<1>4. CASE Stall
  BY <1>4 DEF Stall, Again
<1>5. CASE HttpError
  BY <1>5 DEF HttpError, Again
<1>6. CASE Lost
  BY <1>6 DEF Lost, Again
<1>7. CASE Done
  BY <1>7 DEF Done, Return
<1>8. CASE Abort
  BY <1>8 DEF Abort, Return
<1>9. CASE Request
  BY <1>9 DEF Request
<1>10. CASE Top
  BY <1>10 DEF Top
<1>11. CASE Replies
  <2>1. Replied
    BY <1>11, RepliesAre
  <2> QED
    BY <2>1 DEF Replied
<1>12. CASE AskCursor
  BY <1>12 DEF AskCursor
<1>13. CASE TimeIsUp
  BY <1>13 DEF TimeIsUp
<1>14. CASE UNCHANGED vars
  BY <1>14 DEF vars
<1> QED
  BY <1>1, <1>2, <1>3, <1>4, <1>5, <1>6, <1>7, <1>8, <1>9, <1>10, <1>11, <1>12, <1>13, <1>14, Steps

\* What a stream amounts to is taken from what arrives, a reply from the stream,
\* and nothing arrives between a reply and its row or the end of the rounds.
LEMMA HeardStep ==
  ASSUME TypeOK, Unfinished, Heard, GradedWasSaid, [Next]_vars
  PROVE  Heard' /\ GradedWasSaid'
<1> USE DEF Unfinished, Heard, StreamWasHeard, ReplyWasHeard, FinalWasHeard, Idle, NoThoughtYet,
            OneCursor, GradedWasSaid, Amounts, Answered
<1>0. heard \in [said : Said, thought : Thought] /\ round \in Nat /\ Rounds \in Nat \ {0}
      /\ lines \in Seq(Lines)
  BY BenchType DEF TypeOK
<1>1. CASE UnloadExpired
  BY <1>1 DEF UnloadExpired
<1>2. CASE Think
  <2>1. lines' # <<>> /\ pc' = "stream" /\ said' = said /\ row' = row
    BY <1>0, <1>2 DEF Think
  <2>2. thought' = heard'.thought /\ heard'.said = heard.said
    BY <1>0, <1>2 DEF Think
  <2> QED
    BY <1>2, <2>1, <2>2 DEF Think
<1>3. CASE Answer
  <2>1. said' = heard'.said /\ heard'.thought = heard.thought
    BY <1>0, <1>3 DEF Answer
  <2> QED
    BY <1>3, <2>1 DEF Answer
<1>4. CASE Stall
  BY <1>4 DEF Stall, Again, NoStream
<1>5. CASE HttpError
  BY <1>5 DEF HttpError, Again
<1>6. CASE Lost
  BY <1>6 DEF Lost, Again, NoStream
<1>7. CASE Done \/ Abort
  <2>1. PICK r : Return(r)
    BY <1>7 DEF Done, Abort
  <2> QED
    BY <1>7, <2>1 DEF Done, Abort, Return
<1>9. CASE Request
  BY <1>9 DEF Request, Silence
<1>10. CASE Top
  BY <1>0, <1>10 DEF Top, NoStream, Graded
<1>11. CASE Replies
  <2>1. Replied
    BY <1>11, RepliesAre
  <2>2. final' <=> Answered'
    BY <2>1, BenchType DEF Replied, HasFinal
  <2> QED
    BY <2>1, <2>2 DEF Replied, Graded
<1>12. CASE AskCursor
  BY <1>12 DEF AskCursor
<1>13. CASE TimeIsUp
  BY <1>13 DEF TimeIsUp
<1>14. CASE UNCHANGED vars
  BY <1>14 DEF vars
<1> QED
  BY <1>1, <1>2, <1>3, <1>4, <1>5, <1>6, <1>7, <1>9, <1>10, <1>11, <1>12, <1>13, <1>14, Steps

\* The page; a block stays open from a first attempt to the next, and the answer
\* or the end of the round closes it.
LEMMA PageStep == ASSUME TypeOK, Unfinished, PageOK, [Next]_vars PROVE PageOK'
<1>0. page \in Seq(Marks)
  BY DEF TypeOK
<1>a. ASSUME UNCHANGED tags, pc' \in {"top", "reply"} => pc \in {"top", "reply"} PROVE PageOK'
  BY <1>a DEF PageOK, Apart, Closed, Inside
<1>1. CASE UnloadExpired \/ HttpError \/ Request \/ TimeIsUp \/ AskCursor \/ Stall \/ Lost
  BY <1>1, <1>a DEF UnloadExpired, HttpError, Request, TimeIsUp, AskCursor, Stall, Lost, Again
<1>2. CASE Think
  <2>1. pc' = "stream" /\ OnThinking
    BY <1>2 DEF Think
  <2>2. CASE thinkOpened
    <3>1. page' = page /\ pc' = "stream" /\ inThink' = inThink
      BY <2>1, <2>2 DEF OnThinking, TypeOK
    <3> QED
      BY <3>1 DEF PageOK, Apart, Closed, Inside
  <2>3. CASE ~thinkOpened
    <3>1. page' = Marked(page, "<") /\ inThink' = TRUE
      BY <2>1, <2>3 DEF OnThinking
    <3>2. Apart(Marked(page, "<"))
      BY <1>0, MarkedPage DEF PageOK, Marks
    <3> QED
      BY <2>1, <3>1, <3>2 DEF PageOK, Apart, Inside
  <2> QED
    BY <2>2, <2>3 DEF TypeOK
<1>3. CASE Answer
  <2> DEFINE closed == IF inThink THEN Marked(page, ">") ELSE page
  <2>1. closed \in Seq(Marks) /\ Apart(closed) /\ Closed(closed)
    BY <1>0, MarkedPage DEF PageOK, Marks
  <2>2. page' = Marked(closed, "c") /\ inThink' = FALSE /\ pc' = "stream"
    BY <1>3 DEF Answer, OnContent
  <2> HIDE DEF closed
  <2>3. Apart(page') /\ Closed(page')
    BY <2>1, <2>2, MarkedPage DEF Marks
  <2> QED
    BY <2>2, <2>3 DEF PageOK, Apart, Closed, Inside
<1>7. CASE Done \/ Abort
  <2>1. EndRound(said')
    BY <1>7 DEF Done, Abort, Return
  <2>2. Apart(page') /\ Closed(page') /\ inThink' = FALSE
    BY <2>1, EndRoundPage
  <2> QED
    BY <2>2 DEF PageOK, Apart, Closed, Inside
<1>10. CASE Top
  <2>1. CASE UNCHANGED tags
    BY <1>10, <2>1, <1>a DEF Top
  <2>2. CASE BeginRound
    BY <2>2 DEF BeginRound, PageOK, Apart, Closed, Inside
  <2> QED
    BY <1>10, <2>1, <2>2 DEF Top
<1>11. CASE Replies
  <2>1. Replied
    BY <1>11, RepliesAre
  <2> QED
    BY <2>1, <1>a DEF Replied
<1>14. CASE UNCHANGED vars
  BY <1>14, <1>a DEF vars
<1> QED
  BY <1>1, <1>2, <1>3, <1>7, <1>10, <1>11, <1>14, Steps

\* The detector forgets with the stream, and counts with each line of it.
LEMMA CountedStep == ASSUME TypeOK, Unfinished, Counted, [Next]_vars PROVE Counted'
<1>a. ASSUME UNCHANGED detector PROVE Counted'
  BY <1>a DEF Counted, LinesCounted, BlocksCounted, Repeats
<1>1. CASE UnloadExpired \/ Answer \/ HttpError \/ Request \/ TimeIsUp \/ AskCursor
  BY <1>1, <1>a DEF UnloadExpired, Answer, HttpError, Request, TimeIsUp, AskCursor
<1>2. CASE Think
  <2>1. PICK l \in Lines : lines' = Append(lines, l) /\ consec' = ConsecAfter(l)
    BY <1>2 DEF Think
  <2>2. hits' = HitsAfter(Append(lines, l))
    BY <1>2, <2>1 DEF Think
  <2>3. /\ LinesCounted(Append(lines, l), ConsecAfter(l))
        /\ BlocksCounted(Append(lines, l), HitsAfter(Append(lines, l)))
    BY LineCounted, BlockCounted
  <2> QED
    BY <2>1, <2>2, <2>3 DEF Counted, LinesCounted, BlocksCounted, Repeats
<1>4. CASE Stall \/ Lost \/ Done \/ Abort
  <2>1. NoDetector
    BY <1>4 DEF Stall, Lost, Done, Abort, Return, NoStream
  <2> QED
    BY <2>1, NothingLeft
<1>10. CASE Top
  BY <1>10, <1>a, NothingLeft DEF Top, NoStream
<1>11. CASE Replies
  <2>1. Replied
    BY <1>11, RepliesAre
  <2> QED
    BY <2>1, <1>a DEF Replied
<1>14. CASE UNCHANGED vars
  BY <1>14, <1>a DEF vars
<1> QED
  BY <1>1, <1>2, <1>4, <1>10, <1>11, <1>14, Steps

LEMMA NextInv == IInv /\ [Next]_vars => IInv'
<1> SUFFICES ASSUME IInv, [Next]_vars PROVE IInv'
  OBVIOUS
<1>1. TypeTask' /\ TypeStream'
  BY TypeTaskStep, TypeStreamStep DEF IInv
<1>2. TypeOK'
  BY <1>1 DEF TypeOK, TypeTask, TypeStream
<1>3. Unfinished' /\ Heard' /\ GradedWasSaid' /\ PageOK' /\ Counted'
  BY TaskStep, HeardStep, PageStep, CountedStep DEF IInv
<1> QED
  BY <1>2, <1>3 DEF IInv

LEMMA Invariant == Spec => []IInv
BY InitInv, NextInv, PTL DEF Spec

----------------------------------------------------------------------------
(* What follows from it. *)

\* The types: a task stays within its rounds, tool calls, nudges and attempts.
THEOREM TypeCorrect == Spec => []TypeOK
BY Invariant, PTL DEF IInv

\* However a stream was cut off, retried or promoted, its answer is never shown
\* inside the thinking, and a round that is over is closed.
THEOREM AnswersAreNoThinking == Spec => []AnswerIsNoThinking
<1>1. IInv => AnswerIsNoThinking
  BY DEF IInv, PageOK, Apart, Closed, AnswerIsNoThinking
<1> QED
  BY <1>1, Invariant, PTL

\* Whatever the retries, promotions, nudges and deadlines, a row is graded exactly
\* for an answer that has arrived since the last request.
THEOREM GradesAreOfTheLastReply == Spec => []GradedWasSaid
BY Invariant, PTL DEF IInv

\* The counts of the detector miss no loop: for any limits and sizes, no line is
\* taken after so many repetitions of a line or of a block.
THEOREM LoopsAreCut == Spec => NoLoopGoesOn
<1> DEFINE Cut == Rescue /\ Len(lines') > Len(lines) =>
              ~Periodic(LineRepeat, 1)
                /\ \A bl \in Sizes : ~Periodic(2 * bl + BlockRepeat - 1, bl)
<1>1. ASSUME IInv, [Next]_vars PROVE Cut
  <2> SUFFICES ASSUME Rescue, Len(lines') > Len(lines)
               PROVE  ~Periodic(LineRepeat, 1)
                        /\ \A bl \in Sizes : ~Periodic(2 * bl + BlockRepeat - 1, bl)
    OBVIOUS
  <2>0. lines \in Seq(Lines) /\ Len(lines) \in Nat /\ consec \in Nat /\ hits \in [Sizes -> Nat]
    BY <1>1 DEF IInv, TypeOK
  <2>a. lines' # lines /\ lines' # <<>>
    BY <2>0
  <2>1. Think
    <3>1. ~UnloadExpired /\ ~Answer /\ ~HttpError /\ ~Request /\ ~TimeIsUp /\ ~AskCursor
      BY <2>a DEF UnloadExpired, Answer, HttpError, Request, TimeIsUp, AskCursor
    <3>2. ~Stall /\ ~Lost /\ ~Done /\ ~Abort
      BY <2>a DEF Stall, Lost, Done, Abort, Return, NoStream, NoDetector
    <3>3. ~Top
      BY <2>a DEF Top, NoStream, NoDetector
    <3>4. ~Replies
      BY <2>a DEF Replies, Plain, Accept, Nudge, CutOff, ProtocolError, Dispatch, Reply
    <3>5. ~UNCHANGED vars
      BY <2>a DEF vars
    <3> QED
      BY <1>1, <3>1, <3>2, <3>3, <3>4, <3>5, Steps
  <2>2. consec < LineRepeat /\ \A bl \in Sizes : hits[bl] < BlockRepeat
    BY <2>0, <2>1 DEF Think, Looping
  <2>3. LinesCounted(lines, consec) /\ BlocksCounted(lines, hits)
    BY <1>1 DEF IInv, Counted
  <2>4. ~Repeats(lines, LineRepeat, 1)
    BY <2>0, <2>2, <2>3 DEF LinesCounted
  <2>5. \A bl \in Sizes : ~Repeats(lines, 2 * bl + BlockRepeat - 1, bl)
    BY <2>0, <2>2, <2>3 DEF BlocksCounted
  <2> QED
    BY <2>4, <2>5 DEF Repeats, Periodic
<1>2. IInv /\ [Next]_vars => [Cut]_vars
  BY <1>1
<1> QED
  BY <1>2, Invariant, PTL DEF Spec, NoLoopGoesOn

=============================================================================
