---------------------------- MODULE ProxyProofs ----------------------------
(***************************************************************************)
(* Proofs about Proxy, for any clients, any number of requests, chunks and *)
(* tool calls, and any order of their threads.                             *)
(*                                                                         *)
(* That each client is sent the beginning of a well-formed message is a    *)
(* refinement of MessageStream.  What is sent is decided a chunk at a time *)
(* and written a piece at a time, so the invariant is about both: what the *)
(* client has and what is still to be written, put together, are well      *)
(* formed, and the locals of stream_anthropic say how many blocks of it    *)
(* have been opened and which is open.                                     *)
(*                                                                         *)
(* That requests made in turn are told apart rightly is a fact about the   *)
(* reader of the log alone, by induction over the rows.                    *)
(***************************************************************************)
EXTENDS Proxy, Integers, SequenceTheorems, FiniteSetTheorems, WellFoundedInduction, TLAPS

----------------------------------------------------------------------------
(* The types. *)

Place == {"idle", "asking", "streaming", "ending", "dead"}
Event == [event : {"message_start", "content_block_start", "content_block_delta",
                   "content_block_stop", "message_delta", "message_stop"},
          index : Int, kind : {"none", "half", "thinking", "text", "tool_use", "end_turn"}]
Gatherings == {NoCall, "empty", "half", "whole"}
Said == [index : Nat, open : {"none", "thinking", "text"}, pending : [1..Slots -> Gatherings],
         finish : {"stop", "length", "tool_calls"}]
Row == [event : {"request", "upstream_error", "too_long", "upstream_unreachable", "done",
                 "client_gone"}, of : Agents]

TypeOK ==
  /\ at \in [Agents -> Place]
  /\ said \in [Agents -> Said]
  /\ due \in [Agents -> Seq(Event)]
  /\ heard \in [Agents -> Seq(Event)]

LogIsRows == log \in Seq(Row)

----------------------------------------------------------------------------
(* The grammar, on what has been sent so far. *)

Starts(h) == Client!Events(h, "content_block_start")

\* What may be sent next.
Legal(h, p) ==
  \/ h = <<>> /\ p = Piece("message_start", 0, "none")
  \/ Client!Between(h) /\ \E k \in Client!Kinds : p = Piece("content_block_start", Starts(h), k)
  \/ Client!Inside(h) /\ p = Piece("content_block_delta", Last(h).index, Last(h).kind)
  \/ Client!Inside(h) /\ p = Piece("content_block_stop", Last(h).index, Last(h).kind)
  \/ Client!Between(h) /\ \E r \in Client!Reasons : p = Piece("message_delta", 0, r)
  \/ h # <<>> /\ Last(h).event = "message_delta" /\ p = Piece("message_stop", 0, "none")

WellFormed(h) ==
  h \in Seq(Event) /\ \A i \in 1..Len(h) : Legal(SubSeq(h, 1, i - 1), h[i])

\* Well formed, with n blocks opened and one of this kind open, or none.
Tells(h, n, open) ==
  /\ WellFormed(h) /\ n = Starts(h)
  /\ IF open = "none" THEN Client!Between(h)
     ELSE open \in Client!Kinds /\ Client!Inside(h) /\ Last(h).index = n - 1 /\ Last(h).kind = open

\* A request in each place: where its thread is, its locals, what is still to be
\* written of its answer and what was.
InGrammar(w, s, d, h) ==
  /\ w \in {"idle", "asking", "dead"} => d = <<>>
  /\ w = "asking" => h = <<>>
  /\ w \in {"streaming", "ending"} => WellFormed(h \o d)
  /\ w = "streaming" => Tells(h \o d, s.index, s.open)

IInv == TypeOK /\ \A a \in Agents : InGrammar(at[a], said[a], due[a], heard[a])

----------------------------------------------------------------------------
(* Sequences, one element longer. *)

LEMMA LastOfAppend ==
  ASSUME NEW S, NEW h \in Seq(S), NEW p \in S
  PROVE  /\ Append(h, p) \in Seq(S) /\ Append(h, p) # <<>>
         /\ Len(Append(h, p)) = Len(h) + 1
         /\ Last(Append(h, p)) = p
BY DEF Last

LEMMA PrefixOfAppend ==
  ASSUME NEW S, NEW h \in Seq(S), NEW p \in S, NEW i \in 1..Len(h) + 1
  PROVE  SubSeq(Append(h, p), 1, i - 1) = SubSeq(h, 1, i - 1)
<1> DEFINE x == SubSeq(Append(h, p), 1, i - 1)
           y == SubSeq(h, 1, i - 1)
<1>1. x \in Seq(S) /\ y \in Seq(S) /\ Len(x) = i - 1 /\ Len(y) = i - 1
  OBVIOUS
<1>2. \A j \in 1..Len(x) : x[j] = y[j]
  OBVIOUS
<1> HIDE DEF x, y
<1> QED BY <1>1, <1>2, SeqEqual

\* Two more, and three more.
LEMMA ConcatTwo ==
  ASSUME NEW S, NEW h \in Seq(S), NEW p \in S, NEW q \in S
  PROVE  h \o <<p, q>> = Append(Append(h, p), q)
<1> DEFINE x == h \o <<p, q>>
           y == Append(Append(h, p), q)
<1>1. x \in Seq(S) /\ y \in Seq(S) /\ Len(x) = Len(h) + 2 /\ Len(y) = Len(h) + 2
  OBVIOUS
<1>2. \A j \in 1..Len(x) : x[j] = y[j]
  OBVIOUS
<1> HIDE DEF x, y
<1> QED BY <1>1, <1>2, SeqEqual

LEMMA ConcatOne ==
  ASSUME NEW S, NEW h \in Seq(S), NEW p \in S
  PROVE  h \o <<p>> = Append(h, p)
OBVIOUS

LEMMA Regroup ==
  ASSUME NEW h \in Seq(Event), NEW o \in Seq(Event), NEW b \in Seq(Event)
  PROVE  (h \o o) \o b = h \o (o \o b)
<1> DEFINE x == (h \o o) \o b
           y == h \o (o \o b)
<1>1. x \in Seq(Event) /\ y \in Seq(Event) /\ Len(x) = Len(y)
  OBVIOUS
<1>2. \A i \in 1..Len(x) : x[i] = y[i]
  OBVIOUS
<1> HIDE DEF x, y
<1>3. x = y
  BY <1>1, <1>2, SeqEqual
<1> QED BY <1>3 DEF x, y

LEMMA LiteralTwo ==
  ASSUME NEW S, NEW p \in S, NEW q \in S
  PROVE  <<p>> \o <<q>> = <<p, q>> /\ <<p, q>> \in Seq(S)
<1> DEFINE x == Append(<<p>>, q)
           y == <<p, q>>
<1>1. <<p>> \in Seq(S) /\ y \in Seq(S)
  OBVIOUS
<1>2. <<p>> \o <<q>> = x
  BY <1>1, ConcatOne
<1>3. x \in Seq(S) /\ Len(x) = 2 /\ Len(y) = 2 /\ x[1] = y[1] /\ x[2] = y[2]
  OBVIOUS
<1> HIDE DEF x, y
<1>4. \A i \in 1..Len(x) : x[i] = y[i]
  BY <1>3
<1>5. x = y
  BY <1>1, <1>3, <1>4, SeqEqual
<1> QED BY <1>1, <1>2, <1>5 DEF y

LEMMA LiteralThree ==
  ASSUME NEW S, NEW p \in S, NEW q \in S, NEW r \in S
  PROVE  <<p, q>> \o <<r>> = <<p, q, r>> /\ <<p, q, r>> \in Seq(S)
<1> DEFINE x == Append(<<p, q>>, r)
           y == <<p, q, r>>
<1>1. <<p, q>> \in Seq(S) /\ y \in Seq(S)
  OBVIOUS
<1>2. <<p, q>> \o <<r>> = x
  BY <1>1, ConcatOne
<1>3. x \in Seq(S) /\ Len(x) = 3 /\ Len(y) = 3 /\ x[1] = y[1] /\ x[2] = y[2] /\ x[3] = y[3]
  OBVIOUS
<1> HIDE DEF x, y
<1>4. \A i \in 1..Len(x) : x[i] = y[i]
  BY <1>3
<1>5. x = y
  BY <1>1, <1>3, <1>4, SeqEqual
<1> QED BY <1>1, <1>2, <1>5 DEF y

\* There is an event.
LEMMA EventExists == \E p : p \in Event
<1>1. [event |-> "message_stop", index |-> 0, kind |-> "none"] \in Event
  BY DEF Event
<1> QED BY <1>1

\* How many of an event one more makes.
LEMMA StartsOfAppend ==
  ASSUME NEW h \in Seq(Event), NEW p \in Event
  PROVE  /\ Starts(h) \in Nat
         /\ Starts(Append(h, p)) = IF p.event = "content_block_start" THEN Starts(h) + 1 ELSE Starts(h)
<1> DEFINE n == Len(h)
           A == {i \in DOMAIN h : h[i].event = "content_block_start"}
           g == Append(h, p)
           B == {i \in DOMAIN g : g[i].event = "content_block_start"}
<1>1. n \in Nat /\ A \subseteq 1..n /\ n + 1 \notin A
  OBVIOUS
<1>2. IsFiniteSet(A)
  BY <1>1, FS_Interval, FS_Subset
<1>3. DOMAIN g = 1..n + 1 /\ g[n + 1] = p /\ \A i \in 1..n : g[i] = h[i]
  OBVIOUS
<1>4. B = IF p.event = "content_block_start" THEN A \cup {n + 1} ELSE A
  BY <1>3
<1>5. Starts(h) = Cardinality(A) /\ Starts(g) = Cardinality(B)
  BY Zenon DEF Starts, Client!Events, Client!Cardinality, Cardinality
<1> HIDE DEF A, B
<1>6. Cardinality(A) \in Nat /\ Cardinality(A \cup {n + 1}) = Cardinality(A) + 1
  BY <1>1, <1>2, FS_CardinalityType, FS_AddElement
<1> QED BY <1>4, <1>5, <1>6

----------------------------------------------------------------------------
(* The grammar, a piece at a time. *)

LEMMA LegalAppend ==
  ASSUME NEW h, WellFormed(h), NEW p \in Event, Legal(h, p)
  PROVE  WellFormed(Append(h, p))
<1> DEFINE g == Append(h, p)
<1>1. h \in Seq(Event) /\ Len(h) \in Nat
  BY DEF WellFormed
<1>2. g \in Seq(Event) /\ Len(g) = Len(h) + 1 /\ g[Len(h) + 1] = p /\ \A i \in 1..Len(h) : g[i] = h[i]
  BY <1>1
<1>3. ASSUME NEW i \in 1..Len(g)
      PROVE  Legal(SubSeq(g, 1, i - 1), g[i])
  <2>1. SubSeq(g, 1, i - 1) = SubSeq(h, 1, i - 1)
    BY <1>1, <1>2, PrefixOfAppend
  <2>2. CASE i \in 1..Len(h)
    BY <1>2, <2>1, <2>2 DEF WellFormed
  <2>3. CASE i = Len(h) + 1
    <3>1. SubSeq(h, 1, i - 1) = h
      BY <1>1, <2>3, SubSeqFull
    <3> QED BY <1>2, <2>1, <2>3, <3>1
  <2> QED BY <1>1, <1>2, <2>2, <2>3
<1> HIDE DEF g
<1> QED BY <1>2, <1>3 DEF WellFormed, g

\* A block of a kind is opened, spoken in, and closed.
LEMMA Opened ==
  ASSUME NEW h, NEW n, Tells(h, n, "none"), NEW k \in Client!Kinds
  PROVE  Tells(Append(h, Piece("content_block_start", n, k)), n + 1, k)
<1> DEFINE p == Piece("content_block_start", n, k)
           g == Append(h, p)
<1>1. WellFormed(h) /\ h \in Seq(Event) /\ n = Starts(h) /\ Client!Between(h)
  BY DEF Tells, WellFormed
<1>2. n \in Nat
  BY <1>1, StartsOfAppend, EventExists
<1>3. p \in Event /\ p.event = "content_block_start" /\ p.index = n /\ p.kind = k
  BY <1>2 DEF Piece, Event, Client!Kinds
<1>4. Legal(h, p)
  BY <1>1 DEF Legal
<1>5. WellFormed(g) /\ Starts(g) = n + 1 /\ Last(g) = p /\ g # <<>>
  BY <1>1, <1>3, <1>4, LegalAppend, StartsOfAppend, LastOfAppend
<1> HIDE DEF g, p
<1>6. Client!Inside(g)
  BY <1>3, <1>5 DEF Client!Inside, Client!Last, Last
<1>7. k # "none"
  BY DEF Client!Kinds
<1>8. Last(g).index = (n + 1) - 1 /\ Last(g).kind = k
  BY <1>2, <1>3, <1>5
<1> QED BY <1>5, <1>6, <1>7, <1>8 DEF Tells, g, p

LEMMA SpokenIn ==
  ASSUME NEW h, NEW n, NEW k, k # "none", Tells(h, n, k)
  PROVE  Tells(Append(h, Piece("content_block_delta", n - 1, k)), n, k)
<1> DEFINE p == Piece("content_block_delta", n - 1, k)
           g == Append(h, p)
<1>1. /\ WellFormed(h) /\ h \in Seq(Event) /\ n = Starts(h)
      /\ k \in Client!Kinds /\ Client!Inside(h) /\ Last(h).index = n - 1 /\ Last(h).kind = k
  BY DEF Tells, WellFormed
<1>2. n \in Nat
  BY <1>1, StartsOfAppend, EventExists
<1>3. p \in Event /\ p.event = "content_block_delta" /\ p.index = n - 1 /\ p.kind = k
  BY <1>1, <1>2 DEF Piece, Event, Client!Kinds
<1>4. Legal(h, p)
  BY <1>1 DEF Legal
<1>5. WellFormed(g) /\ Starts(g) = n /\ Last(g) = p /\ g # <<>>
  BY <1>1, <1>3, <1>4, LegalAppend, StartsOfAppend, LastOfAppend
<1> HIDE DEF g, p
<1>6. Client!Inside(g)
  BY <1>3, <1>5 DEF Client!Inside, Client!Last, Last
<1> QED BY <1>1, <1>3, <1>5, <1>6 DEF Tells, g, p

LEMMA Closing ==
  ASSUME NEW h, NEW n, NEW k, k # "none", Tells(h, n, k)
  PROVE  Tells(Append(h, Piece("content_block_stop", n - 1, k)), n, "none")
<1> DEFINE p == Piece("content_block_stop", n - 1, k)
           g == Append(h, p)
<1>1. /\ WellFormed(h) /\ h \in Seq(Event) /\ n = Starts(h)
      /\ k \in Client!Kinds /\ Client!Inside(h) /\ Last(h).index = n - 1 /\ Last(h).kind = k
  BY DEF Tells, WellFormed
<1>2. n \in Nat
  BY <1>1, StartsOfAppend, EventExists
<1>3. p \in Event /\ p.event = "content_block_stop"
  BY <1>1, <1>2 DEF Piece, Event, Client!Kinds
<1>4. Legal(h, p)
  BY <1>1 DEF Legal
<1>5. WellFormed(g) /\ Starts(g) = n /\ Last(g) = p /\ g # <<>>
  BY <1>1, <1>3, <1>4, LegalAppend, StartsOfAppend, LastOfAppend
<1> HIDE DEF g, p
<1>6. Client!Between(g)
  BY <1>3, <1>5 DEF Client!Between, Client!Last, Last
<1> QED BY <1>5, <1>6 DEF Tells, g, p

----------------------------------------------------------------------------
(* What a chunk adds. *)

LEMMA ConcatAppend ==
  ASSUME NEW S, NEW h \in Seq(S), NEW o \in Seq(S), NEW p \in S
  PROVE  /\ h \o o \in Seq(S)
         /\ h \o Append(o, p) = Append(h \o o, p)
<1> DEFINE x == h \o Append(o, p)
           y == Append(h \o o, p)
<1>1. x \in Seq(S) /\ y \in Seq(S) /\ Len(x) = Len(h) + Len(o) + 1 /\ Len(y) = Len(h) + Len(o) + 1
  OBVIOUS
<1>2. \A j \in 1..Len(x) : x[j] = y[j]
  OBVIOUS
<1>3. h \o o \in Seq(S)
  OBVIOUS
<1> HIDE DEF x, y
<1> QED BY <1>1, <1>2, <1>3, SeqEqual DEF x, y

\* The open block closed, or nothing where none is open.
LEMMA CloseTells ==
  ASSUME NEW h \in Seq(Event), NEW o \in Seq(Event), NEW s \in Said, Tells(h \o o, s.index, s.open)
  PROVE  o \o close(s) \in Seq(Event) /\ Tells(h \o (o \o close(s)), s.index, "none")
<1>1. CASE s.open = "none"
  <2>1. close(s) = <<>>
    BY <1>1 DEF close
  <2>2. o \o <<>> = o
    BY ConcatEmptySeq
  <2> QED BY <1>1, <2>1, <2>2
<1>2. CASE s.open # "none"
  <2> DEFINE p == Piece("content_block_stop", s.index - 1, s.open)
  <2>1. p \in Event
    BY <1>2 DEF Piece, Event, Said
  <2>2. close(s) = <<p>>
    BY <1>2 DEF close
  <2>3. Tells(Append(h \o o, p), s.index, "none")
    BY <1>2, Closing
  <2> HIDE DEF p
  <2>4. o \o <<p>> = Append(o, p) /\ Append(o, p) \in Seq(Event)
    BY <2>1, ConcatOne, LastOfAppend
  <2>5. h \o Append(o, p) = Append(h \o o, p)
    BY <2>1, ConcatAppend
  <2> QED BY <2>2, <2>3, <2>4, <2>5
<1> QED BY <1>1, <1>2

\* Some more of a block of a kind keeps the locals and the message in step.
Spoke(h, p) ==
  p = [s |-> p.s, out |-> p.out] /\ p.s \in Said /\ p.out \in Seq(Event) /\ Tells(h \o p.out, p.s.index, p.s.open)

LEMMA SpokenTells ==
  ASSUME NEW h \in Seq(Event), NEW s \in Said, NEW o \in Seq(Event),
         Tells(h \o o, s.index, s.open), NEW k \in {"thinking", "text"}
  PROVE  Spoke(h, Spoken([s |-> s, out |-> o], k))
<1> DEFINE p == [s |-> s, out |-> o]
           q == Spoken(p, k)
<1>1. p.s = s /\ p.out = o
  OBVIOUS
<1>2. s.index \in Nat /\ s.open \in {"none", "thinking", "text"}
  BY DEF Said
<1>3. CASE s.open = k
  <2> DEFINE d == Piece("content_block_delta", s.index - 1, k)
  <2>1. q = [p EXCEPT !.out = Append(@, d)]
    BY <1>1, <1>3, Zenon DEF Spoken
  <2>2. d \in Event
    BY <1>2 DEF Piece, Event
  <2>3. Tells(Append(h \o o, d), s.index, k)
    BY <1>3, SpokenIn
  <2> HIDE DEF d, q
  <2>4. q = [s |-> s, out |-> Append(o, d)]
    BY <2>1
  <2>5. Append(o, d) \in Seq(Event)
    BY <2>2
  <2>6. h \o Append(o, d) = Append(h \o o, d)
    BY <2>2, ConcatAppend
  <2>7. q.s = s /\ q.out = Append(o, d) /\ q = [s |-> q.s, out |-> q.out]
    BY <2>4
  <2>8. Spoke(h, q)
    BY <1>3, <2>3, <2>5, <2>6, <2>7 DEF Spoke
  <2> QED BY <2>8 DEF q
<1>4. CASE s.open # k
  <2> DEFINE b == Piece("content_block_start", s.index, k)
             d == Piece("content_block_delta", s.index, k)
             t == [s EXCEPT !.index = @ + 1, !.open = k]
             c == o \o close(s)
  <2>1. q = [s |-> t, out |-> c \o <<b, d>>]
    BY <1>1, <1>4, Zenon DEF Spoken
  <2>2. b \in Event /\ d \in Event
    BY <1>2 DEF Piece, Event
  <2>3. t \in Said /\ t.index = s.index + 1 /\ t.open = k
    <3> DEFINE u == [s EXCEPT !.index = s.index + 1]
    <3>1. u \in Said /\ u.index = s.index + 1
      BY DEF Said
    <3>2. t = [u EXCEPT !.open = k]
      BY DEF Said
    <3> HIDE DEF u, t
    <3>3. t \in Said /\ t.index = u.index /\ t.open = k
      BY <3>1, <3>2 DEF Said
    <3> QED BY <3>1, <3>3
  <2>4. c \in Seq(Event) /\ Tells(h \o c, s.index, "none")
    BY CloseTells
  <2>5. Tells(Append(h \o c, b), s.index + 1, k)
    BY <2>4, Opened DEF Client!Kinds
  <2>6. Tells(Append(Append(h \o c, b), d), s.index + 1, k)
    <3>1. d = Piece("content_block_delta", (s.index + 1) - 1, k)
      BY <1>2
    <3>2. Tells(Append(Append(h \o c, b), Piece("content_block_delta", (s.index + 1) - 1, k)),
                s.index + 1, k)
      BY <2>5, SpokenIn
    <3> QED BY <3>1, <3>2, Zenon
  <2> HIDE DEF b, d, t, c, q
  <2>7. c \o <<b, d>> = Append(Append(c, b), d) /\ Append(c, b) \in Seq(Event)
    BY <2>2, <2>4, ConcatTwo, LastOfAppend
  <2>8. h \o Append(Append(c, b), d) = Append(Append(h \o c, b), d)
    <3>1. h \o Append(Append(c, b), d) = Append(h \o Append(c, b), d)
      BY <2>2, <2>7, ConcatAppend
    <3>2. h \o Append(c, b) = Append(h \o c, b)
      BY <2>2, <2>4, ConcatAppend
    <3> QED BY <3>1, <3>2
  <2>9. Append(Append(c, b), d) \in Seq(Event)
    BY <2>2, <2>7, LastOfAppend
  <2>10. q.s = t /\ q.out = Append(Append(c, b), d) /\ q = [s |-> q.s, out |-> q.out]
    BY <2>1, <2>7
  <2>11. Spoke(h, q)
    BY <2>3, <2>6, <2>8, <2>9, <2>10 DEF Spoke
  <2> QED BY <2>11 DEF q
<1> HIDE DEF q
<1> QED BY <1>3, <1>4 DEF q

----------------------------------------------------------------------------
(* What the end of the stream adds. *)

\* A block of its own.
LEMMA BlockTells ==
  ASSUME NEW h \in Seq(Event), NEW n, Tells(h, n, "none"), NEW k \in Client!Kinds,
         NEW d \in {<<>>, <<Piece("content_block_delta", n, k)>>}
  PROVE  Block(n, k, d) \in Seq(Event) /\ Tells(h \o Block(n, k, d), n + 1, "none")
<1> DEFINE b == Piece("content_block_start", n, k)
           m == Piece("content_block_delta", n, k)
           e == Piece("content_block_stop", n, k)
<1>1. n \in Nat
  BY StartsOfAppend, EventExists DEF Tells
<1>2. b \in Event /\ m \in Event /\ e \in Event
  BY <1>1 DEF Piece, Event, Client!Kinds
<1>3. (n + 1) - 1 = n /\ k # "none"
  BY <1>1 DEF Client!Kinds
<1>4. Tells(Append(h, b), n + 1, k)
  BY Opened
<1>5. \A g : Tells(g, n + 1, k) => Tells(Append(g, m), n + 1, k) /\ Tells(Append(g, e), n + 1, "none")
  BY <1>3, SpokenIn, Closing
<1> HIDE DEF b, m, e
<1>6. CASE d = <<>>
  <2>1. Block(n, k, d) = (<<b>> \o d) \o <<e>>
    BY Zenon DEF Block, b, e
  <2>2. <<b>> \o d = <<b>> /\ <<b>> \o <<e>> = <<b, e>>
    <3>1. <<b>> \o <<e>> = <<b, e>>
      BY <1>2, LiteralTwo
    <3>2. <<b>> \in Seq(Event)
      BY <1>2
    <3>3. <<b>> \o <<>> = <<b>>
      BY <3>2, ConcatEmptySeq
    <3> QED BY <1>6, <3>1, <3>3
  <2>3. <<b, e>> \in Seq(Event)
    BY <1>2
  <2>4. h \o <<b, e>> = Append(Append(h, b), e)
    BY <1>2, ConcatTwo
  <2> QED BY <1>4, <1>5, <2>1, <2>2, <2>3, <2>4
<1>7. CASE d = <<m>>
  <2>1. Block(n, k, d) = (<<b>> \o d) \o <<e>>
    BY Zenon DEF Block, b, e
  <2>2. <<b>> \o d = <<b, m>> /\ <<b, m>> \o <<e>> = <<b, m, e>>
    BY <1>2, <1>7, LiteralTwo, LiteralThree
  <2>3. <<b, m, e>> \in Seq(Event)
    BY <1>2
  <2>4. h \o <<b, m, e>> = Append(Append(Append(h, b), m), e)
    <3>1. <<b, m, e>> = Append(<<b, m>>, e) /\ <<b, m>> \in Seq(Event)
      BY <1>2
    <3> QED BY <1>2, <3>1, ConcatTwo, ConcatAppend
  <2> QED BY <1>4, <1>5, <2>1, <2>2, <2>3, <2>4
<1> QED BY <1>6, <1>7 DEF m

\* A non-empty set of naturals has a least element.
LEMMA LeastNat ==
  ASSUME NEW T \in SUBSET Nat, T # {}
  PROVE  \E n \in T : \A m \in T : n <= m
<1> DEFINE R == {ss \in Nat \X Nat : ss[1] < ss[2]}
<1>1. IsWellFoundedOn(R, Nat)
  BY NatLessThanWellFounded, Zenon DEF OpToRel
<1>2. \E x \in T : \A y \in T : ~(<<y, x>> \in R)
  <2> HIDE DEF R
  <2> QED BY <1>1, WFMin, Zenon
<1>3. \A x, y \in T : x <= y \/ <<y, x>> \in R
  OBVIOUS
<1> HIDE DEF R
<1> QED BY <1>2, <1>3

\* The calls gathered are what their recursion says they are.
NoCalls(s) == [index |-> s.index, dropped |-> FALSE, sent |-> FALSE, out |-> close(s)]
CallsUpTo(c, s, n) ==
  c = [k \in 0..n |-> IF k = 0 THEN NoCalls(s) ELSE Called(c[k - 1], s.pending[k])]

LEMMA CallingIs ==
  ASSUME NEW s
  PROVE  CallsUpTo(Calling(s), s, Slots)
<1> DEFINE T == {n \in 0..Slots : ~\E c : CallsUpTo(c, s, n)}
<1>1. T = {}
  <2> SUFFICES ASSUME T # {}
               PROVE  FALSE
    OBVIOUS
  <2>1. T \subseteq Nat
    OBVIOUS
  <2>2. PICK n \in T : \A m \in T : n <= m
    BY <2>1, LeastNat
  <2>3. n \in Nat /\ n <= Slots
    BY ProxyAssumption
  <2>4. CASE n = 0
    <3> DEFINE c == [k \in 0..0 |-> NoCalls(s)]
    <3>1. \A k \in 0..0 : c[k] = IF k = 0 THEN NoCalls(s) ELSE Called(c[k - 1], s.pending[k])
      OBVIOUS
    <3>2. c = [k \in 0..0 |-> IF k = 0 THEN NoCalls(s) ELSE Called(c[k - 1], s.pending[k])]
      BY <3>1
    <3> HIDE DEF c
    <3> QED BY <2>4, <3>2 DEF CallsUpTo
  <2>5. CASE n # 0
    <3>1. n - 1 \in Nat /\ n - 1 \in 0..Slots
      BY <2>3, <2>5, ProxyAssumption
    <3>2. n - 1 \notin T
      BY <2>2, <2>3
    <3>3. PICK g : CallsUpTo(g, s, n - 1)
      BY <3>1, <3>2
    <3> DEFINE c == [k \in 0..n |-> IF k < n THEN g[k] ELSE Called(g[n - 1], s.pending[n])]
    <3>4. \A k \in 0..n : c[k] = IF k = 0 THEN NoCalls(s) ELSE Called(c[k - 1], s.pending[k])
      <4> SUFFICES ASSUME NEW k \in 0..n
                   PROVE  c[k] = IF k = 0 THEN NoCalls(s) ELSE Called(c[k - 1], s.pending[k])
        OBVIOUS
      <4>1. CASE k < n
        <5>1. k \in 0..(n - 1) /\ c[k] = g[k] /\ (k # 0 => c[k - 1] = g[k - 1])
          BY <2>3, <4>1
        <5>2. g[k] = IF k = 0 THEN NoCalls(s) ELSE Called(g[k - 1], s.pending[k])
          BY <3>3, <5>1 DEF CallsUpTo
        <5> HIDE DEF c
        <5> QED BY <5>1, <5>2
      <4>2. CASE k = n
        <5>1. c[k] = Called(g[n - 1], s.pending[n]) /\ c[k - 1] = g[n - 1]
          BY <2>3, <2>5, <4>2
        <5> HIDE DEF c
        <5> QED BY <2>5, <4>2, <5>1
      <4> QED BY <2>3, <4>1, <4>2
    <3>5. c = [k \in 0..n |-> IF k = 0 THEN NoCalls(s) ELSE Called(c[k - 1], s.pending[k])]
      BY <3>4
    <3> HIDE DEF c
    <3> QED BY <3>5 DEF CallsUpTo
  <2> QED BY <2>4, <2>5
<1>2. Slots \in 0..Slots
  BY ProxyAssumption
<1>3. \E c : CallsUpTo(c, s, Slots)
  BY <1>1, <1>2
<1> QED BY <1>3, Zenon DEF CallsUpTo, NoCalls, Calling

\* What there is to send up to each call is a message with no block open.
CallsTell(h, p) ==
  /\ p \in [index : Nat, dropped : BOOLEAN, sent : BOOLEAN, out : Seq(Event)]
  /\ Tells(h \o p.out, p.index, "none")

LEMMA CalledTells ==
  ASSUME NEW h \in Seq(Event), NEW p, CallsTell(h, p), NEW args
  PROVE  CallsTell(h, Called(p, args))
<1>1. CASE args = NoCall
  BY <1>1 DEF Called
<1>2. CASE args # NoCall /\ ~Parses(args)
  <2>1. Called(p, args) = [p EXCEPT !.dropped = TRUE]
    BY <1>2 DEF Called
  <2> QED BY <2>1 DEF CallsTell
<1>3. CASE args # NoCall /\ Parses(args)
  <2> DEFINE n == p.index
             b == Block(n, "tool_use", Arguments(n, args))
             q == [index |-> n + 1, dropped |-> p.dropped, sent |-> TRUE, out |-> p.out \o b]
  <2>1. Called(p, args) = q
    BY <1>3, Zenon DEF Called
  <2>2. n \in Nat /\ p.dropped \in BOOLEAN /\ p.out \in Seq(Event) /\ Tells(h \o p.out, n, "none")
    BY DEF CallsTell
  <2>3. Arguments(n, args) \in {<<>>, <<Piece("content_block_delta", n, "tool_use")>>}
    BY <1>3, Zenon DEF Parses, Arguments
  <2>4. "tool_use" \in Client!Kinds
    BY DEF Client!Kinds
  <2>5. h \o p.out \in Seq(Event)
    BY <2>2
  <2>6. b \in Seq(Event) /\ Tells((h \o p.out) \o b, n + 1, "none")
    BY <2>2, <2>3, <2>4, <2>5, BlockTells
  <2> HIDE DEF b, n
  <2>7. h \o (p.out \o b) = (h \o p.out) \o b
    BY <2>2, <2>6, Regroup, Zenon
  <2>8. p.out \o b \in Seq(Event)
    BY <2>2, <2>6
  <2>9. q \in [index : Nat, dropped : BOOLEAN, sent : BOOLEAN, out : Seq(Event)]
        /\ q.out = p.out \o b /\ q.index = n + 1
    BY <2>2, <2>8
  <2> HIDE DEF q
  <2> QED BY <2>1, <2>6, <2>7, <2>9 DEF CallsTell
<1> QED BY <1>1, <1>2, <1>3

LEMMA CallsAreTold ==
  ASSUME NEW h \in Seq(Event), NEW s \in Said, Tells(h, s.index, s.open)
  PROVE  CallsTell(h, Calls(s))
<1> DEFINE c == Calling(s)
           T == {n \in 0..Slots : ~CallsTell(h, c[n])}
<1>1. \A n \in 0..Slots : c[n] = IF n = 0 THEN NoCalls(s) ELSE Called(c[n - 1], s.pending[n])
  <2>1. CallsUpTo(c, s, Slots)
    BY CallingIs
  <2> HIDE DEF c
  <2> QED BY <2>1 DEF CallsUpTo
<1>2. CallsTell(h, NoCalls(s))
  <2>1. <<>> \in Seq(Event) /\ h \o <<>> = h
    BY ConcatEmptySeq
  <2>2. <<>> \o close(s) \in Seq(Event) /\ Tells(h \o (<<>> \o close(s)), s.index, "none")
    BY <2>1, CloseTells
  <2>3. close(s) \in Seq(Event)
    <3> DEFINE p == Piece("content_block_stop", s.index - 1, s.open)
    <3>1. p \in Event
      BY DEF Piece, Event, Said
    <3>2. close(s) = <<>> \/ close(s) = <<p>>
      BY Zenon DEF close
    <3> HIDE DEF p
    <3>3. <<>> \in Seq(Event) /\ <<p>> \in Seq(Event)
      BY <3>1
    <3> QED BY <3>2, <3>3, Zenon
  <2>4. <<>> \o close(s) = close(s)
    BY <2>3, ConcatEmptySeq
  <2>5. s.index \in Nat
    BY DEF Said
  <2> QED BY <2>2, <2>4, <2>5 DEF CallsTell, NoCalls
<1> HIDE DEF c
<1>3. T = {}
  <2> SUFFICES ASSUME T # {}
               PROVE  FALSE
    OBVIOUS
  <2>1. T \subseteq Nat
    OBVIOUS
  <2>2. PICK n \in T : \A m \in T : n <= m
    BY <2>1, LeastNat
  <2>3. n \in 0..Slots /\ n \in Nat /\ ~CallsTell(h, c[n])
    BY ProxyAssumption
  <2>4. n # 0
    BY <1>1, <1>2, <2>3
  <2>5. n - 1 \in 0..Slots /\ n - 1 \notin T
    BY <2>2, <2>3, <2>4, ProxyAssumption
  <2>6. CallsTell(h, c[n - 1])
    BY <2>5
  <2>7. c[n] = Called(c[n - 1], s.pending[n])
    BY <1>1, <2>3, <2>4
  <2>8. CallsTell(h, Called(c[n - 1], s.pending[n]))
    BY <2>6, CalledTells
  <2> QED BY <2>3, <2>7, <2>8
<1>4. Slots \in 0..Slots
  BY ProxyAssumption
<1> QED BY <1>3, <1>4 DEF Calls, c

\* The reason and the end come after the last block.
LEMMA EndIsWellFormed ==
  ASSUME NEW h \in Seq(Event), NEW n, Tells(h, n, "none"), NEW r \in Client!Reasons
  PROVE  /\ <<Piece("message_delta", 0, r), Piece("message_stop", 0, "none")>> \in Seq(Event)
         /\ WellFormed(h \o <<Piece("message_delta", 0, r), Piece("message_stop", 0, "none")>>)
<1> DEFINE d == Piece("message_delta", 0, r)
           e == Piece("message_stop", 0, "none")
           g == Append(h, d)
<1>1. d \in Event /\ e \in Event /\ d.event = "message_delta"
  BY DEF Piece, Event, Client!Reasons
<1>2. Client!Between(h) /\ WellFormed(h)
  BY DEF Tells
<1>3. Legal(h, d)
  BY <1>2 DEF Legal
<1>4. WellFormed(g) /\ Last(g) = d /\ g # <<>>
  BY <1>1, <1>2, <1>3, LegalAppend, LastOfAppend
<1> HIDE DEF g, d
<1>5. Legal(g, e)
  BY <1>1, <1>4 DEF Legal
<1> HIDE DEF e
<1>6. WellFormed(Append(g, e))
  BY <1>1, <1>4, <1>5, LegalAppend
<1>7. h \o <<d, e>> = Append(g, e) /\ <<d, e>> \in Seq(Event)
  BY <1>1, ConcatTwo, LiteralTwo DEF g
<1> QED BY <1>6, <1>7 DEF d, e

\* All that StreamEnds has still to be written, with a note or without.
EndOf(p, n, r) ==
  p.out \o (IF n THEN Block(p.index, "text", <<Piece("content_block_delta", p.index, "text")>>) ELSE <<>>)
    \o <<Piece("message_delta", 0, r), Piece("message_stop", 0, "none")>>

LEMMA EndTells ==
  ASSUME NEW h \in Seq(Event), NEW p, CallsTell(h, p), NEW n \in BOOLEAN, NEW r \in Client!Reasons
  PROVE  EndOf(p, n, r) \in Seq(Event) /\ WellFormed(h \o EndOf(p, n, r))
<1> DEFINE b == Block(p.index, "text", <<Piece("content_block_delta", p.index, "text")>>)
           m == IF n THEN b ELSE <<>>
           e == <<Piece("message_delta", 0, r), Piece("message_stop", 0, "none")>>
           k == IF n THEN p.index + 1 ELSE p.index
           g == h \o p.out
<1>1. p.out \in Seq(Event) /\ Tells(g, p.index, "none") /\ g \in Seq(Event)
  BY DEF CallsTell
<1>2. b \in Seq(Event) /\ Tells(g \o b, p.index + 1, "none")
  BY <1>1, BlockTells DEF Client!Kinds
<1>3. m \in Seq(Event) /\ Tells(g \o m, k, "none")
  <2>1. CASE n
    BY <1>2, <2>1
  <2>2. CASE ~n
    <3>1. g \o <<>> = g
      BY <1>1, ConcatEmptySeq
    <3> QED BY <1>1, <2>2, <3>1
  <2> QED BY <2>1, <2>2
<1> HIDE DEF m, k
<1>4. g \o m \in Seq(Event) /\ p.out \o m \in Seq(Event)
  BY <1>1, <1>3
<1>5. e \in Seq(Event) /\ WellFormed((g \o m) \o e)
  BY <1>3, <1>4, EndIsWellFormed
<1> HIDE DEF e
<1>6. (g \o m) \o e = h \o ((p.out \o m) \o e)
  <2>1. (h \o p.out) \o m = h \o (p.out \o m)
    BY <1>1, <1>3, Regroup, Zenon
  <2>2. (h \o (p.out \o m)) \o e = h \o ((p.out \o m) \o e)
    BY <1>4, <1>5, Regroup, Zenon
  <2> QED BY <2>1, <2>2
<1>7. (p.out \o m) \o e \in Seq(Event)
  BY <1>4, <1>5
<1>8. EndOf(p, n, r) = (p.out \o m) \o e
  BY Zenon DEF EndOf, m, e
<1> QED BY <1>5, <1>6, <1>7, <1>8

\* Whatever a chunk carries, and in whichever block, what is to be written after it
\* leaves the locals and the message in step.
LEMMA StreamedTells ==
  ASSUME NEW h \in Seq(Event), NEW s \in Said, Tells(h, s.index, s.open), NEW c \in Chunks
  PROVE  Spoke(h, Streamed(s, c))
<1> DEFINE p == [s |-> s, out |-> <<>>]
           q == IF c.reasoning THEN Spoken(p, "thinking") ELSE p
<1>1. h \o <<>> = h /\ <<>> \in Seq(Event)
  BY ConcatEmptySeq
<1>2. Spoke(h, p)
  BY <1>1 DEF Spoke
<1>3. Spoke(h, q)
  <2>1. CASE c.reasoning
    <3>1. q = Spoken([s |-> s, out |-> <<>>], "thinking")
      BY <2>1
    <3>2. Tells(h \o <<>>, s.index, s.open)
      BY <1>1
    <3> HIDE DEF q
    <3> QED BY <1>1, <3>1, <3>2, SpokenTells
  <2>2. CASE ~c.reasoning
    BY <1>2, <2>2
  <2> QED BY <2>1, <2>2
<1>4. Streamed(s, c) = IF c.content THEN Spoken(q, "text") ELSE q
  BY Zenon DEF Streamed
<1> HIDE DEF q
<1>5. Spoke(h, Spoken([s |-> q.s, out |-> q.out], "text"))
  BY <1>3, SpokenTells DEF Spoke
<1>6. q = [s |-> q.s, out |-> q.out]
  BY <1>3 DEF Spoke
<1>7. Spoke(h, Spoken(q, "text"))
  BY <1>5, <1>6, Zenon
<1> QED BY <1>3, <1>4, <1>7

\* Whatever the locals, all that is to be written at the end of the stream makes
\* the message whole.
LEMMA EndingIsWellFormed ==
  ASSUME NEW h \in Seq(Event), NEW s \in Said, Tells(h, s.index, s.open)
  PROVE  Ending(s, Calls(s)) \in Seq(Event) /\ WellFormed(h \o Ending(s, Calls(s)))
<1> DEFINE p == Calls(s)
           n == s.finish = "length" \/ p.dropped
           r == settled(s, p)
<1>1. CallsTell(h, p)
  BY CallsAreTold
<1>2. n \in BOOLEAN
  BY <1>1 DEF CallsTell
<1>3. r \in Client!Reasons
  BY DEF settled, Client!Reasons
<1>4. Ending(s, p) = EndOf(p, n, r)
  BY Zenon DEF Ending, EndOf
<1> HIDE DEF p, n, r
<1>5. EndOf(p, n, r) \in Seq(Event) /\ WellFormed(h \o EndOf(p, n, r))
  BY <1>1, <1>2, <1>3, EndTells
<1> QED BY <1>4, <1>5 DEF p

----------------------------------------------------------------------------
(* The invariant. *)

LEMMA UnsaidIsSaid == Unsaid \in Said
BY DEF Unsaid, Said, Gatherings, NoCall

LEMMA GatheredIs ==
  ASSUME NEW x \in Gatherings, NEW piece \in {"nothing", "opening", "rest"}
  PROVE  Gathered(x, piece) \in Gatherings
BY DEF Gathered, Gatherings, NoCall

THEOREM InitIInv ==
  Init => IInv
<1> SUFFICES ASSUME Init
             PROVE  IInv
  OBVIOUS
<1>1. TypeOK
  BY UnsaidIsSaid DEF Init, TypeOK, Place
<1>2. \A a \in Agents : InGrammar(at[a], said[a], due[a], heard[a])
  BY DEF Init, InGrammar
<1> QED BY <1>1, <1>2 DEF IInv

\* A step of one request leaves the others where they are.
LEMMA OneMoves ==
  ASSUME IInv, NEW a \in Agents,
         NEW w \in Place, at' = [at EXCEPT ![a] = w],
         NEW s \in Said, said' = [said EXCEPT ![a] = s],
         NEW d \in Seq(Event), due' = [due EXCEPT ![a] = d],
         NEW h \in Seq(Event), heard' = [heard EXCEPT ![a] = h],
         InGrammar(w, s, d, h)
  PROVE  IInv'
<1>1. TypeOK'
  BY DEF IInv, TypeOK
<1>2. \A b \in Agents : InGrammar(at'[b], said'[b], due'[b], heard'[b])
  <2> TAKE b \in Agents
  <2>1. CASE b = a
    <3>1. at'[b] = w /\ said'[b] = s /\ due'[b] = d /\ heard'[b] = h
      BY <2>1 DEF IInv, TypeOK
    <3> QED BY <3>1
  <2>2. CASE b # a
    <3>1. at'[b] = at[b] /\ said'[b] = said[b] /\ due'[b] = due[b] /\ heard'[b] = heard[b]
      BY <2>2 DEF IInv, TypeOK
    <3> QED BY <3>1 DEF IInv
  <2> QED BY <2>1, <2>2
<1> QED BY <1>1, <1>2 DEF IInv

\* What a request that did not change is.
LEMMA Unmoved ==
  ASSUME TypeOK, NEW a \in Agents
  PROVE  /\ at[a] \in Place /\ said[a] \in Said /\ due[a] \in Seq(Event) /\ heard[a] \in Seq(Event)
         /\ at' = at => at' = [at EXCEPT ![a] = at[a]]
         /\ said' = said => said' = [said EXCEPT ![a] = said[a]]
         /\ due' = due => due' = [due EXCEPT ![a] = due[a]]
         /\ heard' = heard => heard' = [heard EXCEPT ![a] = heard[a]]
BY DEF TypeOK

\* The thread is done with, or the client waits again: nothing is to be written.
LEMMA Stops ==
  ASSUME IInv, NEW a \in Agents, NEW w \in {"idle", "dead"}, at' = [at EXCEPT ![a] = w],
         said' = said, heard' = heard, due' = [due EXCEPT ![a] = <<>>]
  PROVE  IInv'
<1>1. TypeOK
  BY DEF IInv
<1>2. /\ said[a] \in Said /\ said' = [said EXCEPT ![a] = said[a]]
      /\ heard[a] \in Seq(Event) /\ heard' = [heard EXCEPT ![a] = heard[a]]
  BY <1>1, Unmoved
<1>3. InGrammar(w, said[a], <<>>, heard[a])
  BY DEF InGrammar
<1>4. w \in Place /\ <<>> \in Seq(Event)
  BY DEF Place
<1> QED BY <1>2, <1>3, <1>4, OneMoves

\* A request none of whose answer is still to be written stops as it is.
LEMMA StopsUnwritten ==
  ASSUME IInv, NEW a \in Agents, due[a] = <<>>, NEW w \in {"idle", "dead"},
         at' = [at EXCEPT ![a] = w], said' = said, heard' = heard, due' = due
  PROVE  IInv'
<1>1. due' = [due EXCEPT ![a] = <<>>]
  BY DEF IInv, TypeOK
<1> QED BY <1>1, Stops

LEMMA AskKeeps ==
  ASSUME IInv, NEW a \in Agents, Ask(a)
  PROVE  IInv'
<1>1. at[a] = "idle" /\ at' = [at EXCEPT ![a] = "asking"] /\ heard' = [heard EXCEPT ![a] = <<>>]
      /\ said' = said /\ due' = due
  BY DEF Ask, Goes
<1>2. /\ said[a] \in Said /\ said' = [said EXCEPT ![a] = said[a]]
      /\ due[a] \in Seq(Event) /\ due' = [due EXCEPT ![a] = due[a]]
  BY <1>1, Unmoved DEF IInv
<1>3. due[a] = <<>>
  BY <1>1 DEF IInv, InGrammar
<1>4. InGrammar("asking", said[a], due[a], <<>>)
  BY <1>3 DEF InGrammar
<1>5. "asking" \in Place /\ <<>> \in Seq(Event)
  BY DEF Place
<1> QED BY <1>1, <1>2, <1>4, <1>5, OneMoves

LEMMA FailureKeeps ==
  ASSUME IInv, NEW a \in Agents, UpstreamError(a) \/ UpstreamUnreachable(a) \/ UpstreamReplies(a)
  PROVE  IInv'
<1>1. at[a] = "asking" /\ said' = said /\ due' = due /\ heard' = heard
  BY DEF UpstreamError, UpstreamUnreachable, UpstreamReplies
<1>2. due[a] = <<>>
  BY <1>1 DEF IInv, InGrammar
<1>3. \E w \in {"idle", "dead"} : at' = [at EXCEPT ![a] = w]
  BY DEF UpstreamError, UpstreamUnreachable, UpstreamReplies, Goes
<1> QED BY <1>1, <1>2, <1>3, StopsUnwritten

LEMMA StreamStartsKeeps ==
  ASSUME IInv, NEW a \in Agents, StreamStarts(a)
  PROVE  IInv'
<1> DEFINE p == Piece("message_start", 0, "none")
<1>1. /\ at[a] = "asking" /\ at' = [at EXCEPT ![a] = "streaming"] /\ heard' = heard
      /\ said' = [said EXCEPT ![a] = Unsaid] /\ due' = [due EXCEPT ![a] = <<p>>]
  BY DEF StreamStarts, Goes
<1>2. heard[a] = <<>> /\ <<>> \in Seq(Event)
  BY <1>1 DEF IInv, InGrammar
<1>3. heard' = [heard EXCEPT ![a] = <<>>]
  BY <1>1, <1>2 DEF IInv, TypeOK
<1>4. p \in Event /\ p.event = "message_start"
  BY DEF Piece, Event
<1>5. Legal(<<>>, p)
  BY DEF Legal
<1>6. WellFormed(<<>>)
  BY DEF WellFormed
<1> HIDE DEF p
<1> DEFINE g == Append(<<>>, p)
<1>7. WellFormed(g) /\ Last(g) = p /\ g # <<>> /\ Starts(g) = Starts(<<>>)
  BY <1>2, <1>4, <1>5, <1>6, LegalAppend, LastOfAppend, StartsOfAppend
<1>8. <<>> \o <<p>> = g /\ <<p>> \in Seq(Event)
  BY <1>2, <1>4, ConcatOne
<1> HIDE DEF g
<1>9. Client!Between(g)
  BY <1>4, <1>7 DEF Client!Between, Client!Last, Last
<1>10. Starts(<<>>) = 0
  <2>1. {i \in DOMAIN <<>> : <<>>[i].event = "content_block_start"} = {}
    OBVIOUS
  <2>2. Starts(<<>>) = Cardinality({i \in DOMAIN <<>> : <<>>[i].event = "content_block_start"})
    BY Zenon DEF Starts, Client!Events, Client!Cardinality, Cardinality
  <2> QED BY <2>1, <2>2, FS_EmptySet
<1>11. Tells(g, 0, "none")
  BY <1>7, <1>9, <1>10 DEF Tells
<1>12. Unsaid.index = 0 /\ Unsaid.open = "none"
  BY DEF Unsaid
<1>13. InGrammar("streaming", Unsaid, <<p>>, <<>>)
  BY <1>7, <1>8, <1>11, <1>12 DEF InGrammar
<1>14. "streaming" \in Place
  BY DEF Place
<1> QED BY <1>1, <1>2, <1>3, <1>8, <1>13, <1>14, UnsaidIsSaid, OneMoves

\* What is known of an answer that is being streamed, with nothing unwritten.
LEMMA Streaming ==
  ASSUME IInv, NEW a \in Agents, at[a] = "streaming", due[a] = <<>>
  PROVE  /\ said[a] \in Said /\ heard[a] \in Seq(Event)
         /\ Tells(heard[a], said[a].index, said[a].open)
<1>1. said[a] \in Said /\ heard[a] \in Seq(Event)
  BY DEF IInv, TypeOK
<1>2. heard[a] \o <<>> = heard[a]
  BY <1>1, ConcatEmptySeq
<1>3. Tells(heard[a] \o due[a], said[a].index, said[a].open)
  BY DEF IInv, InGrammar
<1> QED BY <1>1, <1>2, <1>3

LEMMA ChunkKeeps ==
  ASSUME IInv, NEW a \in Agents, NEW c \in Chunks, Chunk(a, c)
  PROVE  IInv'
<1> DEFINE t == Streamed(said[a], c)
           f == IF c.finish = "none" THEN t.s.finish ELSE c.finish
           g == [x \in DOMAIN t.s.pending |->
                   IF x = c.slot THEN Gathered(t.s.pending[x], c.piece) ELSE t.s.pending[x]]
           u == [t.s EXCEPT !.finish = f]
           s == [u EXCEPT !.pending = g]
<1>1. /\ at[a] = "streaming" /\ due[a] = <<>> /\ at' = at /\ heard' = heard
      /\ due' = [due EXCEPT ![a] = t.out]
  BY DEF Chunk
<1>2. said[a] \in Said /\ heard[a] \in Seq(Event) /\ Tells(heard[a], said[a].index, said[a].open)
  BY <1>1, Streaming
<1>3. Spoke(heard[a], t)
  BY <1>2, StreamedTells
<1>4. t.s \in Said /\ t.out \in Seq(Event) /\ Tells(heard[a] \o t.out, t.s.index, t.s.open)
  BY <1>3 DEF Spoke
<1>5. said' = [said EXCEPT ![a] = [t.s EXCEPT !.finish = f, !.pending = g]]
  BY Zenon DEF Chunk
<1> HIDE DEF t
<1>6. f \in {"stop", "length", "tool_calls"}
  BY <1>4 DEF Said, Chunks
<1>7. g \in [1..Slots -> Gatherings]
  BY <1>4, GatheredIs DEF Said, Chunks
<1> HIDE DEF f, g
<1>8. u \in Said /\ u.index = t.s.index /\ u.open = t.s.open
  BY <1>4, <1>6 DEF Said
<1>9. [t.s EXCEPT !.finish = f, !.pending = g] = s
  BY <1>4 DEF Said
<1> HIDE DEF u
<1>10. s \in Said /\ s.index = u.index /\ s.open = u.open
  BY <1>7, <1>8 DEF Said
<1> HIDE DEF s
<1>11. WellFormed(heard[a] \o t.out)
  BY <1>4 DEF Tells
<1>12. InGrammar("streaming", s, t.out, heard[a])
  BY <1>4, <1>8, <1>10, <1>11 DEF InGrammar
<1>13. "streaming" \in Place /\ at' = [at EXCEPT ![a] = "streaming"]
       /\ heard' = [heard EXCEPT ![a] = heard[a]]
  BY <1>1 DEF Place, IInv, TypeOK
<1>14. said' = [said EXCEPT ![a] = s]
  BY <1>5, <1>9
<1> QED BY <1>1, <1>2, <1>4, <1>10, <1>12, <1>13, <1>14, OneMoves

LEMMA StreamEndsKeeps ==
  ASSUME IInv, NEW a \in Agents, StreamEnds(a)
  PROVE  IInv'
<1> DEFINE d == Ending(said[a], Calls(said[a]))
<1>1. /\ at[a] = "streaming" /\ due[a] = <<>> /\ at' = [at EXCEPT ![a] = "ending"]
      /\ due' = [due EXCEPT ![a] = d] /\ said' = said /\ heard' = heard
  BY DEF StreamEnds, Goes
<1>2. said[a] \in Said /\ heard[a] \in Seq(Event) /\ Tells(heard[a], said[a].index, said[a].open)
  BY <1>1, Streaming
<1>3. d \in Seq(Event) /\ WellFormed(heard[a] \o d)
  BY <1>2, EndingIsWellFormed
<1> HIDE DEF d
<1>4. InGrammar("ending", said[a], d, heard[a])
  BY <1>3 DEF InGrammar
<1>5. "ending" \in Place /\ said' = [said EXCEPT ![a] = said[a]] /\ heard' = [heard EXCEPT ![a] = heard[a]]
  BY <1>1 DEF Place, IInv, TypeOK
<1> QED BY <1>1, <1>2, <1>3, <1>4, <1>5, OneMoves

\* A piece is moved from what is to be written to what was.
LEMMA HeadMoves ==
  ASSUME NEW h \in Seq(Event), NEW d \in Seq(Event), d # <<>>
  PROVE  /\ Append(h, Head(d)) \in Seq(Event) /\ Tail(d) \in Seq(Event)
         /\ Append(h, Head(d)) \o Tail(d) = h \o d
<1> DEFINE x == Append(h, Head(d)) \o Tail(d)
           y == h \o d
<1>1. Append(h, Head(d)) \in Seq(Event) /\ Tail(d) \in Seq(Event)
  OBVIOUS
<1>2. x \in Seq(Event) /\ y \in Seq(Event) /\ Len(x) = Len(y)
  OBVIOUS
<1>3. \A i \in 1..Len(x) : x[i] = y[i]
  OBVIOUS
<1> HIDE DEF x, y
<1>4. x = y
  BY <1>2, <1>3, SeqEqual
<1> QED BY <1>1, <1>4 DEF x, y

LEMMA WriteKeeps ==
  ASSUME IInv, NEW a \in Agents, Write(a)
  PROVE  IInv'
<1> DEFINE h == Append(heard[a], Head(due[a]))
           d == Tail(due[a])
<1>1. /\ due[a] # <<>> /\ at' = at /\ said' = said
      /\ heard' = [heard EXCEPT ![a] = h] /\ due' = [due EXCEPT ![a] = d]
  BY DEF Write
<1>2. /\ at[a] \in Place /\ at' = [at EXCEPT ![a] = at[a]]
      /\ said[a] \in Said /\ said' = [said EXCEPT ![a] = said[a]]
      /\ due[a] \in Seq(Event) /\ heard[a] \in Seq(Event)
  BY <1>1, Unmoved DEF IInv
<1>3. h \in Seq(Event) /\ d \in Seq(Event) /\ h \o d = heard[a] \o due[a]
  BY <1>1, <1>2, HeadMoves
<1>4. InGrammar(at[a], said[a], due[a], heard[a])
  BY DEF IInv
<1> HIDE DEF h, d
<1>5. InGrammar(at[a], said[a], d, h)
  BY <1>1, <1>3, <1>4 DEF InGrammar
<1> QED BY <1>1, <1>2, <1>3, <1>5, OneMoves

LEMMA EndKeeps ==
  ASSUME IInv, NEW a \in Agents, Done(a) \/ ClientGone(a) \/ UpstreamBreaks(a)
  PROVE  IInv'
<1>1. CASE Done(a)
  BY <1>1, StopsUnwritten DEF Done, Goes
<1>2. CASE ClientGone(a)
  BY <1>2, Stops DEF ClientGone, Goes
<1>3. CASE UpstreamBreaks(a)
  BY <1>3, StopsUnwritten DEF UpstreamBreaks, Goes
<1> QED BY <1>1, <1>2, <1>3

THEOREM NextIInv ==
  IInv /\ [Next]_vars => IInv'
<1> SUFFICES ASSUME IInv, [Next]_vars
             PROVE  IInv'
  OBVIOUS
<1>1. ASSUME NEW a \in Agents, Ask(a)
      PROVE  IInv'
  BY <1>1, AskKeeps
<1>2. ASSUME NEW a \in Agents, UpstreamError(a) \/ UpstreamUnreachable(a) \/ UpstreamReplies(a)
      PROVE  IInv'
  BY <1>2, FailureKeeps
<1>3. ASSUME NEW a \in Agents, StreamStarts(a)
      PROVE  IInv'
  BY <1>3, StreamStartsKeeps
<1>4. ASSUME NEW a \in Agents, \E c \in Chunks : Chunk(a, c)
      PROVE  IInv'
  BY <1>4, ChunkKeeps
<1>5. ASSUME NEW a \in Agents, StreamEnds(a)
      PROVE  IInv'
  BY <1>5, StreamEndsKeeps
<1>6. ASSUME NEW a \in Agents, Write(a)
      PROVE  IInv'
  BY <1>6, WriteKeeps
<1>7. ASSUME NEW a \in Agents, Done(a) \/ ClientGone(a) \/ UpstreamBreaks(a)
      PROVE  IInv'
  BY <1>7, EndKeeps
<1>8. CASE UNCHANGED vars
  BY <1>8 DEF vars, IInv, TypeOK, InGrammar
<1> QED BY <1>1, <1>2, <1>3, <1>4, <1>5, <1>6, <1>7, <1>8 DEF Next

THEOREM Invariant ==
  Spec => []IInv
<1>1. Init => IInv
  BY InitIInv
<1>2. IInv /\ [Next]_vars => IInv'
  BY NextIInv
<1> QED BY <1>1, <1>2, PTL DEF Spec

----------------------------------------------------------------------------
(* The refinement. *)

\* The next piece to be written is one that may be sent next.
LEMMA NextIsLegal ==
  ASSUME NEW h \in Seq(Event), NEW d \in Seq(Event), d # <<>>, WellFormed(h \o d)
  PROVE  Legal(h, Head(d))
<1> DEFINE g == h \o d
           i == Len(h) + 1
<1>1. i \in 1..Len(g) /\ g[i] = Head(d)
  OBVIOUS
<1>2. SubSeq(g, 1, i - 1) = h
  <2> DEFINE x == SubSeq(g, 1, i - 1)
  <2>1. x \in Seq(Event) /\ Len(x) = Len(h)
    OBVIOUS
  <2>2. \A j \in 1..Len(x) : x[j] = h[j]
    OBVIOUS
  <2> HIDE DEF x
  <2>3. x = h
    BY <2>1, <2>2, SeqEqual
  <2> QED BY <2>3 DEF x
<1>3. Legal(SubSeq(g, 1, i - 1), g[i])
  BY <1>1 DEF WellFormed
<1> HIDE DEF g, i
<1> QED BY <1>1, <1>2, <1>3

\* A write is the step of the stream that its piece is about.
LEMMA WriteIsSaid ==
  ASSUME IInv, NEW a \in Agents, Write(a)
  PROVE  Client!Next
<1> DEFINE h == heard[a]
           p == Head(due[a])
<1>1. due[a] # <<>> /\ heard' = [heard EXCEPT ![a] = Append(h, p)]
  BY DEF Write
<1>2. h \in Seq(Event) /\ due[a] \in Seq(Event) /\ at[a] \in Place
  BY DEF IInv, TypeOK
<1>3. WellFormed(h \o due[a])
  BY <1>1, <1>2 DEF IInv, InGrammar, Place
<1>4. Legal(h, p)
  BY <1>1, <1>2, <1>3, NextIsLegal
<1> HIDE DEF p
<1>5. \A e, i, k : p = Piece(e, i, k) => Client!Say(a, e, i, k)
  BY <1>1, Zenon DEF Piece, Client!Say, h
<1>6. Last(h) = Client!Last(h)
  BY Zenon DEF Last, Client!Last
<1>7. CASE h = <<>> /\ p = Piece("message_start", 0, "none")
  BY <1>5, <1>7, Zenon DEF Client!Next, Client!MessageStart
<1>8. ASSUME Client!Between(h), NEW k \in Client!Kinds, p = Piece("content_block_start", Starts(h), k)
      PROVE  Client!Next
  BY <1>5, <1>8, Zenon DEF Client!Next, Client!BlockStart, Starts
<1>9. CASE Client!Inside(h) /\ p = Piece("content_block_delta", Last(h).index, Last(h).kind)
  BY <1>5, <1>6, <1>9, Zenon DEF Client!Next, Client!BlockDelta
<1>10. CASE Client!Inside(h) /\ p = Piece("content_block_stop", Last(h).index, Last(h).kind)
  BY <1>5, <1>6, <1>10, Zenon DEF Client!Next, Client!BlockStop
<1>11. ASSUME Client!Between(h), NEW r \in Client!Reasons, p = Piece("message_delta", 0, r)
       PROVE  Client!Next
  BY <1>5, <1>11, Zenon DEF Client!Next, Client!MessageDelta
<1>12. CASE h # <<>> /\ Last(h).event = "message_delta" /\ p = Piece("message_stop", 0, "none")
  BY <1>5, <1>6, <1>12, Zenon DEF Client!Next, Client!MessageStop
<1> QED BY <1>4, <1>7, <1>8, <1>9, <1>10, <1>11, <1>12, Zenon DEF Legal

LEMMA InitIsStream ==
  Init => Client!Init
BY DEF Init, Client!Init

LEMMA NextIsStream ==
  IInv /\ [Next]_vars => [Client!Next]_heard
<1> SUFFICES ASSUME IInv, [Next]_vars
             PROVE  Client!Next \/ heard' = heard
  BY Zenon
<1>1. ASSUME NEW a \in Agents, Ask(a)
      PROVE  Client!Next
  BY <1>1 DEF Ask, Client!Next, Client!NextMessage
<1>2. ASSUME NEW a \in Agents, UpstreamError(a) \/ UpstreamUnreachable(a) \/ UpstreamReplies(a)
                               \/ StreamStarts(a)
      PROVE  heard' = heard
  BY <1>2 DEF UpstreamError, UpstreamUnreachable, UpstreamReplies, StreamStarts
<1>3. ASSUME NEW a \in Agents, \E c \in Chunks : Chunk(a, c)
      PROVE  heard' = heard
  BY <1>3 DEF Chunk
<1>4. ASSUME NEW a \in Agents, StreamEnds(a) \/ Done(a) \/ ClientGone(a) \/ UpstreamBreaks(a)
      PROVE  heard' = heard
  BY <1>4 DEF StreamEnds, Done, ClientGone, UpstreamBreaks
<1>5. ASSUME NEW a \in Agents, Write(a)
      PROVE  Client!Next
  BY <1>5, WriteIsSaid
<1>6. CASE UNCHANGED vars
  BY <1>6 DEF vars
<1> QED BY <1>1, <1>2, <1>3, <1>4, <1>5, <1>6 DEF Next

\* stream_anthropic: whatever the model streams, in whatever order, and wherever
\* the line breaks, what each client is sent is the beginning of a well-formed
\* message.
THEOREM EveryClientReadsAStream ==
  Spec => StreamSpec
<1>1. Init => Client!Init
  BY InitIsStream
<1>2. IInv /\ [Next]_vars => [Client!Next]_heard
  BY NextIsStream
<1> QED BY <1>1, <1>2, Invariant, PTL DEF Spec, StreamSpec, Client!Spec

----------------------------------------------------------------------------
(* The log read back. *)

\* The rows of the log are rows.
LEMMA NextLogIsRows ==
  ASSUME LogIsRows, [Next]_vars
  PROVE  LogIsRows'
<1>1. ASSUME NEW a \in Agents, NEW e, note(a, e),
             e \in {"request", "upstream_error", "upstream_unreachable", "done", "client_gone"}
      PROVE  LogIsRows'
  <2>1. [event |-> e, of |-> a] \in Row
    BY <1>1 DEF Row
  <2> QED BY <1>1, <2>1 DEF LogIsRows, note
<1>2. ASSUME log' = log
      PROVE  LogIsRows'
  BY <1>2 DEF LogIsRows
<1>3. ASSUME NEW a \in Agents, Ask(a) \/ UpstreamUnreachable(a) \/ UpstreamReplies(a) \/ Done(a)
                               \/ ClientGone(a) \/ UpstreamBreaks(a)
      PROVE  LogIsRows'
  BY <1>1, <1>2, <1>3 DEF Ask, UpstreamUnreachable, UpstreamReplies, Done, ClientGone, UpstreamBreaks
<1>4. ASSUME NEW a \in Agents, UpstreamError(a)
      PROVE  LogIsRows'
  <2>1. CASE note(a, "upstream_error")
    BY <1>1, <2>1
  <2>2. CASE log' = log \o <<[event |-> "upstream_error", of |-> a], [event |-> "too_long", of |-> a]>>
    <3> DEFINE r == [event |-> "upstream_error", of |-> a]
               t == [event |-> "too_long", of |-> a]
    <3>1. r \in Row /\ t \in Row
      BY DEF Row
    <3> HIDE DEF r, t
    <3>2. log \o <<r, t>> \in Seq(Row)
      BY <3>1 DEF LogIsRows
    <3> QED BY <2>2, <3>2 DEF LogIsRows, r, t
  <2> QED BY <1>4, <2>1, <2>2 DEF UpstreamError
<1>5. ASSUME NEW a \in Agents, StreamStarts(a) \/ (\E c \in Chunks : Chunk(a, c)) \/ StreamEnds(a) \/ Write(a)
      PROVE  LogIsRows'
  <2>1. log' = log
    BY <1>5 DEF StreamStarts, Chunk, StreamEnds, Write
  <2> QED BY <1>2, <2>1
<1>6. CASE UNCHANGED vars
  BY <1>2, <1>6 DEF vars
<1> QED BY <1>3, <1>4, <1>5, <1>6 DEF Next

\* What turns has told up to a row is what its recursion says it is.
NoTurns == [asked |-> 0, paired |-> {}]
TurnsUpTo(t, rows, n) == t = [k \in 0..n |-> IF k = 0 THEN NoTurns ELSE Told(t[k - 1], k, rows[k])]

LEMMA TellingIs ==
  ASSUME NEW rows, Len(rows) \in Nat
  PROVE  TurnsUpTo(Telling(rows), rows, Len(rows))
<1> DEFINE T == {n \in 0..Len(rows) : ~\E t : TurnsUpTo(t, rows, n)}
<1>1. T = {}
  <2> SUFFICES ASSUME T # {}
               PROVE  FALSE
    OBVIOUS
  <2>1. T \subseteq Nat
    OBVIOUS
  <2>2. PICK n \in T : \A m \in T : n <= m
    BY <2>1, LeastNat
  <2>3. n \in Nat /\ n <= Len(rows)
    OBVIOUS
  <2>4. CASE n = 0
    <3> DEFINE t == [k \in 0..0 |-> NoTurns]
    <3>1. \A k \in 0..0 : t[k] = IF k = 0 THEN NoTurns ELSE Told(t[k - 1], k, rows[k])
      OBVIOUS
    <3>2. t = [k \in 0..0 |-> IF k = 0 THEN NoTurns ELSE Told(t[k - 1], k, rows[k])]
      BY <3>1
    <3> HIDE DEF t
    <3> QED BY <2>4, <3>2 DEF TurnsUpTo
  <2>5. CASE n # 0
    <3>1. n - 1 \in Nat /\ n - 1 \in 0..Len(rows)
      BY <2>3, <2>5
    <3>2. n - 1 \notin T
      BY <2>2, <2>3
    <3>3. PICK g : TurnsUpTo(g, rows, n - 1)
      BY <3>1, <3>2
    <3> DEFINE t == [k \in 0..n |-> IF k < n THEN g[k] ELSE Told(g[n - 1], n, rows[n])]
    <3>4. \A k \in 0..n : t[k] = IF k = 0 THEN NoTurns ELSE Told(t[k - 1], k, rows[k])
      <4> SUFFICES ASSUME NEW k \in 0..n
                   PROVE  t[k] = IF k = 0 THEN NoTurns ELSE Told(t[k - 1], k, rows[k])
        OBVIOUS
      <4>1. CASE k < n
        <5>1. k \in 0..(n - 1) /\ t[k] = g[k] /\ (k # 0 => t[k - 1] = g[k - 1])
          BY <2>3, <4>1
        <5>2. g[k] = IF k = 0 THEN NoTurns ELSE Told(g[k - 1], k, rows[k])
          BY <3>3, <5>1 DEF TurnsUpTo
        <5> HIDE DEF t
        <5> QED BY <5>1, <5>2
      <4>2. CASE k = n
        <5>1. t[k] = Told(g[n - 1], n, rows[n]) /\ t[k - 1] = g[n - 1]
          BY <2>3, <2>5, <4>2
        <5> HIDE DEF t
        <5> QED BY <2>5, <4>2, <5>1
      <4> QED BY <2>3, <4>1, <4>2
    <3>5. t = [k \in 0..n |-> IF k = 0 THEN NoTurns ELSE Told(t[k - 1], k, rows[k])]
      BY <3>4
    <3> HIDE DEF t
    <3> QED BY <3>5 DEF TurnsUpTo
  <2> QED BY <2>4, <2>5
<1>2. Len(rows) \in 0..Len(rows)
  OBVIOUS
<1>3. \E t : TurnsUpTo(t, rows, Len(rows))
  BY <1>1, <1>2
<1> QED BY <1>3, Zenon DEF TurnsUpTo, NoTurns, Telling

\* What the reader does with a row, by cases.
LEMMA ToldCases ==
  ASSUME NEW p, NEW n, NEW row, p = [asked |-> p.asked, paired |-> p.paired]
  PROVE  /\ row.event = "request" =>
              Told(p, n, row).asked = n /\ Told(p, n, row).paired = p.paired
         /\ row.event \in Failures \/ (row.event = "done" /\ p.asked # 0) =>
              /\ Told(p, n, row).asked = 0
              /\ Told(p, n, row).paired = p.paired \cup {[turn |-> p.asked, end |-> n]}
         /\ row.event # "request" /\ row.event \notin Failures /\ ~(row.event = "done" /\ p.asked # 0) =>
              Told(p, n, row) = p
         /\ Told(p, n, row) = [asked |-> Told(p, n, row).asked, paired |-> Told(p, n, row).paired]
<1> DEFINE q == Told(p, n, row)
<1>1. CASE row.event = "request"
  <2>1. q = [p EXCEPT !.asked = n]
    BY <1>1 DEF Told, Failures
  <2>2. q = [asked |-> n, paired |-> p.paired]
    BY <2>1
  <2>3. q.asked = n /\ q.paired = p.paired
    BY <2>2
  <2>4. q = [asked |-> q.asked, paired |-> q.paired]
    BY <2>2, <2>3
  <2> HIDE DEF q
  <2> QED BY <1>1, <2>3, <2>4 DEF Failures, q
<1>2. CASE row.event # "request" /\ (row.event \in Failures \/ (row.event = "done" /\ p.asked # 0))
  <2>1. q = [asked |-> 0, paired |-> p.paired \cup {[turn |-> p.asked, end |-> n]}]
    BY <1>2 DEF Told
  <2>2. q.asked = 0 /\ q.paired = p.paired \cup {[turn |-> p.asked, end |-> n]}
    BY <2>1
  <2>3. q = [asked |-> q.asked, paired |-> q.paired]
    BY <2>1, <2>2
  <2> HIDE DEF q
  <2> QED BY <1>2, <2>2, <2>3 DEF q
<1>3. CASE row.event # "request" /\ row.event \notin Failures /\ ~(row.event = "done" /\ p.asked # 0)
  <2>1. q = p
    BY <1>3 DEF Told
  <2> HIDE DEF q
  <2> QED BY <1>3, <2>1 DEF q
<1> QED BY <1>1, <1>2, <1>3 DEF Failures

\* What the reader knows after n rows of any log: the request in hand, if any, is
\* among them and not told of yet, no request is told twice, no end is, and each
\* failure is told.
Distinct(p, n) ==
  /\ p = [asked |-> p.asked, paired |-> p.paired]
  /\ p.asked \in 0..n
  /\ \A x \in p.paired : x.turn \in 0..n /\ x.end \in 1..n /\ (x.turn = p.asked => x.turn = 0)
  /\ \A x, y \in p.paired : x.end = y.end \/ (x.turn = y.turn /\ x.turn # 0) => x = y
  /\ \A i \in 1..n : log[i].event \in Failures => \E x \in p.paired : x.end = i

LEMMA OneMoreDistinct ==
  ASSUME NEW n \in 1..Len(log), Len(log) \in Nat, NEW p, Distinct(p, n - 1)
  PROVE  Distinct(Told(p, n, log[n]), n)
<1> DEFINE row == log[n]
           q == Told(p, n, row)
           z == [turn |-> p.asked, end |-> n]
<1> SUFFICES Distinct(q, n)
  OBVIOUS
<1>1. /\ n \in Nat /\ n >= 1 /\ n - 1 \in Nat /\ p = [asked |-> p.asked, paired |-> p.paired]
      /\ p.asked \in 0..(n - 1)
  BY DEF Distinct
<1>2. \A x \in p.paired : x.turn \in 0..(n - 1) /\ x.end \in 1..(n - 1) /\ (x.turn = p.asked => x.turn = 0)
  BY DEF Distinct
<1>3. \A x, y \in p.paired : x.end = y.end \/ (x.turn = y.turn /\ x.turn # 0) => x = y
  BY DEF Distinct
<1>4. \A i \in 1..(n - 1) : log[i].event \in Failures => \E x \in p.paired : x.end = i
  BY DEF Distinct
<1>5. \A i \in 1..n : i = n \/ i \in 1..(n - 1)
  BY <1>1
<1>6. q = [asked |-> q.asked, paired |-> q.paired]
  BY <1>1, ToldCases
<1>7. CASE row.event = "request"
  <2>1. q.asked = n /\ q.paired = p.paired
    BY <1>1, <1>7, ToldCases
  <2>2. \A x \in q.paired : x.turn \in 0..n /\ x.end \in 1..n /\ (x.turn = q.asked => x.turn = 0)
    BY <1>1, <1>2, <2>1
  <2>3. \A i \in 1..n : log[i].event \in Failures => \E x \in q.paired : x.end = i
    BY <1>4, <1>5, <1>7, <2>1 DEF Failures
  <2>4. q.asked \in 0..n
    BY <1>1, <2>1
  <2> HIDE DEF q
  <2> QED BY <1>3, <1>6, <2>1, <2>2, <2>3, <2>4 DEF Distinct
<1>8. CASE row.event # "request" /\ (row.event \in Failures \/ (row.event = "done" /\ p.asked # 0))
  <2>1. q.asked = 0 /\ q.paired = p.paired \cup {z}
    BY <1>1, <1>8, ToldCases
  <2>2. z.turn = p.asked /\ z.end = n
    OBVIOUS
  <2> HIDE DEF q, z
  <2>3. \A x \in q.paired : x = z \/ x \in p.paired
    BY <2>1
  <2>4. \A x \in q.paired : x.turn \in 0..n /\ x.end \in 1..n /\ (x.turn = q.asked => x.turn = 0)
    BY <1>1, <1>2, <2>1, <2>2, <2>3
  <2>5. \A x \in p.paired : x.end # n /\ (x.turn = p.asked => x.turn = 0)
    BY <1>1, <1>2
  <2>6. ASSUME NEW x \in q.paired, NEW y \in q.paired,
               x.end = y.end \/ (x.turn = y.turn /\ x.turn # 0)
        PROVE  x = y
    <3>1. CASE x = z /\ y \in p.paired
      BY <2>2, <2>5, <2>6, <3>1
    <3>2. CASE y = z /\ x \in p.paired
      BY <2>2, <2>5, <2>6, <3>2
    <3>3. CASE x \in p.paired /\ y \in p.paired
      BY <1>3, <2>6, <3>3
    <3> QED BY <2>3, <3>1, <3>2, <3>3
  <2>7. ASSUME NEW i \in 1..n, log[i].event \in Failures
        PROVE  \E x \in q.paired : x.end = i
    BY <1>4, <1>5, <2>1, <2>2, <2>7
  <2>8. q.asked \in 0..n
    BY <1>1, <2>1
  <2> QED BY <1>6, <2>4, <2>6, <2>7, <2>8 DEF Distinct
<1>9. CASE row.event # "request" /\ row.event \notin Failures /\ ~(row.event = "done" /\ p.asked # 0)
  <2>1. q = p
    BY <1>1, <1>9, ToldCases
  <2> HIDE DEF q
  <2>2. \A x \in q.paired : x.turn \in 0..n /\ x.end \in 1..n /\ (x.turn = q.asked => x.turn = 0)
    BY <1>1, <1>2, <2>1
  <2>3. \A i \in 1..n : log[i].event \in Failures => \E x \in q.paired : x.end = i
    BY <1>4, <1>5, <1>9, <2>1
  <2>4. q.asked \in 0..n
    BY <1>1, <2>1
  <2> QED BY <1>3, <1>6, <2>1, <2>2, <2>3, <2>4 DEF Distinct
<1> QED BY <1>7, <1>8, <1>9

\* A log whose requests do not overlap: nothing is on record between a request and
\* its end but rows the reader passes over.
Marks == Ends \cup {"request"}
Quiet(l, j, i) == \A k \in (j + 1)..(i - 1) : l[k].event \notin Marks
Asked(l, j, i) ==
  j \in 1..(i - 1) /\ l[j].event = "request" /\ l[j].of = l[i].of /\ Quiet(l, j, i)
InStep(l) == \A i \in 1..Len(l) : l[i].event \in Ends => \E j \in 1..(i - 1) : Asked(l, j, i)

\* What the reader knows of such a log: the request in hand is the last one, until
\* its end is told; each end is told, as a turn of the request it ended.
Exact(p, n) ==
  /\ p = [asked |-> p.asked, paired |-> p.paired]
  /\ \A j \in 1..n : log[j].event = "request" /\ Quiet(log, j, n + 1) => p.asked = j
  /\ \A x \in p.paired : x.end \in 1..n /\ log[x.end].event \in Ends /\ Own(x.turn, x.end)
  /\ \A i \in 1..n : log[i].event \in Ends => \E x \in p.paired : x.end = i

LEMMA OneMoreExact ==
  ASSUME NEW n \in 1..Len(log), Len(log) \in Nat, InStep(log), NEW p, Exact(p, n - 1)
  PROVE  Exact(Told(p, n, log[n]), n)
<1> DEFINE row == log[n]
           q == Told(p, n, row)
           z == [turn |-> p.asked, end |-> n]
<1> SUFFICES Exact(q, n)
  OBVIOUS
<1>1. n \in Nat /\ n >= 1 /\ n - 1 \in Nat /\ p = [asked |-> p.asked, paired |-> p.paired]
  BY DEF Exact
<1>2. \A j \in 1..(n - 1) : log[j].event = "request" /\ Quiet(log, j, n) => p.asked = j
  <2>1. (n - 1) + 1 = n
    BY <1>1
  <2> QED BY <2>1 DEF Exact
<1>3. \A x \in p.paired : x.end \in 1..(n - 1) /\ log[x.end].event \in Ends /\ Own(x.turn, x.end)
  BY DEF Exact
<1>4. \A i \in 1..(n - 1) : log[i].event \in Ends => \E x \in p.paired : x.end = i
  BY DEF Exact
<1>5. \A i \in 1..n : i = n \/ i \in 1..(n - 1)
  BY <1>1
<1>6. \A i \in 1..(n - 1) : i \in 1..n
  BY <1>1
<1>7. q = [asked |-> q.asked, paired |-> q.paired]
  BY <1>1, ToldCases
<1>8. \A j \in 1..(n - 1) : n \in (j + 1)..((n + 1) - 1) /\ (Quiet(log, j, n + 1) => Quiet(log, j, n))
  BY <1>1 DEF Quiet
<1>9. CASE row.event = "request"
  <2>1. q.asked = n /\ q.paired = p.paired
    BY <1>1, <1>9, ToldCases
  <2> HIDE DEF q
  <2>2. \A j \in 1..n : log[j].event = "request" /\ Quiet(log, j, n + 1) => q.asked = j
    BY <1>5, <1>8, <1>9, <2>1 DEF Quiet, Marks
  <2>3. \A i \in 1..n : log[i].event \in Ends => \E x \in q.paired : x.end = i
    BY <1>4, <1>5, <1>9, <2>1 DEF Ends, Failures
  <2>4. \A x \in q.paired : x.end \in 1..n /\ log[x.end].event \in Ends /\ Own(x.turn, x.end)
    BY <1>3, <1>6, <2>1
  <2> QED BY <1>7, <2>2, <2>3, <2>4 DEF Exact
<1>10. CASE row.event \in Ends
  <2>1. PICK j \in 1..(n - 1) : Asked(log, j, n)
    BY <1>10 DEF InStep
  <2>2. /\ log[j].event = "request" /\ log[j].of = row.of /\ j \in Nat /\ j # 0
        /\ \A k \in (j + 1)..(n - 1) : log[k].event \notin Marks
    BY <2>1 DEF Asked, Quiet
  <2>3. p.asked = j
    BY <1>2, <2>1 DEF Asked
  <2>4. Own(j, n)
    BY <2>2 DEF Own, Marks
  <2>5. q.asked = 0 /\ q.paired = p.paired \cup {z}
    BY <1>1, <1>10, <2>2, <2>3, ToldCases DEF Ends, Failures
  <2>6. z.turn = j /\ z.end = n
    BY <2>3
  <2> HIDE DEF q, z
  <2>7. ASSUME NEW i \in 1..n, log[i].event = "request", Quiet(log, i, n + 1)
        PROVE  FALSE
    <3>1. i \in 1..(n - 1)
      BY <1>5, <1>10, <2>7 DEF Ends, Failures
    <3> QED BY <1>8, <1>10, <2>7, <3>1 DEF Quiet, Marks
  <2>8. \A x \in q.paired : x.end \in 1..n /\ log[x.end].event \in Ends /\ Own(x.turn, x.end)
    <3>1. \A x \in q.paired : x = z \/ x \in p.paired
      BY <2>5
    <3>2. z.end \in 1..n /\ log[z.end].event \in Ends /\ Own(z.turn, z.end)
      BY <1>10, <2>4, <2>6
    <3> QED BY <1>3, <1>6, <3>1, <3>2
  <2>9. \A i \in 1..n : log[i].event \in Ends => \E x \in q.paired : x.end = i
    BY <1>4, <1>5, <2>5, <2>6
  <2> QED BY <1>7, <2>7, <2>8, <2>9 DEF Exact
<1>11. CASE row.event \notin Marks
  <2>1. q = p
    BY <1>1, <1>11, ToldCases DEF Marks, Ends, Failures
  <2> HIDE DEF q
  <2>2. \A j \in 1..n : log[j].event = "request" /\ Quiet(log, j, n + 1) => q.asked = j
    BY <1>2, <1>5, <1>8, <1>11, <2>1 DEF Marks
  <2>3. \A i \in 1..n : log[i].event \in Ends => \E x \in q.paired : x.end = i
    BY <1>4, <1>5, <1>11, <2>1 DEF Marks
  <2>4. \A x \in q.paired : x.end \in 1..n /\ log[x.end].event \in Ends /\ Own(x.turn, x.end)
    BY <1>3, <1>6, <2>1
  <2> QED BY <1>7, <2>2, <2>3, <2>4 DEF Exact
<1> QED BY <1>9, <1>10, <1>11 DEF Marks

\* After every row, then: a row where it fails has a first one, and that has one
\* before it.
Knows(p, n) == Distinct(p, n) /\ (InStep(log) => Exact(p, n))

LEMMA TurnsAreRight ==
  ASSUME LogIsRows
  PROVE  Knows(Telling(log)[Len(log)], Len(log))
<1> DEFINE t == Telling(log)
           N == Len(log)
           T == {n \in 0..N : ~Knows(t[n], n)}
<1>1. log \in Seq(Row) /\ N \in Nat
  BY DEF LogIsRows
<1>2. TurnsUpTo(t, log, N)
  BY <1>1, TellingIs
<1>3. \A k \in 0..N : t[k] = IF k = 0 THEN NoTurns ELSE Told(t[k - 1], k, log[k])
  <2> HIDE DEF t, N
  <2> QED BY <1>2 DEF TurnsUpTo
<1> HIDE DEF t
<1>4. T = {}
  <2> SUFFICES ASSUME T # {}
               PROVE  FALSE
    OBVIOUS
  <2>1. T \subseteq Nat
    BY <1>1
  <2>2. PICK n \in T : \A m \in T : n <= m
    BY <2>1, LeastNat
  <2>3. n \in Nat /\ n \in 0..N /\ ~Knows(t[n], n)
    BY <1>1
  <2>4. CASE n = 0
    <3>1. t[n] = NoTurns
      BY <1>3, <2>3, <2>4
    <3>2. Distinct(NoTurns, 0) /\ Exact(NoTurns, 0)
      BY DEF Distinct, Exact, NoTurns
    <3> QED BY <2>3, <2>4, <3>1, <3>2 DEF Knows
  <2>5. CASE n # 0
    <3>1. n \in 1..N /\ n - 1 \in 0..N /\ ~(n <= n - 1)
      BY <1>1, <2>3, <2>5
    <3>2. n - 1 \notin T
      BY <2>2, <3>1
    <3>3. Knows(t[n - 1], n - 1)
      BY <3>1, <3>2
    <3>4. t[n] = Told(t[n - 1], n, log[n])
      BY <1>3, <2>3, <2>5
    <3>5. Distinct(t[n], n)
      BY <1>1, <3>1, <3>3, <3>4, OneMoreDistinct DEF Knows
    <3>6. InStep(log) => Exact(t[n], n)
      BY <1>1, <3>1, <3>3, <3>4, OneMoreExact DEF Knows
    <3> QED BY <2>3, <3>5, <3>6 DEF Knows
  <2> QED BY <2>4, <2>5
<1>5. N \in 0..N
  BY <1>1
<1>6. Knows(t[N], N)
  BY <1>4, <1>5
<1> QED BY <1>6 DEF t

----------------------------------------------------------------------------
(* While requests do not overlap, the log says so. *)

\* A client has a request on record that nothing has ended.
Open(l, a) ==
  \E j \in 1..Len(l) : l[j].event = "request" /\ l[j].of = a /\ Quiet(l, j, Len(l) + 1)

LEMMA LongerLog ==
  ASSUME NEW l \in Seq(Row), NEW r \in Row
  PROVE  /\ Append(l, r) \in Seq(Row) /\ Len(l) \in Nat /\ Len(Append(l, r)) = Len(l) + 1
         /\ Append(l, r)[Len(l) + 1] = r
         /\ \A k \in 1..Len(l) : Append(l, r)[k] = l[k]
OBVIOUS

\* What is on record of an end stays so.
LEMMA AskedBefore ==
  ASSUME NEW l \in Seq(Row), NEW r \in Row, NEW i \in 1..Len(l), NEW j \in 1..(i - 1), Asked(l, j, i)
  PROVE  Asked(Append(l, r), j, i)
<1> DEFINE m == Append(l, r)
<1>1. Len(l) \in Nat /\ i \in Nat /\ i <= Len(l) /\ \A k \in 1..Len(l) : m[k] = l[k]
  BY LongerLog
<1> HIDE DEF m
<1>2. j \in 1..Len(l) /\ \A k \in (j + 1)..(i - 1) : k \in 1..Len(l)
  BY <1>1
<1>3. m[j] = l[j] /\ m[i] = l[i] /\ \A k \in (j + 1)..(i - 1) : m[k] = l[k]
  BY <1>1, <1>2
<1>4. \A k \in (j + 1)..(i - 1) : l[k].event \notin Marks
  BY DEF Asked, Quiet
<1>5. \A k \in (j + 1)..(i - 1) : m[k].event \notin Marks
  BY <1>3, <1>4
<1>6. m[j].event = "request" /\ m[j].of = m[i].of
  BY <1>3 DEF Asked
<1>7. Asked(m, j, i)
  BY <1>5, <1>6 DEF Asked, Quiet
<1> QED BY <1>7 DEF m

LEMMA OtherRow ==
  ASSUME NEW l \in Seq(Row), NEW r \in Row, InStep(l), r.event \notin Ends
  PROVE  InStep(Append(l, r))
<1> DEFINE m == Append(l, r)
<1>1. Len(l) \in Nat /\ Len(m) = Len(l) + 1 /\ m[Len(l) + 1] = r /\ \A k \in 1..Len(l) : m[k] = l[k]
  BY LongerLog
<1>2. ASSUME NEW i \in 1..Len(m), m[i].event \in Ends
      PROVE  \E j \in 1..(i - 1) : Asked(m, j, i)
  <2>1. i \in 1..Len(l) /\ l[i].event \in Ends
    <3> HIDE DEF m
    <3> QED BY <1>1, <1>2
  <2>2. PICK j \in 1..(i - 1) : Asked(l, j, i)
    BY <2>1 DEF InStep
  <2>3. Asked(m, j, i)
    BY <2>1, <2>2, AskedBefore
  <2> QED BY <2>3
<1> HIDE DEF m
<1>3. InStep(m)
  BY <1>2 DEF InStep
<1> QED BY <1>3 DEF m

LEMMA EndRow ==
  ASSUME NEW l \in Seq(Row), NEW r \in Row, InStep(l), r.event \in Ends, Open(l, r.of)
  PROVE  InStep(Append(l, r))
<1> DEFINE m == Append(l, r)
<1>1. Len(l) \in Nat /\ Len(m) = Len(l) + 1 /\ m[Len(l) + 1] = r /\ \A k \in 1..Len(l) : m[k] = l[k]
  BY LongerLog
<1>2. ASSUME NEW i \in 1..Len(l), l[i].event \in Ends
      PROVE  \E j \in 1..(i - 1) : Asked(m, j, i)
  <2>1. PICK j \in 1..(i - 1) : Asked(l, j, i)
    BY <1>2 DEF InStep
  <2>2. Asked(m, j, i)
    BY <1>2, <2>1, AskedBefore
  <2> QED BY <2>2
<1>3. \E j \in 1..(Len(l) + 1) - 1 : Asked(m, j, Len(l) + 1)
  <2>1. PICK j \in 1..Len(l) : l[j].event = "request" /\ l[j].of = r.of /\ Quiet(l, j, Len(l) + 1)
    BY DEF Open
  <2> HIDE DEF m
  <2>2. \A k \in (j + 1)..((Len(l) + 1) - 1) : k \in 1..Len(l)
    BY <1>1
  <2>3. Quiet(m, j, Len(l) + 1)
    BY <1>1, <2>1, <2>2 DEF Quiet
  <2>4. j \in 1..((Len(l) + 1) - 1) /\ m[j].event = "request" /\ m[j].of = m[Len(l) + 1].of
    BY <1>1, <2>1
  <2> QED BY <2>3, <2>4 DEF Asked
<1> HIDE DEF m
<1>4. \A i \in 1..Len(m) : i = Len(l) + 1 \/ (i \in 1..Len(l) /\ m[i] = l[i])
  BY <1>1
<1>5. InStep(m)
  BY <1>2, <1>3, <1>4 DEF InStep
<1> QED BY <1>5 DEF m

LEMMA RequestRow ==
  ASSUME NEW l \in Seq(Row), NEW r \in Row, r.event = "request"
  PROVE  Open(Append(l, r), r.of)
<1> DEFINE m == Append(l, r)
<1>1. Len(l) \in Nat /\ Len(m) = Len(l) + 1 /\ m[Len(l) + 1] = r
  BY LongerLog
<1> HIDE DEF m
<1>2. Len(m) \in 1..Len(m) /\ \A k \in (Len(m) + 1)..((Len(m) + 1) - 1) : FALSE
  BY <1>1
<1>3. Open(m, r.of)
  BY <1>1, <1>2 DEF Open, Quiet
<1> QED BY <1>3 DEF m

\* While no two requests have overlapped, the log is in step, one client at the
\* most is at work, and it has its request open.
OneAtWork ==
  /\ \A a, b \in Agents : Going(a) /\ Going(b) => a = b
  /\ \A a \in Agents : Going(a) => Open(log, a)
Sequential == alone => InStep(log) /\ OneAtWork

\* A thread that goes on, or ends without a row.
LEMMA GoingOn ==
  ASSUME Sequential, log' = log, alone' = alone, \A a \in Agents : Going(a)' => Going(a)
  PROVE  Sequential'
BY DEF Sequential, OneAtWork

\* A thread that ends with a row about it, or with two.
LEMMA EndKeepsSequential ==
  ASSUME LogIsRows, Sequential, alone' = alone, NEW a \in Agents, Going(a), ~Going(a)',
         \A b \in Agents : b # a => (Going(b)' => Going(b)),
         NEW e \in Ends \cup {"upstream_unreachable"},
         \/ note(a, e)
         \/ log' = Append(Append(log, [event |-> e, of |-> a]), [event |-> "too_long", of |-> a])
  PROVE  Sequential'
<1> SUFFICES ASSUME alone
             PROVE  InStep(log') /\ \A b \in Agents : ~Going(b)'
  BY DEF Sequential, OneAtWork
<1> DEFINE r == [event |-> e, of |-> a]
           t == [event |-> "too_long", of |-> a]
<1>1. log \in Seq(Row) /\ InStep(log) /\ Open(log, a) /\ \A b \in Agents : Going(b) => b = a
  BY DEF LogIsRows, Sequential, OneAtWork
<1>2. r \in Row /\ r.event = e /\ r.of = a /\ t \in Row /\ t.event \notin Ends
  BY DEF Row, Ends, Failures
<1>3. log' = Append(log, r) \/ log' = Append(Append(log, r), t)
  BY DEF note
<1> HIDE DEF r, t
<1>4. InStep(Append(log, r)) /\ Append(log, r) \in Seq(Row)
  BY <1>1, <1>2, OtherRow, EndRow, LongerLog
<1>5. InStep(Append(Append(log, r), t))
  BY <1>2, <1>4, OtherRow
<1> QED BY <1>1, <1>3, <1>4, <1>5

LEMMA AskKeepsSequential ==
  ASSUME LogIsRows, Sequential, NEW a \in Agents, Ask(a)
  PROVE  Sequential'
<1> SUFFICES ASSUME alone'
             PROVE  (InStep(log) /\ OneAtWork)'
  BY DEF Sequential
<1> DEFINE r == [event |-> "request", of |-> a]
<1>1. alone /\ (\A b \in Agents : ~Going(b)) /\ log' = Append(log, r) /\ at' = [at EXCEPT ![a] = "asking"]
  BY DEF Ask, note, Goes
<1>2. log \in Seq(Row) /\ InStep(log) /\ r \in Row /\ r.event = "request" /\ r.of = a /\ r.event \notin Ends
  BY <1>1 DEF LogIsRows, Sequential, Row, Ends, Failures
<1> HIDE DEF r
<1>3. InStep(log') /\ Open(log', a)
  BY <1>1, <1>2, OtherRow, RequestRow
<1>4. \A b \in Agents : Going(b)' => b = a
  BY <1>1 DEF Going
<1> QED BY <1>3, <1>4 DEF OneAtWork

LEMMA NextSequential ==
  ASSUME IInv, LogIsRows, Sequential, [Next]_vars
  PROVE  Sequential'
<1> at \in [Agents -> Place] /\ \A a \in Agents : due[a] # <<>> => Going(a)
  <2>1. \A a \in Agents : at[a] \in Place /\ InGrammar(at[a], said[a], due[a], heard[a])
    BY DEF IInv, TypeOK
  <2> QED BY <2>1 DEF IInv, TypeOK, InGrammar, Place, Going
<1>1. ASSUME NEW a \in Agents, Ask(a)
      PROVE  Sequential'
  BY <1>1, AskKeepsSequential
<1>2. ASSUME NEW a \in Agents, Going(a), alone' = alone, NEW w \in {"idle", "dead"}, Goes(a, w)
      PROVE  ~Going(a)' /\ \A b \in Agents : b # a => (Going(b)' => Going(b))
  BY <1>2 DEF Goes, Going
<1>3. ASSUME NEW a \in Agents, UpstreamError(a)
      PROVE  Sequential'
  <2> DEFINE r == [event |-> "upstream_error", of |-> a]
             t == [event |-> "too_long", of |-> a]
  <2>1. Going(a) /\ alone' = alone /\ \E w \in {"idle", "dead"} : Goes(a, w)
    BY <1>3 DEF UpstreamError, Going
  <2>2. ~Going(a)' /\ \A b \in Agents : b # a => (Going(b)' => Going(b))
    BY <1>2, <2>1
  <2>3. note(a, "upstream_error") \/ log' = log \o <<r, t>>
    BY <1>3 DEF UpstreamError
  <2>4. log \o <<r, t>> = Append(Append(log, r), t)
    <3>1. r \in Row /\ t \in Row /\ log \in Seq(Row)
      BY DEF Row, LogIsRows
    <3> HIDE DEF r, t
    <3> QED BY <3>1, ConcatTwo
  <2>5. "upstream_error" \in Ends \cup {"upstream_unreachable"}
    BY DEF Ends, Failures
  <2> QED BY <2>1, <2>2, <2>3, <2>4, <2>5, EndKeepsSequential
<1>4. ASSUME NEW a \in Agents, UpstreamUnreachable(a) \/ UpstreamReplies(a) \/ Done(a) \/ ClientGone(a)
      PROVE  Sequential'
  <2>1. /\ Going(a) /\ alone' = alone /\ \E w \in {"idle", "dead"} : Goes(a, w)
        /\ \E e \in {"upstream_unreachable", "done", "client_gone"} : note(a, e)
    BY <1>4 DEF UpstreamUnreachable, UpstreamReplies, Done, ClientGone, Going
  <2>2. ~Going(a)' /\ \A b \in Agents : b # a => (Going(b)' => Going(b))
    BY <1>2, <2>1
  <2>3. {"upstream_unreachable", "done", "client_gone"} \subseteq Ends \cup {"upstream_unreachable"}
    BY DEF Ends, Failures
  <2> QED BY <2>1, <2>2, <2>3, EndKeepsSequential
<1>5. ASSUME NEW a \in Agents, UpstreamBreaks(a)
      PROVE  Sequential'
  <2>1. Going(a) /\ alone' = alone /\ Goes(a, "idle") /\ (note(a, "client_gone") \/ log' = log)
    BY <1>5 DEF UpstreamBreaks, Going
  <2>2. ~Going(a)' /\ \A b \in Agents : b # a => (Going(b)' => Going(b))
    BY <1>2, <2>1
  <2>3. "client_gone" \in Ends \cup {"upstream_unreachable"}
    BY DEF Ends, Failures
  <2>4. CASE note(a, "client_gone")
    BY <2>1, <2>2, <2>3, <2>4, EndKeepsSequential
  <2>5. CASE log' = log
    BY <2>1, <2>2, <2>5, GoingOn
  <2> QED BY <2>1, <2>4, <2>5
<1>6. ASSUME NEW a \in Agents, StreamStarts(a) \/ StreamEnds(a)
      PROVE  Sequential'
  <2>1. Going(a) /\ log' = log /\ alone' = alone /\ \E w : Goes(a, w)
    BY <1>6 DEF StreamStarts, StreamEnds, Going
  <2>2. \A b \in Agents : Going(b)' => Going(b)
    BY <2>1 DEF Goes, Going
  <2> QED BY <2>1, <2>2, GoingOn
<1>7. ASSUME NEW a \in Agents, (\E c \in Chunks : Chunk(a, c)) \/ Write(a)
      PROVE  Sequential'
  <2>1. at' = at /\ log' = log /\ alone' = alone
    BY <1>7 DEF Chunk, Write
  <2> QED BY <2>1, GoingOn DEF Going
<1>8. CASE UNCHANGED vars
  BY <1>8, GoingOn DEF vars, Going
<1> QED BY <1>1, <1>3, <1>4, <1>5, <1>6, <1>7, <1>8 DEF Next

\* context_watch.turns: while no requests overlap, however many and however those
\* before them ended, each end is told as a turn of the request it ended and
\* nothing else is told; and of those that overlap none is told twice.
THEOREM TurnsAreToldApart ==
  Spec => []PairedInTurn
<1>1. Init => LogIsRows /\ Sequential
  <2> SUFFICES ASSUME Init
               PROVE  LogIsRows /\ Sequential
    OBVIOUS
  <2>1. log = <<>> /\ \A a \in Agents : ~Going(a)
    BY DEF Init, Going
  <2> QED BY <2>1 DEF LogIsRows, Sequential, OneAtWork, InStep
<1>2. IInv /\ LogIsRows /\ Sequential /\ [Next]_vars => (LogIsRows /\ Sequential)'
  BY NextLogIsRows, NextSequential
<1>3. LogIsRows /\ Sequential => PairedInTurn
  <2> SUFFICES ASSUME LogIsRows, Sequential
               PROVE  PairedInTurn
    OBVIOUS
  <2> DEFINE p == Telling(log)[Len(log)]
  <2>1. turns(log) = p.paired
    BY DEF turns
  <2>2. Distinct(p, Len(log)) /\ (InStep(log) => Exact(p, Len(log)))
    BY TurnsAreRight DEF Knows
  <2>3. DOMAIN log = 1..Len(log)
    BY DEF LogIsRows
  <2> HIDE DEF p
  <2>4. ASSUME alone
        PROVE  /\ \A x \in p.paired : Own(x.turn, x.end)
               /\ {x.end : x \in p.paired} = {i \in DOMAIN log : log[i].event \in Ends}
    <3>1. Exact(p, Len(log))
      BY <2>2, <2>4 DEF Sequential
    <3>2. \A x \in p.paired : x.end \in DOMAIN log /\ log[x.end].event \in Ends /\ Own(x.turn, x.end)
      BY <2>3, <3>1 DEF Exact
    <3>3. \A i \in DOMAIN log : log[i].event \in Ends => \E x \in p.paired : x.end = i
      BY <2>3, <3>1 DEF Exact
    <3> QED BY <3>2, <3>3
  <2>5. \A x, y \in p.paired : x.end = y.end \/ (x.turn = y.turn /\ x.turn # 0) => x = y
    BY <2>2 DEF Distinct
  <2>6. \A i \in DOMAIN log : log[i].event \in Failures => \E x \in p.paired : x.end = i
    BY <2>2, <2>3 DEF Distinct
  <2> QED BY <2>1, <2>4, <2>5, <2>6 DEF PairedInTurn
<1> QED BY <1>1, <1>2, <1>3, Invariant, PTL DEF Spec

=============================================================================
