---------------------------- MODULE VerifyProofs ----------------------------
(***************************************************************************)
(* Proofs about Verify and the decisions in Citations, for any answers and *)
(* any questions.                                                          *)
(***************************************************************************)
EXTENDS Verify, SequenceTheorems, FiniteSetTheorems, WellFoundedInduction, TLAPS

----------------------------------------------------------------------------
(* The reader of an answer. *)

PieceOf == [kind : {None, "file", "command"}, path : Nat, lines : Nat, quote : Nat]
ClaimOf == [line : Nat, names : BOOLEAN, pieces : Seq(PieceOf)]
Reading == [claims : Seq(ClaimOf), evidence : Nat, cited : Seq(Nat),
            quote : [line : Nat, holds : Seq(Kinds \cup {"text"})], given : SUBSET Nat]

\* Pieces that point to the lines from l to n only.
PointsTo(P, l, n) ==
  \A i \in DOMAIN P : \A x \in {P[i].path, P[i].lines, P[i].quote} : x = 0 \/ (l <= x /\ x <= n)

\* The last line that counts for a claim when n lines are read.
Upto(r, k, n) == IF k = Len(r.claims) THEN n ELSE r.claims[k + 1].line - 1

\* A quote is with a claim, or one that came after it is where it was.
Has(P, q) ==
  (\E i \in DOMAIN P : P[i].quote = q) \/ (answer[q] = "evidenceqr" /\ SharedOver(P, q))

\* Each quote given is with some claim.
NoneLost(cs, qs) == \A q \in qs : q # 0 /\ \E k \in DOMAIN cs : Has(cs[k].pieces, q)

\* A piece that may get a quote: it has none, or the only copy of one that it brought
\* along from a line that also names a command.
Yields(P, i) ==
  P[i].quote = 0 \/ /\ P[i].lines = P[i].quote /\ answer[P[i].quote] = "evidenceqr"
                    /\ \A j \in DOMAIN P : P[j].quote = P[i].quote => j = i

\* The piece at hand is one of those last cited, and these wait for a quote
\* together.
AtHand(P, e, c) ==
  e # 0 => /\ e \in DOMAIN P
           /\ \E x \in DOMAIN c : c[x] = e
           /\ \A x \in DOMAIN c : c[x] \in DOMAIN P
           /\ P[e].quote = 0 => \A x \in DOMAIN c : Yields(P, c[x])

\* An open quote waits for its text with a piece that has none, and came after
\* those that are there.
Open(P, e, q, l, n) ==
  q.line # 0 => /\ e # 0 /\ P[e].quote = 0 /\ l <= q.line /\ q.line <= n
                /\ \A i \in DOMAIN P : P[i].quote < q.line

Rising(cs) == \A j, k \in DOMAIN cs : j < k => cs[j].line < cs[k].line

Ok(r, n) ==
  /\ r \in Reading
  /\ Rising(r.claims)
  /\ \A k \in DOMAIN r.claims : 0 < r.claims[k].line /\ r.claims[k].line <= n
  /\ \A k \in DOMAIN r.claims : PointsTo(r.claims[k].pieces, r.claims[k].line, Upto(r, k, n))
  /\ NoneLost(r.claims, r.given)
  /\ r.claims = <<>> => r.evidence = 0 /\ r.quote.line = 0
  /\ r.claims # <<>> => /\ AtHand(Pieces(r), r.evidence, r.cited)
                        /\ Open(Pieces(r), r.evidence, r.quote, Current(r).line, n)

\* A step that changes the pieces of the last claim only.
LEMMA LastChanged ==
  ASSUME NEW n \in Nat, NEW r, Ok(r, n), r.claims # <<>>, NEW s \in Reading, NEW P \in Seq(PieceOf),
         s.claims = [r.claims EXCEPT ![Len(r.claims)].pieces = P],
         PointsTo(P, Current(r).line, n),
         \A q \in Nat \ {0} : Has(Pieces(r), q) => Has(P, q),
         \A q \in s.given : q \in r.given \/ (q # 0 /\ Has(P, q)),
         AtHand(P, s.evidence, s.cited),
         Open(P, s.evidence, s.quote, Current(r).line, n)
  PROVE  Ok(s, n) /\ s.claims # <<>> /\ Pieces(s) = P /\ Current(s).line = Current(r).line
                  /\ Current(s).names = Current(r).names
<1> DEFINE L == Len(r.claims)
           cs == r.claims
           ds == s.claims
<1>1. L \in Nat /\ L # 0 /\ L \in DOMAIN cs /\ DOMAIN cs = 1..L /\ cs \in Seq(ClaimOf)
  BY DEF Ok, Reading
<1>2. Len(ds) = L /\ DOMAIN ds = DOMAIN cs /\ ds # <<>>
  BY <1>1
<1>3. \A k \in DOMAIN cs : k # L => ds[k] = cs[k]
  BY <1>1
<1>4. ds[L] = [cs[L] EXCEPT !.pieces = P] /\ cs[L] \in ClaimOf
  BY <1>1
<1>5. ds[L].pieces = P /\ ds[L].line = cs[L].line /\ ds[L].names = cs[L].names
  BY <1>4 DEF ClaimOf
<1>6. \A k \in DOMAIN cs : ds[k].line = cs[k].line
  BY <1>3, <1>5
<1>7. Pieces(s) = P /\ Current(s).line = cs[L].line /\ Current(s).names = cs[L].names
  BY <1>2, <1>5 DEF Pieces, Current
<1>8. Current(r) = cs[L] /\ Pieces(r) = cs[L].pieces
  BY DEF Pieces, Current
<1> HIDE DEF L, cs, ds
<1>9. Rising(ds)
  BY <1>1, <1>2, <1>6 DEF Rising, Ok, cs
<1>10. \A k \in DOMAIN ds : 0 < ds[k].line /\ ds[k].line <= n
  BY <1>2, <1>6 DEF Ok, cs
<1>11. \A k \in DOMAIN ds : PointsTo(ds[k].pieces, ds[k].line, Upto(s, k, n))
  <2> SUFFICES ASSUME NEW k \in DOMAIN ds
               PROVE  PointsTo(ds[k].pieces, ds[k].line, Upto(s, k, n))
    OBVIOUS
  <2>1. CASE k = L
    BY <1>2, <1>5, <1>8, <2>1 DEF Upto, ds
  <2>2. CASE k # L
    <3>1. k + 1 \in DOMAIN cs
      BY <1>1, <1>2, <2>2
    <3>2. Upto(s, k, n) = Upto(r, k, n)
      BY <1>2, <1>6, <2>2, <3>1 DEF Upto, ds, cs, L
    <3> QED BY <1>2, <1>3, <2>2, <3>2 DEF Ok, cs
  <2> QED BY <2>1, <2>2
<1>12. NoneLost(ds, s.given)
  <2> SUFFICES ASSUME NEW q \in s.given
               PROVE  q # 0 /\ \E k \in DOMAIN ds : Has(ds[k].pieces, q)
    BY DEF NoneLost
  <2>1. CASE q # 0 /\ Has(P, q)
    BY <1>1, <1>2, <1>5, <2>1
  <2>2. CASE q \in r.given
    <3>1. q \in Nat \ {0}
      BY <2>2 DEF Ok, NoneLost, Reading
    <3>2. PICK k \in DOMAIN cs : Has(cs[k].pieces, q)
      BY <2>2 DEF Ok, NoneLost, cs
    <3>3. CASE k = L
      BY <1>1, <1>2, <1>5, <1>8, <3>1, <3>2, <3>3
    <3>4. CASE k # L
      BY <1>2, <1>3, <3>1, <3>2, <3>4
    <3> QED BY <3>3, <3>4
  <2> QED BY <2>1, <2>2
<1> QED BY <1>2, <1>7, <1>8, <1>9, <1>10, <1>11, <1>12 DEF Ok, ds

\* What is with a claim stays when pieces are added to it.
LEMMA HasGrows ==
  ASSUME NEW P, NEW Q, \A i \in DOMAIN P : i \in DOMAIN Q /\ Q[i] = P[i], NEW q, Has(P, q)
  PROVE  Has(Q, q)
BY DEF Has, SharedOver

\* A line that changes nothing.
LEMMA OneMoreLine ==
  ASSUME NEW n \in Nat, NEW r, Ok(r, n)
  PROVE  Ok(r, n + 1)
<1> DEFINE cs == r.claims
<1>1. cs \in Seq(ClaimOf) /\ Len(cs) \in Nat /\ DOMAIN cs = 1..Len(cs)
  BY DEF Ok, Reading
<1>2. \A k \in DOMAIN cs : cs[k].line \in Nat /\ cs[k].pieces \in Seq(PieceOf)
  <2>1. \A k \in DOMAIN cs : cs[k] \in ClaimOf
    BY <1>1
  <2> QED BY <2>1 DEF ClaimOf
<1>3. \A k \in DOMAIN cs : 0 < cs[k].line /\ cs[k].line <= n + 1
  BY <1>2 DEF Ok
<1>4. ASSUME NEW k \in DOMAIN cs
      PROVE  PointsTo(cs[k].pieces, cs[k].line, Upto(r, k, n + 1))
  <2>1. PointsTo(cs[k].pieces, cs[k].line, Upto(r, k, n))
    BY DEF Ok
  <2>2. CASE k # Len(cs)
    BY <2>1, <2>2 DEF Upto
  <2>3. CASE k = Len(cs)
    <3>1. Upto(r, k, n) = n /\ Upto(r, k, n + 1) = n + 1
      BY <2>3 DEF Upto
    <3>2. ASSUME NEW i \in DOMAIN cs[k].pieces
          PROVE  /\ cs[k].pieces[i].path \in Nat /\ cs[k].pieces[i].lines \in Nat
                 /\ cs[k].pieces[i].quote \in Nat
      <4>1. cs[k].pieces[i] \in PieceOf
        BY <1>2
      <4> QED BY <4>1 DEF PieceOf
    <3> HIDE DEF cs
    <3> QED BY <2>1, <3>1, <3>2 DEF PointsTo
  <2> QED BY <2>2, <2>3
<1>5. cs # <<>> => Open(Pieces(r), r.evidence, r.quote, Current(r).line, n + 1)
  <2>1. r.quote.line \in Nat
    BY DEF Ok, Reading
  <2> QED BY <2>1 DEF Ok, Open
<1> QED BY <1>3, <1>4, <1>5 DEF Ok

\* close_quote.  A quote ends with the pieces it falls to, which had none.
LEMMA ClosingKeeps ==
  ASSUME NEW n \in Nat, NEW r, Ok(r, n)
  PROVE  /\ Ok(ClosedQuote(r), n) /\ ClosedQuote(r).quote.line = 0
         /\ ClosedQuote(r).claims = <<>> <=> r.claims = <<>>
<1>1. CASE r.quote.line = 0
  BY <1>1 DEF ClosedQuote
<1>2. CASE r.quote.line # 0
  <2> DEFINE L == Len(r.claims)
             P == r.claims[L].pieces
             e == r.evidence
             c == r.cited
             line == r.quote.line
             full == \E i \in DOMAIN r.quote.holds : r.quote.holds[i] = "text"
             shared == Len(r.cited) > 1 /\ Elided(r.quote.holds) = Len(r.cited)
             takes(i) == IF shared THEN i \in ToSet(r.cited) ELSE i = r.evidence
             named == IF Current(r).names THEN Current(r).line ELSE 0
             After(p, i) ==
               [p EXCEPT !.quote = IF ~takes(i) THEN @ ELSE IF full THEN r.quote.line ELSE 0,
                         !.path = IF i = r.evidence /\ @ = 0 THEN named ELSE @]
             Q == [i \in DOMAIN P |-> After(P[i], i)]
             s == [r EXCEPT !.quote = NoQuote,
                            !.given = IF full THEN @ \cup {r.quote.line} ELSE @,
                            !.claims[Len(r.claims)].pieces = [i \in DOMAIN @ |-> After(@[i], i)]]
  <2>1. ClosedQuote(r) = s
    BY <1>2 DEF ClosedQuote
  <2>2. /\ r.claims # <<>> /\ r \in Reading /\ Pieces(r) = P /\ Current(r) = r.claims[L]
        /\ AtHand(P, e, c) /\ Open(P, e, r.quote, Current(r).line, n)
        /\ PointsTo(P, Current(r).line, n)
    <3>1. r.claims # <<>> /\ r \in Reading /\ Pieces(r) = P /\ Current(r) = r.claims[L]
      BY <1>2 DEF Ok, Pieces, Current
    <3>2. L \in DOMAIN r.claims /\ Upto(r, L, n) = n
      BY <3>1 DEF Upto, Reading
    <3> QED BY <3>1, <3>2 DEF Ok
  <2>3. L \in DOMAIN r.claims /\ r.claims[L] \in ClaimOf /\ P \in Seq(PieceOf)
    <3>1. r.claims \in Seq(ClaimOf)
      BY <2>2 DEF Reading
    <3>2. L \in DOMAIN r.claims /\ r.claims[L] \in ClaimOf
      BY <2>2, <3>1
    <3> QED BY <3>2 DEF ClaimOf
  <2>4. line \in Nat /\ e \in Nat /\ c \in Seq(Nat) /\ named \in Nat
    BY <2>2, <2>3 DEF Reading, ClaimOf
  <2>5. e \in DOMAIN P /\ P[e].quote = 0 /\ takes(e) /\ \A i \in DOMAIN P : takes(i) => Yields(P, i)
    BY <1>2, <2>2, <2>4 DEF AtHand, Open, ToSet, Yields
  <2>16. shared => full
    <3> SUFFICES ASSUME ~full, Elided(r.quote.holds) > 1
                 PROVE  FALSE
      BY <2>4
    <3>1. \A i \in DOMAIN r.quote.holds : r.quote.holds[i] # "text"
      OBVIOUS
    <3>2. Elided(r.quote.holds) = Cardinality({})
      BY <3>1, Zenon DEF Elided
    <3> QED BY <3>2, FS_EmptySet
  <2>17. \A i \in DOMAIN P : takes(i) => i = e \/ full
    BY <2>16
  <2> HIDE DEF full, takes, named
  <2>6. \A i \in DOMAIN P :
          /\ Q[i] \in PieceOf
          /\ Q[i].quote = IF ~takes(i) THEN P[i].quote ELSE IF full THEN line ELSE 0
          /\ Q[i].path = IF i = e /\ P[i].path = 0 THEN named ELSE P[i].path
          /\ Q[i].lines = P[i].lines
    <3> SUFFICES ASSUME NEW i \in DOMAIN P
                 PROVE  /\ Q[i] \in PieceOf
                        /\ Q[i].quote = IF ~takes(i) THEN P[i].quote ELSE IF full THEN line ELSE 0
                        /\ Q[i].path = IF i = e /\ P[i].path = 0 THEN named ELSE P[i].path
                        /\ Q[i].lines = P[i].lines
      OBVIOUS
    <3> DEFINE p == P[i]
               a == IF ~takes(i) THEN p.quote ELSE IF full THEN line ELSE 0
               b == IF i = e /\ p.path = 0 THEN named ELSE p.path
    <3>1. p \in PieceOf
      BY <2>3
    <3>2. a \in Nat /\ b \in Nat
      BY <2>4, <3>1 DEF PieceOf
    <3>3. Q[i] = [p EXCEPT !.quote = a, !.path = b]
      BY <3>1 DEF PieceOf
    <3> HIDE DEF Q, a, b, p
    <3>4. Q[i] \in PieceOf /\ Q[i].quote = a /\ Q[i].path = b /\ Q[i].lines = p.lines
      BY <3>1, <3>2, <3>3 DEF PieceOf
    <3> QED BY <3>4 DEF a, b, p
  <2>7. DOMAIN Q = DOMAIN P /\ Q \in Seq(PieceOf)
    <3>1. DOMAIN Q = DOMAIN P /\ DOMAIN P = 1..Len(P) /\ Len(P) \in Nat
      BY <2>3
    <3> HIDE DEF Q, P
    <3>2. Q = [i \in 1..Len(P) |-> Q[i]]
      BY <3>1 DEF Q
    <3> QED BY <2>6, <3>1, <3>2
  <2>8. s.claims = [r.claims EXCEPT ![L].pieces = Q] /\ s.evidence = e /\ s.cited = c
        /\ s.quote = NoQuote /\ s.given = IF full THEN r.given \cup {line} ELSE r.given
    BY <2>2, <2>3 DEF Reading
  <2>9. s \in Reading
    <3> DEFINE cs == [r.claims EXCEPT ![L].pieces = Q]
               g == IF full THEN r.given \cup {line} ELSE r.given
    <3>1. r.claims \in Seq(ClaimOf) /\ g \in SUBSET Nat
      BY <2>2, <2>4 DEF Reading
    <3>2. [r.claims[L] EXCEPT !.pieces = Q] \in ClaimOf
      BY <2>3, <2>7 DEF ClaimOf
    <3>3. cs \in Seq(ClaimOf)
      <4> DEFINE d == [r.claims[L] EXCEPT !.pieces = Q]
      <4>1. cs = [r.claims EXCEPT ![L] = d]
        OBVIOUS
      <4>2. d \in ClaimOf /\ L \in DOMAIN r.claims
        BY <2>3, <3>2
      <4> HIDE DEF d, cs, L
      <4> QED BY <3>1, <4>1, <4>2, ExceptSeq
    <3>4. NoQuote \in [line : Nat, holds : Seq(Kinds \cup {"text"})]
      BY DEF NoQuote
    <3>5. s = [r EXCEPT !.quote = NoQuote, !.given = g, !.claims = cs]
      BY <2>2, <2>3 DEF Reading
    <3> HIDE DEF cs, g, s
    <3> QED BY <2>2, <3>1, <3>3, <3>4, <3>5 DEF Reading
  <2> HIDE DEF Q, s, P
  <2>10. PointsTo(Q, Current(r).line, n)
    <3>1. named = 0 \/ named = Current(r).line
      BY DEF named
    <3>2. Current(r).line <= n /\ Current(r).line \in Nat
      BY <2>2, <2>3 DEF Ok, ClaimOf
    <3>3. ASSUME NEW i \in DOMAIN P
          PROVE  \A x \in {Q[i].path, Q[i].lines, Q[i].quote} : x = 0 \/ (Current(r).line <= x /\ x <= n)
      <4>1. \A x \in {P[i].path, P[i].lines, P[i].quote} : x = 0 \/ (Current(r).line <= x /\ x <= n)
        BY <2>2 DEF PointsTo
      <4>2. Current(r).line <= line /\ line <= n
        BY <1>2, <2>2 DEF Open
      <4> QED BY <2>6, <3>1, <3>2, <4>1, <4>2
    <3> QED BY <2>7, <3>3 DEF PointsTo
  <2>18. \A i \in DOMAIN P : P[i].quote < line
    BY <1>2, <2>2 DEF Open
  <2>11. ASSUME NEW q \in Nat \ {0}, Has(P, q)
         PROVE  Has(Q, q)
    <3>1. CASE \E i \in DOMAIN P : P[i].quote = q
      <4>1. PICK i \in DOMAIN P : P[i].quote = q
        BY <3>1
      <4>2. CASE ~takes(i)
        BY <2>6, <2>7, <4>1, <4>2 DEF Has
      <4>3. CASE takes(i)
        <5>1. i # e /\ full /\ P[i].lines = q /\ answer[q] = "evidenceqr"
          BY <2>5, <2>17, <4>1, <4>3 DEF Yields
        <5>2. Q[i].lines = q /\ Q[i].quote = line /\ Q[e].quote = line /\ line > q
          BY <2>4, <2>5, <2>6, <2>18, <4>1, <4>3, <5>1
        <5> QED BY <2>5, <2>7, <5>1, <5>2 DEF Has, SharedOver
      <4> QED BY <4>2, <4>3
    <3>2. CASE answer[q] = "evidenceqr" /\ SharedOver(P, q)
      <4>1. PICK i \in DOMAIN P : /\ P[i].lines = q /\ P[i].quote > q
                                  /\ \E j \in DOMAIN P \ {i} : P[j].quote = P[i].quote
        BY <3>2 DEF SharedOver
      <4>2. PICK j \in DOMAIN P \ {i} : P[j].quote = P[i].quote
        BY <4>1
      <4>3. P[i] \in PieceOf
        BY <2>3
      <4>4. P[i].quote # 0 /\ P[i].quote # P[i].lines
        BY <4>1, <4>3 DEF PieceOf
      <4>5. ~takes(i) /\ ~takes(j)
        BY <2>5, <4>2, <4>4 DEF Yields
      <4> QED BY <2>6, <2>7, <3>2, <4>1, <4>2, <4>5 DEF Has, SharedOver
    <3> QED BY <2>11, <3>1, <3>2 DEF Has
  <2>12. \A q \in s.given : q \in r.given \/ (q # 0 /\ Has(Q, q))
    BY <1>2, <2>5, <2>6, <2>7, <2>8 DEF Has
  <2>13. AtHand(Q, e, c)
    <3>1. ASSUME Q[e].quote = 0, NEW x \in DOMAIN c
          PROVE  Yields(Q, c[x])
      <4>1. ~full
        BY <1>2, <2>5, <2>6, <3>1
      <4>2. c[x] \in DOMAIN P /\ Yields(P, c[x])
        <5>1. e # 0 /\ P[e].quote = 0
          BY <1>2, <2>2, <2>5 DEF Open
        <5> HIDE DEF c, e
        <5> QED BY <2>2, <3>1, <5>1 DEF AtHand
      <4>3. \A i \in DOMAIN P : Q[i].quote = P[i].quote /\ Q[i].lines = P[i].lines
        BY <2>5, <2>6, <2>17, <4>1
      <4> QED BY <2>7, <4>2, <4>3 DEF Yields
    <3> QED BY <1>2, <2>2, <2>5, <2>7, <3>1 DEF AtHand
  <2>14. Open(Q, e, NoQuote, Current(r).line, n)
    BY DEF Open, NoQuote
  <2>15. Ok(s, n) /\ s.claims # <<>>
    BY <2>2, <2>7, <2>8, <2>9, <2>10, <2>11, <2>12, <2>13, <2>14, LastChanged, Zenon
  <2> QED BY <2>1, <2>2, <2>8, <2>15 DEF NoQuote
<1> QED BY <1>1, <1>2

\* The reading with other pieces under the last claim.
Rewritten(r, P) == [r EXCEPT !.claims[Len(r.claims)].pieces = P]

LEMMA RewrittenIs ==
  ASSUME NEW r \in Reading, r.claims # <<>>, NEW P \in Seq(PieceOf)
  PROVE  /\ Rewritten(r, P) \in Reading
         /\ Rewritten(r, P).claims = [r.claims EXCEPT ![Len(r.claims)].pieces = P]
         /\ Rewritten(r, P).evidence = r.evidence /\ Rewritten(r, P).cited = r.cited
         /\ Rewritten(r, P).quote = r.quote /\ Rewritten(r, P).given = r.given
<1> DEFINE L == Len(r.claims)
           d == [r.claims[L] EXCEPT !.pieces = P]
           cs == [r.claims EXCEPT ![L] = d]
<1>1. r.claims \in Seq(ClaimOf) /\ L \in DOMAIN r.claims
  BY DEF Reading
<1>2. r.claims[L] \in ClaimOf
  BY <1>1
<1>3. d \in ClaimOf
  BY <1>2 DEF ClaimOf
<1>4. Rewritten(r, P) = [r EXCEPT !.claims = cs]
  BY DEF Rewritten
<1>5. cs = [r.claims EXCEPT ![Len(r.claims)].pieces = P]
  OBVIOUS
<1>6. cs \in Seq(ClaimOf)
  <2> HIDE DEF d, L
  <2> QED BY <1>1, <1>3, ExceptSeq
<1> HIDE DEF cs
<1>7. [r EXCEPT !.claims = cs] \in Reading
  BY <1>6 DEF Reading
<1>8. LET s == [r EXCEPT !.claims = cs]
      IN /\ s.claims = cs /\ s.evidence = r.evidence /\ s.cited = r.cited
         /\ s.quote = r.quote /\ s.given = r.given
  BY DEF Reading
<1> QED BY <1>4, <1>5, <1>7, <1>8

LEMMA LastClaim ==
  ASSUME NEW n \in Nat, NEW r, Ok(r, n), r.claims # <<>>
  PROVE  /\ r \in Reading /\ Pieces(r) \in Seq(PieceOf) /\ Current(r) \in ClaimOf
         /\ PointsTo(Pieces(r), Current(r).line, n)
         /\ Current(r).line \in Nat /\ 0 < Current(r).line /\ Current(r).line <= n
<1>1. r \in Reading /\ Len(r.claims) \in DOMAIN r.claims /\ r.claims \in Seq(ClaimOf)
  BY DEF Ok, Reading
<1>2. Current(r) \in ClaimOf
  BY <1>1 DEF Current
<1>3. Pieces(r) \in Seq(PieceOf) /\ Current(r).line \in Nat
  BY <1>2 DEF Pieces, ClaimOf
<1>4. Upto(r, Len(r.claims), n) = n
  BY DEF Upto
<1> QED BY <1>1, <1>2, <1>3, <1>4 DEF Ok, Pieces, Current

\* What is read after a citation.
LEMMA CiteIs ==
  ASSUME NEW r \in Reading, r.claims # <<>>, Pieces(r) \in Seq(PieceOf), NEW ps \in Seq(PieceOf)
  PROVE  /\ Cite(r, ps) \in Reading
         /\ Cite(r, ps).claims = [r.claims EXCEPT ![Len(r.claims)].pieces = Pieces(r) \o ps]
         /\ Cite(r, ps).evidence = Len(Pieces(r)) + Len(ps)
         /\ Cite(r, ps).cited = [i \in DOMAIN ps |-> Len(Pieces(r)) + i]
         /\ Cite(r, ps).quote = r.quote /\ Cite(r, ps).given = r.given
<1> DEFINE N == Len(Pieces(r))
           Q == Pieces(r) \o ps
           e == N + Len(ps)
           c == [i \in DOMAIN ps |-> N + i]
           t == Rewritten(r, Q)
           s == [t EXCEPT !.evidence = e, !.cited = c]
<1>2. Cite(r, ps) = s
  BY DEF Cite, Added, Rewritten, Pieces, Current
<1>3. Q \in Seq(PieceOf) /\ N \in Nat /\ Len(ps) \in Nat /\ e \in Nat
  OBVIOUS
<1>4. c \in Seq(Nat)
  <2>1. DOMAIN ps = 1..Len(ps)
    OBVIOUS
  <2>2. \A i \in 1..Len(ps) : N + i \in Nat
    BY <1>3
  <2> HIDE DEF N
  <2> QED BY <1>3, <2>1, <2>2
<1>5. /\ t \in Reading /\ t.claims = [r.claims EXCEPT ![Len(r.claims)].pieces = Q]
      /\ t.quote = r.quote /\ t.given = r.given
  BY <1>3, RewrittenIs
<1> HIDE DEF t, c, e
<1>6. s \in Reading
  BY <1>3, <1>4, <1>5 DEF Reading
<1>7. s.claims = t.claims /\ s.evidence = e /\ s.cited = c /\ s.quote = t.quote /\ s.given = t.given
  BY <1>5 DEF Reading
<1> QED BY <1>2, <1>5, <1>6, <1>7 DEF c, e

\* A citation adds pieces that wait for a quote.
LEMMA CitingKeeps ==
  ASSUME NEW n \in Nat, NEW r, Ok(r, n), r.claims # <<>>, r.quote.line = 0,
         NEW ps \in Seq(PieceOf), ps # <<>>, PointsTo(ps, Current(r).line, n),
         \A i \in DOMAIN ps : ps[i].quote = 0
  PROVE  /\ Ok(Cite(r, ps), n) /\ Cite(r, ps).claims # <<>>
         /\ Pieces(Cite(r, ps)) = Pieces(r) \o ps
         /\ Current(Cite(r, ps)).line = Current(r).line /\ Current(Cite(r, ps)).names = Current(r).names
         /\ Cite(r, ps).evidence = Len(Pieces(r)) + Len(ps)
         /\ Cite(r, ps).quote = r.quote /\ Cite(r, ps).given = r.given
<1> DEFINE P == Pieces(r)
           N == Len(P)
           Q == P \o ps
           e == N + Len(ps)
           c == [i \in DOMAIN ps |-> N + i]
           s == Cite(r, ps)
<1>1. r \in Reading /\ P \in Seq(PieceOf) /\ PointsTo(P, Current(r).line, n)
  BY LastClaim
<1>2. Q \in Seq(PieceOf) /\ N \in Nat /\ Len(ps) \in Nat /\ Len(ps) # 0
  BY <1>1
<1>3. /\ s \in Reading /\ s.claims = [r.claims EXCEPT ![Len(r.claims)].pieces = Q]
      /\ s.evidence = e /\ s.cited = c /\ s.quote = r.quote /\ s.given = r.given
  BY <1>1, CiteIs
<1> HIDE DEF s
<1>4. /\ DOMAIN Q = 1..(N + Len(ps)) /\ DOMAIN P = 1..N /\ DOMAIN ps = 1..Len(ps)
      /\ \A i \in DOMAIN P : i \in DOMAIN Q /\ Q[i] = P[i]
      /\ \A i \in DOMAIN ps : N + i \in DOMAIN Q /\ Q[N + i] = ps[i]
      /\ \A i \in DOMAIN Q : i \in DOMAIN P \/ (i - N \in DOMAIN ps /\ Q[i] = ps[i - N])
  BY <1>1, <1>2
<1> HIDE DEF Q, P, N, c, e
<1>5. PointsTo(Q, Current(r).line, n)
  BY <1>1, <1>4 DEF PointsTo
<1>6. \A q \in Nat \ {0} : Has(Pieces(r), q) => Has(Q, q)
  BY <1>4, HasGrows DEF P
<1>10. \A q \in s.given : q \in r.given \/ (q # 0 /\ Has(Q, q))
  BY <1>3
<1>7. AtHand(Q, s.evidence, s.cited)
  <2>1. Len(ps) \in DOMAIN ps
    BY <1>2, <1>4
  <2>2. DOMAIN c = DOMAIN ps /\ \A x \in DOMAIN c : c[x] = N + x /\ c[x] \in DOMAIN Q /\ Q[c[x]].quote = 0
    BY <1>4 DEF c
  <2>3. c[Len(ps)] = e /\ e \in DOMAIN Q
    BY <2>1, <2>2 DEF e
  <2> QED BY <1>3, <2>1, <2>2, <2>3 DEF AtHand, Yields
<1>8. Open(Q, s.evidence, s.quote, Current(r).line, n)
  BY <1>3 DEF Open
<1>9. /\ Ok(s, n) /\ s.claims # <<>> /\ Pieces(s) = Q /\ Current(s).line = Current(r).line
      /\ Current(s).names = Current(r).names
  BY <1>2, <1>3, <1>5, <1>6, <1>7, <1>8, <1>10, LastChanged, Zenon
<1> QED BY <1>3, <1>9 DEF Q, P, N, e, s

\* A citation whose first piece brings its quote along, and of whose others one
\* may wait for a quote still.
LEMMA CitingQuotedKeeps ==
  ASSUME NEW n \in Nat \ {0}, NEW r, Ok(r, n), Ok(r, n - 1), r.claims # <<>>, r.quote.line = 0,
         NEW ps \in Seq(PieceOf), Len(ps) = 1 \/ (Len(ps) = 2 /\ answer[n] = "evidenceqr"),
         \A i \in DOMAIN ps : ps[i].path \in {0, n} /\ ps[i].lines \in {0, n} /\ ps[i].quote = 0,
         ps[1].lines = n
  PROVE  Ok(CiteQuoted(r, n, ps), n)
<1> DEFINE qs == [ps EXCEPT ![1].quote = n]
           P == Pieces(r)
           N == Len(P)
           Q == P \o qs
           c == [i \in DOMAIN qs |-> N + i]
           v == Cite(r, qs)
           s == [v EXCEPT !.given = @ \cup {n}]
<1>1. /\ r \in Reading /\ P \in Seq(PieceOf) /\ PointsTo(P, Current(r).line, n)
      /\ Current(r).line \in Nat /\ Current(r).line <= n
  BY LastClaim
<1>2. \A i \in DOMAIN P : P[i].quote < n
  <2>1. PointsTo(Pieces(r), Current(r).line, n - 1) /\ n - 1 \in Nat /\ Pieces(r) \in Seq(PieceOf)
    BY LastClaim
  <2>2. ASSUME NEW i \in DOMAIN Pieces(r)
        PROVE  Pieces(r)[i].quote < n
    <3>1. Pieces(r)[i] \in PieceOf
      BY <2>1
    <3>2. Pieces(r)[i].quote \in Nat /\ n \in Nat \ {0}
      BY <3>1 DEF PieceOf
    <3>3. Pieces(r)[i].quote = 0 \/ Pieces(r)[i].quote <= n - 1
      BY <2>1 DEF PointsTo
    <3> QED BY <3>2, <3>3
  <2> QED BY <2>2
<1>3. DOMAIN ps = 1..Len(ps) /\ 1 \in DOMAIN ps /\ ps[1] \in PieceOf
  OBVIOUS
<1>4. [ps[1] EXCEPT !.quote = n] \in PieceOf
  BY <1>3 DEF PieceOf
<1>5. qs \in Seq(PieceOf)
  <2> DEFINE d == [ps[1] EXCEPT !.quote = n]
  <2>1. qs = [ps EXCEPT ![1] = d]
    OBVIOUS
  <2> HIDE DEF d, qs
  <2> QED BY <1>3, <1>4, <2>1, ExceptSeq DEF d
<1>6. /\ DOMAIN qs = DOMAIN ps /\ Len(qs) = Len(ps)
      /\ qs[1] = [ps[1] EXCEPT !.quote = n] /\ \A i \in DOMAIN ps : i # 1 => qs[i] = ps[i]
  BY <1>3
<1>7. qs[1].quote = n /\ qs[1].lines = n /\ qs[1].path = ps[1].path
  BY <1>3, <1>6 DEF PieceOf
<1>8. CiteQuoted(r, n, ps) = s
  BY DEF CiteQuoted
<1> HIDE DEF qs
<1>9. /\ v \in Reading /\ v.claims = [r.claims EXCEPT ![Len(r.claims)].pieces = Q]
      /\ v.evidence = N + Len(qs) /\ v.cited = c /\ v.quote = r.quote /\ v.given = r.given
  BY <1>1, <1>5, CiteIs
<1> HIDE DEF v
<1>10. /\ s \in Reading /\ s.claims = [r.claims EXCEPT ![Len(r.claims)].pieces = Q]
       /\ s.evidence = N + Len(qs) /\ s.cited = c /\ s.quote = r.quote
       /\ s.given = r.given \cup {n}
  BY <1>9 DEF Reading
<1> HIDE DEF s
<1>11. Q \in Seq(PieceOf) /\ N \in Nat /\ Len(qs) \in {1, 2} /\ DOMAIN qs = 1..Len(qs)
  BY <1>1, <1>3, <1>5, <1>6
<1>12. /\ DOMAIN Q = 1..(N + Len(qs)) /\ DOMAIN P = 1..N
       /\ \A i \in DOMAIN P : i \in DOMAIN Q /\ Q[i] = P[i]
       /\ \A i \in DOMAIN qs : N + i \in DOMAIN Q /\ Q[N + i] = qs[i]
       /\ \A i \in DOMAIN Q : i \in DOMAIN P \/ (i - N \in DOMAIN qs /\ Q[i] = qs[i - N])
  BY <1>1, <1>5, <1>11
<1> HIDE DEF Q, P, N, c
<1>13. PointsTo(Q, Current(r).line, n)
  <2>1. ASSUME NEW i \in DOMAIN qs
        PROVE  \A x \in {qs[i].path, qs[i].lines, qs[i].quote} : x \in {0, n}
    <3>1. CASE i = 1
      BY <1>3, <1>7, <3>1
    <3>2. CASE i # 1
      BY <1>6, <3>2
    <3> QED BY <3>1, <3>2
  <2> QED BY <1>1, <1>12, <2>1 DEF PointsTo
<1>14. \A q \in Nat \ {0} : Has(Pieces(r), q) => Has(Q, q)
  BY <1>12, HasGrows DEF P
<1>15. \A q \in s.given : q \in r.given \/ (q # 0 /\ Has(Q, q))
  <2>1. N + 1 \in DOMAIN Q /\ Q[N + 1].quote = n
    BY <1>3, <1>6, <1>7, <1>12
  <2>2. n # 0 /\ Has(Q, n)
    BY <2>1 DEF Has
  <2> QED BY <1>10, <2>2
<1>16. AtHand(Q, s.evidence, s.cited)
  <2>1. DOMAIN c = DOMAIN qs /\ \A x \in DOMAIN c : c[x] = N + x /\ c[x] \in DOMAIN Q /\ Q[c[x]] = qs[x]
    BY <1>12 DEF c
  <2>2. Len(qs) \in DOMAIN c /\ c[Len(qs)] = N + Len(qs)
    BY <1>11, <2>1
  <2>3. ASSUME Q[N + Len(qs)].quote = 0, NEW x \in DOMAIN c
        PROVE  Yields(Q, c[x])
    <3>1. Len(qs) = 2 /\ answer[n] = "evidenceqr"
      BY <1>6, <1>7, <1>11, <2>1, <2>2, <2>3
    <3>2. CASE x # 1
      BY <1>6, <2>1, <3>2 DEF Yields
    <3>3. CASE x = 1
      <4>1. Q[c[x]].quote = n /\ Q[c[x]].lines = n /\ c[x] = N + 1
        BY <1>7, <2>1, <3>3
      <4>2. ASSUME NEW j \in DOMAIN Q, Q[j].quote = n
            PROVE  j = N + 1
        <5>1. j \notin DOMAIN P
          BY <1>2, <1>12, <4>2
        <5>2. j - N \in DOMAIN qs /\ Q[j] = qs[j - N]
          BY <1>12, <5>1
        <5>3. j - N = 1
          BY <1>6, <4>2, <5>2
        <5> QED BY <1>11, <1>12, <5>3
      <4> QED BY <3>1, <4>1, <4>2 DEF Yields
    <3> QED BY <3>2, <3>3
  <2> QED BY <1>10, <2>1, <2>2, <2>3 DEF AtHand
<1>17. Open(Q, s.evidence, s.quote, Current(r).line, n)
  BY <1>10 DEF Open
<1>18. Ok(s, n)
  BY <1>10, <1>11, <1>13, <1>14, <1>15, <1>16, <1>17, LastChanged, Zenon
<1> QED BY <1>8, <1>18

\* A claim begins, and nothing is at hand any more.
LEMMA BeginningKeeps ==
  ASSUME NEW n \in Nat, NEW r, Ok(r, n), r.quote.line = 0, NEW names \in BOOLEAN
  PROVE  Ok(ReadClaim(r, n + 1, names), n + 1) /\ ReadClaim(r, n + 1, names).quote.line = 0
<1> DEFINE cs == r.claims
           L == Len(cs)
           d == [line |-> n + 1, names |-> names, pieces |-> <<>>]
           ds == Append(cs, d)
           s == ReadClaim(r, n + 1, names)
<1>1. r \in Reading /\ cs \in Seq(ClaimOf) /\ L \in Nat /\ DOMAIN cs = 1..L
  BY DEF Ok, Reading
<1>2. d \in ClaimOf /\ d.line = n + 1 /\ d.pieces = <<>>
  BY DEF ClaimOf
<1>3. s = [r EXCEPT !.claims = ds, !.evidence = 0, !.cited = <<>>]
  BY DEF ReadClaim
<1> HIDE DEF d
<1>4. /\ ds \in Seq(ClaimOf) /\ Len(ds) = L + 1 /\ DOMAIN ds = 1..(L + 1) /\ ds[L + 1] = d
      /\ \A k \in DOMAIN cs : k \in DOMAIN ds /\ ds[k] = cs[k]
      /\ \A k \in DOMAIN ds : k = L + 1 \/ k \in DOMAIN cs
  BY <1>1, <1>2
<1> HIDE DEF ds, s
<1>5. s \in Reading
  <2> DEFINE none == <<>>
  <2>1. none \in Seq(Nat) /\ s = [r EXCEPT !.claims = ds, !.evidence = 0, !.cited = none]
    BY <1>3
  <2> HIDE DEF none
  <2> QED BY <1>1, <1>4, <2>1 DEF Reading
<1>6. s.claims = ds /\ s.evidence = 0 /\ s.cited = <<>> /\ s.quote = r.quote /\ s.given = r.given
  BY <1>1, <1>3 DEF Reading
<1>7. \A k \in DOMAIN cs : cs[k].line \in Nat /\ 0 < cs[k].line /\ cs[k].line <= n
  <2>1. \A k \in DOMAIN cs : cs[k] \in ClaimOf
    BY <1>1
  <2> QED BY <2>1 DEF Ok, ClaimOf
<1>8. \A k \in DOMAIN ds : 0 < ds[k].line /\ ds[k].line <= n + 1
  BY <1>2, <1>4, <1>7
<1>9. Rising(ds)
  <2> SUFFICES ASSUME NEW j \in DOMAIN ds, NEW k \in DOMAIN ds, j < k
               PROVE  ds[j].line < ds[k].line
    BY DEF Rising
  <2>1. j \in DOMAIN cs
    BY <1>1, <1>4
  <2>2. CASE k = L + 1
    BY <1>2, <1>4, <1>7, <2>1, <2>2
  <2>3. CASE k \in DOMAIN cs
    BY <1>4, <2>1, <2>3 DEF Ok, Rising
  <2> QED BY <1>4, <2>2, <2>3
<1>10. \A k \in DOMAIN ds : PointsTo(ds[k].pieces, ds[k].line, Upto(s, k, n + 1))
  <2> SUFFICES ASSUME NEW k \in DOMAIN ds
               PROVE  PointsTo(ds[k].pieces, ds[k].line, Upto(s, k, n + 1))
    OBVIOUS
  <2>1. CASE k = L + 1
    BY <1>2, <1>4, <2>1 DEF PointsTo
  <2>2. CASE k \in DOMAIN cs
    <3>1. Upto(s, k, n + 1) = Upto(r, k, n)
      <4>1. Upto(s, k, n + 1) = ds[k + 1].line - 1
        BY <1>1, <1>4, <1>6, <2>2 DEF Upto
      <4>2. CASE k = L
        BY <1>2, <1>4, <4>1, <4>2 DEF Upto
      <4>3. CASE k # L
        <5>1. k + 1 \in DOMAIN cs
          BY <1>1, <2>2, <4>3
        <5> QED BY <1>4, <4>1, <4>3, <5>1 DEF Upto
      <4> QED BY <4>2, <4>3
    <3> QED BY <1>4, <2>2, <3>1 DEF Ok
  <2> QED BY <1>4, <2>1, <2>2
<1>11. NoneLost(ds, s.given)
  BY <1>4, <1>6 DEF Ok, NoneLost
<1>12. ds # <<>>
  BY <1>1, <1>4
<1> QED BY <1>5, <1>6, <1>8, <1>9, <1>10, <1>11, <1>12 DEF Ok, AtHand, Open, s

\* The piece a QUOTE header is about has no quote yet.
LEMMA AttachingKeeps ==
  ASSUME NEW n \in Nat, NEW r, Ok(r, n), r.claims # <<>>, r.quote.line = 0
  PROVE  /\ Ok(Attached(r), n) /\ Attached(r).claims # <<>> /\ Attached(r).evidence # 0
         /\ Pieces(Attached(r))[Attached(r).evidence].quote = 0
         /\ Current(Attached(r)).line = Current(r).line /\ Current(Attached(r)).names = Current(r).names
         /\ Attached(r).quote = r.quote /\ Attached(r).given = r.given
         /\ \/ Attached(r) = r
            \/ \E p : /\ p.quote = 0 /\ Pieces(Attached(r)) = Pieces(r) \o <<p>>
                      /\ Attached(r).evidence = Len(Pieces(r)) + 1
<1>1. /\ r \in Reading /\ Pieces(r) \in Seq(PieceOf) /\ PointsTo(Pieces(r), Current(r).line, n)
      /\ r.evidence \in Nat
  BY LastClaim DEF Reading
<1>2. ASSUME NEW p \in PieceOf, p.quote = 0, PointsTo(<<p>>, Current(r).line, n), Attached(r) = Cite(r, <<p>>)
      PROVE  /\ Ok(Attached(r), n) /\ Attached(r).claims # <<>> /\ Attached(r).evidence # 0
             /\ Pieces(Attached(r))[Attached(r).evidence].quote = 0
             /\ Current(Attached(r)).line = Current(r).line
             /\ Current(Attached(r)).names = Current(r).names
             /\ Attached(r).quote = r.quote /\ Attached(r).given = r.given
             /\ Pieces(Attached(r)) = Pieces(r) \o <<p>>
             /\ Attached(r).evidence = Len(Pieces(r)) + 1
  <2> DEFINE ps == <<p>>
  <2>1. ps \in Seq(PieceOf) /\ ps # <<>> /\ Len(ps) = 1 /\ \A i \in DOMAIN ps : ps[i].quote = 0
    BY <1>2
  <2>2. Len(Pieces(r)) \in Nat /\ (Pieces(r) \o ps)[Len(Pieces(r)) + 1] = p
    BY <1>1
  <2> HIDE DEF ps
  <2>3. PointsTo(ps, Current(r).line, n) /\ Attached(r) = Cite(r, ps)
    BY <1>2 DEF ps
  <2>4. /\ Ok(Cite(r, ps), n) /\ Cite(r, ps).claims # <<>>
        /\ Pieces(Cite(r, ps)) = Pieces(r) \o ps
        /\ Current(Cite(r, ps)).line = Current(r).line /\ Current(Cite(r, ps)).names = Current(r).names
        /\ Cite(r, ps).evidence = Len(Pieces(r)) + Len(ps)
        /\ Cite(r, ps).quote = r.quote /\ Cite(r, ps).given = r.given
    BY <2>1, <2>3, CitingKeeps
  <2>5. Cite(r, ps).evidence = Len(Pieces(r)) + 1 /\ Len(Pieces(r)) + 1 # 0
    BY <2>1, <2>2, <2>4
  <2> QED BY <1>2, <2>2, <2>3, <2>4, <2>5 DEF ps
<1>3. CASE r.evidence = 0
  <2> DEFINE p == Piece("file", 0, 0)
  <2>1. p \in PieceOf /\ p.quote = 0 /\ p.path = 0 /\ p.lines = 0
    BY DEF Piece, PieceOf
  <2>2. Attached(r) = Cite(r, <<p>>)
    BY <1>3 DEF Attached
  <2> HIDE DEF p
  <2>3. PointsTo(<<p>>, Current(r).line, n)
    BY <2>1 DEF PointsTo
  <2> QED BY <1>2, <2>1, <2>2, <2>3
<1>4. CASE r.evidence # 0 /\ Pieces(r)[r.evidence].quote # 0
  <2> DEFINE o == Pieces(r)[r.evidence]
             p == [o EXCEPT !.lines = 0, !.quote = 0]
  <2>1. AtHand(Pieces(r), r.evidence, r.cited)
    BY DEF Ok
  <2>2. r.evidence \in DOMAIN Pieces(r) /\ o \in PieceOf
    BY <1>1, <1>4, <2>1 DEF AtHand
  <2>3. Attached(r) = Cite(r, <<p>>)
    BY <1>4 DEF Attached
  <2>4. o.path = 0 \/ (Current(r).line <= o.path /\ o.path <= n)
    BY <1>1, <2>2 DEF PointsTo
  <2> HIDE DEF o
  <2>5. p \in PieceOf /\ p.quote = 0 /\ p.lines = 0 /\ p.path = o.path
    BY <2>2 DEF PieceOf
  <2> HIDE DEF p
  <2>6. PointsTo(<<p>>, Current(r).line, n)
    BY <2>4, <2>5 DEF PointsTo
  <2> QED BY <1>2, <2>3, <2>5, <2>6
<1>5. CASE r.evidence # 0 /\ Pieces(r)[r.evidence].quote = 0
  BY <1>5 DEF Attached
<1> QED BY <1>3, <1>4, <1>5

\* A QUOTE header, with its address or without, and the quote that it opens.
LEMMA QuotingKeeps ==
  ASSUME NEW n \in Nat \ {0}, NEW r, Ok(r, n), Ok(r, n - 1), r.claims # <<>>, r.quote.line = 0,
         NEW l \in {"quote", "quoted", "quote@"}
  PROVE  Ok(ReadQuote(r, n, l), n)
<1> DEFINE s == Attached(r)
           L == Len(s.claims)
           e == s.evidence
           P == Pieces(s)
           o == P[e]
           sibling == r.evidence # 0 /\ s # r
           fills(x) == l = "quote@" /\ (sibling \/ x = 0)
           a == IF fills(o.path) THEN n ELSE o.path
           b == IF fills(o.lines) THEN n ELSE o.lines
           k == IF l = "quote@" /\ (sibling \/ o.kind = None) THEN "file" ELSE o.kind
           p == [o EXCEPT !.path = a, !.lines = b, !.kind = k]
           Q == [P EXCEPT ![e] = p]
           q == [line |-> n, holds |-> IF l = "quoted" THEN <<"text">> ELSE <<>>]
           t == [Rewritten(s, Q) EXCEPT !.quote = q]
<1>1. /\ Ok(s, n) /\ s.claims # <<>> /\ e # 0 /\ o.quote = 0
      /\ Current(s).line = Current(r).line
      /\ s.given = r.given
  BY AttachingKeeps
<1>2. /\ s \in Reading /\ P \in Seq(PieceOf) /\ PointsTo(P, Current(s).line, n)
      /\ Current(s).line \in Nat /\ 0 < Current(s).line /\ Current(s).line <= n
  BY <1>1, LastClaim
<1>3. AtHand(P, e, s.cited)
  BY <1>1 DEF Ok
<1>4. e \in DOMAIN P /\ o \in PieceOf
  BY <1>1, <1>2, <1>3 DEF AtHand
<1>5. ReadQuote(r, n, l) = t
  BY DEF ReadQuote, Rewritten, Pieces, Current
<1>21. \A i \in DOMAIN P : P[i].quote < n
  <2>1. PointsTo(Pieces(r), Current(r).line, n - 1) /\ n - 1 \in Nat /\ Pieces(r) \in Seq(PieceOf)
    BY LastClaim
  <2>2. ASSUME NEW i \in DOMAIN Pieces(r)
        PROVE  Pieces(r)[i].quote < n
    <3>1. Pieces(r)[i] \in PieceOf
      BY <2>1
    <3>2. Pieces(r)[i].quote \in Nat /\ n \in Nat \ {0}
      BY <3>1 DEF PieceOf
    <3>3. Pieces(r)[i].quote = 0 \/ Pieces(r)[i].quote <= n - 1
      BY <2>1 DEF PointsTo
    <3> QED BY <3>2, <3>3
  <2>3. CASE s = r
    BY <2>2, <2>3
  <2>4. CASE s # r
    <3>1. PICK y : y.quote = 0 /\ P = Pieces(r) \o <<y>>
      BY <2>4, AttachingKeeps DEF s
    <3>2. \A i \in DOMAIN P : P[i] = y \/ (i \in DOMAIN Pieces(r) /\ P[i] = Pieces(r)[i])
      BY <2>1, <3>1
    <3> HIDE DEF P
    <3> QED BY <2>2, <3>1, <3>2
  <2> QED BY <2>3, <2>4
<1> HIDE DEF s, fills, sibling
<1>6. /\ o.path = 0 \/ (Current(s).line <= o.path /\ o.path <= n)
      /\ o.lines = 0 \/ (Current(s).line <= o.lines /\ o.lines <= n)
  BY <1>2, <1>4 DEF PointsTo
<1>7. o.path \in Nat /\ o.lines \in Nat /\ o.kind \in {None, "file", "command"}
  BY <1>4 DEF PieceOf
<1>8. /\ a \in Nat /\ (a = 0 \/ (Current(s).line <= a /\ a <= n))
      /\ b \in Nat /\ (b = 0 \/ (Current(s).line <= b /\ b <= n))
      /\ k \in {None, "file", "command"}
  BY <1>2, <1>6, <1>7
<1> HIDE DEF a, b, k
<1>9. p \in PieceOf /\ p.path = a /\ p.lines = b /\ p.quote = o.quote
  BY <1>4, <1>8 DEF PieceOf
<1> HIDE DEF p
<1>10. /\ Q \in Seq(PieceOf) /\ DOMAIN Q = DOMAIN P /\ Q[e] = p
       /\ \A i \in DOMAIN P : Q[i] = IF i = e THEN p ELSE P[i]
  BY <1>2, <1>4, <1>9
<1>11. \A i \in DOMAIN P : Q[i].quote = P[i].quote
  BY <1>9, <1>10
<1> HIDE DEF Q
<1>12. q \in [line : Nat, holds : Seq(Kinds \cup {"text"})] /\ q.line = n
  <2> DEFINE T == Kinds \cup {"text"}
  <2>1. "text" \in T
    OBVIOUS
  <2> HIDE DEF T
  <2>2. <<"text">> \in Seq(T) /\ <<>> \in Seq(T)
    BY <2>1
  <2>3. q.holds = <<"text">> \/ q.holds = <<>>
    OBVIOUS
  <2>4. q.holds \in Seq(T)
    BY <2>2, <2>3
  <2> QED BY <2>4 DEF T
<1> HIDE DEF q
<1>13. /\ Rewritten(s, Q) \in Reading
       /\ Rewritten(s, Q).claims = [s.claims EXCEPT ![Len(s.claims)].pieces = Q]
       /\ Rewritten(s, Q).evidence = e /\ Rewritten(s, Q).cited = s.cited
       /\ Rewritten(s, Q).given = s.given
  BY <1>1, <1>2, <1>10, RewrittenIs
<1>14. /\ t \in Reading
       /\ t.claims = [s.claims EXCEPT ![Len(s.claims)].pieces = Q]
       /\ t.evidence = e /\ t.cited = s.cited /\ t.given = s.given /\ t.quote = q
  BY <1>12, <1>13 DEF Reading
<1> HIDE DEF t, e
<1>15. PointsTo(Q, Current(s).line, n)
  <2> SUFFICES ASSUME NEW i \in DOMAIN Q, NEW x \in {Q[i].path, Q[i].lines, Q[i].quote}
               PROVE  x = 0 \/ (Current(s).line <= x /\ x <= n)
    BY DEF PointsTo
  <2>1. CASE i = e
    BY <1>1, <1>8, <1>9, <1>10, <2>1
  <2>2. CASE i # e
    BY <1>2, <1>10, <2>2 DEF PointsTo
  <2> QED BY <2>1, <2>2
<1>16. AtHand(Q, t.evidence, t.cited)
  <2>1. ASSUME NEW i \in DOMAIN P, Yields(P, i)
        PROVE  Yields(Q, i)
    BY <1>1, <1>10, <1>11, <2>1 DEF Yields
  <2> QED BY <1>1, <1>3, <1>10, <1>11, <1>14, <2>1 DEF AtHand
<1>17. Open(Q, t.evidence, t.quote, Current(s).line, n)
  BY <1>1, <1>2, <1>4, <1>10, <1>11, <1>12, <1>14, <1>21 DEF Open
<1>18. ASSUME NEW x \in Nat \ {0}, Has(P, x)
       PROVE  Has(Q, x)
  <2>1. CASE \E i \in DOMAIN P : P[i].quote = x
    BY <1>10, <1>11, <2>1 DEF Has
  <2>2. CASE answer[x] = "evidenceqr" /\ SharedOver(P, x)
    <3>1. \A i \in DOMAIN P : P[i].quote > x => i # e /\ Q[i].lines = P[i].lines
      BY <1>1, <1>10
    <3> QED BY <1>10, <1>11, <2>2, <3>1 DEF Has, SharedOver
  <2> QED BY <1>18, <2>1, <2>2 DEF Has
<1>19. \A x \in t.given : x \in s.given \/ (x # 0 /\ Has(Q, x))
  BY <1>14
<1>20. Ok(t, n)
  BY <1>1, <1>10, <1>14, <1>15, <1>16, <1>17, <1>18, <1>19, LastChanged, Zenon
<1> QED BY <1>5, <1>20

\* Several quotes on one header line: pieces of their own, in the place of one
\* that was made for a quote to come.
LEMMA QuotingSeveralKeeps ==
  ASSUME NEW n \in Nat, NEW r, Ok(r, n), r.claims # <<>>, r.quote.line = 0
  PROVE  Ok(ReadQuotes(r, Attached(r), n), n) /\ ReadQuotes(r, Attached(r), n).quote.line = 0
<1> DEFINE s == Attached(r)
           empty == s # r /\ Pieces(s)[s.evidence] = Piece("file", 0, 0)
           own == [Piece("file", IF Current(r).names THEN Current(r).line ELSE 0, n) EXCEPT !.quote = n]
           ps == <<own, own>>
           u == IF empty THEN [s EXCEPT !.claims[Len(s.claims)].pieces = Front(@)] ELSE s
           R == IF empty THEN Pieces(r) ELSE Pieces(s)
           N == Len(R)
           P == R \o ps
           v == Cite(u, ps)
           c == <<N + 2>>
           t == [v EXCEPT !.cited = c, !.given = @ \cup {n}]
<1>1. /\ Ok(s, n) /\ s.claims # <<>> /\ s.evidence # 0
      /\ Current(s).line = Current(r).line /\ s.quote = r.quote
      /\ \/ s = r
         \/ \E p : /\ p.quote = 0 /\ Pieces(s) = Pieces(r) \o <<p>>
                   /\ s.evidence = Len(Pieces(r)) + 1
  BY AttachingKeeps
<1>2. /\ s \in Reading /\ Pieces(s) \in Seq(PieceOf) /\ PointsTo(Pieces(s), Current(r).line, n)
      /\ Current(r).line \in Nat /\ 0 < Current(r).line /\ Current(r).line <= n
      /\ Pieces(r) \in Seq(PieceOf)
  BY <1>1, LastClaim
<1>3. n \in Nat \ {0}
  BY <1>2
<1>4. own \in PieceOf /\ own.quote = n /\ own.lines = n /\ (own.path = 0 \/ own.path = Current(r).line)
  <2> DEFINE at_ == IF Current(r).names THEN Current(r).line ELSE 0
  <2>1. at_ \in Nat /\ (at_ = 0 \/ at_ = Current(r).line)
    BY <1>2
  <2> DEFINE g == Piece("file", at_, n)
  <2>2. own = [g EXCEPT !.quote = n]
    OBVIOUS
  <2> HIDE DEF at_, own
  <2>3. g \in PieceOf /\ g.path = at_ /\ g.lines = n
    BY <1>3, <2>1 DEF Piece, PieceOf
  <2> HIDE DEF g
  <2> QED BY <1>3, <2>1, <2>2, <2>3 DEF PieceOf
<1> HIDE DEF own
<1>5. ps \in Seq(PieceOf) /\ Len(ps) = 2 /\ DOMAIN ps = 1..2 /\ ps[1] = own /\ ps[2] = own
  BY <1>4
<1>6. ASSUME empty
      PROVE  \E p : p.quote = 0 /\ Pieces(s) = Pieces(r) \o <<p>> /\ Front(Pieces(s)) = Pieces(r)
  <2>1. PICK p : p.quote = 0 /\ Pieces(s) = Pieces(r) \o <<p>>
    BY <1>1, <1>6
  <2>2. Front(Pieces(r) \o <<p>>) = Pieces(r)
    <3> DEFINE a == Pieces(r)
               x == a \o <<p>>
    <3>1. a \in Seq(PieceOf) /\ Len(a) \in Nat /\ DOMAIN a = 1..Len(a)
      BY <1>2
    <3>2. /\ Len(x) = Len(a) + 1 /\ x \in Seq(PieceOf \cup {p})
          /\ \A i \in 1..Len(a) : x[i] = a[i]
      BY <3>1
    <3> HIDE DEF a, x
    <3>3. Len(SubSeq(x, 1, Len(x) - 1)) = Len(a) /\ SubSeq(x, 1, Len(x) - 1) \in Seq(PieceOf \cup {p})
          /\ \A i \in 1..Len(a) : SubSeq(x, 1, Len(x) - 1)[i] = a[i]
      BY <3>1, <3>2
    <3>4. a \in Seq(PieceOf \cup {p})
      BY <3>1
    <3>5. SubSeq(x, 1, Len(x) - 1) = a
      BY <3>3, <3>4, SeqEqual
    <3> QED BY <3>5 DEF Front, x, a
  <2> QED BY <2>1, <2>2
<1>7. /\ R \in Seq(PieceOf) /\ PointsTo(R, Current(r).line, n)
      /\ \A q \in Nat \ {0} : Has(Pieces(s), q) => Has(R, q)
  <2>1. CASE ~empty
    BY <1>2, <2>1
  <2>2. CASE empty
    <3>1. PICK p : p.quote = 0 /\ Pieces(s) = Pieces(r) \o <<p>>
      BY <1>6, <2>2
    <3>2. /\ DOMAIN Pieces(s) = 1..(Len(Pieces(r)) + 1) /\ DOMAIN Pieces(r) = 1..Len(Pieces(r))
          /\ \A i \in DOMAIN Pieces(r) : Pieces(s)[i] = Pieces(r)[i]
          /\ Pieces(s)[Len(Pieces(r)) + 1] = p /\ Len(Pieces(r)) \in Nat
      BY <1>2, <3>1
    <3>3. R = Pieces(r)
      BY <2>2
    <3>4. PointsTo(Pieces(r), Current(r).line, n)
      BY LastClaim
    <3> HIDE DEF R, s
    <3>5. ASSUME NEW q \in Nat \ {0}, Has(Pieces(s), q)
          PROVE  Has(Pieces(r), q)
      <4>1. \A i \in DOMAIN Pieces(s) :
              Pieces(s)[i].quote >= q => i \in DOMAIN Pieces(r) /\ Pieces(s)[i] = Pieces(r)[i]
        BY <3>1, <3>2
      <4>2. \A i \in DOMAIN Pieces(s) : Pieces(s)[i].quote \in Nat
        <5>1. \A i \in DOMAIN Pieces(s) : Pieces(s)[i] \in PieceOf
          BY <1>2
        <5> QED BY <5>1 DEF PieceOf
      <4>3. CASE \E i \in DOMAIN Pieces(s) : Pieces(s)[i].quote = q
        BY <4>1, <4>2, <4>3 DEF Has
      <4>4. CASE answer[q] = "evidenceqr" /\ SharedOver(Pieces(s), q)
        <5>1. PICK i \in DOMAIN Pieces(s) :
                /\ Pieces(s)[i].lines = q /\ Pieces(s)[i].quote > q
                /\ \E j \in DOMAIN Pieces(s) \ {i} : Pieces(s)[j].quote = Pieces(s)[i].quote
          BY <4>4 DEF SharedOver
        <5>2. PICK j \in DOMAIN Pieces(s) \ {i} : Pieces(s)[j].quote = Pieces(s)[i].quote
          BY <5>1
        <5>3. Pieces(s)[i].quote >= q /\ Pieces(s)[j].quote >= q
          BY <4>2, <5>1, <5>2
        <5> QED BY <4>1, <4>4, <5>1, <5>2, <5>3 DEF Has, SharedOver
      <4> QED BY <3>5, <4>3, <4>4 DEF Has
    <3> QED BY <1>2, <3>3, <3>4, <3>5
  <2> QED BY <2>1, <2>2
<1>8. /\ u \in Reading /\ u.claims # <<>> /\ Pieces(u) = R
      /\ [u.claims EXCEPT ![Len(u.claims)].pieces = P] = [s.claims EXCEPT ![Len(s.claims)].pieces = P]
      /\ u.quote = s.quote /\ u.given = s.given
  <2>1. CASE ~empty
    BY <1>1, <1>2, <2>1
  <2>2. CASE empty
    <3> DEFINE L == Len(s.claims)
               ds == [s.claims EXCEPT ![L].pieces = R]
    <3>1. u = Rewritten(s, R)
      BY <1>6, <2>2 DEF Rewritten, Pieces, Current
    <3>2. u \in Reading /\ u.claims = ds /\ u.quote = s.quote /\ u.given = s.given
      <4>1. R \in Seq(PieceOf) /\ s \in Reading /\ s.claims # <<>>
        BY <1>1, <1>2, <1>7
      <4> HIDE DEF u, R, s
      <4> QED BY <3>1, <4>1, RewrittenIs
    <3>3. L \in DOMAIN s.claims /\ s.claims \in Seq(ClaimOf)
      BY <1>1, <1>2 DEF Reading
    <3>4. s.claims[L] \in ClaimOf
      BY <3>3
    <3> HIDE DEF P, R, s
    <3>5. Len(ds) = L /\ ds[L].pieces = R /\ ds # <<>>
      BY <3>3, <3>4 DEF ClaimOf
    <3>6. [ds EXCEPT ![L].pieces = P] = [s.claims EXCEPT ![L].pieces = P]
      BY <3>3, <3>4 DEF ClaimOf
    <3> QED BY <3>2, <3>5, <3>6 DEF Pieces, Current
  <2> QED BY <2>1, <2>2
<1>9. /\ v \in Reading /\ v.claims = [s.claims EXCEPT ![Len(s.claims)].pieces = P]
      /\ v.evidence = N + 2 /\ v.quote = s.quote /\ v.given = s.given
  <2> HIDE DEF u, ps, R
  <2>1. /\ Cite(u, ps) \in Reading
        /\ Cite(u, ps).claims = [u.claims EXCEPT ![Len(u.claims)].pieces = Pieces(u) \o ps]
        /\ Cite(u, ps).evidence = Len(Pieces(u)) + Len(ps)
        /\ Cite(u, ps).quote = u.quote /\ Cite(u, ps).given = u.given
    BY <1>5, <1>7, <1>8, CiteIs
  <2> QED BY <1>5, <1>8, <2>1
<1>10. ReadQuotes(r, s, n) = t
  BY <1>8 DEF ReadQuotes, own
<1> HIDE DEF v, s, u, R, ps, empty
<1>11. N \in Nat /\ P \in Seq(PieceOf)
  BY <1>5, <1>7
<1>12. /\ t \in Reading /\ t.claims = [s.claims EXCEPT ![Len(s.claims)].pieces = P]
       /\ t.evidence = N + 2 /\ t.cited = c /\ t.quote = s.quote /\ t.given = s.given \cup {n}
  <2>1. c \in Seq(Nat)
    BY <1>11
  <2> HIDE DEF c, N, P
  <2> QED BY <1>9, <2>1 DEF Reading
<1> HIDE DEF t
<1>13. /\ DOMAIN P = 1..(N + 2) /\ DOMAIN R = 1..N
       /\ \A i \in DOMAIN R : i \in DOMAIN P /\ P[i] = R[i]
       /\ P[N + 1] = own /\ P[N + 2] = own /\ N + 2 \in DOMAIN P
       /\ \A i \in DOMAIN P : i \in DOMAIN R \/ i = N + 1 \/ i = N + 2
  <2>1. R \in Seq(PieceOf) /\ ps \in Seq(PieceOf) /\ Len(ps) = 2 /\ ps[1] = own /\ ps[2] = own
    BY <1>5, <1>7
  <2>2. DOMAIN P = 1..(N + 2) /\ DOMAIN R = 1..N
    <3>0. Len(P) = N + Len(ps)
      BY <2>1, ConcatProperties, Zenon
    <3>1. Len(P) = N + 2
      BY <2>1, <3>0
    <3> HIDE DEF P
    <3> QED BY <1>11, <2>1, <3>1
  <2>3. \A i \in 1..(N + 2) : P[i] = IF i <= N THEN R[i] ELSE ps[i - N]
    <3>1. \A i \in 1..(N + Len(ps)) : P[i] = IF i <= N THEN R[i] ELSE ps[i - N]
      BY <2>1, ConcatProperties, Zenon
    <3> HIDE DEF P, N
    <3> QED BY <2>1, <3>1
  <2>4. /\ (N + 1) - N = 1 /\ (N + 2) - N = 2 /\ ~(N + 1 <= N) /\ ~(N + 2 <= N)
        /\ N + 1 \in 1..(N + 2) /\ N + 2 \in 1..(N + 2)
        /\ \A i \in 1..(N + 2) : i \in 1..N \/ i = N + 1 \/ i = N + 2
        /\ \A i \in 1..N : i \in 1..(N + 2) /\ i <= N
    BY <1>11
  <2> HIDE DEF P, N
  <2> QED BY <2>1, <2>2, <2>3, <2>4
<1> HIDE DEF P, N
<1>14. PointsTo(P, Current(s).line, n)
  <2> SUFFICES ASSUME NEW i \in DOMAIN P, NEW x \in {P[i].path, P[i].lines, P[i].quote}
               PROVE  x = 0 \/ (Current(r).line <= x /\ x <= n)
    BY <1>1 DEF PointsTo
  <2>1. CASE i \in DOMAIN R
    BY <1>7, <1>13, <2>1 DEF PointsTo
  <2>2. CASE P[i] = own
    BY <1>2, <1>4, <2>2
  <2> QED BY <1>13, <2>1, <2>2
<1>15. AtHand(P, t.evidence, t.cited)
  <2>1. DOMAIN c = {1} /\ c[1] = N + 2
    OBVIOUS
  <2> QED BY <1>3, <1>4, <1>12, <1>13, <2>1 DEF AtHand
<1>16. Open(P, t.evidence, t.quote, Current(s).line, n)
  BY <1>1, <1>12 DEF Open
<1>17. \A q \in Nat \ {0} : Has(Pieces(s), q) => Has(P, q)
  BY <1>7, <1>13, HasGrows
<1>18. \A x \in t.given : x \in s.given \/ (x # 0 /\ Has(P, x))
  BY <1>3, <1>4, <1>12, <1>13 DEF Has
<1>19. Ok(t, n)
  BY <1>1, <1>11, <1>12, <1>14, <1>15, <1>16, <1>17, <1>18, LastChanged, Zenon
<1> QED BY <1>1, <1>10, <1>12, <1>19 DEF s

\* Text of an open quote.
LEMMA HoldingKeeps ==
  ASSUME NEW n \in Nat, NEW r, Ok(r, n), NEW x \in Kinds \cup {"text"}
  PROVE  Ok([r EXCEPT !.quote.holds = Append(@, x)], n)
<1> DEFINE T == Kinds \cup {"text"}
           h == Append(r.quote.holds, x)
           q == [r.quote EXCEPT !.holds = h]
           s == [r EXCEPT !.quote = q]
<1>1. r \in Reading
  BY DEF Ok
<1>2. r.quote \in [line : Nat, holds : Seq(T)]
  BY <1>1 DEF Reading
<1>3. h \in Seq(T)
  BY <1>2
<1> HIDE DEF h
<1>4. q \in [line : Nat, holds : Seq(T)] /\ q.line = r.quote.line
  BY <1>2, <1>3
<1>5. s = [r EXCEPT !.quote.holds = Append(@, x)]
  BY DEF h
<1> HIDE DEF q, s
<1>6. /\ s \in Reading /\ s.claims = r.claims /\ s.evidence = r.evidence /\ s.cited = r.cited
      /\ s.given = r.given /\ s.quote = q
  BY <1>1, <1>4 DEF Reading, s
<1>7. Pieces(s) = Pieces(r) /\ Current(s) = Current(r) /\ \A k : Upto(s, k, n) = Upto(r, k, n)
  BY <1>6 DEF Pieces, Current, Upto
<1>8. Ok(s, n)
  BY <1>4, <1>6, <1>7 DEF Ok, Open
<1> QED BY <1>5, <1>8

\* parse_ledger, one line; only a citation of lines may follow another on its line.
LEMMA ParsingKeeps ==
  ASSUME NEW n \in Nat \ {0}, NEW r, Ok(r, n), NEW l \in Kinds, l # "evidence1" => Ok(r, n - 1),
         l = "evidenceqr" => answer[n] = l
  PROVE  Ok(Parsed(r, n, l), n)
<1> DEFINE header == l \in RawHeaders
           q == IF header THEN ClosedQuote(r) ELSE r
<1>1. Ok(q, n)
  BY ClosingKeeps
<1>2. header => q.quote.line = 0
  BY ClosingKeeps
<1>3. /\ l # "evidence1" => Ok(q, n - 1)
      /\ l = "claim" => q.quote.line = 0
  <2>1. n - 1 \in Nat
    OBVIOUS
  <2> QED BY <2>1, ClosingKeeps DEF RawHeaders
<1>4. CASE ~header /\ q.quote.line # 0
  <2> DEFINE x == IF l \in {"dots", "blank"} THEN l ELSE "text"
  <2>1. Parsed(r, n, l) = [q EXCEPT !.quote.holds = Append(@, x)]
    BY <1>4 DEF Parsed
  <2>2. x \in Kinds \cup {"text"}
    OBVIOUS
  <2> HIDE DEF q, x
  <2> QED BY <1>1, <2>1, <2>2, HoldingKeeps
<1>5. CASE l = "claim"
  <2> DEFINE names == answer[n] \in {"claim", "claim+", "cite", "citeq"}
  <2>1. Parsed(r, n, l) = ReadClaim(q, n, names)
    BY <1>3, <1>5 DEF Parsed, RawHeaders
  <2>2. names \in BOOLEAN /\ n - 1 \in Nat /\ (n - 1) + 1 = n
    OBVIOUS
  <2> HIDE DEF q, names
  <2>3. Ok(ReadClaim(q, (n - 1) + 1, names), (n - 1) + 1)
    BY <1>3, <1>5, <2>2, BeginningKeeps
  <2> QED BY <2>1, <2>2, <2>3
<1>6. CASE ~(~header /\ q.quote.line # 0) /\ l # "claim" /\ q.claims = <<>>
  BY <1>1, <1>6 DEF Parsed
<1>7. CASE ~(~header /\ q.quote.line # 0) /\ l # "claim" /\ q.claims # <<>>
  <2>1. q.quote.line = 0
    BY <1>2, <1>7
  <2>2. ASSUME NEW ps \in Seq(PieceOf), ps # <<>>, \A i \in DOMAIN ps : ps[i].quote = 0,
               \A i \in DOMAIN ps : ps[i].path \in {0, n} /\ ps[i].lines \in {0, n}
        PROVE  Ok(Cite(q, ps), n)
    <3>1. Current(q).line \in Nat /\ Current(q).line <= n
      BY <1>1, <1>7, LastClaim
    <3>2. PointsTo(ps, Current(q).line, n)
      BY <2>2, <3>1 DEF PointsTo
    <3> HIDE DEF q
    <3> QED BY <1>1, <1>7, <2>1, <2>2, <3>2, CitingKeeps
  <2>3. ASSUME NEW kind \in {None, "file", "command"}, NEW x \in {0, n}
        PROVE  Ok(Cite(q, <<Piece(kind, x, x)>>), n) /\ Ok(Cite(q, <<Piece(kind, x, x), Piece(kind, x, x)>>), n)
    <3> DEFINE p == Piece(kind, x, x)
    <3>1. p \in PieceOf /\ p.quote = 0 /\ p.path = x /\ p.lines = x
      BY <2>3 DEF Piece, PieceOf
    <3> HIDE DEF p, q
    <3>2. <<p>> \in Seq(PieceOf) /\ <<p>> # <<>> /\ \A i \in DOMAIN <<p>> : <<p>>[i] = p
      BY <3>1
    <3>3. <<p, p>> \in Seq(PieceOf) /\ <<p, p>> # <<>> /\ \A i \in DOMAIN <<p, p>> : <<p, p>>[i] = p
      BY <3>1
    <3>4. Ok(Cite(q, <<p>>), n)
      <4> DEFINE ps == <<p>>
      <4>1. ps \in Seq(PieceOf) /\ ps # <<>> /\ \A i \in DOMAIN ps : ps[i] = p
        BY <3>2
      <4> HIDE DEF ps
      <4>2. Ok(Cite(q, ps), n)
        BY <2>2, <2>3, <3>1, <4>1
      <4> QED BY <4>2 DEF ps
    <3>5. Ok(Cite(q, <<p, p>>), n)
      <4> DEFINE ps == <<p, p>>
      <4>1. ps \in Seq(PieceOf) /\ ps # <<>> /\ \A i \in DOMAIN ps : ps[i] = p
        BY <3>3
      <4> HIDE DEF ps
      <4>2. Ok(Cite(q, ps), n)
        BY <2>2, <2>3, <3>1, <4>1
      <4> QED BY <4>2 DEF ps
    <3> QED BY <3>4, <3>5 DEF p
  <2>4. CASE l = "evidence0"
    <3>1. Parsed(r, n, l) = Cite(q, <<Piece(None, 0, 0)>>)
      BY <1>7, <2>4 DEF Parsed, RawHeaders
    <3> HIDE DEF q
    <3> QED BY <2>3, <3>1
  <2>5. CASE l = "evidence1"
    <3>1. Parsed(r, n, l) = Cite(q, <<Piece("file", n, n)>>)
      BY <1>7, <2>5 DEF Parsed, RawHeaders
    <3> HIDE DEF q
    <3> QED BY <2>3, <3>1
  <2>6. CASE l = "evidence2"
    <3>1. Parsed(r, n, l) = Cite(q, <<Piece("file", n, n), Piece("file", n, n)>>)
      BY <1>7, <2>6 DEF Parsed, RawHeaders
    <3> HIDE DEF q
    <3> QED BY <2>3, <3>1
  <2>7. CASE l \in {"quote", "quoted", "quote@"}
    <3>1. Parsed(r, n, l) = ReadQuote(q, n, l)
      BY <1>7, <2>7 DEF Parsed, RawHeaders
    <3> HIDE DEF q
    <3> QED BY <1>1, <1>3, <1>7, <2>1, <2>7, <3>1, QuotingKeeps
  <2>8. CASE l = "quotes"
    <3>1. Parsed(r, n, l) = ReadQuote(q, n, l)
      BY <1>7, <2>8 DEF Parsed, RawHeaders
    <3> HIDE DEF q
    <3>2. ReadQuote(q, n, l) = ReadQuotes(q, Attached(q), n)
      BY <2>8 DEF ReadQuote
    <3> QED BY <1>1, <1>7, <2>1, <3>1, <3>2, QuotingSeveralKeeps
  <2>9. CASE l = "run"
    <3>1. Parsed(r, n, l) = Cite(q, <<Piece("command", 0, 0)>>)
      BY <1>7, <2>9 DEF Parsed, RawHeaders
    <3> HIDE DEF q
    <3> QED BY <2>3, <3>1
  <2>10. CASE l = "cite"
    <3>1. Parsed(r, n, l) = IF q.evidence # 0 THEN Cite(q, <<Piece("file", n, n)>>) ELSE q
      BY <1>7, <2>10 DEF Parsed, RawHeaders
    <3> HIDE DEF q
    <3> QED BY <1>1, <2>3, <3>1
  <2>12. CASE l \in {"evidenceq", "citeq"}
    <3> DEFINE p == Piece("file", n, n)
               ps == <<p>>
    <3>1. p \in PieceOf /\ p.quote = 0 /\ p.path = n /\ p.lines = n
      BY DEF Piece, PieceOf
    <3>2. Parsed(r, n, l) = CiteQuoted(q, n, ps) \/ Parsed(r, n, l) = q
      BY <1>7, <2>12 DEF Parsed, RawHeaders
    <3> HIDE DEF p, q
    <3>3. ps \in Seq(PieceOf) /\ Len(ps) = 1 /\ DOMAIN ps = 1..1 /\ ps[1] = p
      BY <3>1
    <3> HIDE DEF ps
    <3>4. Ok(CiteQuoted(q, n, ps), n)
      BY <1>1, <1>3, <1>7, <2>1, <2>12, <3>1, <3>3, CitingQuotedKeeps
    <3> QED BY <1>1, <3>2, <3>4
  <2>13. CASE l = "evidenceqr"
    <3> DEFINE p == Piece("file", 0, n)
               x == Piece("command", 0, 0)
               ps == <<p, x>>
    <3>1. /\ p \in PieceOf /\ p.quote = 0 /\ p.path = 0 /\ p.lines = n
          /\ x \in PieceOf /\ x.quote = 0 /\ x.path = 0 /\ x.lines = 0
      BY DEF Piece, PieceOf
    <3>2. Parsed(r, n, l) = CiteQuoted(q, n, ps)
      BY <1>7, <2>13 DEF Parsed, RawHeaders
    <3> HIDE DEF p, x, q
    <3>3. ps \in Seq(PieceOf) /\ Len(ps) = 2 /\ DOMAIN ps = 1..2 /\ ps[1] = p /\ ps[2] = x
      BY <3>1
    <3> HIDE DEF ps
    <3>4. Ok(CiteQuoted(q, n, ps), n)
      BY <1>1, <1>3, <1>7, <2>1, <2>13, <3>1, <3>3, CitingQuotedKeeps
    <3> QED BY <3>2, <3>4
  <2>11. CASE l \notin {"evidence0", "evidence1", "evidence2", "evidenceq", "evidenceqr", "quote",
                        "quoted", "quote@", "quotes", "run", "cite", "citeq"}
    BY <1>1, <1>7, <2>11 DEF Parsed
  <2> QED BY <2>4, <2>5, <2>6, <2>7, <2>8, <2>9, <2>10, <2>11, <2>12, <2>13
<1> QED BY <1>4, <1>5, <1>6, <1>7

\* normalise: a line becomes one or two, of which the second cites lines.
LEMMA NormalIs ==
  ASSUME NEW l \in Kinds
  PROVE  LET ls == Normal(l)
         IN /\ ls \in Seq(Kinds) /\ (ls[1] = "evidenceqr" => l = "evidenceqr")
            /\ Len(ls) = 1 \/ (Len(ls) = 2 /\ ls[2] = "evidence1")
<1>1. {"evidence1", "evidenceq", "prose", "claim", l} \subseteq Kinds
  BY DEF Kinds, RawHeaders
<1>2. Normal(l) \in {<<"evidence1">>, <<"evidenceq">>, <<"prose", "evidence1">>,
                     <<"claim", "evidence1">>, <<l>>}
  BY DEF Normal
<1>3. ASSUME NEW a \in Kinds
      PROVE  <<a>> \in Seq(Kinds) /\ Len(<<a>>) = 1 /\ <<a>>[1] = a
  OBVIOUS
<1>4. ASSUME NEW a \in Kinds, NEW b \in Kinds
      PROVE  /\ <<a, b>> \in Seq(Kinds) /\ Len(<<a, b>>) = 2
             /\ <<a, b>>[1] = a /\ <<a, b>>[2] = b
  OBVIOUS
<1> DEFINE ls == Normal(l)
<1>5. CASE ls \in {<<"evidence1">>, <<"evidenceq">>, <<l>>}
  BY <1>1, <1>3, <1>5
<1>6. ASSUME NEW x \in {"prose", "claim"}, ls = <<x, "evidence1">>
      PROVE  /\ ls \in Seq(Kinds) /\ (ls[1] = "evidenceqr" => l = "evidenceqr")
             /\ Len(ls) = 1 \/ (Len(ls) = 2 /\ ls[2] = "evidence1")
  <2>1. x \in Kinds /\ "evidence1" \in Kinds /\ x # "evidenceqr"
    BY <1>1, <1>6
  <2>2. /\ <<x, "evidence1">> \in Seq(Kinds) /\ Len(<<x, "evidence1">>) = 2
        /\ <<x, "evidence1">>[1] = x /\ <<x, "evidence1">>[2] = "evidence1"
    BY <1>4, <2>1
  <2> QED BY <1>6, <2>1, <2>2
<1> QED BY <1>2, <1>5, <1>6

LEMMA MarkedIs ==
  ASSUME NEW l \in Kinds
  PROVE  Marked(l) \in Kinds /\ (Marked(l) = "evidenceqr" => l = "evidenceqr")
BY DEF Marked, Kinds, RawHeaders

\* A whole line of the answer.
LEMMA LineKeeps ==
  ASSUME NEW n \in Nat, NEW r, Ok(r, n), NEW l \in Kinds, l = "evidenceqr" => answer[n + 1] = l
  PROVE  Ok(Parsings(r, n + 1, Normal(l)), n + 1)
<1> DEFINE ls == Normal(l)
           s == Parsed(r, n + 1, ls[1])
<1>1. /\ ls \in Seq(Kinds) /\ (Len(ls) = 1 \/ (Len(ls) = 2 /\ ls[2] = "evidence1"))
      /\ ls[1] = "evidenceqr" => answer[n + 1] = "evidenceqr"
  BY NormalIs
<1> HIDE DEF ls
<1>2. ls[1] \in Kinds /\ (Len(ls) # 1 => ls[2] \in Kinds /\ ls[2] = "evidence1")
  BY <1>1
<1>3. n + 1 \in Nat \ {0} /\ (n + 1) - 1 = n
  OBVIOUS
<1>4. Ok(r, n + 1)
  BY OneMoreLine
<1>5. Ok(s, n + 1)
  BY <1>1, <1>2, <1>3, <1>4, ParsingKeeps
<1> HIDE DEF s
<1>6. Len(ls) # 1 => Ok(Parsed(s, n + 1, ls[2]), n + 1)
  BY <1>2, <1>3, <1>5, ParsingKeeps
<1>7. Parsings(r, n + 1, ls) = IF Len(ls) = 1 THEN s ELSE Parsed(s, n + 1, ls[2])
  BY DEF Parsings, s
<1> QED BY <1>5, <1>6, <1>7 DEF ls

ReaderOk == answer \in Answers /\ at \in 0..Len(answer) /\ Ok(SoFar, at)

LEMMA ReadIs ==
  ASSUME NEW r \in Reading, Read(r)
  PROVE  SoFar' = r
<1>1. r = [claims |-> r.claims, evidence |-> r.evidence, cited |-> r.cited, quote |-> r.quote,
           given |-> r.given]
  BY DEF Reading
<1> QED BY <1>1 DEF Read, SoFar

LEMMA InitReaderOk ==
  ASSUME Init
  PROVE  ReaderOk
<1>1. answer \in Seq(Kinds) /\ at = 0
  BY VerifyAssumption DEF Init
<1>2. at \in 0..Len(answer)
  BY <1>1
<1>3. /\ SoFar.claims = <<>> /\ SoFar.evidence = 0 /\ SoFar.cited = <<>> /\ SoFar.quote = NoQuote
      /\ SoFar.given = {}
  BY DEF Init, SoFar
<1>4. SoFar \in Reading
  <2> DEFINE T == Kinds \cup {"text"}
             none == <<>>
  <2>1. none \in Seq(ClaimOf) /\ none \in Seq(Nat) /\ none \in Seq(T)
    OBVIOUS
  <2>2. NoQuote \in [line : Nat, holds : Seq(T)]
    BY <2>1 DEF NoQuote
  <2>3. SoFar = [claims |-> none, evidence |-> 0, cited |-> none, quote |-> NoQuote, given |-> {}]
    BY DEF Init, SoFar
  <2> HIDE DEF none, T
  <2>4. SoFar \in [claims : Seq(ClaimOf), evidence : Nat, cited : Seq(Nat),
                   quote : [line : Nat, holds : Seq(T)], given : SUBSET Nat]
    BY <2>1, <2>2, <2>3
  <2> QED BY <2>4 DEF Reading, T
<1>5. Ok(SoFar, at)
  BY <1>3, <1>4 DEF Ok, Rising, NoneLost, NoQuote
<1> QED BY <1>2, <1>5 DEF ReaderOk, Init

\* What is read of an answer depends on that answer only.
LEMMA SameAnswer ==
  ASSUME answer \in Answers, answer' = answer, at' \in 0..Len(answer'), Ok(SoFar', at')
  PROVE  ReaderOk'
BY DEF ReaderOk, Ok, NoneLost, Has, SharedOver, AtHand, Yields, Open, Rising, Upto, Pieces, Current, SoFar

LEMMA NextReaderOk ==
  ASSUME ReaderOk, [Next]_vars
  PROVE  ReaderOk'
<1>1. /\ answer \in Answers /\ answer \in Seq(Kinds) /\ at \in 0..Len(answer)
      /\ at \in Nat /\ at <= Len(answer) /\ Ok(SoFar, at)
  BY VerifyAssumption DEF ReaderOk
<1>2. CASE ReadLine
  <2> DEFINE l == Marked(answer[at + 1])
             r == Parsings(SoFar, at + 1, Normal(l))
  <2>1. at < Len(answer) /\ at' = at + 1 /\ answer' = answer /\ Read(r)
    BY <1>2 DEF ReadLine
  <2>2. answer[at + 1] \in Kinds
    BY <1>1, <2>1
  <2>3. l \in Kinds /\ (l = "evidenceqr" => answer[at + 1] = l)
    BY <2>2, MarkedIs
  <2> HIDE DEF l
  <2>4. Ok(r, at + 1)
    BY <1>1, <2>3, LineKeeps
  <2> HIDE DEF r
  <2>5. r \in Reading
    BY <2>4 DEF Ok
  <2>6. SoFar' = r
    BY <2>1, <2>5, ReadIs
  <2>7. Ok(SoFar', at')
    BY <2>1, <2>4, <2>6
  <2>8. at' \in 0..Len(answer')
    BY <1>1, <2>1
  <2> QED BY <1>1, <2>1, <2>7, <2>8, SameAnswer
<1>3. CASE EndOfAnswer
  <2>1. at' = at /\ answer' = answer /\ Read(ClosedQuote(SoFar))
    BY <1>3 DEF EndOfAnswer
  <2>2. Ok(ClosedQuote(SoFar), at)
    BY <1>1, ClosingKeeps
  <2>3. ClosedQuote(SoFar) \in Reading
    BY <2>2 DEF Ok
  <2>4. SoFar' = ClosedQuote(SoFar)
    BY <2>1, <2>3, ReadIs
  <2>5. Ok(SoFar', at')
    BY <2>1, <2>2, <2>4
  <2> QED BY <1>1, <2>1, <2>5, SameAnswer
<1>4. CASE UNCHANGED reader
  <2>1. answer' = answer /\ at' = at /\ SoFar' = SoFar
    BY <1>4 DEF reader, SoFar
  <2>2. at' \in 0..Len(answer') /\ Ok(SoFar', at')
    BY <1>1, <2>1
  <2> QED BY <1>1, <2>1, <2>2, SameAnswer
<1>5. CASE JudgeQuote \/ FindFile \/ JudgeCommand \/ JudgeReading \/ CollectCalls \/ JudgeTests
  BY <1>4, <1>5 DEF JudgeQuote, FindFile, JudgeCommand, JudgeReading, CollectCalls, JudgeTests, Asked
<1>6. CASE UNCHANGED vars
  BY <1>4, <1>6 DEF vars
<1> QED BY <1>2, <1>3, <1>5, <1>6 DEF Next

THEOREM ReaderInvariant ==
  Spec => []ReaderOk
<1>1. Init => ReaderOk
  BY InitReaderOk
<1>2. ReaderOk /\ [Next]_vars => ReaderOk'
  BY NextReaderOk
<1> QED BY <1>1, <1>2, PTL DEF Spec

\* parse_ledger: no address and no quote of another claim's counts for a claim,
\* in whatever order lines come.
THEOREM NothingIsBorrowed ==
  Spec => []ClaimsStandAlone
<1>1. ReaderOk => ClaimsStandAlone
  <2> SUFFICES ASSUME ReaderOk, NEW k \in DOMAIN claims, NEW i \in DOMAIN claims[k].pieces,
                      NEW x \in {claims[k].pieces[i].path, claims[k].pieces[i].lines,
                                 claims[k].pieces[i].quote} \ {0}
               PROVE  x \in claims[k].line..(Ends(k) - 1)
    BY DEF ClaimsStandAlone
  <2>1. Ok(SoFar, at) /\ SoFar.claims = claims /\ at \in Nat /\ at <= Len(answer) /\ Len(answer) \in Nat
    BY VerifyAssumption DEF ReaderOk, SoFar
  <2>2. claims \in Seq(ClaimOf)
    BY <2>1 DEF Ok, Reading
  <2>3. claims[k] \in ClaimOf
    BY <2>2
  <2>4. claims[k].pieces[i] \in PieceOf /\ claims[k].line \in Nat
    BY <2>3 DEF ClaimOf
  <2>5. x \in Nat
    BY <2>4 DEF PieceOf
  <2>6. claims[k].line <= x /\ x <= Upto(SoFar, k, at)
    BY <2>1 DEF Ok, PointsTo
  <2>7. Upto(SoFar, k, at) <= Ends(k) - 1 /\ Ends(k) - 1 \in Int /\ Upto(SoFar, k, at) \in Int
    <3>1. CASE k = Len(claims)
      BY <2>1, <3>1 DEF Upto, Ends
    <3>2. CASE k # Len(claims)
      <4>1. k + 1 \in DOMAIN claims
        BY <2>2, <3>2
      <4>2. claims[k + 1] \in ClaimOf
        BY <2>2, <4>1
      <4>3. claims[k + 1].line \in Nat
        BY <4>2 DEF ClaimOf
      <4> QED BY <2>1, <3>2, <4>3 DEF Upto, Ends
    <3> QED BY <3>1, <3>2
  <2> QED BY <2>4, <2>5, <2>6, <2>7
<1> QED BY <1>1, ReaderInvariant, PTL

\* close_quote: every quote given is kept, with its claim.
THEOREM QuotesAreKept ==
  Spec => []NoQuoteLost
<1>1. ReaderOk /\ ClaimsStandAlone => NoQuoteLost
  <2> SUFFICES ASSUME ReaderOk, ClaimsStandAlone, NEW q \in given
               PROVE  \E k \in DOMAIN claims :
                        q \in claims[k].line..(Ends(k) - 1) /\ Has(claims[k].pieces, q)
    BY DEF NoQuoteLost, Has
  <2>1. NoneLost(claims, given)
    BY DEF ReaderOk, Ok, SoFar
  <2>2. q # 0
    BY <2>1 DEF NoneLost
  <2>3. PICK k \in DOMAIN claims : Has(claims[k].pieces, q)
    BY <2>1 DEF NoneLost
  <2>4. PICK i \in DOMAIN claims[k].pieces : claims[k].pieces[i].quote = q \/ claims[k].pieces[i].lines = q
    BY <2>3 DEF Has, SharedOver
  <2>5. q \in claims[k].line..(Ends(k) - 1)
    BY <2>2, <2>4 DEF ClaimsStandAlone
  <2> QED BY <2>3, <2>5
<1> QED BY <1>1, ReaderInvariant, NothingIsBorrowed, PTL

----------------------------------------------------------------------------
(* Induction, and recursion over a number of steps. *)

\* A non-empty set of naturals has a least element.
LEMMA LeastNat ==
  ASSUME NEW T \in SUBSET Nat, T # {}
  PROVE  \E n \in T : \A m \in T : n <= m
<1> DEFINE R == {ss \in Nat \X Nat : ss[1] < ss[2]}
<1>1. IsWellFoundedOn(R, Nat)
  BY NatLessThanWellFounded, Zenon DEF OpToRel
<1>2. \E x \in T : \A y \in T : ~(<<y, x>> \in R)
  <2> HIDE DEF R
  <2> QED BY <1>1, WFMin, Zenon
<1>3. \A x, y \in T : x <= y \/ <<y, x>> \in R
  OBVIOUS
<1> HIDE DEF R
<1> QED BY <1>2, <1>3

\* What holds at nought, and at each step if at the step before, holds throughout.
LEMMA UpToLast ==
  ASSUME NEW n \in Nat, NEW G, 0 \in G, \A k \in 1..n : k - 1 \in G => k \in G
  PROVE  \A k \in 0..n : k \in G
<1> DEFINE T == {k \in 0..n : k \notin G}
<1> SUFFICES ASSUME T # {}
             PROVE  FALSE
  OBVIOUS
<1>1. T \in SUBSET Nat
  OBVIOUS
<1>2. PICK k \in T : \A m \in T : k <= m
  BY <1>1, LeastNat
<1>3. k # 0 /\ k \in 1..n /\ k - 1 \in 0..n
  BY <1>2
<1>4. k - 1 \notin T
  BY <1>2, <1>3
<1> QED BY <1>2, <1>3, <1>4

\* What a list holds is finite.
LEMMA ImageIsFinite ==
  ASSUME NEW n \in Nat, NEW f
  PROVE  IsFiniteSet({f[i] : i \in 1..n})
<1> DEFINE S == {f[i] : i \in 1..n}
           g == [i \in 1..n |-> f[i]]
<1>1. g \in [1..n -> S] /\ \A x \in S : \E i \in 1..n : g[i] = x
  OBVIOUS
<1> HIDE DEF S, g
<1>2. ExistsSurjection(1..n, S)
  BY <1>1 DEF ExistsSurjection, Surjection
<1> QED BY <1>2, FS_NatSurjection DEF S

\* A fold over n steps exists.
Folds(c, n, b, F) == \A k \in 0..n : c[k] = IF k = 0 THEN b ELSE F[<<c[k - 1], k>>]

LEMMA FoldExists ==
  ASSUME NEW n \in Nat, NEW S, NEW b \in S, NEW F \in [S \X (1..n) -> S]
  PROVE  \E c \in [0..n -> S] : Folds(c, n, b, F)
<1> DEFINE Is(c, m) == \A k \in 0..m : c[k] = IF k = 0 THEN b ELSE F[<<c[k - 1], k>>]
           G == {m \in 0..n : \E c \in [0..m -> S] : Is(c, m)}
<1>1. 0 \in G
  <2> DEFINE c == [k \in 0..0 |-> b]
  <2>1. c \in [0..0 -> S] /\ Is(c, 0)
    OBVIOUS
  <2> HIDE DEF c, Is
  <2> QED BY <2>1
<1>2. ASSUME NEW m \in 1..n, m - 1 \in G
      PROVE  m \in G
  <2>1. PICK g \in [0..(m - 1) -> S] : Is(g, m - 1)
    BY <1>2
  <2>2. g[m - 1] \in S /\ F[<<g[m - 1], m>>] \in S
    OBVIOUS
  <2> DEFINE c == [k \in 0..m |-> IF k < m THEN g[k] ELSE F[<<g[m - 1], m>>]]
  <2>3. c \in [0..m -> S]
    BY <2>2
  <2>4. \A k \in 0..(m - 1) : g[k] = IF k = 0 THEN b ELSE F[<<g[k - 1], k>>]
    BY <2>1
  <2>5. \A k \in 0..m : c[k] = IF k = 0 THEN b ELSE F[<<c[k - 1], k>>]
    <3> SUFFICES ASSUME NEW k \in 0..m
                 PROVE  c[k] = IF k = 0 THEN b ELSE F[<<c[k - 1], k>>]
      OBVIOUS
    <3>1. CASE k < m
      <4>1. k \in 0..(m - 1) /\ c[k] = g[k] /\ (k # 0 => c[k - 1] = g[k - 1])
        BY <3>1
      <4> HIDE DEF c
      <4> QED BY <2>4, <4>1
    <3>2. CASE k = m
      <4>1. c[k] = F[<<g[m - 1], m>>] /\ c[k - 1] = g[m - 1] /\ k # 0
        BY <3>2
      <4> HIDE DEF c
      <4> QED BY <3>2, <4>1
    <3> QED BY <3>1, <3>2
  <2> HIDE DEF c
  <2>6. Is(c, m)
    BY <2>5
  <2> HIDE DEF Is
  <2> QED BY <2>3, <2>6
<1> HIDE DEF G
<1>3. n \in G
  BY <1>1, <1>2, UpToLast
<1> QED BY <1>3 DEF G, Folds
----------------------------------------------------------------------------
(* The tests a change adds. *)

TestCount == [name : Nat, asserts : Nat, mocky : Nat, silenced : BOOLEAN, pending : BOOLEAN]
CountOf == [hollow : SUBSET Nat, test : TestCount]
NoCount == [hollow |-> {}, test |-> NoTest]

LEMMA CountedIs ==
  ASSUME NEW t \in TestCount, NEW line
  PROVE  Counted(t, line) =
           [name |-> t.name,
            asserts |-> t.asserts + IF line \in {"assert", "mock"} THEN 1 ELSE 0,
            mocky |-> t.mocky + IF line = "mock" THEN 1 ELSE 0,
            silenced |-> t.silenced \/ (t.pending /\ line = "pass"),
            pending |-> line = "except"]
<1> DEFINE one(b) == IF b THEN 1 ELSE 0
<1>1. t = [name |-> t.name, asserts |-> t.asserts, mocky |-> t.mocky, silenced |-> t.silenced,
           pending |-> t.pending]
  BY DEF TestCount
<1>2. Counted(t, line) =
        [[[[t EXCEPT !.silenced = t.silenced \/ (t.pending /\ line = "pass")]
             EXCEPT !.pending = (line = "except")]
             EXCEPT !.asserts = t.asserts + one(line \in {"assert", "mock"})]
             EXCEPT !.mocky = t.mocky + one(line = "mock")]
  BY <1>1, Zenon DEF Counted
<1> QED BY <1>1, <1>2

LEMMA LineCountedType ==
  ASSUME NEW acc \in CountOf, NEW line, NEW n \in Nat
  PROVE  LineCounted(acc, line, n) \in CountOf
<1>1. acc.test \in TestCount /\ acc.hollow \in SUBSET Nat
  BY DEF CountOf
<1>2. Counted(acc.test, line) \in TestCount
  <2>1. acc.test.asserts \in Nat /\ acc.test.mocky \in Nat /\ acc.test.name \in Nat
        /\ acc.test.silenced \in BOOLEAN /\ acc.test.pending \in BOOLEAN
    BY <1>1 DEF TestCount
  <2>2. \A k, l, m \in Nat : \A b, d \in BOOLEAN :
          [name |-> k, asserts |-> l, mocky |-> m, silenced |-> b, pending |-> d] \in TestCount
    BY DEF TestCount
  <2>3. /\ acc.test.asserts + (IF line \in {"assert", "mock"} THEN 1 ELSE 0) \in Nat
        /\ acc.test.mocky + (IF line = "mock" THEN 1 ELSE 0) \in Nat
        /\ (acc.test.silenced \/ (acc.test.pending /\ line = "pass")) \in BOOLEAN
        /\ (line = "except") \in BOOLEAN
    BY <2>1
  <2> DEFINE l == acc.test.asserts + (IF line \in {"assert", "mock"} THEN 1 ELSE 0)
             m == acc.test.mocky + (IF line = "mock" THEN 1 ELSE 0)
             b == acc.test.silenced \/ (acc.test.pending /\ line = "pass")
             d == line = "except"
  <2>4. Counted(acc.test, line) =
          [name |-> acc.test.name, asserts |-> l, mocky |-> m, silenced |-> b, pending |-> d]
    BY <1>1, CountedIs
  <2>5. l \in Nat /\ m \in Nat /\ b \in BOOLEAN /\ d \in BOOLEAN
    BY <2>3
  <2> HIDE DEF l, m, b, d
  <2> QED BY <2>1, <2>2, <2>4, <2>5
<1>3. Opened(acc.test, n) \in TestCount
  BY DEF Opened, NoTest, TestCount
<1>4. Closed(acc.hollow, acc.test) \in SUBSET Nat
  BY <1>1 DEF Closed, TestCount
<1>5. [acc EXCEPT !.test = Counted(@, line)] \in CountOf
  BY <1>2 DEF CountOf
<1> QED BY <1>3, <1>4, <1>5 DEF LineCounted, CountOf

LEMMA CountingIs ==
  ASSUME NEW a \in Seq(AddedLines)
  PROVE  \A n \in 0..Len(a) :
           /\ Counting(a)[n] \in CountOf
           /\ Counting(a)[n] = IF n = 0 THEN NoCount ELSE LineCounted(Counting(a)[n - 1], a[n], n)
<1> DEFINE N == Len(a)
           F == [p \in CountOf \X (1..N) |-> LineCounted(p[1], a[p[2]], p[2])]
           Is(c) == c = [n \in 0..N |-> IF n = 0 THEN NoCount ELSE LineCounted(c[n - 1], a[n], n)]
<1>1. N \in Nat /\ NoCount \in CountOf
  BY DEF CountOf, NoCount, NoTest, TestCount
<1>2. F \in [CountOf \X (1..N) -> CountOf]
  BY LineCountedType
<1>3. \A x \in CountOf, n \in 1..N : F[<<x, n>>] = LineCounted(x, a[n], n)
  OBVIOUS
<1> HIDE DEF F, N
<1>4. PICK c \in [0..N -> CountOf] :
        Folds(c, N, NoCount, F)
  BY <1>1, <1>2, FoldExists, Zenon
<1>5. \A n \in 0..N : c[n] = IF n = 0 THEN NoCount ELSE LineCounted(c[n - 1], a[n], n)
  <2> SUFFICES ASSUME NEW n \in 0..N
               PROVE  c[n] = IF n = 0 THEN NoCount ELSE LineCounted(c[n - 1], a[n], n)
    OBVIOUS
  <2>1. c[n] = IF n = 0 THEN NoCount ELSE F[<<c[n - 1], n>>]
    BY <1>4 DEF Folds
  <2>2. n # 0 => n \in 1..N /\ n - 1 \in 0..N
    BY <1>1
  <2> QED BY <1>3, <2>1, <2>2
<1>6. Is(c)
  BY <1>5
<1>7. Is(Counting(a))
  BY <1>6, Zenon DEF Counting, NoCount, N
<1>8. Counting(a) = c
  \* Both are the one function of that recursion.
  <2> DEFINE g == Counting(a)
             G == {n \in 0..N : g[n] = c[n]}
  <2>1. g = [n \in 0..N |-> IF n = 0 THEN NoCount ELSE LineCounted(g[n - 1], a[n], n)]
    BY <1>7
  <2> HIDE DEF g
  <2>2. 0 \in G
    BY <1>1, <1>5, <2>1
  <2>3. ASSUME NEW n \in 1..N, n - 1 \in G
        PROVE  n \in G
    BY <1>1, <1>5, <2>1, <2>3
  <2> HIDE DEF G
  <2>4. \A n \in 0..N : n \in G
    BY <1>1, <2>2, <2>3, UpToLast
  <2>5. \A n \in 0..N : g[n] = c[n]
    BY <2>4 DEF G
  <2> QED BY <1>4, <2>1, <2>5 DEF g
<1> QED BY <1>4, <1>5, <1>8 DEF N

\* Whether the last line that counts caught an exception, when n lines are read, and
\* whether some line passed right after such a one.
Pending(a, u, n) == \E j \in u + 1..n : a[j] = "except" /\ \A m \in j + 1..n : a[m] \in Skipped
Passed(a, u, n) == \E k \in u + 1..n : a[k] = "pass" /\ Pending(a, u, k - 1)

\* What the loop knows after n lines: of the test it is in, the lines so far, and
\* of the tests before it, which it takes to be hollow.
Hollow(a, u) ==
  \/ /\ \E j \in UpToNext(a, u) : a[j] = "mock"
     /\ \A j \in UpToNext(a, u) : a[j] # "assert"
  \/ \E k \in UpToNext(a, u) : a[k] = "pass" /\ Pending(a, u, k - 1)

Some(a, u, n, line) == \E j \in u + 1..n : a[j] = line

Knows(a, n, t) ==
  /\ t.name \in 0..n
  /\ \A m \in t.name + 1..n : a[m] # "test"
  /\ t.name > 0 =>
       /\ a[t.name] = "test"
       /\ t.mocky <= t.asserts
       /\ t.mocky > 0 <=> Some(a, t.name, n, "mock")
       /\ t.mocky < t.asserts <=> Some(a, t.name, n, "assert")
       /\ t.silenced <=> Passed(a, t.name, n)
       /\ t.pending <=> Pending(a, t.name, n)

HollowBefore(a, u) == {m \in DOMAIN a : m < u /\ a[m] = "test" /\ Hollow(a, m)}

\* A line that is passed over.
LEMMA KnowsSkipped ==
  ASSUME NEW a \in Seq(AddedLines), NEW n \in 1..Len(a), NEW t \in TestCount,
         Knows(a, n - 1, t), a[n] \in Skipped
  PROVE  Knows(a, n, t)
<1> DEFINE u == t.name
<1>1. n \in Nat /\ n >= 1 /\ u \in Nat /\ u <= n - 1
  BY DEF Knows, TestCount
<1>2. u + 1..n = (u + 1..n - 1) \cup {n}
  BY <1>1
<1>3. a[n] \notin {"test", "mock", "assert", "except", "pass"}
  BY DEF Skipped
<1>4. \A line \in {"mock", "assert"} : Some(a, u, n, line) <=> Some(a, u, n - 1, line)
  BY <1>2, <1>3 DEF Some
<1>5. Passed(a, u, n) <=> Passed(a, u, n - 1)
  BY <1>2, <1>3 DEF Passed
<1>6. Pending(a, u, n) <=> Pending(a, u, n - 1)
  <2>1. \A j \in u + 1..n - 1 : j + 1..n = (j + 1..n - 1) \cup {n}
    BY <1>1
  <2> QED BY <1>2, <1>3, <2>1 DEF Pending
<1>7. \A m \in u + 1..n : a[m] # "test"
  BY <1>2, <1>3 DEF Knows
<1>8. u \in 0..n
  BY <1>1
<1> QED BY <1>4, <1>5, <1>6, <1>7, <1>8 DEF Knows

\* The next line of a test.
LEMMA KnowsNextLine ==
  ASSUME NEW a \in Seq(AddedLines), NEW n \in 1..Len(a), NEW t \in TestCount,
         Knows(a, n - 1, t), t.name > 0, a[n] # "test", a[n] \notin Skipped
  PROVE  Knows(a, n, Counted(t, a[n]))
<1> DEFINE s == Counted(t, a[n])
           u == t.name
           l == a[n]
<1>1. /\ n \in Nat /\ n >= 1 /\ u \in Nat /\ u > 0 /\ u <= n - 1
      /\ t.asserts \in Nat /\ t.mocky \in Nat /\ t.silenced \in BOOLEAN /\ t.pending \in BOOLEAN
  BY DEF Knows, TestCount
<1>2. /\ s.name = u
      /\ s.asserts = t.asserts + IF l \in {"assert", "mock"} THEN 1 ELSE 0
      /\ s.mocky = t.mocky + IF l = "mock" THEN 1 ELSE 0
      /\ s.silenced = (t.silenced \/ (t.pending /\ l = "pass"))
      /\ s.pending = (l = "except")
  BY CountedIs
<1> HIDE DEF s
<1>3. \A line : Some(a, u, n, line) <=> Some(a, u, n - 1, line) \/ l = line
  <2> SUFFICES ASSUME NEW line
               PROVE  Some(a, u, n, line) <=> Some(a, u, n - 1, line) \/ l = line
    OBVIOUS
  <2>1. u + 1..n = (u + 1..n - 1) \cup {n}
    BY <1>1
  <2> QED BY <2>1 DEF Some
<1>4. \A m \in u + 1..n : a[m] # "test"
  <2>1. \A m \in u + 1..n : m \in u + 1..n - 1 \/ m = n
    BY <1>1
  <2> QED BY <2>1 DEF Knows
<1>5. s.silenced <=> Passed(a, u, n)
  <2>1. u + 1..n = (u + 1..n - 1) \cup {n}
    BY <1>1
  <2>2. t.silenced <=> Passed(a, u, n - 1)
    BY <1>1 DEF Knows
  <2>3. t.pending <=> Pending(a, u, n - 1)
    BY <1>1 DEF Knows
  <2> QED BY <1>2, <2>1, <2>2, <2>3 DEF Passed
<1>6. /\ t.mocky <= t.asserts
      /\ t.mocky > 0 <=> Some(a, u, n - 1, "mock")
      /\ t.mocky < t.asserts <=> Some(a, u, n - 1, "assert")
  BY <1>1 DEF Knows
<1>7. /\ s.mocky <= s.asserts
      /\ s.mocky > 0 <=> Some(a, u, n, "mock")
      /\ s.mocky < s.asserts <=> Some(a, u, n, "assert")
  BY <1>1, <1>2, <1>3, <1>6
<1>8. a[u] = "test" /\ u \in 0..n
  BY <1>1 DEF Knows
<1>9. s.pending <=> Pending(a, u, n)
  <2>1. \A j \in u + 1..n : j = n \/ n \in j + 1..n
    BY <1>1
  <2>2. n \in u + 1..n /\ n + 1..n = {}
    BY <1>1
  <2>3. Pending(a, u, n) <=> a[n] = "except"
    BY <2>1, <2>2 DEF Pending
  <2> QED BY <1>2, <2>3, Zenon
<1>10. Knows(a, n, s)
  BY <1>2, <1>4, <1>5, <1>7, <1>8, <1>9, Zenon DEF Knows
<1> QED BY <1>10 DEF s

\* A test's lines end where the next test begins, or with the change.
LEMMA LinesEnd ==
  ASSUME NEW a \in Seq(AddedLines), NEW n \in 0..Len(a), NEW u \in 0..n,
         \A m \in u + 1..n : a[m] # "test", n = Len(a) \/ a[n + 1] = "test"
  PROVE  UpToNext(a, u) = u + 1..n
<1>1. ASSUME NEW j \in u + 1..Len(a), \A m \in u + 1..j : a[m] # "test"
      PROVE  j \in u + 1..n
  BY <1>1
<1>2. ASSUME NEW j \in u + 1..n
      PROVE  j \in u + 1..Len(a) /\ \A m \in u + 1..j : a[m] # "test"
  BY <1>2
<1> QED BY <1>1, <1>2 DEF UpToNext

\* A test is counted among the hollow when it ends exactly if it is.
LEMMA ClosedIs ==
  ASSUME NEW a \in Seq(AddedLines), NEW n \in 0..Len(a), NEW t \in TestCount,
         Knows(a, n, t), n = Len(a) \/ a[n + 1] = "test"
  PROVE  Closed(HollowBefore(a, t.name), t) = HollowBefore(a, n + 1)
<1> DEFINE u == t.name
<1>1. /\ n \in Nat /\ u \in Nat /\ u <= n
      /\ t.asserts \in Nat /\ t.mocky \in Nat /\ t.silenced \in BOOLEAN
      /\ \A m \in u + 1..n : a[m] # "test"
  BY DEF Knows, TestCount
<1>2. CASE u = 0
  <2>1. Closed(HollowBefore(a, u), t) = HollowBefore(a, u)
    BY <1>2 DEF Closed
  <2>2. HollowBefore(a, u) = {} /\ HollowBefore(a, n + 1) = {}
    BY <1>1, <1>2 DEF HollowBefore
  <2> QED BY <2>1, <2>2
<1>3. CASE u > 0
  <2> DEFINE bad == t.silenced \/ (t.asserts > 0 /\ t.asserts = t.mocky)
  <2>1. UpToNext(a, u) = u + 1..n
    BY <1>1, LinesEnd
  <2>2. (\E j \in UpToNext(a, u) : a[j] = "mock") <=> t.mocky > 0
    BY <1>3, <2>1 DEF Knows, Some
  <2>3. (\A j \in UpToNext(a, u) : a[j] # "assert") <=> ~(t.mocky < t.asserts)
    BY <1>3, <2>1 DEF Knows, Some
  <2>4. (\E k \in UpToNext(a, u) : a[k] = "pass" /\ Pending(a, u, k - 1)) <=> t.silenced
    BY <1>3, <2>1 DEF Knows, Passed
  <2>5. t.mocky <= t.asserts
    BY <1>3 DEF Knows
  <2>6. Hollow(a, u) <=> bad
    BY <1>1, <2>2, <2>3, <2>4, <2>5 DEF Hollow
  <2>7. u \in DOMAIN a /\ a[u] = "test"
    BY <1>1, <1>3 DEF Knows
  <2>8. HollowBefore(a, n + 1) = HollowBefore(a, u) \cup (IF Hollow(a, u) THEN {u} ELSE {})
    BY <1>1, <2>7 DEF HollowBefore
  <2>9. Closed(HollowBefore(a, u), t) = HollowBefore(a, u) \cup (IF bad THEN {u} ELSE {})
    BY <1>3 DEF Closed
  <2> HIDE DEF bad
  <2> QED BY <2>6, <2>8, <2>9
<1> QED BY <1>1, <1>2, <1>3

LEMMA HollowTestsIs ==
  ASSUME NEW a \in Seq(AddedLines)
  PROVE  HollowTests(a) = {u \in DOMAIN a : a[u] = "test" /\ Hollow(a, u)}
<1> DEFINE c == Counting(a)
           G == {n \in 0..Len(a) : Knows(a, n, c[n].test) /\ c[n].hollow = HollowBefore(a, c[n].test.name)}
<1>1. Len(a) \in Nat
  OBVIOUS
<1>2. \A n \in 0..Len(a) : /\ c[n] \in CountOf
                            /\ c[n] = IF n = 0 THEN NoCount ELSE LineCounted(c[n - 1], a[n], n)
  BY CountingIs
<1> HIDE DEF c
<1>3. 0 \in G
  <2>1. c[0].hollow = {} /\ c[0].test = NoTest
    BY <1>1, <1>2 DEF NoCount
  <2>2. NoTest.name = 0
    BY DEF NoTest
  <2>3. HollowBefore(a, 0) = {}
    BY DEF HollowBefore
  <2>4. NoTest.name \in 0..0 /\ ~(NoTest.name > 0) /\ \A m \in NoTest.name + 1..0 : a[m] # "test"
    BY <2>2
  <2>5. Knows(a, 0, NoTest)
    BY <2>4 DEF Knows
  <2>6. 0 \in 0..Len(a) /\ Knows(a, 0, c[0].test) /\ c[0].hollow = HollowBefore(a, c[0].test.name)
    BY <1>1, <2>1, <2>2, <2>3, <2>5
  <2> QED BY <2>6
<1>4. ASSUME NEW n \in 1..Len(a), n - 1 \in G
      PROVE  n \in G
  <2> DEFINE p == c[n - 1]
  <2>1. /\ n - 1 \in 0..Len(a) /\ n \in 0..Len(a) /\ (n - 1) + 1 = n /\ n # 0
        /\ p \in CountOf /\ p.test \in TestCount
        /\ Knows(a, n - 1, p.test) /\ p.hollow = HollowBefore(a, p.test.name)
    BY <1>2, <1>4 DEF CountOf
  <2>2. c[n] = LineCounted(p, a[n], n)
    BY <1>2, <2>1
  <2> HIDE DEF p
  <2>3. CASE a[n] = "test"
    <3>1. c[n].hollow = Closed(p.hollow, p.test) /\ c[n].test = Opened(p.test, n)
      BY <2>2, <2>3 DEF LineCounted
    <3>2. Closed(HollowBefore(a, p.test.name), p.test) = HollowBefore(a, n)
      BY <2>1, <2>3, ClosedIs
    <3>3. /\ Opened(p.test, n).name = n /\ Opened(p.test, n).asserts = 0 /\ Opened(p.test, n).mocky = 0
          /\ ~Opened(p.test, n).silenced /\ ~Opened(p.test, n).pending
      BY DEF Opened, NoTest
    <3>5. n + 1..n = {} /\ n \in 0..n
      BY <2>1
    <3>4. Knows(a, n, Opened(p.test, n))
      BY <2>3, <3>3, <3>5 DEF Knows, Some, Pending, Passed
    <3> QED BY <2>1, <3>1, <3>2, <3>3, <3>4
  <2>4. CASE a[n] # "test" /\ p.test.name = 0
    <3>1. c[n] = p
      BY <2>2, <2>4 DEF LineCounted
    <3>2. Knows(a, n, p.test)
      BY <2>1, <2>4 DEF Knows
    <3> QED BY <2>1, <3>1, <3>2
  <2>6. CASE a[n] \in Skipped
    <3>1. c[n] = p
      BY <2>2, <2>6 DEF LineCounted, Skipped
    <3>2. Knows(a, n, p.test)
      BY <2>1, <2>6, KnowsSkipped
    <3> QED BY <2>1, <3>1, <3>2
  <2>5. CASE a[n] # "test" /\ a[n] \notin Skipped /\ p.test.name # 0
    <3>1. c[n] = [p EXCEPT !.test = Counted(p.test, a[n])]
      BY <2>2, <2>5 DEF LineCounted
    <3>2. c[n].hollow = p.hollow /\ c[n].test = Counted(p.test, a[n])
      BY <2>1, <3>1 DEF CountOf
    <3>3. p.test.name > 0
      BY <2>1, <2>5 DEF TestCount
    <3>4. Knows(a, n, Counted(p.test, a[n]))
      BY <2>1, <2>5, <3>3, KnowsNextLine
    <3>5. Counted(p.test, a[n]).name = p.test.name
      BY <2>1, CountedIs
    <3> QED BY <2>1, <3>2, <3>4, <3>5
  <2> QED BY <2>3, <2>4, <2>5, <2>6
<1> HIDE DEF G
<1>5. Len(a) \in G
  BY <1>1, <1>3, <1>4, UpToLast
<1>6. Closed(c[Len(a)].hollow, c[Len(a)].test) = HollowBefore(a, Len(a) + 1)
  <2>1. Len(a) \in 0..Len(a) /\ c[Len(a)].test \in TestCount
    BY <1>1, <1>2 DEF CountOf
  <2> QED BY <1>5, <2>1, ClosedIs DEF G
<1>7. HollowBefore(a, Len(a) + 1) = {u \in DOMAIN a : a[u] = "test" /\ Hollow(a, u)}
  BY DEF HollowBefore
<1> QED BY <1>6, <1>7 DEF HollowTests, c


----------------------------------------------------------------------------
(* Commands. *)

Pass == "pass"
ConsideredOf == [verdict : {None, Pass}, seen : BOOLEAN, failed : BOOLEAN]
NotYet == [verdict |-> None, seen |-> FALSE, failed |-> FALSE]

RunOf == [tool : STRING, ran : Seq(STRING), text : Seq(STRING), ok : BOOLEAN, shellFailed : BOOLEAN]

\* What a call that matches must do to bear out what is said of it.
BearsOut(c, wanted, said) == (c.ok /\ Supports(Section(c, wanted), said)) \/ Stopped(c, said)

LEMMA ConsideredIs ==
  ASSUME NEW acc \in ConsideredOf, NEW c \in RunOf, NEW wanted, NEW said
  PROVE  /\ Considered(wanted, said, acc, c) \in ConsideredOf
         /\ Considered(wanted, said, acc, c).verdict =
              IF acc.verdict = None /\ Matching(c, wanted) /\ BearsOut(c, wanted, said)
              THEN Pass ELSE acc.verdict
<1> DEFINE r == Considered(wanted, said, acc, c)
<1>1. acc.verdict \in {None, Pass} /\ acc.seen \in BOOLEAN /\ acc.failed \in BOOLEAN
      /\ acc = [verdict |-> acc.verdict, seen |-> acc.seen, failed |-> acc.failed]
  BY DEF ConsideredOf
<1>7. c.ok \in BOOLEAN
  BY DEF RunOf
<1>2. CASE acc.verdict # None \/ ~Matching(c, wanted)
  BY <1>1, <1>2 DEF Considered
<1>3. CASE acc.verdict = None /\ Matching(c, wanted) /\ Stopped(c, said)
  <2>1. r = [acc EXCEPT !.verdict = Pass]
    BY <1>3 DEF Considered, Pass
  <2> QED BY <1>1, <1>3, <2>1 DEF BearsOut, ConsideredOf
<1>4. CASE acc.verdict = None /\ Matching(c, wanted) /\ ~Stopped(c, said)
           /\ ~Supports(Section(c, wanted), said)
  <2>1. r = [acc EXCEPT !.seen = TRUE]
    BY <1>4 DEF Considered
  <2> QED BY <1>1, <1>4, <2>1 DEF BearsOut, ConsideredOf
<1>5. CASE acc.verdict = None /\ Matching(c, wanted) /\ ~Stopped(c, said)
           /\ Supports(Section(c, wanted), said) /\ c.ok
  <2>1. r = [acc EXCEPT !.verdict = Pass]
    BY <1>5 DEF Considered, Pass
  <2> QED BY <1>1, <1>5, <2>1 DEF BearsOut, ConsideredOf
<1>6. CASE acc.verdict = None /\ Matching(c, wanted) /\ ~Stopped(c, said)
           /\ Supports(Section(c, wanted), said) /\ ~c.ok
  <2>1. r = [[acc EXCEPT !.seen = TRUE] EXCEPT !.failed = TRUE]
    BY <1>6, Zenon DEF Considered
  <2> QED BY <1>1, <1>6, <2>1 DEF BearsOut, ConsideredOf
<1> QED BY <1>2, <1>3, <1>4, <1>5, <1>6

\* A call that matches and does not bear it out is remembered.
LEMMA ConsideredSeen ==
  ASSUME NEW acc \in ConsideredOf, NEW c \in RunOf, NEW wanted, NEW said
  PROVE  LET r == Considered(wanted, said, acc, c)
         IN (r.seen \/ r.failed) = (\/ acc.seen \/ acc.failed
                                    \/ acc.verdict = None /\ Matching(c, wanted) /\ ~BearsOut(c, wanted, said))
<1> DEFINE r == Considered(wanted, said, acc, c)
<1>1. acc.verdict \in {None, Pass} /\ acc.seen \in BOOLEAN /\ acc.failed \in BOOLEAN
      /\ acc = [verdict |-> acc.verdict, seen |-> acc.seen, failed |-> acc.failed]
  BY DEF ConsideredOf
<1>7. c.ok \in BOOLEAN
  BY DEF RunOf
<1>2. CASE acc.verdict # None \/ ~Matching(c, wanted)
  BY <1>1, <1>2 DEF Considered
<1>3. CASE acc.verdict = None /\ Matching(c, wanted) /\ Stopped(c, said)
  <2>1. r = [acc EXCEPT !.verdict = Pass]
    BY <1>3 DEF Considered, Pass
  <2> QED BY <1>1, <1>3, <2>1 DEF BearsOut, ConsideredOf
<1>4. CASE acc.verdict = None /\ Matching(c, wanted) /\ ~Stopped(c, said)
           /\ ~Supports(Section(c, wanted), said)
  <2>1. r = [acc EXCEPT !.seen = TRUE]
    BY <1>4 DEF Considered
  <2> QED BY <1>1, <1>4, <2>1 DEF BearsOut, ConsideredOf
<1>5. CASE acc.verdict = None /\ Matching(c, wanted) /\ ~Stopped(c, said)
           /\ Supports(Section(c, wanted), said) /\ c.ok
  <2>1. r = [acc EXCEPT !.verdict = Pass]
    BY <1>5 DEF Considered, Pass
  <2> QED BY <1>1, <1>5, <2>1 DEF BearsOut, ConsideredOf
<1>6. CASE acc.verdict = None /\ Matching(c, wanted) /\ ~Stopped(c, said)
           /\ Supports(Section(c, wanted), said) /\ ~c.ok
  <2>1. r = [[acc EXCEPT !.seen = TRUE] EXCEPT !.failed = TRUE]
    BY <1>6, Zenon DEF Considered
  <2> QED BY <1>1, <1>6, <2>1 DEF BearsOut, ConsideredOf
<1> QED BY <1>2, <1>3, <1>4, <1>5, <1>6

LEMMA ConsideringIs ==
  ASSUME NEW cs \in Seq(RunOf), NEW wanted, NEW said
  PROVE  \A n \in 0..Len(cs) :
           /\ Considering(cs, wanted, said)[n] \in ConsideredOf
           /\ Considering(cs, wanted, said)[n] =
                IF n = 0 THEN NotYet
                ELSE Considered(wanted, said, Considering(cs, wanted, said)[n - 1], cs[n])
<1> DEFINE N == Len(cs)
           F == [p \in ConsideredOf \X (1..N) |-> Considered(wanted, said, p[1], cs[p[2]])]
           Is(c) == c = [n \in 0..N |-> IF n = 0 THEN NotYet ELSE Considered(wanted, said, c[n - 1], cs[n])]
<1>1. N \in Nat /\ NotYet \in ConsideredOf
  BY DEF ConsideredOf, NotYet
<1>2. \A n \in 1..N : cs[n] \in RunOf
  OBVIOUS
<1>3. F \in [ConsideredOf \X (1..N) -> ConsideredOf]
  BY <1>2, ConsideredIs
<1>4. \A x \in ConsideredOf, n \in 1..N : F[<<x, n>>] = Considered(wanted, said, x, cs[n])
  OBVIOUS
<1> HIDE DEF F, N
<1>5. PICK c \in [0..N -> ConsideredOf] : Folds(c, N, NotYet, F)
  BY <1>1, <1>3, FoldExists, Zenon
<1>6. \A n \in 0..N : c[n] = IF n = 0 THEN NotYet ELSE Considered(wanted, said, c[n - 1], cs[n])
  <2> SUFFICES ASSUME NEW n \in 0..N
               PROVE  c[n] = IF n = 0 THEN NotYet ELSE Considered(wanted, said, c[n - 1], cs[n])
    OBVIOUS
  <2>1. c[n] = IF n = 0 THEN NotYet ELSE F[<<c[n - 1], n>>]
    BY <1>5 DEF Folds
  <2>2. n # 0 => n \in 1..N /\ n - 1 \in 0..N
    BY <1>1
  <2> QED BY <1>4, <2>1, <2>2
<1>7. Is(c)
  BY <1>6
<1> DEFINE g == Considering(cs, wanted, said)
           G == {n \in 0..N : g[n] \in ConsideredOf}
<1>8. Is(g)
  BY <1>7, Zenon DEF Considering, NotYet, N
<1> HIDE DEF g
<1>9. \A n \in 0..N : g[n] = IF n = 0 THEN NotYet ELSE Considered(wanted, said, g[n - 1], cs[n])
  BY <1>8
<1>10. 0 \in G
  BY <1>1, <1>9
<1>11. ASSUME NEW n \in 1..N, n - 1 \in G
       PROVE  n \in G
  <2>1. /\ n \in 0..N /\ g[n - 1] \in ConsideredOf /\ cs[n] \in RunOf
        /\ g[n] = Considered(wanted, said, g[n - 1], cs[n])
    BY <1>1, <1>2, <1>9, <1>11
  <2>2. g[n] \in ConsideredOf
    BY <2>1, ConsideredIs
  <2> QED BY <2>1, <2>2
<1> HIDE DEF G
<1>12. \A n \in 0..N : n \in G
  BY <1>1, <1>10, <1>11, UpToLast
<1> QED BY <1>9, <1>12 DEF G, g, N

\* The loop passes a citation exactly if a call that matches bears it out, and
\* otherwise knows whether one matched.
LEMMA CommandResultIs ==
  ASSUME NEW cs \in Seq(RunOf), NEW wanted, NEW said
  PROVE  LET bears == \E c \in ToSet(cs) : Matching(c, wanted) /\ BearsOut(c, wanted, said)
             matched == \E c \in ToSet(cs) : Matching(c, wanted)
             verdict_ == CommandResult(cs, wanted, said)
         IN /\ verdict_ = Pass => bears
            /\ verdict_ = "fail" => matched /\ ~bears
            /\ verdict_ \notin {Pass, "fail"} => said = <<>> \/ ~matched
<1> DEFINE g == Considering(cs, wanted, said)
           Matched(n) == \E i \in 1..n : Matching(cs[i], wanted)
           Bears(n) == \E i \in 1..n : Matching(cs[i], wanted) /\ BearsOut(cs[i], wanted, said)
           G == {n \in 0..Len(cs) : /\ g[n].verdict = Pass <=> Bears(n)
                                    /\ g[n].verdict = None => (g[n].seen \/ g[n].failed <=> Matched(n))}
<1>1. Len(cs) \in Nat /\ DOMAIN cs = 1..Len(cs) /\ \A n \in 1..Len(cs) : cs[n] \in RunOf
  OBVIOUS
<1>2. \A n \in 0..Len(cs) :
        g[n] \in ConsideredOf /\ g[n] = IF n = 0 THEN NotYet ELSE Considered(wanted, said, g[n - 1], cs[n])
  BY ConsideringIs
<1>3. \A n \in 0..Len(cs) : g[n].verdict \in {None, Pass}
  BY <1>2 DEF ConsideredOf
<1>4. None # Pass /\ Pass # "fail" /\ Pass # "unverified" /\ None # "fail" /\ "fail" # "unverified"
  BY DEF None, Pass
<1> HIDE DEF g
<1>5. 0 \in G
  BY <1>1, <1>2, <1>4 DEF NotYet
<1>6. ASSUME NEW n \in 1..Len(cs), n - 1 \in G
      PROVE  n \in G
  <2>1. n \in 0..Len(cs) /\ n - 1 \in 0..Len(cs) /\ n # 0
    BY <1>1
  <2> DEFINE c == cs[n]
             h == g[n - 1]
  <2>2. /\ g[n].verdict = IF h.verdict = None /\ Matching(c, wanted) /\ BearsOut(c, wanted, said)
                          THEN Pass ELSE h.verdict
        /\ g[n].seen \/ g[n].failed <=>
             \/ h.seen \/ h.failed
             \/ h.verdict = None /\ Matching(c, wanted) /\ ~BearsOut(c, wanted, said)
    <3>1. g[n] = Considered(wanted, said, h, c) /\ h \in ConsideredOf /\ c \in RunOf
      BY <1>1, <1>2, <2>1
    <3> HIDE DEF c, h
    <3>2. Considered(wanted, said, h, c).verdict =
               IF h.verdict = None /\ Matching(c, wanted) /\ BearsOut(c, wanted, said)
               THEN Pass ELSE h.verdict
      BY <3>1, ConsideredIs
    <3>3. (Considered(wanted, said, h, c).seen \/ Considered(wanted, said, h, c).failed) =
            (\/ h.seen \/ h.failed
             \/ h.verdict = None /\ Matching(c, wanted) /\ ~BearsOut(c, wanted, said))
      BY <3>1, ConsideredSeen
    <3> QED BY <3>1, <3>2, <3>3
  <2>3. /\ Bears(n) <=> Bears(n - 1) \/ (Matching(c, wanted) /\ BearsOut(c, wanted, said))
        /\ Matched(n) <=> Matched(n - 1) \/ Matching(c, wanted)
    <3>1. 1..n = (1..n - 1) \cup {n}
      BY <2>1
    <3> QED BY <3>1
  <2>4. /\ h.verdict = Pass <=> Bears(n - 1)
        /\ h.verdict = None => (h.seen \/ h.failed <=> Matched(n - 1))
        /\ h.verdict \in {None, Pass}
    BY <1>3, <1>6, <2>1
  <2> HIDE DEF Bears, Matched, c, h
  <2>5. /\ g[n].verdict = Pass <=> Bears(n)
        /\ g[n].verdict = None => (g[n].seen \/ g[n].failed <=> Matched(n))
    BY <1>4, <2>2, <2>3, <2>4
  <2> QED BY <2>1, <2>5
<1> HIDE DEF G
<1>7. Len(cs) \in G
  <2>1. \A n \in 0..Len(cs) : n \in G
    BY <1>1, <1>5, <1>6, UpToLast
  <2> QED BY <1>1, <2>1
<1>8. /\ g[Len(cs)].verdict = Pass <=> Bears(Len(cs))
      /\ g[Len(cs)].verdict = None => (g[Len(cs)].seen \/ g[Len(cs)].failed <=> Matched(Len(cs)))
  BY <1>7 DEF G
<1>9. /\ Bears(Len(cs)) <=> \E c \in ToSet(cs) : Matching(c, wanted) /\ BearsOut(c, wanted, said)
      /\ Matched(Len(cs)) <=> \E c \in ToSet(cs) : Matching(c, wanted)
  BY <1>1 DEF ToSet
<1>10. g[Len(cs)].verdict \in {None, Pass}
  BY <1>1, <1>3
<1>11. CommandResult(cs, wanted, said) =
         IF said = <<>> THEN "unverified"
         ELSE IF g[Len(cs)].verdict # None THEN g[Len(cs)].verdict
         ELSE IF g[Len(cs)].failed \/ g[Len(cs)].seen THEN "fail" ELSE "unverified"
  BY Zenon DEF CommandResult, g
<1> HIDE DEF Bears, Matched
<1> QED BY <1>4, <1>8, <1>9, <1>10, <1>11

\* A call that matches ran the command cited, or a part of it, under its settings.
LEMMA MatchingRan ==
  ASSUME NEW c \in RunOf, NEW wanted \in Seq(STRING), Matching(c, wanted)
  PROVE  LET words == ToSet(wanted)
         IN /\ c.tool = "Bash" /\ Settings(wanted) \subseteq ToSet(c.ran)
            /\ \/ Within(c.ran, wanted)
               \/ Payloads(wanted) # {} /\ Payloads(wanted) \subseteq ToSet(c.ran)
               \/ Payloads(wanted) = {} /\ "-c" \in words /\ Within(wanted, c.ran)
               \/ /\ Payloads(wanted) = {} /\ "-c" \notin words
                  /\ Cardinality(words \cap ToSet(c.ran)) * 2 >= Cardinality(words)
<1> DEFINE ws == ToSet(wanted)
           k == Cardinality(ws)
           both == Cardinality(ws \cap ToSet(c.ran))
<1>1. /\ c.tool = "Bash" /\ c.ran \in Seq(STRING)
      /\ Settings(wanted) \subseteq Settings(c.ran)
      /\ Within(wanted, c.ran) \/ Within(c.ran, wanted) \/ SameCommand(wanted, c.ran)
  BY DEF Matching, RunOf
<1>2. Settings(wanted) \subseteq ToSet(c.ran) /\ Payloads(wanted) \subseteq ws
  BY <1>1 DEF Settings, Payloads
<1>3. Contains(wanted, "-c") <=> "-c" \in ws
  BY DEF Contains, ToSet
<1>4. k \in Nat /\ both \in Nat
  <2>1. IsFiniteSet(ws)
    <3>1. Len(wanted) \in Nat /\ ws = {wanted[i] : i \in 1..Len(wanted)}
      BY DEF ToSet
    <3> HIDE DEF ws
    <3> QED BY <3>1, ImageIsFinite
  <2> HIDE DEF ws
  <2>2. IsFiniteSet(ws \cap ToSet(c.ran))
    BY <2>1, FS_Intersection
  <2> QED BY <2>1, <2>2, FS_CardinalityType
<1>5. CASE Within(wanted, c.ran)
  <2>1. ws \subseteq ToSet(c.ran)
    <3>1. PICK i \in 0..Len(c.ran) - Len(wanted) : SubSeq(c.ran, i + 1, i + Len(wanted)) = wanted
      BY <1>5 DEF Within
    <3>2. /\ Len(wanted) \in Nat /\ Len(c.ran) \in Nat
          /\ DOMAIN wanted = 1..Len(wanted) /\ DOMAIN c.ran = 1..Len(c.ran)
      BY <1>1
    <3>3. ASSUME NEW j \in 1..Len(wanted)
          PROVE  i + j \in 1..Len(c.ran) /\ wanted[j] = c.ran[i + j]
      <4>1. /\ i \in Int /\ 0 <= i /\ i <= Len(c.ran) - Len(wanted) /\ j \in Int
            /\ i + j \in 1..Len(c.ran) /\ j \in 1..((i + Len(wanted)) - (i + 1) + 1)
        BY <3>2
      <4>2. SubSeq(c.ran, i + 1, i + Len(wanted))[j] = c.ran[(i + 1) + j - 1]
        BY <3>2, <4>1
      <4>3. (i + 1) + j - 1 = i + j
        BY <4>1
      <4> QED BY <3>1, <4>1, <4>2, <4>3, Zenon
    <3> QED BY <3>2, <3>3 DEF ToSet
  <2>2. CASE Payloads(wanted) # {} \/ "-c" \in ws
    BY <1>1, <1>2, <1>5, <2>1, <2>2
  <2>3. CASE Payloads(wanted) = {} /\ "-c" \notin ws
    <3>1. ws \cap ToSet(c.ran) = ws
      BY <2>1
    <3>2. both = k
      BY <3>1
    <3> HIDE DEF both, k, ws
    <3>3. both * 2 >= k
      BY <1>4, <3>2
    <3> QED BY <1>1, <1>2, <2>3, <3>3 DEF both, k, ws
  <2> QED BY <2>2, <2>3
<1>6. CASE Within(c.ran, wanted)
  BY <1>1, <1>2, <1>6
<1>7. CASE SameCommand(wanted, c.ran) /\ (Payloads(wanted) # {} \/ "-c" \in ws)
  BY <1>1, <1>2, <1>3, <1>7 DEF SameCommand
<1>8. CASE SameCommand(wanted, c.ran) /\ Payloads(wanted) = {} /\ "-c" \notin ws
  <2>1. both * 10 >= k * 7
    BY <1>3, <1>8 DEF SameCommand
  <2> HIDE DEF both, k, ws
  <2>2. both * 2 >= k
    BY <1>4, <2>1
  <2> QED BY <1>1, <1>2, <1>8, <2>2 DEF both, k, ws
<1> QED BY <1>1, <1>5, <1>6, <1>7, <1>8

----------------------------------------------------------------------------
(* What was read. *)

RangesIn(R) == R \in SUBSET (Nat \X Nat) /\ IsFiniteSet(R)

LEMMA MaxOfTwo ==
  ASSUME NEW a \in Int, NEW b \in Int
  PROVE  Max({a, b}) = IF a >= b THEN a ELSE b
<1>1. \A m \in {a, b} : (\A y \in {a, b} : m >= y) <=> m = IF a >= b THEN a ELSE b
  OBVIOUS
<1>2. (IF a >= b THEN a ELSE b) \in {a, b}
  OBVIOUS
<1> QED BY <1>1, <1>2 DEF Max

LEMMA FirstIs ==
  ASSUME NEW R \in SUBSET (Nat \X Nat), R # {}
  PROVE  First(R) \in R /\ \A s \in R : First(R)[1] <= s[1]
<1> DEFINE A == {r[1] : r \in R}
<1>1. A \in SUBSET Nat /\ A # {}
  OBVIOUS
<1>2. PICK a \in A : \A m \in A : a <= m
  BY <1>1, LeastNat
<1> DEFINE B == {r[2] : r \in {s \in R : s[1] = a}}
<1>3. B \in SUBSET Nat /\ B # {}
  BY <1>2
<1>4. PICK b \in B : \A m \in B : b <= m
  BY <1>3, LeastNat
<1>5. PICK r \in R : r[1] = a /\ r[2] = b
  BY <1>4
<1>6. \A s \in R : r[1] < s[1] \/ (r[1] = s[1] /\ r[2] <= s[2])
  <2> SUFFICES ASSUME NEW s \in R
               PROVE  r[1] < s[1] \/ (r[1] = s[1] /\ r[2] <= s[2])
    OBVIOUS
  <2>1. s[1] \in A /\ s[1] \in Nat /\ a \in Nat
    BY <1>1
  <2>2. CASE s[1] = a
    <3>1. s[2] \in B
      BY <2>2
    <3> HIDE DEF A, B
    <3> QED BY <1>4, <1>5, <2>2, <3>1
  <2>3. CASE s[1] # a
    <3> HIDE DEF A, B
    <3> QED BY <1>2, <1>5, <2>1, <2>3
  <2> QED BY <2>2, <2>3
<1> HIDE DEF A, B
<1>7. First(R) \in R /\ \A s \in R : \/ First(R)[1] < s[1]
                                      \/ (First(R)[1] = s[1] /\ First(R)[2] <= s[2])
  BY <1>5, <1>6, Zenon DEF First
<1>8. \A s \in R : s[1] \in Nat
  OBVIOUS
<1> QED BY <1>7, <1>8

ReachOf(R) == [left : SUBSET R, reach : Int]

LEMMA FurtherReachIs ==
  ASSUME NEW R, RangesIn(R), NEW acc \in ReachOf(R), NEW end \in Nat, ~ReachEnds(acc, end)
  PROVE  \E r \in acc.left :
           /\ r \in R /\ r[1] \in Nat /\ r[2] \in Nat /\ r[1] <= acc.reach + 1
           /\ FurtherReach(acc, end) = [left |-> acc.left \ {r},
                                       reach |-> IF acc.reach >= r[2] THEN acc.reach ELSE r[2]]
<1> DEFINE r == First(acc.left)
<1>1. acc.left \in SUBSET R /\ acc.reach \in Int /\ acc.left # {} /\ ~(r[1] > acc.reach + 1)
  BY DEF ReachOf, ReachEnds
<1>2. acc.left \in SUBSET (Nat \X Nat)
  BY <1>1 DEF RangesIn
<1>3. r \in acc.left
  BY <1>1, <1>2, FirstIs
<1> HIDE DEF r
<1>4. r[1] \in Nat /\ r[2] \in Nat
  BY <1>2, <1>3
<1>5. Max({acc.reach, r[2]}) = IF acc.reach >= r[2] THEN acc.reach ELSE r[2]
  BY <1>1, <1>4, MaxOfTwo
<1>6. FurtherReach(acc, end) = [left |-> acc.left \ {r}, reach |-> Max({acc.reach, r[2]})]
  BY DEF FurtherReach, r
<1>7. /\ r \in R /\ r[1] \in Nat /\ r[2] \in Nat /\ r[1] <= acc.reach + 1
      /\ FurtherReach(acc, end) =
           [left |-> acc.left \ {r}, reach |-> IF acc.reach >= r[2] THEN acc.reach ELSE r[2]]
  <2>1. r[1] <= acc.reach + 1
    BY <1>1, <1>4
  <2> QED BY <1>1, <1>3, <1>4, <1>5, <1>6, <2>1
<1> QED BY <1>3, <1>7

LEMMA FurtherReachType ==
  ASSUME NEW R, RangesIn(R), NEW acc \in ReachOf(R), NEW end \in Nat
  PROVE  FurtherReach(acc, end) \in ReachOf(R)
<1>1. CASE ReachEnds(acc, end)
  BY <1>1 DEF FurtherReach
<1>2. CASE ~ReachEnds(acc, end)
  <2>1. PICK r \in acc.left :
          /\ r \in R /\ r[1] \in Nat /\ r[2] \in Nat /\ r[1] <= acc.reach + 1
          /\ FurtherReach(acc, end) =
               [left |-> acc.left \ {r}, reach |-> IF acc.reach >= r[2] THEN acc.reach ELSE r[2]]
    BY <1>2, FurtherReachIs
  <2>2. acc.left \in SUBSET R /\ acc.reach \in Int
    BY DEF ReachOf
  <2> QED BY <2>1, <2>2 DEF ReachOf
<1> QED BY <1>1, <1>2

LEMMA ReachingIs ==
  ASSUME NEW R, RangesIn(R), NEW start \in Nat, NEW end \in Nat
  PROVE  \A n \in 0..Cardinality(R) :
           /\ Reaching(R, start, end)[n] \in ReachOf(R)
           /\ Reaching(R, start, end)[n] =
                IF n = 0 THEN [left |-> R, reach |-> start - 1]
                ELSE FurtherReach(Reaching(R, start, end)[n - 1], end)
<1> DEFINE N == Cardinality(R)
           b == [left |-> R, reach |-> start - 1]
           F == [p \in ReachOf(R) \X (1..N) |-> FurtherReach(p[1], end)]
           Is(c) == c = [n \in 0..N |-> IF n = 0 THEN b ELSE FurtherReach(c[n - 1], end)]
<1>1. N \in Nat /\ b \in ReachOf(R)
  BY FS_CardinalityType DEF RangesIn, ReachOf
<1>2. F \in [ReachOf(R) \X (1..N) -> ReachOf(R)]
  BY FurtherReachType
<1>3. \A x \in ReachOf(R), n \in 1..N : F[<<x, n>>] = FurtherReach(x, end)
  OBVIOUS
<1> HIDE DEF F, N, b
<1>4. PICK c \in [0..N -> ReachOf(R)] : Folds(c, N, b, F)
  BY <1>1, <1>2, FoldExists, Zenon
<1>5. \A n \in 0..N : c[n] = IF n = 0 THEN b ELSE FurtherReach(c[n - 1], end)
  <2> SUFFICES ASSUME NEW n \in 0..N
               PROVE  c[n] = IF n = 0 THEN b ELSE FurtherReach(c[n - 1], end)
    OBVIOUS
  <2>1. c[n] = IF n = 0 THEN b ELSE F[<<c[n - 1], n>>]
    BY <1>4 DEF Folds
  <2>2. n # 0 => n \in 1..N /\ n - 1 \in 0..N
    BY <1>1
  <2> QED BY <1>3, <2>1, <2>2
<1>6. Is(c)
  BY <1>5
<1> DEFINE g == Reaching(R, start, end)
           G == {n \in 0..N : g[n] \in ReachOf(R)}
<1>7. Is(g)
  BY <1>6, Zenon DEF Reaching, b, N
<1> HIDE DEF g
<1>8. \A n \in 0..N : g[n] = IF n = 0 THEN b ELSE FurtherReach(g[n - 1], end)
  BY <1>7
<1>9. 0 \in G
  BY <1>1, <1>8
<1>10. ASSUME NEW n \in 1..N, n - 1 \in G
       PROVE  n \in G
  BY <1>1, <1>8, <1>10, FurtherReachType
<1> HIDE DEF G
<1>11. \A n \in 0..N : n \in G
  BY <1>1, <1>9, <1>10, UpToLast
<1> QED BY <1>8, <1>11 DEF G, g, N, b

\* What the loop knows after n turns: the ranges it is done with reach no further,
\* and each line up to where they reach is in one of them.
Reached(R, start, end, n, acc) ==
  /\ acc.reach >= start - 1
  /\ \A r \in R \ acc.left : r[2] <= acc.reach
  /\ \A m \in start..acc.reach : \E r \in R : m \in r[1]..r[2]
  /\ ReachEnds(acc, end) \/ Cardinality(acc.left) = Cardinality(R) - n

LEMMA FurtherReached ==
  ASSUME NEW R, RangesIn(R), NEW acc \in ReachOf(R), NEW start \in Nat, NEW end \in Nat,
         NEW n \in 1..Cardinality(R), Reached(R, start, end, n - 1, acc)
  PROVE  Reached(R, start, end, n, FurtherReach(acc, end))
<1>1. CASE ReachEnds(acc, end)
  BY <1>1 DEF FurtherReach, Reached
<1>2. CASE ~ReachEnds(acc, end)
  <2> DEFINE next == FurtherReach(acc, end)
  <2>1. PICK r \in acc.left :
          /\ r \in R /\ r[1] \in Nat /\ r[2] \in Nat /\ r[1] <= acc.reach + 1
          /\ next = [left |-> acc.left \ {r}, reach |-> IF acc.reach >= r[2] THEN acc.reach ELSE r[2]]
    BY <1>2, FurtherReachIs
  <2>2. next.left = acc.left \ {r} /\ next.reach = IF acc.reach >= r[2] THEN acc.reach ELSE r[2]
    BY <2>1
  <2> HIDE DEF next
  <2>3. /\ acc.left \in SUBSET R /\ acc.reach \in Int /\ acc.reach >= start - 1
        /\ \A s \in R \ acc.left : s[2] <= acc.reach
        /\ \A m \in start..acc.reach : \E s \in R : m \in s[1]..s[2]
        /\ Cardinality(acc.left) = Cardinality(R) - (n - 1)
    BY <1>2 DEF Reached, ReachOf
  <2>4. IsFiniteSet(acc.left) /\ Cardinality(R) \in Nat
    BY <2>3, FS_Subset, FS_CardinalityType DEF RangesIn
  <2>5. Cardinality(next.left) = Cardinality(acc.left) - 1
    BY <2>1, <2>2, <2>4, FS_RemoveElement
  <2>6. \A s \in R : s[2] \in Nat
    BY DEF RangesIn
  <2>7. \A s \in R \ next.left : s[2] <= next.reach
    BY <2>1, <2>2, <2>3, <2>6
  <2>8. \A m \in start..next.reach : \E s \in R : m \in s[1]..s[2]
    <3> SUFFICES ASSUME NEW m \in start..next.reach
                 PROVE  \E s \in R : m \in s[1]..s[2]
      OBVIOUS
    <3>1. m \in start..acc.reach \/ m \in r[1]..r[2]
      BY <2>1, <2>2, <2>3
    <3> QED BY <2>1, <2>3, <3>1
  <2>9. next.reach >= start - 1
    BY <2>1, <2>2, <2>3
  <2>10. Cardinality(next.left) = Cardinality(R) - n
    BY <2>3, <2>4, <2>5
  <2>11. Reached(R, start, end, n, next)
    BY <2>7, <2>8, <2>9, <2>10 DEF Reached
  <2> QED BY <2>11 DEF next
<1> QED BY <1>1, <1>2

LEMMA CoversIs ==
  ASSUME NEW R, RangesIn(R), NEW start \in Nat, NEW end \in Nat
  PROVE  Covers(R, start, end) <=> \A m \in start..end : \E r \in R : m \in r[1]..r[2]
<1> DEFINE N == Cardinality(R)
           g == Reaching(R, start, end)
           G == {n \in 0..N : Reached(R, start, end, n, g[n])}
<1>1. N \in Nat
  BY FS_CardinalityType DEF RangesIn
<1>2. \A n \in 0..N : /\ g[n] \in ReachOf(R)
                       /\ g[n] = IF n = 0 THEN [left |-> R, reach |-> start - 1]
                                 ELSE FurtherReach(g[n - 1], end)
  BY ReachingIs
<1> HIDE DEF g
<1>3. 0 \in G
  <2>1. g[0].left = R /\ g[0].reach = start - 1
    BY <1>1, <1>2
  <2>2. Reached(R, start, end, 0, g[0])
    BY <1>1, <2>1 DEF Reached
  <2> QED BY <1>1, <2>2
<1>4. ASSUME NEW n \in 1..N, n - 1 \in G
      PROVE  n \in G
  <2>1. n \in 0..N /\ n - 1 \in 0..N /\ n # 0
    BY <1>1
  <2>2. g[n] = FurtherReach(g[n - 1], end) /\ g[n - 1] \in ReachOf(R)
    BY <1>2, <2>1
  <2>3. Reached(R, start, end, n, g[n])
    BY <1>4, <2>2, FurtherReached
  <2> QED BY <2>1, <2>3
<1> HIDE DEF G
<1>5. \A n \in 0..N : n \in G
  BY <1>1, <1>3, <1>4, UpToLast
<1> DEFINE acc == g[N]
<1>6. Reached(R, start, end, N, acc) /\ acc \in ReachOf(R)
  BY <1>1, <1>2, <1>5 DEF G
<1>7. Covers(R, start, end) <=> acc.reach >= end
  BY DEF Covers, g
<1> HIDE DEF acc
<1>8. /\ acc.left \in SUBSET R /\ acc.reach \in Int /\ acc.reach >= start - 1
      /\ \A r \in R \ acc.left : r[2] <= acc.reach
      /\ \A m \in start..acc.reach : \E r \in R : m \in r[1]..r[2]
  BY <1>6 DEF Reached, ReachOf
<1>9. CASE acc.reach >= end
  <2>1. \A m \in start..end : m \in start..acc.reach
    BY <1>8, <1>9
  <2> QED BY <1>7, <1>8, <1>9, <2>1
<1>10. CASE ~(acc.reach >= end)
  <2>1. acc.left = {} \/ First(acc.left)[1] > acc.reach + 1
    <3>1. ASSUME Cardinality(acc.left) = Cardinality(R) - N
          PROVE  acc.left = {}
      <4>1. IsFiniteSet(acc.left) /\ Cardinality(acc.left) = 0
        BY <1>1, <1>8, <3>1, FS_Subset DEF RangesIn
      <4> QED BY <4>1, FS_EmptySet
    <3> QED BY <1>6, <1>10, <3>1 DEF Reached, ReachEnds
  <2>2. \A r \in R : r[1] \in Nat /\ r[2] \in Nat
    BY DEF RangesIn
  <2>3. ASSUME NEW r \in acc.left
        PROVE  r[1] > acc.reach + 1
    <3>1. acc.left \in SUBSET (Nat \X Nat) /\ acc.left # {}
      BY <1>8, <2>3 DEF RangesIn
    <3>2. First(acc.left) \in acc.left /\ First(acc.left)[1] <= r[1]
      BY <3>1, FirstIs
    <3>3. First(acc.left)[1] \in Nat /\ r[1] \in Nat
      BY <1>8, <2>2, <3>2
    <3> QED BY <1>8, <2>1, <3>1, <3>2, <3>3
  <2>4. \A r \in R : acc.reach + 1 \notin r[1]..r[2]
    BY <1>8, <2>2, <2>3
  <2>5. acc.reach + 1 \in start..end
    BY <1>8, <1>10
  <2> QED BY <1>7, <1>10, <2>4, <2>5
<1> QED BY <1>9, <1>10

LEMMA CoveredRangesType ==
  ASSUME NEW cs \in Seq([tool : STRING, said : BOOLEAN, first : Nat, count : Nat, ok : BOOLEAN])
  PROVE  RangesIn(CoveredRanges(cs))
<1> DEFINE N == Len(cs)
           f == [i \in 1..N |-> Shown(cs[i])]
<1>1. N \in Nat /\ DOMAIN cs = 1..N
  OBVIOUS
<1>2. ASSUME NEW i \in 1..N
      PROVE  Shown(cs[i]) \in SUBSET (Nat \X Nat) /\ IsFiniteSet(Shown(cs[i]))
  <2> DEFINE c == cs[i]
  <2>0. c \in [tool : STRING, said : BOOLEAN, first : Nat, count : Nat, ok : BOOLEAN]
    <3>1. i \in 1..Len(cs)
      OBVIOUS
    <3> QED BY <3>1, ElementOfSeq, Zenon
  <2> HIDE DEF c
  <2>1. /\ c.said \in BOOLEAN /\ c.ok \in BOOLEAN /\ c.first \in Nat /\ c.count \in Nat
    BY <2>0
  <2>2. \A x, y \in Nat : IsFiniteSet({<<x, y>>}) /\ {<<x, y>>} \in SUBSET (Nat \X Nat)
    <3>1. \A x, y \in Nat : IsFiniteSet({<<x, y>>})
      BY FS_Singleton, Zenon
    <3>2. \A x, y \in Nat : {<<x, y>>} \in SUBSET (Nat \X Nat)
      OBVIOUS
    <3> QED BY <3>1, <3>2, Zenon
  <2>3. CASE c.tool = "Read" /\ c.said
    <3>1. Max({c.count, 1}) = IF c.count >= 1 THEN c.count ELSE 1
      <4>1. c.count \in Int /\ 1 \in Int
        BY <2>1
      <4> QED BY <4>1, MaxOfTwo
    <3>2. c.first + Max({c.count, 1}) - 1 \in Nat
      BY <2>1, <3>1
    <3>3. Shown(c) = {<<c.first, c.first + Max({c.count, 1}) - 1>>}
      BY <2>3 DEF Shown
    <3> QED BY <2>1, <2>2, <3>2, <3>3 DEF c
  <2>4. CASE c.tool = "Read" /\ ~c.said /\ c.ok
    <3> DEFINE y == IF c.count = 0 THEN 1000000000 ELSE c.first + c.count - 1
    <3>1. y \in Nat
      BY <2>1
    <3>2. Shown(c) = {<<c.first, y>>}
      BY <2>4 DEF Shown
    <3> HIDE DEF y
    <3> QED BY <2>1, <2>2, <3>1, <3>2 DEF c
  <2>5. CASE c.tool = "Grep" /\ c.ok
    <3> DEFINE lo == c.first
               hi == c.first + c.count - 1
               h == [k \in 1..c.count |-> <<lo + k - 1, lo + k - 1>>]
    <3>1. Shown(c) = {<<n, n>> : n \in lo..hi}
      BY <2>5 DEF Shown
    <3>2. {<<n, n>> : n \in lo..hi} = {h[k] : k \in 1..c.count}
      <4>1. ASSUME NEW n \in lo..hi
            PROVE  n - lo + 1 \in 1..c.count /\ <<n, n>> = h[n - lo + 1]
        <5>1. n - lo + 1 \in 1..c.count /\ lo + (n - lo + 1) - 1 = n
          BY <2>1, <4>1
        <5> QED BY <5>1
      <4>2. ASSUME NEW k \in 1..c.count
            PROVE  lo + k - 1 \in lo..hi /\ h[k] = <<lo + k - 1, lo + k - 1>>
        BY <2>1, <4>2
      <4> HIDE DEF lo, hi, h
      <4> QED BY <4>1, <4>2
    <3>3. {<<n, n>> : n \in lo..hi} \in SUBSET (Nat \X Nat)
      BY <2>1
    <3> HIDE DEF h
    <3>4. IsFiniteSet({h[k] : k \in 1..c.count})
      BY <2>1, ImageIsFinite
    <3> QED BY <3>1, <3>2, <3>3, <3>4 DEF c
  <2>6. CASE ~(c.tool = "Read" /\ c.said) /\ ~(c.tool = "Read" /\ ~c.said /\ c.ok) /\ ~(c.tool = "Grep" /\ c.ok)
    <3>1. Shown(c) = {}
      BY <2>6 DEF Shown
    <3> QED BY <3>1, FS_EmptySet DEF c
  <2> QED BY <2>3, <2>4, <2>5, <2>6
<1>3. CoveredRanges(cs) = UNION {f[i] : i \in 1..N}
  BY <1>1 DEF CoveredRanges
<1>4. IsFiniteSet({f[i] : i \in 1..N})
  <2> HIDE DEF f
  <2> QED BY <1>1, ImageIsFinite
<1>5. \A T \in {f[i] : i \in 1..N} : IsFiniteSet(T) /\ T \in SUBSET (Nat \X Nat)
  BY <1>2
<1> HIDE DEF f, N
<1>6. IsFiniteSet(UNION {f[i] : i \in 1..N})
  BY <1>4, <1>5, FS_UNION
<1>7. UNION {f[i] : i \in 1..N} \in SUBSET (Nat \X Nat)
  BY <1>5
<1> QED BY <1>3, <1>6, <1>7 DEF RangesIn

----------------------------------------------------------------------------
(* The calls of a transcript. *)

EventOf == [type : {"use", "result"}, id : Nat, ok : BOOLEAN]
CallOf == [id : Nat, known : BOOLEAN, ok : BOOLEAN]
IdsOf(es) == {e.id : e \in ToSet(es)}

\* The calls so far, and where the last use of each id is among them.
CollectOf(es) ==
  {s \in [calls : Seq(CallOf), byId : [IdsOf(es) -> Nat]] : \A i \in IdsOf(es) : s.byId[i] <= Len(s.calls)}
NoneMade(es) == [calls |-> <<>>, byId |-> [i \in IdsOf(es) |-> 0]]

\* What an event makes of the calls so far: a call more, or an outcome.
PairTold(s, e, p) ==
  /\ e.type = "use" =>
       /\ p.calls = Append(s.calls, [id |-> e.id, known |-> TRUE, ok |-> TRUE])
       /\ p.byId = [s.byId EXCEPT ![e.id] = Len(s.calls) + 1]
  /\ e.type = "result" /\ s.byId[e.id] = 0 =>
       /\ p.calls = Append(s.calls, [id |-> e.id, known |-> FALSE, ok |-> e.ok])
       /\ p.byId = s.byId
  /\ e.type = "result" /\ s.byId[e.id] # 0 =>
       /\ p.calls = [s.calls EXCEPT ![s.byId[e.id]] = [s.calls[s.byId[e.id]] EXCEPT !.ok = e.ok]]
       /\ p.byId = s.byId

\* The three cases of the loop.
LEMMA PairedIs ==
  ASSUME NEW es, NEW s \in CollectOf(es), NEW e \in EventOf, e.id \in IdsOf(es)
  PROVE  Paired(s, e) \in CollectOf(es) /\ PairTold(s, e, Paired(s, e))
<1> DEFINE C == s.calls
           B == s.byId
           k == s.byId[e.id]
<1>1. /\ C \in Seq(CallOf) /\ B \in [IdsOf(es) -> Nat] /\ Len(C) \in Nat /\ k \in Nat
      /\ \A i \in IdsOf(es) : B[i] <= Len(C)
      /\ s = [calls |-> C, byId |-> B]
  BY DEF CollectOf
<1>2. e.type \in {"use", "result"} /\ e.id \in Nat /\ e.ok \in BOOLEAN
  BY DEF EventOf
<1>3. ASSUME NEW D \in Seq(CallOf), NEW A \in [IdsOf(es) -> Nat], \A i \in IdsOf(es) : A[i] <= Len(D)
      PROVE  [calls |-> D, byId |-> A] \in CollectOf(es)
  BY <1>3 DEF CollectOf
<1>4. CASE e.type = "use"
  <2> DEFINE c == [id |-> e.id, known |-> TRUE, ok |-> TRUE]
             A == [B EXCEPT ![e.id] = Len(C) + 1]
  <2>1. Paired(s, e) = [calls |-> Append(C, c), byId |-> A]
    BY <1>4 DEF Paired
  <2>2. c \in CallOf
    BY <1>2 DEF CallOf
  <2> HIDE DEF c
  <2>3. Append(C, c) \in Seq(CallOf) /\ Len(Append(C, c)) = Len(C) + 1
    BY <1>1, <2>2
  <2>4. A \in [IdsOf(es) -> Nat] /\ \A i \in IdsOf(es) : A[i] <= Len(C) + 1
    BY <1>1
  <2> HIDE DEF A, C, B
  <2>5. [calls |-> Append(C, c), byId |-> A] \in CollectOf(es)
    BY <1>3, <2>3, <2>4
  <2> QED BY <1>4, <2>1, <2>5 DEF PairTold, A, B, C, c
<1>5. CASE e.type = "result" /\ k = 0
  <2> DEFINE c == [id |-> e.id, known |-> FALSE, ok |-> e.ok]
  <2>1. Paired(s, e) = [calls |-> Append(C, c), byId |-> B]
    <3>1. Paired(s, e) = [s EXCEPT !.calls = Append(s.calls, c)]
      BY <1>5 DEF Paired
    <3> QED BY <1>1, <3>1
  <2>2. c \in CallOf
    BY <1>2 DEF CallOf
  <2> HIDE DEF c
  <2>3. Append(C, c) \in Seq(CallOf) /\ Len(Append(C, c)) = Len(C) + 1
    BY <1>1, <2>2
  <2>4. \A i \in IdsOf(es) : B[i] <= Len(Append(C, c))
    BY <1>1, <2>3
  <2> HIDE DEF C, B
  <2>5. [calls |-> Append(C, c), byId |-> B] \in CollectOf(es)
    BY <1>1, <1>3, <2>3, <2>4
  <2> QED BY <1>5, <2>1, <2>5 DEF PairTold, B, C, c
<1>6. CASE e.type = "result" /\ k # 0
  <2> DEFINE D == [C EXCEPT ![k] = [C[k] EXCEPT !.ok = e.ok]]
  <2>1. Paired(s, e) = [calls |-> D, byId |-> B]
    <3>1. Paired(s, e) = [s EXCEPT !.calls[s.byId[e.id]].ok = e.ok]
      BY <1>6 DEF Paired
    <3>2. [s EXCEPT !.calls[s.byId[e.id]].ok = e.ok] = [s EXCEPT !.calls = D]
      OBVIOUS
    <3> HIDE DEF D
    <3> QED BY <1>1, <3>1, <3>2
  <2>2. k \in 1..Len(C) /\ DOMAIN C = 1..Len(C)
    BY <1>1, <1>6
  <2>3. C[k] \in CallOf
    BY <1>1, <2>2
  <2>4. [C[k] EXCEPT !.ok = e.ok] \in CallOf
    BY <1>2, <2>3 DEF CallOf
  <2>5. D \in Seq(CallOf) /\ Len(D) = Len(C)
    BY <1>1, <2>2, <2>4
  <2> HIDE DEF C, B, D
  <2>6. [calls |-> D, byId |-> B] \in CollectOf(es)
    BY <1>1, <1>3, <2>5
  <2> QED BY <1>6, <2>1, <2>6 DEF PairTold, B, C, D
<1> QED BY <1>2, <1>4, <1>5, <1>6

LEMMA CollectingIs ==
  ASSUME NEW es \in Seq(EventOf)
  PROVE  \A n \in 0..Len(es) :
           /\ Collecting(es)[n] \in CollectOf(es)
           /\ Collecting(es)[n] = IF n = 0 THEN NoneMade(es) ELSE Paired(Collecting(es)[n - 1], es[n])
<1> DEFINE N == Len(es)
           F == [p \in CollectOf(es) \X (1..N) |-> Paired(p[1], es[p[2]])]
           Is(c) == c = [n \in 0..N |-> IF n = 0 THEN NoneMade(es) ELSE Paired(c[n - 1], es[n])]
<1>1. N \in Nat /\ NoneMade(es) \in CollectOf(es)
  <2>1. <<>> \in Seq(CallOf) /\ Len(<<>>) = 0
    OBVIOUS
  <2>2. [i \in IdsOf(es) |-> 0] \in [IdsOf(es) -> Nat]
    OBVIOUS
  <2> QED BY <2>1, <2>2 DEF CollectOf, NoneMade
<1>2. ASSUME NEW x \in CollectOf(es), NEW n \in 1..N
      PROVE  Paired(x, es[n]) \in CollectOf(es)
  <2>1. es[n] \in EventOf
    OBVIOUS
  <2>2. es[n].id \in IdsOf(es)
    BY DEF IdsOf, ToSet
  <2> QED BY <2>1, <2>2, PairedIs
<1>3. F \in [CollectOf(es) \X (1..N) -> CollectOf(es)]
  BY <1>2
<1>4. \A x \in CollectOf(es), n \in 1..N : F[<<x, n>>] = Paired(x, es[n])
  OBVIOUS
<1> HIDE DEF F, N
<1>5. PICK c \in [0..N -> CollectOf(es)] : Folds(c, N, NoneMade(es), F)
  BY <1>1, <1>3, FoldExists, Zenon
<1>6. \A n \in 0..N : c[n] = IF n = 0 THEN NoneMade(es) ELSE Paired(c[n - 1], es[n])
  <2> SUFFICES ASSUME NEW n \in 0..N
               PROVE  c[n] = IF n = 0 THEN NoneMade(es) ELSE Paired(c[n - 1], es[n])
    OBVIOUS
  <2>1. c[n] = IF n = 0 THEN NoneMade(es) ELSE F[<<c[n - 1], n>>]
    BY <1>5 DEF Folds
  <2>2. n # 0 => n \in 1..N /\ n - 1 \in 0..N
    BY <1>1
  <2> QED BY <1>4, <2>1, <2>2
<1>7. Is(c)
  BY <1>6
<1> DEFINE g == Collecting(es)
           G == {n \in 0..N : g[n] \in CollectOf(es)}
<1>8. Is(g)
  BY <1>7, Zenon DEF Collecting, NoneMade, IdsOf, N
<1> HIDE DEF g
<1>9. \A n \in 0..N : g[n] = IF n = 0 THEN NoneMade(es) ELSE Paired(g[n - 1], es[n])
  BY <1>8
<1>10. 0 \in G
  BY <1>1, <1>9
<1>11. ASSUME NEW n \in 1..N, n - 1 \in G
       PROVE  n \in G
  BY <1>1, <1>2, <1>9, <1>11
<1> HIDE DEF G
<1>12. \A n \in 0..N : n \in G
  BY <1>1, <1>10, <1>11, UpToLast
<1> QED BY <1>9, <1>12 DEF G, g, N

\* The results of a use among the first n events, and the outcome they leave.
ResultsIn(es, n, u) ==
  {j \in u + 1..n :
     /\ es[j].type = "result" /\ es[j].id = es[u].id
     /\ \A m \in u + 1..j - 1 : es[m].type = "use" => es[m].id # es[u].id}
OutcomeIn(es, n, i) ==
  IF es[i].type = "result" THEN es[i].ok
  ELSE \A j \in ResultsIn(es, n, i) : (\A k \in ResultsIn(es, n, i) : k <= j) => es[j].ok
CallIn(es, n, i) ==
  [id |-> es[i].id, known |-> es[i].type = "use", ok |-> OutcomeIn(es, n, i)]

\* The calls so far, each at its event, and the last use of each id.
Placed(es, n, by, calls) ==
  /\ by \in Seq(1..n) /\ Len(by) = Len(calls)
  /\ \A k, l \in 1..Len(by) : k < l => by[k] < by[l]
  /\ \A k \in 1..Len(by) : Makes(es, by[k]) /\ calls[k] = CallIn(es, n, by[k])
  /\ \A i \in 1..n : Makes(es, i) => \E k \in 1..Len(by) : by[k] = i
Latest(es, n, by, byId) ==
  \A i \in IdsOf(es) :
    IF byId[i] = 0 THEN \A m \in 1..n : es[m].type = "use" => es[m].id # i
    ELSE /\ byId[i] \in 1..Len(by)
         /\ es[by[byId[i]]].type = "use" /\ es[by[byId[i]]].id = i
         /\ \A m \in by[byId[i]] + 1..n : es[m].type = "use" => es[m].id # i

\* One more event changes the outcome of no use but the last of its id.
LEMMA OutcomeKept ==
  ASSUME NEW es \in Seq(EventOf), NEW n \in 1..Len(es), NEW i \in 1..n - 1,
         \/ es[n].type = "use"
         \/ es[i].type = "result"
         \/ es[n].id # es[i].id
         \/ \E m \in i + 1..n - 1 : es[m].type = "use" /\ es[m].id = es[i].id
  PROVE  CallIn(es, n, i) = CallIn(es, n - 1, i)
<1>1. /\ n \in Nat /\ n >= 1 /\ i \in Nat /\ i >= 1 /\ i <= n - 1
  OBVIOUS
<1>2. CASE es[i].type = "result"
  BY <1>2 DEF CallIn, OutcomeIn
<1>3. CASE es[i].type # "result"
  <2>1. i + 1..n = (i + 1..n - 1) \cup {n}
    BY <1>1
  <2>2. n \notin ResultsIn(es, n, i)
    BY <1>3 DEF ResultsIn
  <2>3. ResultsIn(es, n, i) = ResultsIn(es, n - 1, i)
    BY <2>1, <2>2 DEF ResultsIn
  <2> QED BY <2>3 DEF CallIn, OutcomeIn
<1> QED BY <1>2, <1>3

\* A result tells the outcome of the last use of its id.
LEMMA OutcomeTold ==
  ASSUME NEW es \in Seq(EventOf), NEW n \in 1..Len(es), NEW i \in 1..n - 1,
         es[i].type = "use", es[n].type = "result", es[n].id = es[i].id,
         \A m \in i + 1..n - 1 : es[m].type = "use" => es[m].id # es[i].id
  PROVE  CallIn(es, n, i) = [CallIn(es, n - 1, i) EXCEPT !.ok = es[n].ok]
<1>1. /\ n \in Nat /\ n >= 1 /\ i \in Nat /\ i >= 1 /\ i <= n - 1
  OBVIOUS
<1>2. n \in ResultsIn(es, n, i)
  BY <1>1 DEF ResultsIn
<1>3. \A k \in ResultsIn(es, n, i) : k \in Nat /\ k <= n
  BY <1>1 DEF ResultsIn
<1>4. es[n].ok \in BOOLEAN
  <2>1. es[n] \in EventOf
    OBVIOUS
  <2> QED BY <2>1 DEF EventOf
<1>5. OutcomeIn(es, n, i) <=> es[n].ok
  <2>1. OutcomeIn(es, n, i) <=>
          \A j \in ResultsIn(es, n, i) : (\A k \in ResultsIn(es, n, i) : k <= j) => es[j].ok
    BY DEF OutcomeIn
  <2>2. \A j \in ResultsIn(es, n, i) : (\A k \in ResultsIn(es, n, i) : k <= j) => j = n
    BY <1>1, <1>2, <1>3
  <2> QED BY <1>1, <1>2, <1>3, <2>1, <2>2
<1>6. OutcomeIn(es, n, i) \in BOOLEAN
  BY DEF OutcomeIn
<1>7. OutcomeIn(es, n, i) = es[n].ok
  BY <1>4, <1>5, <1>6
<1> QED BY <1>7 DEF CallIn

\* A call more is placed after those before it.
LEMMA PlacedMore ==
  ASSUME NEW es \in Seq(EventOf), NEW n \in 1..Len(es), NEW by, NEW C \in Seq(CallOf),
         Placed(es, n - 1, by, C), Makes(es, n),
         \A i \in 1..n - 1 : Makes(es, i) => CallIn(es, n, i) = CallIn(es, n - 1, i)
  PROVE  Placed(es, n, Append(by, n), Append(C, CallIn(es, n, n)))
<1> DEFINE c == CallIn(es, n, n)
           by2 == Append(by, n)
           C2 == Append(C, c)
           L == Len(by)
<1>1. /\ n \in Nat /\ n >= 1 /\ by \in Seq(1..n - 1) /\ L \in Nat /\ L = Len(C)
      /\ \A k \in 1..L : by[k] \in 1..n - 1
  BY DEF Placed
<1>2. by \in Seq(1..n)
  <2>1. 1..n - 1 \subseteq 1..n
    BY <1>1
  <2> QED BY <1>1, <2>1, SeqMonotonic
<1>3. /\ by2 \in Seq(1..n) /\ Len(by2) = L + 1 /\ by2[L + 1] = n /\ \A k \in 1..L : by2[k] = by[k]
  BY <1>1, <1>2
<1> HIDE DEF c
<1>4. Len(C2) = L + 1 /\ C2[L + 1] = c /\ \A k \in 1..L : C2[k] = C[k]
  BY <1>1
<1> HIDE DEF by2, C2, L
<1>5. \A k \in 1..L + 1 : k \in 1..L \/ k = L + 1
  BY <1>1
<1>6. \A k, l \in 1..L + 1 : k < l => by2[k] < by2[l]
  <2> SUFFICES ASSUME NEW k \in 1..L + 1, NEW l \in 1..L + 1, k < l
               PROVE  by2[k] < by2[l]
    OBVIOUS
  <2>1. k \in 1..L
    BY <1>1
  <2>2. CASE l \in 1..L
    BY <1>1, <1>3, <2>1, <2>2 DEF Placed, L
  <2>3. CASE l = L + 1
    <3>1. by2[k] \in 1..n - 1 /\ by2[l] = n
      BY <1>1, <1>3, <2>1, <2>3
    <3> QED BY <1>1, <3>1
  <2> QED BY <1>5, <2>2, <2>3
<1>7. \A k \in 1..L + 1 : Makes(es, by2[k]) /\ C2[k] = CallIn(es, n, by2[k])
  <2> SUFFICES ASSUME NEW k \in 1..L + 1
               PROVE  Makes(es, by2[k]) /\ C2[k] = CallIn(es, n, by2[k])
    OBVIOUS
  <2>1. CASE k \in 1..L
    <3>1. Makes(es, by[k]) /\ C[k] = CallIn(es, n - 1, by[k])
      BY <2>1 DEF Placed, L
    <3> QED BY <1>1, <1>3, <1>4, <2>1, <3>1
  <2>2. CASE k = L + 1
    BY <1>3, <1>4, <2>2 DEF c
  <2> QED BY <1>5, <2>1, <2>2
<1>8. \A i \in 1..n : Makes(es, i) => \E k \in 1..L + 1 : by2[k] = i
  <2> SUFFICES ASSUME NEW i \in 1..n, Makes(es, i)
               PROVE  \E k \in 1..L + 1 : by2[k] = i
    OBVIOUS
  <2>1. CASE i = n
    <3>1. L + 1 \in 1..L + 1
      BY <1>1
    <3> QED BY <1>3, <2>1, <3>1
  <2>2. CASE i # n
    <3>1. i \in 1..n - 1
      BY <1>1, <2>2
    <3>2. PICK k \in 1..L : by[k] = i
      BY <3>1 DEF Placed, L
    <3>3. k \in 1..L + 1
      BY <1>1
    <3> QED BY <1>3, <3>2, <3>3
  <2> QED BY <2>1, <2>2
<1>9. Placed(es, n, by2, C2)
  BY <1>3, <1>4, <1>6, <1>7, <1>8, Zenon DEF Placed
<1> QED BY <1>9 DEF by2, C2, c

LEMMA PlacedNext ==
  ASSUME NEW es \in Seq(EventOf), NEW n \in 1..Len(es), NEW s \in CollectOf(es), NEW by,
         Placed(es, n - 1, by, s.calls), Latest(es, n - 1, by, s.byId)
  PROVE  \E by2 : /\ Placed(es, n, by2, Paired(s, es[n]).calls)
                  /\ Latest(es, n, by2, Paired(s, es[n]).byId)
<1> DEFINE e == es[n]
           C == s.calls
           B == s.byId
           L == Len(by)
           more == Append(by, n)
<1>1. n \in Nat /\ n >= 1 /\ e \in EventOf /\ e.id \in IdsOf(es)
  <2>1. n \in DOMAIN es
    OBVIOUS
  <2> QED BY <2>1 DEF IdsOf, ToSet
<1>2. e.type \in {"use", "result"} /\ e.ok \in BOOLEAN /\ \A i \in IdsOf(es) : i \in Nat
  <2>1. \A k \in DOMAIN es : es[k] \in EventOf
    OBVIOUS
  <2>2. \A k \in DOMAIN es : es[k].id \in Nat
    BY <2>1 DEF EventOf
  <2>3. \A i \in IdsOf(es) : i \in Nat
    BY <2>2 DEF IdsOf, ToSet
  <2> QED BY <1>1, <2>3 DEF EventOf
<1>3. /\ C \in Seq(CallOf) /\ B \in [IdsOf(es) -> Nat] /\ \A i \in IdsOf(es) : B[i] <= Len(C)
  BY DEF CollectOf
<1>4. /\ by \in Seq(1..n - 1) /\ L \in Nat /\ L = Len(C) /\ \A k \in 1..L : by[k] \in 1..n - 1
      /\ more[L + 1] = n /\ Len(more) = L + 1 /\ \A k \in 1..L : more[k] = by[k]
  BY DEF Placed
<1>5. \A m \in 1..n : m \in 1..n - 1 \/ m = n
  BY <1>1
<1>9. PairTold(s, e, Paired(s, e))
  BY <1>1, PairedIs, Zenon
<1> HIDE DEF more, e, B, C, L
<1>6. CASE e.type = "use"
  <2>1. /\ Paired(s, e).calls = Append(C, [id |-> e.id, known |-> TRUE, ok |-> TRUE])
        /\ Paired(s, e).byId = [B EXCEPT ![e.id] = L + 1]
    <3>1. Len(s.calls) = L
      BY <1>4 DEF C
    <3>2. /\ Paired(s, e).calls = Append(s.calls, [id |-> e.id, known |-> TRUE, ok |-> TRUE])
          /\ Paired(s, e).byId = [s.byId EXCEPT ![e.id] = Len(s.calls) + 1]
      BY <1>6, <1>9, Zenon DEF PairTold
    <3> QED BY <3>1, <3>2, Zenon DEF B, C
  <2>2. Makes(es, n) /\ CallIn(es, n, n) = [id |-> e.id, known |-> TRUE, ok |-> TRUE]
    <3>1. ResultsIn(es, n, n) = {}
      BY <1>1 DEF ResultsIn
    <3>2. OutcomeIn(es, n, n) = TRUE
      BY <1>6, <3>1 DEF OutcomeIn, e
    <3> QED BY <1>6, <3>2 DEF Makes, CallIn, e
  <2>3. \A i \in 1..n - 1 : CallIn(es, n, i) = CallIn(es, n - 1, i)
    BY <1>6, OutcomeKept DEF e
  <2>4. Placed(es, n, more, Append(C, CallIn(es, n, n)))
    BY <1>3, <2>2, <2>3, PlacedMore DEF more, C
  <2>5. Latest(es, n, more, [B EXCEPT ![e.id] = L + 1])
    <3> SUFFICES ASSUME NEW i \in IdsOf(es)
                 PROVE  LET k == [B EXCEPT ![e.id] = L + 1][i]
                        IN IF k = 0 THEN \A m \in 1..n : es[m].type = "use" => es[m].id # i
                           ELSE /\ k \in 1..Len(more)
                                /\ es[more[k]].type = "use" /\ es[more[k]].id = i
                                /\ \A m \in more[k] + 1..n : es[m].type = "use" => es[m].id # i
      BY Zenon DEF Latest
    <3>1. CASE i = e.id
      <4>1. [B EXCEPT ![e.id] = L + 1][i] = L + 1 /\ L + 1 # 0 /\ L + 1 \in 1..Len(more)
        BY <1>3, <1>4, <3>1
      <4>2. \A m \in n + 1..n : FALSE
        BY <1>1
      <4> QED BY <1>4, <1>6, <3>1, <4>1, <4>2 DEF e
    <3>2. CASE i # e.id
      <4>1. [B EXCEPT ![e.id] = L + 1][i] = B[i]
        BY <1>3, <3>2
      <4>2. IF B[i] = 0 THEN \A m \in 1..n - 1 : es[m].type = "use" => es[m].id # i
            ELSE /\ B[i] \in 1..L
                 /\ es[by[B[i]]].type = "use" /\ es[by[B[i]]].id = i
                 /\ \A m \in by[B[i]] + 1..n - 1 : es[m].type = "use" => es[m].id # i
        BY Zenon DEF Latest, B, L
      <4>3. es[n].id # i
        BY <3>2 DEF e
      <4>4. CASE B[i] = 0
        BY <1>5, <4>1, <4>2, <4>3, <4>4
      <4>5. CASE B[i] # 0
        <5>1. B[i] \in 1..Len(more) /\ more[B[i]] = by[B[i]] /\ by[B[i]] \in 1..n - 1
          BY <1>4, <4>2, <4>5
        <5>2. \A m \in by[B[i]] + 1..n : m \in by[B[i]] + 1..n - 1 \/ m = n
          BY <1>1, <5>1
        <5> QED BY <4>1, <4>2, <4>3, <4>5, <5>1, <5>2
      <4> QED BY <4>4, <4>5
    <3> QED BY <3>1, <3>2
  <2> QED BY <2>1, <2>2, <2>4, <2>5 DEF e
<1>7. CASE e.type = "result" /\ B[e.id] = 0
  <2>1. /\ Paired(s, e).calls = Append(C, [id |-> e.id, known |-> FALSE, ok |-> e.ok])
        /\ Paired(s, e).byId = B
    BY <1>7, <1>9, Zenon DEF PairTold, B, C
  <2>2. \A m \in 1..n - 1 : es[m].type = "use" => es[m].id # e.id
    BY <1>1, <1>7 DEF Latest, B
  <2>3. Makes(es, n) /\ CallIn(es, n, n) = [id |-> e.id, known |-> FALSE, ok |-> e.ok]
    BY <1>7, <2>2 DEF Makes, CallIn, OutcomeIn, e
  <2>4. \A i \in 1..n - 1 : CallIn(es, n, i) = CallIn(es, n - 1, i)
    <3> SUFFICES ASSUME NEW i \in 1..n - 1
                 PROVE  CallIn(es, n, i) = CallIn(es, n - 1, i)
      OBVIOUS
    <3>1. es[i] \in EventOf
      BY <1>1
    <3>2. es[i].type = "result" \/ es[n].id # es[i].id
      BY <2>2, <3>1 DEF EventOf, e
    <3> QED BY <3>2, OutcomeKept
  <2>5. Placed(es, n, more, Append(C, CallIn(es, n, n)))
    BY <1>3, <2>3, <2>4, PlacedMore DEF more, C
  <2>6. Latest(es, n, more, B)
    <3> SUFFICES ASSUME NEW i \in IdsOf(es)
                 PROVE  IF B[i] = 0 THEN \A m \in 1..n : es[m].type = "use" => es[m].id # i
                        ELSE /\ B[i] \in 1..Len(more)
                             /\ es[more[B[i]]].type = "use" /\ es[more[B[i]]].id = i
                             /\ \A m \in more[B[i]] + 1..n : es[m].type = "use" => es[m].id # i
      BY Zenon DEF Latest
    <3>1. IF B[i] = 0 THEN \A m \in 1..n - 1 : es[m].type = "use" => es[m].id # i
          ELSE /\ B[i] \in 1..L
               /\ es[by[B[i]]].type = "use" /\ es[by[B[i]]].id = i
               /\ \A m \in by[B[i]] + 1..n - 1 : es[m].type = "use" => es[m].id # i
      BY Zenon DEF Latest, B, L
    <3>2. es[n].type # "use"
      BY <1>7 DEF e
    <3>3. CASE B[i] = 0
      BY <1>5, <3>1, <3>2, <3>3
    <3>4. CASE B[i] # 0
      <4>1. B[i] \in 1..Len(more) /\ more[B[i]] = by[B[i]] /\ by[B[i]] \in 1..n - 1
        BY <1>4, <3>1, <3>4
      <4>2. \A m \in by[B[i]] + 1..n : m \in by[B[i]] + 1..n - 1 \/ m = n
        BY <1>1, <4>1
      <4> QED BY <3>1, <3>2, <3>4, <4>1, <4>2
    <3> QED BY <3>3, <3>4
  <2> QED BY <2>1, <2>3, <2>5, <2>6 DEF e
<1>8. CASE e.type = "result" /\ B[e.id] # 0
  <2> DEFINE k == B[e.id]
             c == [C[k] EXCEPT !.ok = e.ok]
             D == [C EXCEPT ![k] = c]
  <2>1. Paired(s, e).calls = D /\ Paired(s, e).byId = B
    BY <1>8, <1>9, Zenon DEF PairTold, B, C
  <2>2. /\ k \in 1..L /\ es[by[k]].type = "use" /\ es[by[k]].id = e.id
        /\ \A m \in by[k] + 1..n - 1 : es[m].type = "use" => es[m].id # e.id
    BY <1>1, <1>8 DEF Latest, B, L
  <2>3. by[k] \in 1..n - 1
    BY <1>4, <2>2
  <2>4. Len(D) = L /\ D[k] = [C[k] EXCEPT !.ok = e.ok] /\ \A l \in 1..L : l # k => D[l] = C[l]
    <3> HIDE DEF c, k
    <3>1. Len(D) = L /\ D[k] = c /\ \A l \in 1..L : l # k => D[l] = C[l]
      BY <1>3, <1>4, <2>2
    <3> QED BY <3>1 DEF c
  <2> HIDE DEF k, D
  <2>5. ~Makes(es, n)
    BY <1>8, <2>2, <2>3 DEF Makes, e
  <2>6. /\ \A l, m \in 1..L : l < m => by[l] < by[m]
        /\ \A l \in 1..L : Makes(es, by[l]) /\ C[l] = CallIn(es, n - 1, by[l])
        /\ \A i \in 1..n - 1 : Makes(es, i) => \E l \in 1..L : by[l] = i
    BY DEF Placed, L, C
  <2>7. \A l \in 1..L : D[l] = CallIn(es, n, by[l])
    <3> SUFFICES ASSUME NEW l \in 1..L
                 PROVE  D[l] = CallIn(es, n, by[l])
      OBVIOUS
    <3>1. CASE l = k
      <4>1. CallIn(es, n, by[k]) = [CallIn(es, n - 1, by[k]) EXCEPT !.ok = es[n].ok]
        <5>1. es[n].type = "result" /\ es[n].id = es[by[k]].id
          BY <1>8, <2>2 DEF e
        <5>2. \A m \in by[k] + 1..n - 1 : es[m].type = "use" => es[m].id # es[by[k]].id
          BY <2>2
        <5> QED BY <2>2, <2>3, <5>1, <5>2, OutcomeTold, Zenon
      <4> QED BY <2>2, <2>4, <2>6, <3>1, <4>1 DEF e
    <3>2. CASE l # k
      <4>1. by[l] \in 1..n - 1 /\ by[l] # by[k]
        <5>1. l \in Nat /\ k \in Nat /\ (l < k \/ k < l)
          BY <2>2, <3>2
        <5>2. by[l] < by[k] \/ by[k] < by[l]
          BY <2>2, <2>6, <5>1
        <5> QED BY <1>4, <2>3, <5>2
      <4>2. es[by[l]] \in EventOf
        BY <1>1, <4>1
      <4>3. CASE es[by[l]].type = "result" \/ es[n].id # es[by[l]].id
        <5>1. CallIn(es, n, by[l]) = CallIn(es, n - 1, by[l])
          BY <4>1, <4>3, OutcomeKept
        <5> QED BY <2>4, <2>6, <3>2, <5>1
      <4>4. CASE es[by[l]].type = "use" /\ es[n].id = es[by[l]].id
        <5>1. by[l] < by[k]
          <6>1. by[l] \notin by[k] + 1..n - 1
            BY <2>2, <4>4 DEF e
          <6> QED BY <1>1, <2>3, <4>1, <6>1
        <5>2. by[k] \in by[l] + 1..n - 1 /\ es[by[k]].id = es[by[l]].id
          BY <1>1, <2>2, <2>3, <4>1, <4>4, <5>1 DEF e
        <5>3. CallIn(es, n, by[l]) = CallIn(es, n - 1, by[l])
          BY <2>2, <4>1, <5>2, OutcomeKept
        <5> QED BY <2>4, <2>6, <3>2, <5>3
      <4> QED BY <4>2, <4>3, <4>4 DEF EventOf
    <3> QED BY <3>1, <3>2
  <2>8. by \in Seq(1..n)
    <3>1. 1..n - 1 \subseteq 1..n
      BY <1>1
    <3> QED BY <1>4, <3>1, SeqMonotonic
  <2>9. \A i \in 1..n : Makes(es, i) => \E l \in 1..L : by[l] = i
    BY <1>5, <2>5, <2>6
  <2>10. Placed(es, n, by, D)
    BY <2>4, <2>6, <2>7, <2>8, <2>9, Zenon DEF Placed, L
  <2>11. Latest(es, n, by, B)
    <3> SUFFICES ASSUME NEW i \in IdsOf(es)
                 PROVE  IF B[i] = 0 THEN \A m \in 1..n : es[m].type = "use" => es[m].id # i
                        ELSE /\ B[i] \in 1..L
                             /\ es[by[B[i]]].type = "use" /\ es[by[B[i]]].id = i
                             /\ \A m \in by[B[i]] + 1..n : es[m].type = "use" => es[m].id # i
      BY Zenon DEF Latest, L
    <3>1. IF B[i] = 0 THEN \A m \in 1..n - 1 : es[m].type = "use" => es[m].id # i
          ELSE /\ B[i] \in 1..L
               /\ es[by[B[i]]].type = "use" /\ es[by[B[i]]].id = i
               /\ \A m \in by[B[i]] + 1..n - 1 : es[m].type = "use" => es[m].id # i
      BY Zenon DEF Latest, B, L
    <3>2. es[n].type # "use"
      BY <1>8 DEF e
    <3>3. CASE B[i] = 0
      BY <1>5, <3>1, <3>2, <3>3
    <3>4. CASE B[i] # 0
      <4>1. by[B[i]] \in 1..n - 1
        BY <1>4, <3>1, <3>4
      <4>2. \A m \in by[B[i]] + 1..n : m \in by[B[i]] + 1..n - 1 \/ m = n
        BY <1>1, <4>1
      <4> QED BY <3>1, <3>2, <3>4, <4>1, <4>2
    <3> QED BY <3>3, <3>4
  <2> QED BY <2>1, <2>10, <2>11 DEF e
<1> QED BY <1>2, <1>6, <1>7, <1>8

\* Every call collected is at the event that makes it, none is left out, and
\* each has the outcome of its own last result.
LEMMA CollectIs ==
  ASSUME NEW es \in Seq(EventOf)
  PROVE  \E by : Placed(es, Len(es), by, Collect(es))
<1> DEFINE N == Len(es)
           g == Collecting(es)
           G == {n \in 0..N : \E by : Placed(es, n, by, g[n].calls) /\ Latest(es, n, by, g[n].byId)}
<1>1. N \in Nat
  OBVIOUS
<1>2. \A n \in 0..N : /\ g[n] \in CollectOf(es)
                       /\ g[n] = IF n = 0 THEN NoneMade(es) ELSE Paired(g[n - 1], es[n])
  BY CollectingIs
<1> HIDE DEF g
<1>3. 0 \in G
  <2>1. g[0].calls = <<>> /\ g[0].byId = [i \in IdsOf(es) |-> 0]
    BY <1>1, <1>2 DEF NoneMade
  <2>2. Placed(es, 0, <<>>, <<>>)
    <3>1. <<>> \in Seq(1..0) /\ Len(<<>>) = 0 /\ 1..0 = {}
      OBVIOUS
    <3> QED BY <3>1 DEF Placed
  <2>3. Latest(es, 0, <<>>, [i \in IdsOf(es) |-> 0])
    <3>1. 1..0 = {}
      OBVIOUS
    <3> QED BY <3>1 DEF Latest
  <2> QED BY <1>1, <2>1, <2>2, <2>3
<1>4. ASSUME NEW n \in 1..N, n - 1 \in G
      PROVE  n \in G
  <2>1. PICK by : Placed(es, n - 1, by, g[n - 1].calls) /\ Latest(es, n - 1, by, g[n - 1].byId)
    BY <1>4
  <2>2. g[n - 1] \in CollectOf(es) /\ g[n] = Paired(g[n - 1], es[n]) /\ n \in 1..Len(es) /\ n \in 0..N
    BY <1>1, <1>2
  <2> HIDE DEF N
  <2>3. \E by2 : Placed(es, n, by2, g[n].calls) /\ Latest(es, n, by2, g[n].byId)
    BY <2>1, <2>2, PlacedNext, Zenon
  <2> QED BY <2>2, <2>3
<1> HIDE DEF G
<1>5. \A n \in 0..N : n \in G
  BY <1>1, <1>3, <1>4, UpToLast
<1>6. N \in 0..N
  BY <1>1
<1>7. PICK by : Placed(es, N, by, g[N].calls)
  BY <1>5, <1>6 DEF G
<1> QED BY <1>7, Zenon DEF Collect, N, g

----------------------------------------------------------------------------
(* Words and lines: what a quote and the lines cited have in common. *)

\* The strings; the provers do not know that these two are.
Word == STRING \cup {"q", "label"}
LineOf == [at : Nat, says : Seq(Word)]

\* Within, place by place.
LEMMA WithinIs ==
  ASSUME NEW s \in Seq(Word), NEW t \in Seq(Word)
  PROVE  Within(s, t) <=>
           \E i \in 0..Len(t) - Len(s) : \A k \in 1..Len(s) : t[i + k] = s[k]
<1>1. Len(s) \in Nat /\ Len(t) \in Nat
  OBVIOUS
<1>2. ASSUME NEW i \in 0..Len(t) - Len(s)
      PROVE  SubSeq(t, i + 1, i + Len(s)) = s <=> \A k \in 1..Len(s) : t[i + k] = s[k]
  <2> DEFINE u == SubSeq(t, i + 1, i + Len(s))
  <2>1. u \in Seq(Word) /\ Len(u) = Len(s) /\ \A k \in 1..Len(s) : u[k] = t[i + k]
    <3>1. \A k \in i + 1..i + Len(s) : t[k] \in Word
      BY <1>1
    <3>2. (i + Len(s)) - (i + 1) + 1 = Len(s) /\ i + 1 \in Int /\ i + Len(s) \in Int
      BY <1>1
    <3>3. i + 1 <= (i + Len(s)) + 1
      BY <1>1
    <3>4. u = [k \in 1..Len(s) |-> t[i + k]]
      <4>1. u = [k \in 1..((i + Len(s)) - (i + 1) + 1) |-> t[k + (i + 1) - 1]]
        OBVIOUS
      <4>2. \A k \in 1..Len(s) : k + (i + 1) - 1 = i + k
        BY <1>1
      <4> QED BY <3>2, <4>1, <4>2
    <3>5. \A k \in 1..Len(s) : t[i + k] \in Word
      BY <1>1
    <3> HIDE DEF u
    <3> QED BY <1>1, <3>4, <3>5, IsASeq
  <2> HIDE DEF u
  <2>2. u = s <=> \A k \in 1..Len(s) : u[k] = s[k]
    BY <2>1, SeqEqual
  <2> QED BY <2>1, <2>2 DEF u
<1> QED BY <1>2 DEF Within

LEMMA WithinItself ==
  ASSUME NEW s \in Seq(Word)
  PROVE  Within(s, s)
<1>1. 0 \in 0..Len(s) - Len(s) /\ \A k \in 1..Len(s) : s[0 + k] = s[k]
  OBVIOUS
<1> QED BY <1>1, WithinIs

LEMMA WithinWithin ==
  ASSUME NEW s \in Seq(Word), NEW t \in Seq(Word), NEW u \in Seq(Word),
         Within(s, t), Within(t, u)
  PROVE  Within(s, u)
<1>1. PICK i \in 0..Len(t) - Len(s) : \A k \in 1..Len(s) : t[i + k] = s[k]
  BY WithinIs
<1>2. PICK j \in 0..Len(u) - Len(t) : \A k \in 1..Len(t) : u[j + k] = t[k]
  BY WithinIs
<1>3. Len(s) \in Nat /\ Len(t) \in Nat /\ Len(u) \in Nat
  OBVIOUS
<1>4. i + j \in 0..Len(u) - Len(s)
  BY <1>3
<1>5. ASSUME NEW k \in 1..Len(s)
      PROVE  u[(i + j) + k] = s[k]
  <2>1. i + k \in 1..Len(t) /\ j + (i + k) = (i + j) + k
    BY <1>3
  <2> QED BY <1>1, <1>2, <2>1
<1> QED BY <1>4, <1>5, WithinIs

\* A run of words is in what comes before or after it too.
LEMMA WithinJoined ==
  ASSUME NEW s \in Seq(Word), NEW t \in Seq(Word), NEW u \in Seq(Word), Within(s, t)
  PROVE  Within(s, t \o u) /\ Within(s, u \o t)
<1>1. /\ t \o u \in Seq(Word) /\ Len(t \o u) = Len(t) + Len(u)
      /\ \A k \in 1..Len(t) : (t \o u)[k] = t[k]
  OBVIOUS
<1>2. /\ u \o t \in Seq(Word) /\ Len(u \o t) = Len(u) + Len(t)
      /\ \A k \in 1..Len(t) : (u \o t)[Len(u) + k] = t[k]
  OBVIOUS
<1>3. Len(s) \in Nat /\ Len(t) \in Nat /\ Len(u) \in Nat
  OBVIOUS
<1> DEFINE a == t \o u
           b == u \o t
<1> HIDE DEF a, b
<1>4. Within(t, a)
  <2>1. 0 \in 0..Len(a) - Len(t) /\ \A k \in 1..Len(t) : a[0 + k] = t[k]
    BY <1>1, <1>3 DEF a
  <2> QED BY <1>1, <2>1, WithinIs DEF a
<1>5. Within(t, b)
  <2>1. Len(u) \in 0..Len(b) - Len(t) /\ \A k \in 1..Len(t) : b[Len(u) + k] = t[k]
    BY <1>2, <1>3 DEF b
  <2> QED BY <1>2, <2>1, WithinIs DEF b
<1> QED BY <1>1, <1>2, <1>4, <1>5, WithinWithin DEF a, b

LEMMA UnslashedIs ==
  ASSUME NEW s \in Seq(Word)
  PROVE  /\ Unslashed(s) \in Seq(Word) /\ Len(Unslashed(s)) = Len(s)
         /\ \A k \in 1..Len(s) : Unslashed(s)[k] = IF s[k] = "Q" THEN "q" ELSE s[k]
<1>1. DOMAIN s = 1..Len(s) /\ Len(s) \in Nat /\ \A k \in 1..Len(s) : s[k] \in Word
  OBVIOUS
<1> DEFINE f == [k \in 1..Len(s) |-> IF s[k] = "Q" THEN "q" ELSE s[k]]
<1>2. Unslashed(s) = f
  BY <1>1 DEF Unslashed
<1>3. \A k \in 1..Len(s) : f[k] = IF s[k] = "Q" THEN "q" ELSE s[k]
  OBVIOUS
<1>4. DOMAIN f = 1..Len(s) /\ f = [k \in 1..Len(s) |-> f[k]]
  OBVIOUS
<1> HIDE DEF f
<1>5. ASSUME NEW k \in 1..Len(s)
      PROVE  f[k] \in Word
  <2>1. CASE s[k] = "Q"
    <3>1. f[k] = "q"
      BY <1>3, <2>1
    <3>2. "q" \in Word
      BY DEF Word
    <3> QED BY <3>1, <3>2
  <2>2. CASE s[k] # "Q"
    <3>1. f[k] = s[k]
      BY <1>3, <2>2
    <3> QED BY <1>1, <3>1
  <2> QED BY <2>1, <2>2
<1>6. f \in Seq(Word) /\ Len(f) = Len(s)
  BY <1>1, <1>4, <1>5
<1> QED BY <1>2, <1>3, <1>6

LEMMA UnslashedJoined ==
  ASSUME NEW s \in Seq(Word), NEW t \in Seq(Word)
  PROVE  Unslashed(s \o t) = Unslashed(s) \o Unslashed(t)
<1> DEFINE x == Unslashed(s \o t)
           a == Unslashed(s)
           b == Unslashed(t)
<1>1. /\ x \in Seq(Word) /\ Len(x) = Len(s) + Len(t)
      /\ \A k \in 1..Len(s) + Len(t) : x[k] = IF (s \o t)[k] = "Q" THEN "q" ELSE (s \o t)[k]
  <2>1. s \o t \in Seq(Word) /\ Len(s \o t) = Len(s) + Len(t)
    OBVIOUS
  <2> DEFINE u == s \o t
  <2> HIDE DEF u
  <2>2. /\ Unslashed(u) \in Seq(Word) /\ Len(Unslashed(u)) = Len(u)
        /\ \A k \in 1..Len(u) : Unslashed(u)[k] = IF u[k] = "Q" THEN "q" ELSE u[k]
    BY <2>1, UnslashedIs DEF u
  <2> QED BY <2>1, <2>2, Zenon DEF u
<1>2. /\ a \in Seq(Word) /\ Len(a) = Len(s) /\ \A k \in 1..Len(s) : a[k] = IF s[k] = "Q" THEN "q" ELSE s[k]
      /\ b \in Seq(Word) /\ Len(b) = Len(t) /\ \A k \in 1..Len(t) : b[k] = IF t[k] = "Q" THEN "q" ELSE t[k]
  BY UnslashedIs
<1>3. \A k \in 1..Len(s) + Len(t) : (s \o t)[k] = IF k <= Len(s) THEN s[k] ELSE t[k - Len(s)]
  OBVIOUS
<1> HIDE DEF x, a, b
<1>4. /\ a \o b \in Seq(Word) /\ Len(a \o b) = Len(s) + Len(t)
      /\ \A k \in 1..Len(s) + Len(t) : (a \o b)[k] = IF k <= Len(s) THEN a[k] ELSE b[k - Len(s)]
  <2>1. /\ a \o b \in Seq(Word) /\ Len(a \o b) = Len(a) + Len(b)
        /\ \A k \in 1..Len(a) + Len(b) : (a \o b)[k] = IF k <= Len(a) THEN a[k] ELSE b[k - Len(a)]
    <3>1. a \in Seq(Word) /\ b \in Seq(Word)
      BY <1>2
    <3> QED BY <3>1
  <2> QED BY <1>2, <2>1
<1>5. ASSUME NEW k \in 1..Len(s) + Len(t)
      PROVE  x[k] = (a \o b)[k]
  <2>1. CASE k <= Len(s)
    <3>1. k \in 1..Len(s)
      BY <2>1
    <3> QED BY <1>1, <1>2, <1>3, <1>4, <2>1, <3>1
  <2>2. CASE ~(k <= Len(s))
    <3>1. k - Len(s) \in 1..Len(t)
      BY <2>2
    <3> QED BY <1>1, <1>2, <1>3, <1>4, <2>2, <3>1
  <2> QED BY <2>1, <2>2
<1>6. x = a \o b
  <2> DEFINE y == a \o b
  <2> HIDE DEF y
  <2>1. y \in Seq(Word) /\ Len(y) = Len(x) /\ \A k \in 1..Len(x) : x[k] = y[k]
    BY <1>1, <1>4, <1>5 DEF y
  <2>2. x = y
    BY <1>1, <2>1, SeqEqual
  <2> QED BY <2>2 DEF y
<1> QED BY <1>6 DEF x, a, b

LEMMA WithinUnslashed ==
  ASSUME NEW s \in Seq(Word), NEW t \in Seq(Word), Within(s, t)
  PROVE  Within(Unslashed(s), Unslashed(t))
<1>1. PICK i \in 0..Len(t) - Len(s) : \A k \in 1..Len(s) : t[i + k] = s[k]
  BY WithinIs
<1> DEFINE a == Unslashed(s)
           b == Unslashed(t)
<1>2. /\ a \in Seq(Word) /\ Len(a) = Len(s) /\ \A k \in 1..Len(s) : a[k] = IF s[k] = "Q" THEN "q" ELSE s[k]
      /\ b \in Seq(Word) /\ Len(b) = Len(t) /\ \A k \in 1..Len(t) : b[k] = IF t[k] = "Q" THEN "q" ELSE t[k]
  BY UnslashedIs
<1>3. Len(s) \in Nat /\ Len(t) \in Nat
  OBVIOUS
<1> HIDE DEF a, b
<1>4. ASSUME NEW k \in 1..Len(a)
      PROVE  b[i + k] = a[k]
  <2>1. k \in 1..Len(s) /\ i + k \in 1..Len(t)
    BY <1>2, <1>3
  <2> QED BY <1>1, <1>2, <2>1
<1>5. Within(a, b)
  BY <1>2, <1>4, WithinIs
<1> QED BY <1>5 DEF a, b

----------------------------------------------------------------------------
(* Lines of words: their words in a row, those that are not blank. *)

\* Wording, as it is defined.
LEMMA WordingIs ==
  ASSUME NEW ls \in Seq(LineOf)
  PROVE  \A n \in 0..Len(ls) :
           /\ Wording(ls)[n] \in Seq(Word)
           /\ Wording(ls)[n] = IF n = 0 THEN <<>> ELSE Wording(ls)[n - 1] \o ls[n].says
<1> DEFINE N == Len(ls)
           F == [p \in Seq(Word) \X (1..N) |-> p[1] \o ls[p[2]].says]
           Is(c) == c = [n \in 0..N |-> IF n = 0 THEN <<>> ELSE c[n - 1] \o ls[n].says]
<1>1. N \in Nat /\ <<>> \in Seq(Word)
  OBVIOUS
<1>2. \A n \in 1..N : ls[n].says \in Seq(Word)
  <2>1. \A n \in 1..N : ls[n] \in LineOf
    OBVIOUS
  <2> QED BY <2>1 DEF LineOf
<1>3. F \in [Seq(Word) \X (1..N) -> Seq(Word)]
  <2> HIDE DEF N
  <2> QED BY <1>2
<1>4. \A x \in Seq(Word), n \in 1..N : F[<<x, n>>] = x \o ls[n].says
  OBVIOUS
<1> HIDE DEF F, N
<1>5. PICK c \in [0..N -> Seq(Word)] : Folds(c, N, <<>>, F)
  BY <1>1, <1>3, FoldExists, Zenon
<1>6. \A n \in 0..N : c[n] = IF n = 0 THEN <<>> ELSE c[n - 1] \o ls[n].says
  <2> SUFFICES ASSUME NEW n \in 0..N
               PROVE  c[n] = IF n = 0 THEN <<>> ELSE c[n - 1] \o ls[n].says
    OBVIOUS
  <2>1. c[n] = IF n = 0 THEN <<>> ELSE F[<<c[n - 1], n>>]
    BY <1>5 DEF Folds
  <2>2. n # 0 => n \in 1..N /\ n - 1 \in 0..N
    BY <1>1
  <2> QED BY <1>4, <2>1, <2>2
<1>7. Is(c)
  BY <1>6
<1> DEFINE g == Wording(ls)
           G == {n \in 0..N : g[n] \in Seq(Word)}
<1>8. Is(g)
  BY <1>7, Zenon DEF Wording, N
<1> HIDE DEF g
<1>9. \A n \in 0..N : g[n] = IF n = 0 THEN <<>> ELSE g[n - 1] \o ls[n].says
  BY <1>8
<1>10. 0 \in G
  <2>1. 0 \in 0..N
    BY <1>1
  <2>2. g[0] = <<>>
    BY <1>9, <2>1
  <2> QED BY <1>1, <2>1, <2>2, Zenon
<1>11. ASSUME NEW n \in 1..N, n - 1 \in G
       PROVE  n \in G
  <2>1. n \in 0..N /\ n # 0
    BY <1>1
  <2>2. g[n] = g[n - 1] \o ls[n].says
    BY <1>9, <2>1, Zenon
  <2>3. g[n - 1] \in Seq(Word) /\ ls[n].says \in Seq(Word)
    BY <1>2, <1>11
  <2>4. \A s, u \in Seq(Word) : s \o u \in Seq(Word)
    OBVIOUS
  <2>5. g[n - 1] \o ls[n].says \in Seq(Word)
    BY <2>3, <2>4, Zenon
  <2> QED BY <2>1, <2>2, <2>5
<1> HIDE DEF G
<1>12. \A n \in 0..N : n \in G
  BY <1>1, <1>10, <1>11, UpToLast
<1> QED BY <1>9, <1>12 DEF G, g, N

\* Keeping, as it is defined.
LEMMA KeepingIs ==
  ASSUME NEW ls \in Seq(LineOf)
  PROVE  \A n \in 0..Len(ls) :
           /\ Keeping(ls)[n] \in Seq(LineOf)
           /\ Keeping(ls)[n] = IF n = 0 THEN <<>>
                               ELSE IF ls[n].says = <<>> THEN Keeping(ls)[n - 1]
                               ELSE Append(Keeping(ls)[n - 1], ls[n])
<1> DEFINE N == Len(ls)
           Put(s, l) == IF l.says = <<>> THEN s ELSE Append(s, l)
           F == [p \in Seq(LineOf) \X (1..N) |-> Put(p[1], ls[p[2]])]
           Is(c) == c = [n \in 0..N |-> IF n = 0 THEN <<>> ELSE Put(c[n - 1], ls[n])]
<1>1. N \in Nat /\ <<>> \in Seq(LineOf) /\ \A n \in 1..N : ls[n] \in LineOf
  OBVIOUS
<1>2. \A s \in Seq(LineOf), l \in LineOf : Put(s, l) \in Seq(LineOf)
  OBVIOUS
<1>3. F \in [Seq(LineOf) \X (1..N) -> Seq(LineOf)]
  <2> HIDE DEF N, Put
  <2> QED BY <1>1, <1>2
<1>4. \A x \in Seq(LineOf), n \in 1..N : F[<<x, n>>] = Put(x, ls[n])
  <2> HIDE DEF N, Put
  <2> QED OBVIOUS
<1> HIDE DEF F, N, Put
<1>5. PICK c \in [0..N -> Seq(LineOf)] : Folds(c, N, <<>>, F)
  BY <1>1, <1>3, FoldExists, Zenon
<1>6. \A n \in 0..N : c[n] = IF n = 0 THEN <<>> ELSE Put(c[n - 1], ls[n])
  <2> SUFFICES ASSUME NEW n \in 0..N
               PROVE  c[n] = IF n = 0 THEN <<>> ELSE Put(c[n - 1], ls[n])
    OBVIOUS
  <2>1. c[n] = IF n = 0 THEN <<>> ELSE F[<<c[n - 1], n>>]
    BY <1>5 DEF Folds
  <2>2. n # 0 => n \in 1..N /\ n - 1 \in 0..N
    BY <1>1
  <2> QED BY <1>4, <2>1, <2>2
<1>7. Is(c)
  BY <1>6
<1> DEFINE g == Keeping(ls)
           G == {n \in 0..N : g[n] \in Seq(LineOf)}
<1>8. Is(g)
  BY <1>7, Zenon DEF Keeping, Put, N
<1> HIDE DEF g
<1>9. \A n \in 0..N : g[n] = IF n = 0 THEN <<>> ELSE Put(g[n - 1], ls[n])
  BY <1>8
<1>10. 0 \in G
  <2>1. 0 \in 0..N
    BY <1>1
  <2>2. g[0] = <<>>
    BY <1>9, <2>1
  <2> QED BY <1>1, <2>1, <2>2, Zenon
<1>11. ASSUME NEW n \in 1..N, n - 1 \in G
       PROVE  n \in G
  <2>1. n \in 0..N /\ n # 0
    BY <1>1
  <2>2. g[n] = Put(g[n - 1], ls[n])
    BY <1>9, <2>1, Zenon
  <2>3. g[n - 1] \in Seq(LineOf) /\ ls[n] \in LineOf
    BY <1>1, <1>11
  <2> QED BY <1>2, <2>1, <2>2, <2>3, Zenon
<1> HIDE DEF G
<1>12. \A n \in 0..N : n \in G
  BY <1>1, <1>10, <1>11, UpToLast
<1> QED BY <1>9, <1>12, Zenon DEF G, g, N, Put

LEMMA TextIs ==
  ASSUME NEW ls \in Texts
  PROVE  ls \in Seq(LineOf)
<1>1. STRING \subseteq Word
  BY DEF Word
<1>2. ASSUME NEW s \in Seq(STRING)
      PROVE  s \in Seq(Word)
  BY <1>1, SeqMonotonic, Zenon
<1>3. [at : Nat, says : Seq(STRING)] \subseteq LineOf
  BY <1>2 DEF LineOf
<1> QED BY <1>3, SeqMonotonic, Zenon DEF Texts

LEMMA LineIs ==
  ASSUME NEW ls \in Seq(LineOf), NEW n \in 1..Len(ls)
  PROVE  ls[n] \in LineOf /\ ls[n].says \in Seq(Word) /\ ls[n] = [at |-> ls[n].at, says |-> ls[n].says]
<1>1. ls[n] \in LineOf
  BY ElementOfSeq, Zenon
<1> QED BY <1>1 DEF LineOf

LEMMA WordsType ==
  ASSUME NEW ls \in Seq(LineOf)
  PROVE  Words(ls) \in Seq(Word) /\ Len(ls) \in 0..Len(ls)
<1>1. Len(ls) \in 0..Len(ls)
  OBVIOUS
<1> QED BY <1>1, WordingIs DEF Words

\* One line more, and its words.
LEMMA WordsOfOneMore ==
  ASSUME NEW ls \in Seq(LineOf), NEW l \in LineOf
  PROVE  Words(Append(ls, l)) = Words(ls) \o l.says
<1> DEFINE N == Len(ls)
           more == Append(ls, l)
           g == Wording(ls)
           h == Wording(more)
           G == {n \in 0..N : h[n] = g[n]}
<1>1. /\ more \in Seq(LineOf) /\ N \in Nat /\ Len(more) = N + 1 /\ more[N + 1] = l
      /\ \A n \in 1..N : more[n] = ls[n]
  OBVIOUS
<1> HIDE DEF more
<1>2. \A n \in 0..N : g[n] = IF n = 0 THEN <<>> ELSE g[n - 1] \o ls[n].says
  BY WordingIs
<1>3. \A n \in 0..N + 1 : h[n] = IF n = 0 THEN <<>> ELSE h[n - 1] \o more[n].says
  BY <1>1, WordingIs
<1> HIDE DEF g, h, N
<1>4. 0 \in G
  <2>1. 0 \in 0..N /\ 0 \in 0..N + 1
    BY <1>1
  <2> QED BY <1>2, <1>3, <2>1, Zenon
<1>5. ASSUME NEW n \in 1..N, n - 1 \in G
      PROVE  n \in G
  <2>1. n \in 0..N /\ n \in 0..N + 1 /\ n # 0
    BY <1>1
  <2>2. h[n] = h[n - 1] \o more[n].says /\ g[n] = g[n - 1] \o ls[n].says
    BY <1>2, <1>3, <2>1, Zenon
  <2> QED BY <1>1, <1>5, <2>1, <2>2, Zenon
<1> HIDE DEF G
<1>6. \A n \in 0..N : n \in G
  BY <1>1, <1>4, <1>5, UpToLast
<1>7. N \in 0..N /\ N + 1 \in 0..N + 1 /\ N + 1 # 0 /\ (N + 1) - 1 = N
  BY <1>1
<1>8. h[N] = g[N]
  BY <1>6, <1>7 DEF G
<1>9. h[N + 1] = h[(N + 1) - 1] \o more[N + 1].says
  BY <1>3, <1>7, Zenon
<1> QED BY <1>1, <1>7, <1>8, <1>9, Zenon DEF Words, g, h, N, more

\* The lines kept have all the words.
LEMMA KeptIs ==
  ASSUME NEW ls \in Seq(LineOf)
  PROVE  Kept(ls) \in Seq(LineOf) /\ Words(Kept(ls)) = Words(ls)
<1> DEFINE N == Len(ls)
           g == Wording(ls)
           k == Keeping(ls)
           G == {n \in 0..N : Words(k[n]) = g[n]}
<1>1. N \in Nat
  OBVIOUS
<1>2. \A n \in 0..N : /\ g[n] \in Seq(Word)
                       /\ g[n] = IF n = 0 THEN <<>> ELSE g[n - 1] \o ls[n].says
  BY WordingIs
<1>3. \A n \in 0..N : /\ k[n] \in Seq(LineOf)
                       /\ k[n] = IF n = 0 THEN <<>>
                                 ELSE IF ls[n].says = <<>> THEN k[n - 1]
                                 ELSE Append(k[n - 1], ls[n])
  BY KeepingIs
<1>4. \A n \in 1..N : ls[n] \in LineOf /\ ls[n].says \in Seq(Word)
  BY LineIs
<1> HIDE DEF g, k, N
<1>5. 0 \in G
  <2>1. 0 \in 0..N
    BY <1>1
  <2>2. k[0] = <<>> /\ g[0] = <<>>
    BY <1>2, <1>3, <2>1, Zenon
  <2>3. <<>> \in Seq(LineOf) /\ Len(<<>>) = 0 /\ 0 \in 0..0
    OBVIOUS
  <2>4. Wording(<<>>)[0] = <<>>
    BY <2>3, WordingIs
  <2>5. Words(<<>>) = <<>>
    BY <2>3, <2>4 DEF Words
  <2> QED BY <2>1, <2>2, <2>5, Zenon
<1>6. ASSUME NEW n \in 1..N, n - 1 \in G
      PROVE  n \in G
  <2>1. n \in 0..N /\ n # 0 /\ n - 1 \in 0..N
    BY <1>1
  <2>2. /\ g[n] = g[n - 1] \o ls[n].says /\ g[n - 1] \in Seq(Word)
        /\ k[n] = IF ls[n].says = <<>> THEN k[n - 1] ELSE Append(k[n - 1], ls[n])
        /\ k[n - 1] \in Seq(LineOf) /\ Words(k[n - 1]) = g[n - 1]
    BY <1>2, <1>3, <1>6, <2>1, Zenon
  <2>3. CASE ls[n].says = <<>>
    <3>1. g[n - 1] \o <<>> = g[n - 1]
      BY <2>2, ConcatEmptySeq, Zenon
    <3> QED BY <2>1, <2>2, <2>3, <3>1, Zenon
  <2>4. CASE ls[n].says # <<>>
    <3>1. Words(Append(k[n - 1], ls[n])) = Words(k[n - 1]) \o ls[n].says
      BY <1>4, <2>2, WordsOfOneMore, Zenon
    <3> QED BY <2>1, <2>2, <2>4, <3>1, Zenon
  <2> QED BY <2>3, <2>4
<1> HIDE DEF G
<1>7. \A n \in 0..N : n \in G
  BY <1>1, <1>5, <1>6, UpToLast
<1>8. N \in 0..N
  BY <1>1
<1>9. Words(k[N]) = g[N] /\ k[N] \in Seq(LineOf)
  BY <1>3, <1>7, <1>8 DEF G
<1> QED BY <1>9, Zenon DEF Words, Kept, g, k, N

\* A line is among the words of its lines.
LEMMA LineWithin ==
  ASSUME NEW ls \in Seq(LineOf), NEW i \in 1..Len(ls)
  PROVE  Within(ls[i].says, Words(ls))
<1> DEFINE N == Len(ls)
           g == Wording(ls)
           G == {n \in 0..N : n >= i => Within(ls[i].says, g[n])}
<1>1. N \in Nat /\ i \in Nat /\ 1 <= i /\ i <= N
  OBVIOUS
<1>2. \A n \in 0..N : /\ g[n] \in Seq(Word)
                       /\ g[n] = IF n = 0 THEN <<>> ELSE g[n - 1] \o ls[n].says
  BY WordingIs
<1>3. \A n \in 1..N : ls[n].says \in Seq(Word)
  BY LineIs
<1> HIDE DEF g, N
<1>4. 0 \in G
  BY <1>1
<1>5. ASSUME NEW n \in 1..N, n - 1 \in G
      PROVE  n \in G
  <2>1. n \in 0..N /\ n # 0 /\ n - 1 \in 0..N /\ i \in 1..N
    BY <1>1
  <2>2. /\ g[n] = g[n - 1] \o ls[n].says /\ g[n - 1] \in Seq(Word)
        /\ ls[n].says \in Seq(Word) /\ ls[i].says \in Seq(Word)
    BY <1>2, <1>3, <2>1, Zenon
  <2>3. CASE n = i
    <3>1. Within(ls[n].says, ls[n].says)
      BY <2>2, WithinItself, Zenon
    <3>2. Within(ls[n].says, g[n])
      BY <2>2, <3>1, WithinJoined, Zenon
    <3> QED BY <2>1, <2>3, <3>2
  <2>4. CASE n > i
    <3>1. n - 1 >= i
      BY <1>1, <2>4
    <3>2. Within(ls[i].says, g[n - 1])
      BY <1>5, <3>1
    <3>3. Within(ls[i].says, g[n])
      BY <2>2, <3>2, WithinJoined, Zenon
    <3> QED BY <2>1, <3>3
  <2>5. CASE n < i
    BY <1>1, <2>1, <2>5
  <2> QED BY <1>1, <2>3, <2>4, <2>5
<1> HIDE DEF G
<1>6. \A n \in 0..N : n \in G
  BY <1>1, <1>4, <1>5, UpToLast
<1>7. N \in 0..N /\ N >= i
  BY <1>1
<1>8. Within(ls[i].says, g[N])
  BY <1>6, <1>7 DEF G
<1> QED BY <1>8, Zenon DEF Words, g, N

\* Backslashes are taken off line by line or all at once.
LEMMA UnescapedIs ==
  ASSUME NEW ls \in Seq(LineOf)
  PROVE  /\ Unescaped(ls) \in Seq(LineOf) /\ Len(Unescaped(ls)) = Len(ls)
         /\ \A n \in 1..Len(ls) : Unescaped(ls)[n].says = Unslashed(ls[n].says)
         /\ Words(Unescaped(ls)) = Unslashed(Words(ls))
<1> DEFINE N == Len(ls)
           us == Unescaped(ls)
           g == Wording(ls)
           h == Wording(us)
           G == {n \in 0..N : h[n] = Unslashed(g[n])}
<1>1. N \in Nat /\ DOMAIN ls = 1..N
  OBVIOUS
<1>2. \A n \in 1..N : /\ ls[n] = [at |-> ls[n].at, says |-> ls[n].says]
                       /\ ls[n].at \in Nat /\ ls[n].says \in Seq(Word)
  BY LineIs DEF LineOf
<1>3. us \in Seq(LineOf) /\ Len(us) = N /\ \A n \in 1..N : us[n].says = Unslashed(ls[n].says)
  <2> DEFINE one(l) == [l EXCEPT !.says = Unslashed(l.says)]
  <2>1. us = [n \in 1..N |-> one(ls[n])]
    BY <1>1 DEF Unescaped
  <2>2. ASSUME NEW n \in 1..N
        PROVE  one(ls[n]) \in LineOf /\ one(ls[n]).says = Unslashed(ls[n].says)
    <3> DEFINE l == ls[n]
               a == l.at
               s == l.says
               u == Unslashed(s)
    <3>1. u \in Seq(Word) /\ l = [at |-> a, says |-> s] /\ a \in Nat
      BY <1>2, UnslashedIs, Zenon
    <3> HIDE DEF u, a, s, l
    <3>2. [l EXCEPT !.says = u] = [at |-> a, says |-> u]
      <4>1. [[at |-> a, says |-> s] EXCEPT !.says = u] = [at |-> a, says |-> u]
        OBVIOUS
      <4> QED BY <3>1, <4>1
    <3>3. [at |-> a, says |-> u] \in LineOf /\ [at |-> a, says |-> u].says = u
      BY <3>1 DEF LineOf
    <3>4. [l EXCEPT !.says = u] \in LineOf /\ [l EXCEPT !.says = u].says = u
      BY <3>2, <3>3
    <3> QED BY <3>4, Zenon DEF u, a, s, l
  <2> HIDE DEF us, one, N
  <2>3. \A n \in 1..N : us[n] = one(ls[n]) /\ us[n] \in LineOf
    BY <2>1, <2>2
  <2>4. us = [n \in 1..N |-> us[n]]
    BY <2>1
  <2>5. us \in Seq(LineOf) /\ Len(us) = N
    BY <1>1, <2>3, <2>4
  <2> QED BY <2>2, <2>3, <2>5
<1>4. \A n \in 0..N : /\ g[n] \in Seq(Word)
                       /\ g[n] = IF n = 0 THEN <<>> ELSE g[n - 1] \o ls[n].says
  BY WordingIs
<1> HIDE DEF us
<1>5. \A n \in 0..N : h[n] = IF n = 0 THEN <<>> ELSE h[n - 1] \o us[n].says
  BY <1>3, WordingIs
<1> HIDE DEF g, h, N
<1>6. 0 \in G
  <2>1. 0 \in 0..N
    BY <1>1
  <2>2. g[0] = <<>> /\ h[0] = <<>>
    BY <1>4, <1>5, <2>1, Zenon
  <2>3. Unslashed(<<>>) = <<>>
    BY DEF Unslashed
  <2> QED BY <2>1, <2>2, <2>3, Zenon
<1>7. ASSUME NEW n \in 1..N, n - 1 \in G
      PROVE  n \in G
  <2>1. n \in 0..N /\ n # 0 /\ n - 1 \in 0..N
    BY <1>1
  <2>2. /\ g[n] = g[n - 1] \o ls[n].says /\ g[n - 1] \in Seq(Word)
        /\ ls[n].says \in Seq(Word) /\ h[n] = h[n - 1] \o us[n].says
        /\ h[n - 1] = Unslashed(g[n - 1])
    BY <1>2, <1>4, <1>5, <1>7, <2>1, Zenon
  <2>3. Unslashed(g[n - 1] \o ls[n].says) = Unslashed(g[n - 1]) \o Unslashed(ls[n].says)
    BY <2>2, UnslashedJoined, Zenon
  <2> QED BY <1>3, <2>1, <2>2, <2>3, Zenon
<1> HIDE DEF G
<1>8. \A n \in 0..N : n \in G
  BY <1>1, <1>6, <1>7, UpToLast
<1>9. N \in 0..N
  BY <1>1
<1>10. h[N] = Unslashed(g[N])
  BY <1>8, <1>9 DEF G
<1>11. Words(us) = Unslashed(Words(ls))
  BY <1>3, <1>10, Zenon DEF Words, g, h, N
<1> QED BY <1>3, <1>11, Zenon DEF N, us

\* The words of a single line.
LEMMA FlatLine ==
  ASSUME NEW l \in LineOf
  PROVE  Flat(<<l>>) = Unslashed(l.says)
<1>1. <<l>> \in Seq(LineOf) /\ Len(<<l>>) = 1 /\ <<l>>[1] = l /\ 1 \in 0..1 /\ 0 \in 0..1
  OBVIOUS
<1>2. l.says \in Seq(Word)
  BY DEF LineOf
<1> DEFINE one == <<l>>
<1> HIDE DEF one
<1>3. \A n \in 0..Len(one) :
        Wording(one)[n] = IF n = 0 THEN <<>> ELSE Wording(one)[n - 1] \o one[n].says
  BY <1>1, WordingIs, Zenon DEF one
<1>4. Words(one) = <<>> \o l.says
  <2>1. Len(one) = 1 /\ one[1] = l /\ 0 \in 0..Len(one) /\ 1 \in 0..Len(one)
    BY <1>1 DEF one
  <2>2. Wording(one)[0] = <<>>
    BY <1>3, <2>1, Zenon
  <2>3. 1 # 0 /\ 1 - 1 = 0
    OBVIOUS
  <2>4. Wording(one)[1] = Wording(one)[1 - 1] \o one[1].says
    BY <1>3, <2>1, <2>3, Zenon
  <2> QED BY <2>1, <2>2, <2>3, <2>4, Zenon DEF Words
<1>5. Words(one) = l.says
  BY <1>2, <1>4, ConcatEmptySeq, Zenon
<1>6. Words(Unescaped(one)) = Unslashed(Words(one))
  BY <1>1, UnescapedIs, Zenon DEF one
<1> QED BY <1>5, <1>6, Zenon DEF Flat, one

LEMMA DedentedSays ==
  ASSUME NEW ls \in Seq(LineOf)
  PROVE  /\ DOMAIN Dedented(ls) = 1..Len(ls)
         /\ \A n \in 1..Len(ls) : \E x : Dedented(ls)[n] = [at |-> x, says |-> ls[n].says]
<1>1. DOMAIN ls = 1..Len(ls)
  OBVIOUS
<1>2. ASSUME NEW n \in 1..Len(ls), NEW d
      PROVE  \E x : [ls[n] EXCEPT !.at = ls[n].at - d] = [at |-> x, says |-> ls[n].says]
  <2> DEFINE l == ls[n]
             x == l.at - d
  <2>1. l = [at |-> l.at, says |-> l.says]
    BY LineIs, Zenon
  <2> HIDE DEF l, x
  <2>2. [l EXCEPT !.at = x] = [at |-> x, says |-> l.says]
    <3> DEFINE a == l.at
               s == l.says
    <3>1. l = [at |-> a, says |-> s]
      BY <2>1
    <3> HIDE DEF a, s
    <3>2. [[at |-> a, says |-> s] EXCEPT !.at = x] = [at |-> x, says |-> s]
      OBVIOUS
    <3> QED BY <3>1, <3>2 DEF s
  <2> QED BY <2>2, Zenon DEF l, x
<1> QED BY <1>1, <1>2 DEF Dedented

\* _significant: what is compared of a quote is its lines, perhaps with the label
\* before them.
LEMMA SignificantIs ==
  ASSUME NEW q \in Quotings, NEW first
  PROVE  /\ Kept(q.lines) \in Seq(LineOf)
         /\ \E r \in Seq(LineOf) :
              /\ Significant(q, first) = r /\ Len(r) = Len(Kept(q.lines))
              /\ \A n \in 1..Len(r) : Within(Kept(q.lines)[n].says, r[n].says)
<1> DEFINE k == Kept(q.lines)
           r == Significant(q, first)
<1>1. k \in Seq(LineOf)
  <2>1. q.lines \in Texts
    BY DEF Quotings
  <2> QED BY <2>1, TextIs, KeptIs
<1>2. k \in Seq(LineOf) /\ DOMAIN k = 1..Len(k) /\ Len(k) \in Nat
  BY <1>1
<1>3. \A n \in 1..Len(k) : /\ k[n] \in LineOf /\ k[n].says \in Seq(Word)
                            /\ k[n] = [at |-> k[n].at, says |-> k[n].says]
  BY <1>1, LineIs, Zenon
<1>4. CASE Labelled(q, first)
  <2>1. r = k
    BY <1>4 DEF Significant
  <2>2. \A n \in 1..Len(k) : Within(k[n].says, k[n].says)
    BY <1>3, WithinItself
  <2> QED BY <1>1, <2>1, <2>2
<1>5. CASE ~Labelled(q, first)
  <2> DEFINE one(l) == [l EXCEPT !.says = <<"label">> \o l.says]
  <2>1. r = [n \in DOMAIN k |-> one(k[n])]
    BY <1>5 DEF Significant
  <2> HIDE DEF one
  <2>2. ASSUME NEW n \in 1..Len(k)
        PROVE  one(k[n]) \in LineOf /\ Within(k[n].says, one(k[n]).says)
    <3> DEFINE l == k[n]
               a == l.at
               s == l.says
               m == <<"label">>
               u == m \o s
    <3>1. l = [at |-> a, says |-> s] /\ a \in Nat /\ s \in Seq(Word)
      BY <1>3 DEF LineOf
    <3>2. m \in Seq(Word)
      <4>1. "label" \in Word
        BY DEF Word
      <4> QED BY <4>1
    <3> HIDE DEF l, a, s, m
    <3>3. u \in Seq(Word) /\ Within(s, u)
      <4>1. u \in Seq(Word)
        BY <3>1, <3>2
      <4>2. Within(s, s)
        BY <3>1, WithinItself
      <4> QED BY <3>1, <3>2, <4>1, <4>2, WithinJoined
    <3> HIDE DEF u
    <3>4. [l EXCEPT !.says = u] = [at |-> a, says |-> u]
      <4>1. [[at |-> a, says |-> s] EXCEPT !.says = u] = [at |-> a, says |-> u]
        OBVIOUS
      <4> QED BY <3>1, <4>1
    <3>5. [at |-> a, says |-> u] \in LineOf /\ [at |-> a, says |-> u].says = u
      BY <3>1, <3>3 DEF LineOf
    <3>6. [l EXCEPT !.says = u] \in LineOf /\ Within(s, [l EXCEPT !.says = u].says)
      BY <3>3, <3>4, <3>5
    <3> QED BY <3>6, Zenon DEF one, u, m, a, s, l
  <2> HIDE DEF r, k
  <2>3. \A n \in 1..Len(k) : r[n] \in LineOf /\ Within(k[n].says, r[n].says)
    BY <1>2, <2>1, <2>2
  <2>4. r = [n \in 1..Len(k) |-> r[n]]
    BY <1>2, <2>1
  <2>5. r \in Seq(LineOf) /\ Len(r) = Len(k)
    BY <1>2, <2>3, <2>4
  <2> QED BY <1>2, <2>3, <2>5, Zenon DEF r, k
<1> QED BY <1>4, <1>5

LEMMA UnescapedDedented ==
  ASSUME NEW ls \in Seq(LineOf)
  PROVE  /\ DOMAIN Unescaped(Dedented(ls)) = 1..Len(ls)
         /\ \A n \in 1..Len(ls) : Unescaped(Dedented(ls))[n].says = Unslashed(ls[n].says)
<1> DEFINE ds == Dedented(ls)
<1>1. DOMAIN ds = 1..Len(ls) /\ \A n \in 1..Len(ls) : \E x : ds[n] = [at |-> x, says |-> ls[n].says]
  BY DedentedSays
<1> HIDE DEF ds
<1>2. ASSUME NEW n \in 1..Len(ls)
      PROVE  [ds[n] EXCEPT !.says = Unslashed(ds[n].says)].says = Unslashed(ls[n].says)
  <2>1. PICK x : ds[n] = [at |-> x, says |-> ls[n].says]
    BY <1>1
  <2> DEFINE s == ls[n].says
             u == Unslashed(s)
  <2> HIDE DEF s, u
  <2>2. ds[n] = [at |-> x, says |-> s] /\ ds[n].says = s
    BY <2>1 DEF s
  <2>3. [[at |-> x, says |-> s] EXCEPT !.says = u].says = u
    OBVIOUS
  <2> QED BY <2>2, <2>3, Zenon DEF s, u
<1>3. /\ DOMAIN Unescaped(ds) = 1..Len(ls)
      /\ \A n \in 1..Len(ls) : Unescaped(ds)[n].says = Unslashed(ls[n].says)
  BY <1>1, <1>2 DEF Unescaped
<1> QED BY <1>3 DEF ds

\* The rules by which a quote is accepted.
Ruled(shown, quoted) ==
  \/ shown = quoted
  \/ Dedented(shown) = Dedented(quoted)
  \/ Words(shown) = Words(quoted)
  \/ ClippedFrom(shown, quoted)
  \/ Unescaped(shown) = Unescaped(quoted)
  \/ Unescaped(Dedented(shown)) = Unescaped(Dedented(quoted))
  \/ \E w \in Windows(shown, Len(quoted)) : Dedented(w) = Dedented(quoted)

LEMMA JudgedBy ==
  ASSUME NEW f \in Seq(LineOf), NEW start \in Nat, NEW end \in Nat, NEW q, NEW shown, NEW quoted,
         shown = Kept(SubSeq(f, start, Min({end, Len(f)}))), quoted = Significant(q, start),
         JudgedQuote(f, start, end, q) \in Accepted
  PROVE  start >= 1 /\ end >= start /\ start <= Len(f) /\ Ruled(shown, quoted)
<1>1. "fail" \notin Accepted /\ "unverified" \notin Accepted /\ "retouched" \notin Accepted
      /\ "wrong-lines" \notin Accepted
  BY DEF Accepted
<1>2. ~(start < 1 \/ end < start \/ start > Len(f)) /\ Ruled(shown, quoted)
  BY <1>1, Zenon DEF JudgedQuote, Ruled
<1>3. Len(f) \in Nat
  OBVIOUS
<1> QED BY <1>2, <1>3

\* Lines with the same words one by one.
LEMMA SameLines ==
  ASSUME NEW a \in Seq(LineOf), NEW b \in Seq(LineOf), Dedented(a) = Dedented(b)
  PROVE  Len(a) = Len(b) /\ \A n \in 1..Len(a) : a[n].says = b[n].says
<1>1. DOMAIN Dedented(a) = 1..Len(a) /\ DOMAIN Dedented(b) = 1..Len(b)
  BY DedentedSays
<1>2. Len(a) = Len(b)
  <2>1. 1..Len(a) = 1..Len(b) /\ Len(a) \in Nat /\ Len(b) \in Nat
    BY <1>1
  <2> QED BY <2>1
<1>3. ASSUME NEW n \in 1..Len(a)
      PROVE  a[n].says = b[n].says
  <2>1. PICK x : Dedented(a)[n] = [at |-> x, says |-> a[n].says]
    BY DedentedSays
  <2>2. PICK y : Dedented(b)[n] = [at |-> y, says |-> b[n].says]
    BY <1>2, DedentedSays
  <2> QED BY <2>1, <2>2
<1> QED BY <1>2, <1>3

\* Each line quoted is in a line cited, quote marks' backslashes aside.
InLine(quoted, shown) ==
  \A i \in 1..Len(quoted) : \E j \in 1..Len(shown) :
    Within(Unslashed(quoted[i].says), Unslashed(shown[j].says))

LEMMA LineByLine ==
  ASSUME NEW shown \in Seq(LineOf), NEW quoted \in Seq(LineOf),
         \/ shown = quoted
         \/ Dedented(shown) = Dedented(quoted)
         \/ ClippedFrom(shown, quoted)
         \/ Unescaped(shown) = Unescaped(quoted)
         \/ Unescaped(Dedented(shown)) = Unescaped(Dedented(quoted))
         \/ \E w \in Windows(shown, Len(quoted)) : Dedented(w) = Dedented(quoted)
  PROVE  InLine(quoted, shown)
<1>1. \A i \in 1..Len(quoted) : quoted[i].says \in Seq(Word)
  BY LineIs
<1>2. \A i \in 1..Len(quoted) : Unslashed(quoted[i].says) \in Seq(Word)
  BY <1>1, UnslashedIs
<1>3. \A i \in 1..Len(quoted) : Within(Unslashed(quoted[i].says), Unslashed(quoted[i].says))
  BY <1>2, WithinItself
<1>4. Len(shown) \in Nat /\ Len(quoted) \in Nat
  OBVIOUS
<1>5. \A i \in 1..Len(shown) : shown[i].says \in Seq(Word)
  BY LineIs
<1>6. CASE shown = quoted
  BY <1>3, <1>6, Zenon DEF InLine
<1>7. CASE Dedented(shown) = Dedented(quoted)
  <2>1. Len(shown) = Len(quoted) /\ \A n \in 1..Len(shown) : shown[n].says = quoted[n].says
    BY <1>7, SameLines
  <2> QED BY <1>3, <2>1, Zenon DEF InLine
<1>8. CASE ClippedFrom(shown, quoted)
  <2>1. Len(shown) = Len(quoted) /\ \A i \in 1..Len(quoted) : Within(quoted[i].says, shown[i].says)
    <3>1. DOMAIN quoted = 1..Len(quoted)
      OBVIOUS
    <3> QED BY <1>8, <3>1, Zenon DEF ClippedFrom
  <2>2. \A i \in 1..Len(quoted) : Within(Unslashed(quoted[i].says), Unslashed(shown[i].says))
    BY <1>1, <1>5, <2>1, WithinUnslashed, Zenon
  <2> QED BY <2>1, <2>2, Zenon DEF InLine
<1>9. CASE Unescaped(shown) = Unescaped(quoted)
  <2>1. /\ Len(Unescaped(shown)) = Len(shown) /\ Len(Unescaped(quoted)) = Len(quoted)
        /\ \A n \in 1..Len(shown) : Unescaped(shown)[n].says = Unslashed(shown[n].says)
        /\ \A n \in 1..Len(quoted) : Unescaped(quoted)[n].says = Unslashed(quoted[n].says)
    BY UnescapedIs
  <2> QED BY <1>3, <1>9, <2>1, Zenon DEF InLine
<1>10. CASE Unescaped(Dedented(shown)) = Unescaped(Dedented(quoted))
  <2>1. /\ DOMAIN Unescaped(Dedented(shown)) = 1..Len(shown)
        /\ DOMAIN Unescaped(Dedented(quoted)) = 1..Len(quoted)
        /\ \A n \in 1..Len(shown) : Unescaped(Dedented(shown))[n].says = Unslashed(shown[n].says)
        /\ \A n \in 1..Len(quoted) : Unescaped(Dedented(quoted))[n].says = Unslashed(quoted[n].says)
    BY UnescapedDedented
  <2> QED BY <1>3, <1>10, <2>1, Zenon DEF InLine
<1>11. CASE \E w \in Windows(shown, Len(quoted)) : Dedented(w) = Dedented(quoted)
  <2> DEFINE n == Len(quoted)
  <2>1. PICK i \in 1..Len(shown) - n + 1 : Dedented(SubSeq(shown, i, i + n - 1)) = Dedented(quoted)
    BY <1>11 DEF Windows
  <2> DEFINE w == SubSeq(shown, i, i + n - 1)
  <2>2. w \in Seq(LineOf) /\ Len(w) = n /\ \A m \in 1..n : w[m] = shown[i + m - 1]
    BY <1>4
  <2>3. \A m \in 1..n : w[m].says = quoted[m].says
    <3> HIDE DEF w, n
    <3> QED BY <2>1, <2>2, SameLines DEF w
  <2>4. \A m \in 1..n : i + m - 1 \in 1..Len(shown)
    BY <1>4
  <2> HIDE DEF w
  <2> QED BY <1>3, <2>2, <2>3, <2>4, Zenon DEF InLine
<1> QED BY <1>6, <1>7, <1>8, <1>9, <1>10, <1>11

LEMMA MinOfTwo ==
  ASSUME NEW a \in Int, NEW b \in Int
  PROVE  Min({a, b}) \in Int /\ Min({a, b}) <= a /\ Min({a, b}) <= b
<1>1. \A m \in {a, b} : (\A y \in {a, b} : m <= y) <=> m = IF a <= b THEN a ELSE b
  OBVIOUS
<1>2. (IF a <= b THEN a ELSE b) \in {a, b}
  OBVIOUS
<1>3. Min({a, b}) = IF a <= b THEN a ELSE b
  BY <1>1, <1>2 DEF Min
<1> QED BY <1>3

\* An accepted quote is in the lines cited, line by line.
QuoteThere(f, start, end, q) ==
  \A i \in DOMAIN Kept(q.lines) :
    Within(Flat(<<Kept(q.lines)[i]>>), Flat(SubSeq(f, start, Min({end, Len(f)}))))

LEMMA AcceptedIs ==
  ASSUME NEW f \in Texts, NEW start \in Nat, NEW end \in Nat, NEW q \in Quotings,
         JudgedQuote(f, start, end, q) \in Accepted
  PROVE  QuoteThere(f, start, end, q)
<1> DEFINE here == SubSeq(f, start, Min({end, Len(f)}))
           shown == Kept(here)
           k == Kept(q.lines)
           quoted == Significant(q, start)
           there == Unslashed(Words(shown))
           last == Min({end, Len(f)})
<1>0. f \in Seq(LineOf) /\ Len(f) \in Nat
  BY TextIs
<1>1. start >= 1 /\ end >= start /\ start <= Len(f) /\ Ruled(shown, quoted)
  BY <1>0, JudgedBy, Zenon
<1>2. here \in Seq(LineOf)
  <2>1. start \in Int /\ end \in Int /\ Len(f) \in Int
    BY <1>0
  <2>2. last \in Int /\ last <= Len(f)
    BY <2>1, MinOfTwo, Zenon
  <2> HIDE DEF last
  <2>3. \A i \in start..last : f[i] \in LineOf
    BY <1>0, <1>1, <2>2
  <2>4. SubSeq(f, start, last) \in Seq(LineOf)
    BY <2>1, <2>2, <2>3, SubSeqProperties, Zenon
  <2> QED BY <2>4 DEF last
<1> HIDE DEF here
<1>3. shown \in Seq(LineOf) /\ Words(shown) = Words(here)
  BY <1>2, KeptIs
<1>4. /\ k \in Seq(LineOf) /\ quoted \in Seq(LineOf) /\ Len(quoted) = Len(k)
      /\ \A n \in 1..Len(quoted) : Within(k[n].says, quoted[n].says)
  BY SignificantIs
<1> HIDE DEF shown, k, quoted, there
<1>5. Flat(here) = there
  <2>1. Words(Unescaped(here)) = Unslashed(Words(here))
    BY <1>2, UnescapedIs
  <2> QED BY <1>3, <2>1, Zenon DEF Flat, there
<1>6. there \in Seq(Word) /\ Words(shown) \in Seq(Word) /\ Words(quoted) \in Seq(Word)
  BY <1>3, <1>4, WordsType, UnslashedIs DEF there
<1>7. ASSUME NEW n \in 1..Len(quoted)
      PROVE  Within(Unslashed(k[n].says), there)
  <2>1. k[n].says \in Seq(Word) /\ quoted[n].says \in Seq(Word) /\ Within(k[n].says, quoted[n].says)
    <3>1. n \in 1..Len(k)
      BY <1>4
    <3> QED BY <1>4, <3>1, LineIs, Zenon
  <2>2. /\ Unslashed(k[n].says) \in Seq(Word) /\ Unslashed(quoted[n].says) \in Seq(Word)
        /\ Within(Unslashed(k[n].says), Unslashed(quoted[n].says))
    BY <2>1, UnslashedIs, WithinUnslashed, Zenon
  <2>3. Within(Unslashed(quoted[n].says), there)
    <3>1. CASE Words(shown) = Words(quoted)
      <4>1. Within(quoted[n].says, Words(quoted))
        BY <1>4, LineWithin, Zenon
      <4> QED BY <1>6, <2>1, <3>1, <4>1, WithinUnslashed, Zenon DEF there
    <3>2. CASE Words(shown) # Words(quoted)
      <4>1. InLine(quoted, shown)
        BY <1>1, <1>3, <1>4, <3>2, LineByLine, Zenon DEF Ruled
      <4>2. PICK j \in 1..Len(shown) : Within(Unslashed(quoted[n].says), Unslashed(shown[j].says))
        BY <4>1 DEF InLine
      <4>3. shown[j].says \in Seq(Word) /\ Within(shown[j].says, Words(shown))
        BY <1>3, LineIs, LineWithin, Zenon
      <4>4. Unslashed(shown[j].says) \in Seq(Word) /\ Within(Unslashed(shown[j].says), there)
        BY <1>6, <4>3, UnslashedIs, WithinUnslashed, Zenon DEF there
      <4> QED BY <1>6, <2>2, <4>2, <4>4, WithinWithin, Zenon
    <3> QED BY <3>1, <3>2
  <2> QED BY <1>6, <2>2, <2>3, WithinWithin, Zenon
<1>8. DOMAIN k = 1..Len(quoted)
  BY <1>4
<1>9. \A n \in 1..Len(quoted) : Flat(<<k[n]>>) = Unslashed(k[n].says)
  <2>1. \A n \in 1..Len(quoted) : k[n] \in LineOf
    BY <1>4
  <2> QED BY <2>1, FlatLine, Zenon
<1> QED BY <1>5, <1>7, <1>8, <1>9, Zenon DEF QuoteThere, k, here

----------------------------------------------------------------------------
(* A verdict is what the rules make of the question put. *)

Decided ==
  \/ question = NoQuestion
  \/ \E q \in QuoteQuestions : question = q /\ verdict = FileQuote(q.file, q.start, q.end, q.quote, q.others)
  \/ \E q \in TreeQuestions : question = q /\ verdict = ResolvePath(q.tree, q.start, q.end, q.quote, q.others)
  \/ \E q \in CommandQuestions : question = q /\ verdict = CommandResult(q.calls, q.wanted, q.said)
  \/ \E q \in ReadQuestions : question = q /\ verdict = Covers(CoveredRanges(q.calls), q.start, q.end)
  \/ \E q \in EventQuestions : question = q /\ verdict = Collect(q.events)
  \/ \E q \in TestQuestions : question = q /\ verdict = HollowTests(q.added)

THEOREM VerdictsAreDecided ==
  Spec => []Decided
<1>1. Init => Decided
  BY DEF Init, Decided
<1>2. Decided /\ [Next]_vars => Decided'
  <2> SUFFICES ASSUME Decided, [Next]_vars
               PROVE  Decided'
    OBVIOUS
  <2>1. CASE UNCHANGED <<question, verdict>>
    BY <2>1, Zenon DEF Decided
  <2>2. CASE JudgeQuote
    BY <2>2, Zenon DEF JudgeQuote, Asked, Decided
  <2>3. CASE FindFile
    BY <2>3, Zenon DEF FindFile, Asked, Decided
  <2>4. CASE JudgeCommand
    BY <2>4, Zenon DEF JudgeCommand, Asked, Decided
  <2>5. CASE JudgeReading
    BY <2>5, Zenon DEF JudgeReading, Asked, Decided
  <2>6. CASE CollectCalls
    BY <2>6, Zenon DEF CollectCalls, Asked, Decided
  <2>7. CASE JudgeTests
    BY <2>7, Zenon DEF JudgeTests, Asked, Decided
  <2>8. CASE ReadLine \/ EndOfAnswer
    BY <2>1, <2>8 DEF ReadLine, EndOfAnswer
  <2>9. CASE UNCHANGED vars
    BY <2>1, <2>9 DEF vars
  <2> QED BY <2>2, <2>3, <2>4, <2>5, <2>6, <2>7, <2>8, <2>9 DEF Next
<1> QED BY <1>1, <1>2, PTL DEF Spec

\* hollow_tests: an added test is called hollow for what it does itself, and for
\* what is added after it only where that asserts or passes over something.
LEMMA HollowIsOwn ==
  ASSUME NEW a \in Seq(AddedLines), NEW t \in DOMAIN a, a[t] = "test"
  PROVE  LET Own(kinds) == {j \in OwnLines(a, t) : a[j] \in kinds}
             Others(kinds) == {j \in OthersLines(a, t) : a[j] \in kinds}
             Swallows == \E j \in Own({"except"}) : j + 1 \in Own({"pass"})
             OnlyMocks == Own({"mock"}) # {} /\ Own({"assert"}) = {}
         IN /\ Swallows => Hollow(a, t)
            /\ Own({"assert"}) # {} /\ Others({"pass"}) = {} => (Hollow(a, t) <=> Swallows)
            /\ Others({"assert", "mock", "pass"}) = {} => (Hollow(a, t) <=> Swallows \/ OnlyMocks)
<1> DEFINE Own(kinds) == {j \in OwnLines(a, t) : a[j] \in kinds}
           Others(kinds) == {j \in OthersLines(a, t) : a[j] \in kinds}
           Swallows == \E j \in Own({"except"}) : j + 1 \in Own({"pass"})
           OnlyMocks == Own({"mock"}) # {} /\ Own({"assert"}) = {}
           PassesOver == \E k \in UpToNext(a, t) : a[k] = "pass" /\ Pending(a, t, k - 1)
<1>1. t \in Nat /\ OwnLines(a, t) \subseteq UpToNext(a, t) /\ UpToNext(a, t) \subseteq t + 1..Len(a)
  BY DEF OwnLines, UpToNext
<1>2. ASSUME Swallows
      PROVE  PassesOver
  <2>1. PICK j \in OwnLines(a, t) : a[j] = "except" /\ j + 1 \in OwnLines(a, t) /\ a[j + 1] = "pass"
    BY <1>2
  <2>2. j \in Int /\ (j + 1) - 1 = j /\ j \in t + 1..j /\ j + 1..j = {}
    BY <1>1, <2>1
  <2>3. Pending(a, t, (j + 1) - 1)
    BY <2>1, <2>2 DEF Pending
  <2> QED BY <1>1, <2>1, <2>3
<1>3. ASSUME PassesOver, Others({"pass"}) = {}
      PROVE  Swallows
  <2>1. PICK k \in UpToNext(a, t) : a[k] = "pass" /\ Pending(a, t, k - 1)
    BY <1>3
  <2>2. k \in OwnLines(a, t)
    BY <1>3, <2>1 DEF OthersLines
  <2>3. k \in t + 1..Len(a) /\ \A m \in t + 1..k : a[m] \notin Skipped \cup {"def"}
    BY <1>1, <2>2 DEF OwnLines
  <2>4. PICK j \in t + 1..k - 1 : a[j] = "except" /\ \A m \in j + 1..k - 1 : a[m] \in Skipped
    BY <2>1 DEF Pending
  <2>5. j = k - 1
    <3> SUFFICES ASSUME j # k - 1
                 PROVE  FALSE
      OBVIOUS
    <3>1. k - 1 \in j + 1..k - 1 /\ k - 1 \in t + 1..k
      BY <1>1, <2>3, <2>4
    <3> QED BY <2>3, <2>4, <3>1
  <2>6. j + 1 = k /\ j \in UpToNext(a, t) /\ j \in OwnLines(a, t)
    <3>1. j + 1 = k /\ j \in t + 1..Len(a) /\ \A m \in t + 1..j : m \in t + 1..k
      BY <1>1, <2>3, <2>4, <2>5
    <3> QED BY <2>1, <2>2, <3>1 DEF OwnLines, UpToNext
  <2> QED BY <2>1, <2>2, <2>4, <2>6
<1>4. Hollow(a, t) <=> \/ PassesOver
                       \/ /\ \E j \in UpToNext(a, t) : a[j] = "mock"
                          /\ \A j \in UpToNext(a, t) : a[j] # "assert"
  BY DEF Hollow
<1> HIDE DEF PassesOver
<1>5. ASSUME Own({"assert"}) # {}
      PROVE  \E j \in UpToNext(a, t) : a[j] = "assert"
  BY <1>1, <1>5
<1>6. ASSUME Others({"assert", "mock", "pass"}) = {}
      PROVE  /\ Others({"pass"}) = {}
             /\ (\E j \in UpToNext(a, t) : a[j] = "mock") <=> Own({"mock"}) # {}
             /\ (\A j \in UpToNext(a, t) : a[j] # "assert") <=> Own({"assert"}) = {}
  BY <1>1, <1>6 DEF OthersLines
<1>7. Swallows => Hollow(a, t)
  BY <1>2, <1>4
<1>8. Own({"assert"}) # {} /\ Others({"pass"}) = {} => (Hollow(a, t) <=> Swallows)
  BY <1>2, <1>3, <1>4, <1>5
<1>9. Others({"assert", "mock", "pass"}) = {} => (Hollow(a, t) <=> Swallows \/ OnlyMocks)
  BY <1>2, <1>3, <1>4, <1>6
<1> QED BY <1>7, <1>8, <1>9

\* hollow_tests: an added test that passes over an exception is called hollow
\* whatever is added after it, and one that asserts anything real, or has nothing
\* after it that asserts or passes, for nothing but its own lines.
THEOREM HollowTestsAreHollow ==
  Spec => []HollowForItsOwnLines
<1>1. Decided => HollowForItsOwnLines
  <2> SUFFICES ASSUME Decided, Of("tests")
               PROVE  HollowForItsOwnLines
    BY DEF HollowForItsOwnLines
  <2>1. question.of = "tests"
    BY DEF Of
  <2>2. PICK q \in TestQuestions : question = q /\ verdict = HollowTests(q.added)
    <3>1. question # NoQuestion
      BY <2>1 DEF NoQuestion
    <3> QED BY <2>1, <3>1, QuotesAssumption, CommandsAssumption, EvidenceAssumption DEF Decided
  <2>3. question.added \in Seq(AddedLines)
    BY <2>2, EvidenceAssumption
  <2>4. verdict = {u \in DOMAIN question.added : question.added[u] = "test" /\ Hollow(question.added, u)}
    BY <2>2, <2>3, HollowTestsIs
  <2>5. \A t \in {u \in DOMAIN question.added : question.added[u] = "test"} :
          t \in verdict <=> Hollow(question.added, t)
    BY <2>4
  <2> QED BY <2>3, <2>4, <2>5, HollowIsOwn DEF HollowForItsOwnLines
<1> QED BY <1>1, VerdictsAreDecided, PTL

\* command_result: a command counts only if the session ran it, and then exactly
\* if a run of it bears out what is said, whatever its other runs did.
THEOREM CommandsCountedWereRun ==
  Spec => []CommandsWereRun
<1>1. Decided => CommandsWereRun
  <2> SUFFICES ASSUME Decided, Of("command")
               PROVE  CommandsWereRun
    BY DEF CommandsWereRun
  <2>1. question.of = "command"
    BY DEF Of
  <2>2. PICK q \in CommandQuestions : question = q /\ verdict = CommandResult(q.calls, q.wanted, q.said)
    <3>1. question # NoQuestion
      BY <2>1 DEF NoQuestion
    <3> QED BY <2>1, <3>1, QuotesAssumption, CommandsAssumption, EvidenceAssumption DEF Decided
  <2>3. q.wanted \in Seq(STRING) /\ q.calls \in Seq(RunOf)
    BY CommandsAssumption DEF RunOf
  <2>4. \A c \in ToSet(q.calls) : c \in RunOf
    BY <2>3 DEF ToSet
  <2>5. /\ verdict = "pass" => \E c \in ToSet(q.calls) : Matching(c, q.wanted) /\ BearsOut(c, q.wanted, q.said)
        /\ verdict = "fail" =>
             /\ \E c \in ToSet(q.calls) : Matching(c, q.wanted)
             /\ ~\E c \in ToSet(q.calls) : Matching(c, q.wanted) /\ BearsOut(c, q.wanted, q.said)
        /\ verdict \notin {"pass", "fail"} =>
             q.said = <<>> \/ ~\E c \in ToSet(q.calls) : Matching(c, q.wanted)
    BY <2>2, <2>3, CommandResultIs, Zenon DEF Pass
  <2>6. ASSUME NEW c \in ToSet(q.calls), Matching(c, q.wanted)
        PROVE  LET words == ToSet(q.wanted)
               IN /\ c.tool = "Bash" /\ Settings(q.wanted) \subseteq ToSet(c.ran)
                  /\ \/ Within(c.ran, q.wanted)
                     \/ Payloads(q.wanted) # {} /\ Payloads(q.wanted) \subseteq ToSet(c.ran)
                     \/ Payloads(q.wanted) = {} /\ "-c" \in words /\ Within(q.wanted, c.ran)
                     \/ /\ Payloads(q.wanted) = {} /\ "-c" \notin words
                        /\ Cardinality(words \cap ToSet(c.ran)) * 2 >= Cardinality(words)
    BY <2>3, <2>4, <2>6, MatchingRan, Zenon
  <2> QED BY <2>2, <2>5, <2>6, Zenon DEF CommandsWereRun, BearsOut
<1> QED BY <1>1, VerdictsAreDecided, PTL

\* covers and collect: what a session's record says is read whole.  Lines count
\* as read exactly if each is in some read, and every call has its own outcome.
THEOREM RecordsAreReadWhole ==
  Spec => []SessionEvidence
<1>1. Decided => SessionEvidence
  <2> SUFFICES ASSUME Decided
               PROVE  SessionEvidence
    OBVIOUS
  <2>1. ASSUME Of("reading")
        PROVE  verdict = \A n \in question.start..question.end :
                           \E r \in CoveredRanges(question.calls) : n \in r[1]..r[2]
    <3>1. question.of = "reading" /\ question # NoQuestion
      BY <2>1 DEF Of, NoQuestion
    <3>2. PICK q \in ReadQuestions :
            question = q /\ verdict = Covers(CoveredRanges(q.calls), q.start, q.end)
      BY <3>1, QuotesAssumption, CommandsAssumption, EvidenceAssumption DEF Decided
    <3>3. RangesIn(CoveredRanges(q.calls)) /\ q.start \in Nat /\ q.end \in Nat
      BY EvidenceAssumption, CoveredRangesType
    <3>4. Covers(CoveredRanges(q.calls), q.start, q.end) <=>
            \A n \in q.start..q.end : \E r \in CoveredRanges(q.calls) : n \in r[1]..r[2]
      BY <3>3, CoversIs, Zenon
    <3>5. Covers(CoveredRanges(q.calls), q.start, q.end) \in BOOLEAN
      BY DEF Covers
    <3> QED BY <3>2, <3>4, <3>5, Zenon
  <2>2. ASSUME Of("events")
        PROVE  \E by \in [DOMAIN verdict -> DOMAIN question.events] :
                 /\ \A k, l \in DOMAIN verdict : k < l => by[k] < by[l]
                 /\ ToSet(by) = {i \in DOMAIN question.events : Makes(question.events, i)}
                 /\ \A k \in DOMAIN verdict :
                      verdict[k] = [id |-> question.events[by[k]].id,
                                    known |-> question.events[by[k]].type = "use",
                                    ok |-> Outcome(question.events, by[k])]
    <3>1. question.of = "events" /\ question # NoQuestion
      BY <2>2 DEF Of, NoQuestion
    <3>2. PICK q \in EventQuestions : question = q /\ verdict = Collect(q.events)
      BY <3>1, QuotesAssumption, CommandsAssumption, EvidenceAssumption DEF Decided
    <3> DEFINE es == q.events
    <3>3. es \in Seq(EventOf)
      BY EvidenceAssumption DEF EventOf
    <3> HIDE DEF es
    <3>4. question.events = es /\ verdict = Collect(es)
      BY <3>2 DEF es
    <3>5. PICK by : Placed(es, Len(es), by, Collect(es))
      BY <3>3, CollectIs, Zenon
    <3>6. DOMAIN es = 1..Len(es)
      BY <3>3
    <3>7. \E s : s \in CollectOf(es) /\ s.calls = Collect(es)
      <4>1. Len(es) \in 0..Len(es)
        BY <3>3
      <4> QED BY <3>3, <4>1, CollectingIs DEF Collect
    <3>8. Collect(es) \in Seq(CallOf)
      BY <3>7 DEF CollectOf
    <3>9. /\ DOMAIN Collect(es) = 1..Len(Collect(es)) /\ Len(by) = Len(Collect(es))
          /\ by \in [1..Len(by) -> 1..Len(es)] /\ DOMAIN by = 1..Len(by)
      BY <3>5, <3>8 DEF Placed
    <3>10. by \in [DOMAIN verdict -> DOMAIN es]
      BY <3>4, <3>6, <3>9, Zenon
    <3>11. \A k, l \in DOMAIN verdict : k < l => by[k] < by[l]
      BY <3>4, <3>5, <3>9, Zenon DEF Placed
    <3>12. ToSet(by) = {i \in DOMAIN es : Makes(es, i)}
      BY <3>5, <3>6, <3>9 DEF Placed, ToSet
    <3>13. \A k \in DOMAIN verdict : verdict[k] = CallIn(es, Len(es), by[k])
      BY <3>4, <3>5, <3>9, Zenon DEF Placed
    <3>14. \A i : CallIn(es, Len(es), i) =
                    [id |-> es[i].id, known |-> es[i].type = "use", ok |-> Outcome(es, i)]
      BY Zenon DEF CallIn, OutcomeIn, ResultsIn, Outcome, ResultsOf
    <3> QED BY <3>4, <3>10, <3>11, <3>12, <3>13, <3>14, Zenon
  <2> QED BY <2>1, <2>2, Zenon DEF SessionEvidence
<1> QED BY <1>1, VerdictsAreDecided, PTL

\* _judged_quote and resolve_path: an accepted quote is in the lines cited, and a
\* file found for a quote is the only one that it is in.
THEOREM AcceptedQuotesAreThere ==
  Spec => []AcceptedIsThere
<1>1. Decided => AcceptedIsThere
  <2> SUFFICES ASSUME Decided
               PROVE  AcceptedIsThere
    OBVIOUS
  <2>1. ASSUME Of("quote"), verdict \in Accepted
        PROVE  \E r \in Readings(question) :
                 QuoteThere(question.file, question.start, question.end, r)
    <3>1. question.of = "quote" /\ question # NoQuestion
      BY <2>1 DEF Of, NoQuestion
    <3>2. PICK q \in QuoteQuestions :
            question = q /\ verdict = FileQuote(q.file, q.start, q.end, q.quote, q.others)
      BY <3>1, QuotesAssumption, CommandsAssumption, EvidenceAssumption DEF Decided
    <3>3. /\ q.file \in Texts /\ q.start \in Nat /\ q.end \in Nat
          /\ q.quote \in Quotings /\ q.others \subseteq Quotings
      BY QuotesAssumption
    <3> DEFINE o == CHOOSE o \in q.others : TRUE
               V(x) == JudgedQuote(q.file, q.start, q.end, x)
    <3>4. V(q.quote) \in Accepted \/ (q.others # {} /\ V(o) \in Accepted)
      <4> DEFINE a == V(q.quote)
                 b == V(o)
      <4>1. verdict = IF a \in Accepted \/ q.others = {} THEN a ELSE Closer(a, b)
        BY <3>2, Zenon DEF FileQuote
      <4> HIDE DEF a, b
      <4>2. Closer(a, b) \in Accepted => a \in Accepted \/ b \in Accepted
        BY DEF Closer
      <4>3. a \in Accepted \/ (q.others # {} /\ b \in Accepted)
        BY <2>1, <4>1, <4>2
      <4> QED BY <4>3 DEF a, b
    <3>5. q.others # {} => o \in q.others
      OBVIOUS
    <3> HIDE DEF o
    <3>6. \E r \in {q.quote} \cup q.others : r \in Quotings /\ V(r) \in Accepted
      BY <3>3, <3>4, <3>5
    <3>7. PICK r \in {q.quote} \cup q.others : r \in Quotings /\ V(r) \in Accepted
      BY <3>6
    <3>8. QuoteThere(q.file, q.start, q.end, r)
      BY <3>3, <3>7, AcceptedIs, Zenon
    <3> QED BY <3>2, <3>7, <3>8, Zenon DEF Readings
  <2>2. ASSUME Of("tree"), verdict # None
        PROVE  \A p \in DOMAIN question.tree \ {verdict} :
                 \A r \in Readings(question) :
                   JudgedQuote(question.tree[p], question.start, question.end, r) \notin Accepted
    <3>1. question.of = "tree" /\ question # NoQuestion
      BY <2>2 DEF Of, NoQuestion
    <3>2. PICK q \in TreeQuestions :
            question = q /\ verdict = ResolvePath(q.tree, q.start, q.end, q.quote, q.others)
      BY <3>1, QuotesAssumption, CommandsAssumption, EvidenceAssumption DEF Decided
    <3> DEFINE Judged(p) == FileQuote(q.tree[p], q.start, q.end, q.quote, q.others)
               hits == {p \in DOMAIN q.tree : Judged(p) \in Accepted}
               near == {p \in DOMAIN q.tree : Judged(p) \in {"retouched", "wrong-lines"}}
    <3>3. verdict = IF hits # {} THEN TheOne(hits) ELSE TheOne(near)
      BY <3>2, Zenon DEF ResolvePath
    <3> HIDE DEF near
    <3>4. hits = {} \/ hits = {verdict}
      <4> HIDE DEF hits
      <4> QED BY <2>2, <3>3 DEF TheOne
    <3>5. ASSUME NEW p \in DOMAIN q.tree \ {verdict}, NEW r \in {q.quote} \cup q.others
          PROVE  JudgedQuote(q.tree[p], q.start, q.end, r) \notin Accepted
      <4> DEFINE a == JudgedQuote(q.tree[p], q.start, q.end, q.quote)
                 b == JudgedQuote(q.tree[p], q.start, q.end, CHOOSE o \in q.others : TRUE)
      <4>1. Judged(p) \notin Accepted
        BY <3>4
      <4>2. Judged(p) = IF a \in Accepted \/ q.others = {} THEN a ELSE Closer(a, b)
        BY Zenon DEF FileQuote
      <4>3. r = q.quote \/ (q.others # {} /\ r = CHOOSE o \in q.others : TRUE)
        BY QuotesAssumption
      <4> HIDE DEF Judged
      <4>4. a \notin Accepted /\ (q.others # {} => b \notin Accepted)
        <5> HIDE DEF a, b
        <5> QED BY <4>1, <4>2 DEF Closer
      <4> QED BY <4>3, <4>4
    <3> QED BY <3>2, <3>5, Zenon DEF Readings
  <2> QED BY <2>1, <2>2, Zenon DEF AcceptedIsThere, QuoteThere, CitedLines
<1> QED BY <1>1, VerdictsAreDecided, PTL

=============================================================================
