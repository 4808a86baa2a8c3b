------------------------------ MODULE MCVerify ------------------------------
(***************************************************************************)
(* Verify over small answers and small questions.                          *)
(***************************************************************************)
EXTENDS Verify

MCAnswers ==
  UNION {[1..n -> Kinds] : n \in 0..4}
  \cup {<<"claim", e>> \o t : e \in {"evidence2", "evidenceqr"},
                              t \in [1..4 -> {"quote", "prose", "dots", "blank", "run"}]}

\* A line: how far in, and its words.
Line(in, ws) == [at |-> in, says |-> ws]
Code ==
  {Line(0, <<"a">>), Line(1, <<"a">>), Line(1, <<"a", "q">>), Line(0, <<"b">>), Line(0, <<>>)}
Quoted(ls, label) == [lines |-> ls, label |-> label, from |-> 1, step |-> 1]
Quotes ==
  {Quoted(ls, "bare") : ls \in UNION {[1..n -> Code \cup {Line(0, <<"a", "Q">>)}] : n \in 1..2}}
  \cup {Quoted(<<l>>, k) : l \in Code, k \in {"gutter", "words", "after"}}
Ranges == {<<1, 1>>, <<1, 2>>, <<2, 2>>, <<1, 3>>, <<2, 3>>, <<3, 1>>, <<5, 5>>}
MCQuotes ==
  {[of |-> "quote", file |-> f, start |-> r[1], end |-> r[2], quote |-> q, others |-> {}] :
     f \in [1..3 -> Code], r \in Ranges, q \in Quotes}
  \cup
  {[of |-> "quote", file |-> <<a, b>>, start |-> 1, end |-> 2,
    quote |-> Quoted(<<Line(a.at, a.says \o b.says)>>, "bare"), others |-> {Quoted(<<a, b>>, "bare")}] :
     a \in Code, b \in Code}

MCTrees ==
  {[of |-> "tree", tree |-> t, start |-> 1, end |-> 1, quote |-> Quoted(<<l>>, "bare"), others |-> o] :
     t \in [{"f", "g"} -> [1..2 -> Code]], l \in Code,
     o \in {{}, {Quoted(<<Line(0, <<"b">>)>>, "bare")}}}

Commands ==
  {<<"hook", "{1}">>, <<"hook", "{2}">>, <<"hook", "{1}", "{2}">>, <<"S=1", "hook">>, <<"S=2", "hook">>, <<"hook">>,
   <<"py", "-c", "x">>, <<>>}
Printed ==
  {<<>>, <<"EXIT">>, <<"allowed", "EXIT">>, <<"x", "deny">>, <<"{1}", "allowed", "---", "{2}", "deny">>}
Calls ==
  {[tool |-> t, ran |-> c, text |-> x, ok |-> o, shellFailed |-> s] :
     t \in {"Bash", "Read"}, c \in Commands, x \in Printed, o \in BOOLEAN, s \in BOOLEAN}
Bashed ==
  {c \in Calls : /\ c.tool = "Bash" /\ ~c.shellFailed
                 /\ c.ran \in {<<"hook", "{1}", "{2}">>, <<"S=1", "hook">>, <<"hook">>}}
SaidOf ==
  {<<>>, <<"no">>, <<"EXIT">>, <<"x">>, <<"denied">>, <<"no", "deny">>, <<"allowed", "y", "z">>}
MCCommands ==
  {[of |-> "command", calls |-> cs, wanted |-> w, said |-> said] :
     cs \in {<<>>} \cup [1..1 -> Calls] \cup [1..2 -> Bashed], w \in Commands, said \in SaidOf}

Looks ==
  {[tool |-> t, said |-> s, first |-> f, count |-> n, ok |-> o] :
     t \in {"Read", "Grep", "Bash"}, s \in BOOLEAN, f \in 1..4, n \in 0..2, o \in BOOLEAN}
MCReadings ==
  {[of |-> "reading", calls |-> cs, start |-> r[1], end |-> r[2]] :
     cs \in {<<>>} \cup [1..1 -> Looks] \cup [1..2 -> {l \in Looks : l.ok /\ l.tool # "Bash"}],
     r \in {<<1, 1>>, <<1, 3>>, <<2, 4>>, <<3, 4>>}}

Events == {[type |-> t, id |-> i, ok |-> o] : t \in {"use", "result"}, i \in 1..2, o \in BOOLEAN}
MCEvents == {[of |-> "events", events |-> es] : es \in UNION {[1..n -> Events] : n \in 0..3}}

MCTests ==
  {[of |-> "tests", added |-> a] :
     a \in UNION {[1..n -> AddedLines] : n \in 0..4} \cup {<<"test">> \o t : t \in [1..4 -> AddedLines]}}
=============================================================================
