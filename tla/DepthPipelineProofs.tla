------------------------ MODULE DepthPipelineProofs ------------------------
(***************************************************************************)
(* Proofs about DepthPipeline: what an answer is accepted for is so, for   *)
(* any tree, any answers, any requests and any number of changes.          *)
(*                                                                         *)
(* Two of the three invariants are about the arithmetic of the gate, and   *)
(* need of the state only that files hold versions of their text and that  *)
(* a Read showed one.  The third, that an accepted failure and pass are    *)
(* runs on two different trees, needs what a session can record of a run:  *)
(* one that was not refused had one outcome on one tree (Honest).          *)
(***************************************************************************)
EXTENDS DepthPipeline, TLAPS

Trees == [Files -> Versions]

\* A run only looked around, was refused, or ended as the tree had it.
Honest(c) ==
  \/ c.cmd = "look"
  \/ c.blocked /\ ~c.ok
  \/ /\ ~c.blocked
     /\ \E t \in Trees : c.on = {t} /\ (c.ok <=> \A f \in Files : t[f] \notin Failing)

TreeIsText == tree \in Trees
LooksAreAtText == \A l \in looks : l.does = "read" => l.saw \in Versions
RunsAreHonest == runs \in Seq({c \in ToSet(runs) : Honest(c)})

IInv == TreeIsText /\ LooksAreAtText /\ RunsAreHonest

----------------------------------------------------------------------------
(* The arithmetic of the gate. *)

\* The claims that are judged are the first of those made.
LEMMA TakenFirst ==
  ASSUME NEW a \in Answers
  PROVE  /\ a.claims \in Seq(ToSet(a.claims))
         /\ DOMAIN Taken(a) \subseteq DOMAIN a.claims
         /\ \A i \in DOMAIN Taken(a) : i \in Nat \ {0} /\ Taken(a)[i] = a.claims[i]
<1> DEFINE n == Min({ClaimCap, Len(a.claims)})
<1>1. a.claims \in Seq(ToSet(a.claims)) /\ Len(a.claims) \in Nat
  BY PipelineAssumption
<1>2. n \in Nat /\ n <= Len(a.claims)
  <2>1. ClaimCap \in Nat
    BY GateAssumption
  <2>2. \E x \in {ClaimCap, Len(a.claims)} : \A y \in {ClaimCap, Len(a.claims)} : x <= y
    BY <1>1, <2>1
  <2> QED BY <1>1, <2>1, <2>2 DEF Min
<1>3. Taken(a) = SubSeq(a.claims, 1, n)
  BY DEF Taken
<1> HIDE DEF n
<1>4. DOMAIN Taken(a) = 1..n /\ \A i \in 1..n : Taken(a)[i] = a.claims[i]
  BY <1>1, <1>2, <1>3
<1>5. DOMAIN a.claims = 1..Len(a.claims)
  BY <1>1
<1> QED BY <1>1, <1>2, <1>4, <1>5

\* The two kinds of gaps of a judgement.
ClaimRows(asks, a, s) ==
  UNION {{[claim |-> i, why |-> g] : g \in ClaimGaps(asks, Taken(a)[i], s)} : i \in DOMAIN Taken(a)}
AnswerRows(asks, a, s) == {[claim |-> 0, why |-> g] : g \in AnswerGaps(asks, a, s)}

LEMMA Judgement ==
  ASSUME NEW asks, NEW a, NEW s
  PROVE  /\ Evaluate(asks, a, s).stood = {i \in DOMAIN Taken(a) : Stands(asks, Taken(a)[i], s)}
         /\ Evaluate(asks, a, s).gaps = ClaimRows(asks, a, s) \cup AnswerRows(asks, a, s)
<1> DEFINE S == {i \in DOMAIN Taken(a) : Stands(asks, Taken(a)[i], s)}
           G == (UNION {{[claim |-> i, why |-> g] : g \in ClaimGaps(asks, Taken(a)[i], s)} :
                          i \in DOMAIN Taken(a)})
                \cup {[claim |-> 0, why |-> g] : g \in AnswerGaps(asks, a, s)}
<1>1. Evaluate(asks, a, s) = [stood |-> S, gaps |-> G]
  BY Zenon DEF Evaluate
<1>2. G = ClaimRows(asks, a, s) \cup AnswerRows(asks, a, s)
  BY DEF ClaimRows, AnswerRows
<1> HIDE DEF S, G
<1>3. Evaluate(asks, a, s).stood = S /\ Evaluate(asks, a, s).gaps = G
  BY <1>1
<1> QED BY <1>2, <1>3 DEF S

\* What an answer is refused for under the number of a claim is what that claim
\* is short of, and under nought what the whole is.
LEMMA RefusalsOfAClaim ==
  ASSUME NEW asks, NEW a \in Answers, NEW s, NEW i \in Nat \ {0}
  PROVE  \A w \in Refusals(Evaluate(asks, a, s), i) :
           i \in DOMAIN Taken(a) /\ w \in ClaimGaps(asks, Taken(a)[i], s)
<1>1. \A g \in AnswerRows(asks, a, s) : g.claim = 0
  BY DEF AnswerRows
<1>2. \A g \in ClaimRows(asks, a, s) :
        g.claim \in DOMAIN Taken(a) /\ g.why \in ClaimGaps(asks, Taken(a)[g.claim], s)
  BY DEF ClaimRows
<1>3. Evaluate(asks, a, s).gaps = ClaimRows(asks, a, s) \cup AnswerRows(asks, a, s)
  BY Judgement
<1> QED BY <1>1, <1>2, <1>3 DEF Refusals

LEMMA ClaimIsRefused ==
  ASSUME NEW asks, NEW a \in Answers, NEW s, NEW i \in DOMAIN Taken(a),
         NEW p \in Taken(a)[i].pieces, Verdict(p, s) = "fails"
  PROVE  "fails" \in Refusals(Evaluate(asks, a, s), i)
<1> DEFINE c == Taken(a)[i]
           V == {v \in {Verdict(q, s) : q \in c.pieces} : v \in {"fails", "unseen"}}
<1>1. "fails" \in V /\ c.pieces # {}
  OBVIOUS
<1>2. V \subseteq ClaimGaps(asks, c, s)
  BY <1>1, Zenon DEF ClaimGaps
<1> HIDE DEF V
<1>3. [claim |-> i, why |-> "fails"] \in ClaimRows(asks, a, s)
  BY <1>1, <1>2 DEF ClaimRows
<1>4. Evaluate(asks, a, s).gaps = ClaimRows(asks, a, s) \cup AnswerRows(asks, a, s)
  BY Judgement
<1> QED BY <1>3, <1>4 DEF Refusals

LEMMA RefusalsOfTheWhole ==
  ASSUME NEW asks, NEW a \in Answers, NEW s, NEW w \in AnswerGaps(asks, a, s)
  PROVE  w \in Refusals(Evaluate(asks, a, s), 0)
<1>1. [claim |-> 0, why |-> w] \in AnswerRows(asks, a, s)
  BY DEF AnswerRows
<1>2. Evaluate(asks, a, s).gaps = ClaimRows(asks, a, s) \cup AnswerRows(asks, a, s)
  BY Judgement
<1> QED BY <1>1, <1>2 DEF Refusals

\* A piece of evidence that is neither refused nor excused is as the tree has it.
LEMMA HoldsIsChecked ==
  ASSUME NEW p, NEW s, Verdict(p, s) \notin {"fails", "unseen", "moved"}
  PROVE  Check(p, s.tree, s.runs)
BY DEF Verdict

\* A claim stands if all it cites holds.
LEMMA StandsIsChecked ==
  ASSUME NEW asks, NEW c, NEW s, Stands(asks, c, s), NEW p \in c.pieces
  PROVE  Check(p, s.tree, s.runs)
<1>1. Verdict(p, s) # "moved" /\ ClaimGaps(asks, c, s) = {} /\ c.pieces # {}
  BY DEF Stands
<1>2. {v \in {Verdict(q, s) : q \in c.pieces} : v \in {"fails", "unseen"}} = {}
  BY <1>1, Zenon DEF ClaimGaps
<1>3. Verdict(p, s) \notin {"fails", "unseen"}
  BY <1>2
<1> QED BY <1>1, <1>3, HoldsIsChecked

\* What a Read of the session showed where it is said, and the tree still has
\* there or has visibly lost, is neither refused nor unseen.
LEMMA ShownIsExcused ==
  ASSUME NEW p, NEW s, NEW l \in s.looks, p.kind = "quote", l.does = "read", l.file = p.file,
         Places(p, l.saw) # {},
         \/ Places(p, s.tree[p.file]) = Places(p, l.saw)
         \/ Places(p, s.tree[p.file]) = {} /\ Drifted(l.saw, s.tree[p.file])
  PROVE  Verdict(p, s) \notin {"fails", "unseen"}
<1>1. CASE Places(p, s.tree[p.file]) = Places(p, l.saw)
  <2>1. Check(p, s.tree, s.runs)
    BY <1>1 DEF Check
  <2>2. Located(p, s.tree[p.file]) \subseteq DOMAIN Text[l.saw]
    BY <1>1 DEF Located, Places
  <2>3. Seen(p, s.tree, s.looks)
    BY <2>2 DEF Seen
  <2> QED BY <2>1, <2>3 DEF Verdict
<1>2. CASE Places(p, s.tree[p.file]) = {} /\ Drifted(l.saw, s.tree[p.file])
  <2>1. ~Check(p, s.tree, s.runs)
    BY <1>2 DEF Check
  <2>2. p.says \in ToSet(Text[l.saw])
    BY DEF Places, ToSet
  <2>3. Read_showed(p, s.tree, s.looks)
    BY <1>2, <2>2 DEF Read_showed
  <2> QED BY <2>1, <2>3 DEF Verdict
<1> QED BY <1>1, <1>2

\* A file that has drifted from a version is not at that version.
LEMMA DriftedIsChanged ==
  ASSUME NEW v \in Versions, NEW w, Drifted(v, w)
  PROVE  v # w
<1>1. Telling[v] \subseteq ToSet(Text[v])
  BY GateAssumption
<1> QED BY <1>1 DEF Drifted

\* What the tree does not have and no Read showed of another version is refused.
LEMMA MadeFails ==
  ASSUME NEW p, NEW s, p.kind = "quote", Places(p, s.tree[p.file]) = {},
         \A l \in s.looks : l.does = "read" => l.saw \in Versions,
         \A l \in s.looks : l.does = "read" /\ l.file = p.file /\ l.saw # s.tree[p.file] =>
           \A k \in DOMAIN Text[l.saw] : Text[l.saw][k] # p.says
  PROVE  Verdict(p, s) = "fails"
<1>1. ~Check(p, s.tree, s.runs)
  BY DEF Check
<1>2. ~Read_showed(p, s.tree, s.looks)
  <2> SUFFICES ASSUME NEW l \in s.looks, l.does = "read", l.file = p.file,
                      p.says \in ToSet(Text[l.saw]), Drifted(l.saw, s.tree[p.file])
               PROVE  FALSE
    BY DEF Read_showed
  <2>1. l.saw # s.tree[p.file]
    BY DriftedIsChanged
  <2>2. \A k \in DOMAIN Text[l.saw] : Text[l.saw][k] # p.says
    BY <2>1
  <2> QED BY <2>2 DEF ToSet
<1> QED BY <1>1, <1>2 DEF Verdict

LEMMA ShownClaimIsExcused ==
  ASSUME NEW asks, NEW c, NEW s, c.pieces # {},
         \A p \in c.pieces : Verdict(p, s) \notin {"fails", "unseen"}
  PROVE  ClaimGaps(asks, c, s) \cap {"fails", "unseen"} = {}
<1> DEFINE V == {v \in {Verdict(p, s) : p \in c.pieces} : v \in {"fails", "unseen"}}
           O == {g \in {"opinion"} : asks.defects /\ Is_opinion(c)}
           D == {g \in {"not disproved"} : c.high /\ asks.disproofs
                                        /\ (c.disproof = None \/ ~Was_run(c.disproof, s.runs))}
<1>1. ClaimGaps(asks, c, s) = V \cup O \cup D
  BY DEF ClaimGaps
<1>2. V = {} /\ O \subseteq {"opinion"} /\ D \subseteq {"not disproved"}
  OBVIOUS
<1> HIDE DEF V, O, D
<1> QED BY <1>1, <1>2

\* No failing run is asked for unless none was made good.
LEMMA RedsWereAsked ==
  ASSUME NEW asks, NEW a \in Answers, NEW s, asks.redGreen,
         "no red then green" \notin AnswerGaps(asks, a, s)
  PROVE  Reds(s.runs) # {}
<1> SUFFICES ASSUME Reds(s.runs) = {}
             PROVE  FALSE
  OBVIOUS
<1>1. RedGreenGaps(s.runs, s.foretold) = {"no red then green"}
  BY DEF RedGreenGaps
<1>2. {g \in RedGreenGaps(s.runs, s.foretold) \cup DiffGaps(s.tree) : asks.redGreen}
        \subseteq AnswerGaps(asks, a, s)
  BY Zenon DEF AnswerGaps
<1> QED BY <1>1, <1>2

----------------------------------------------------------------------------
(* The invariant. *)

THEOREM InitIInv ==
  Init => IInv
<1> SUFFICES ASSUME Init
             PROVE  IInv
  OBVIOUS
<1>1. TreeIsText
  BY PipelineAssumption DEF Init, TreeIsText, Trees
<1>2. LooksAreAtText /\ RunsAreHonest
  BY DEF Init, LooksAreAtText, RunsAreHonest
<1> QED BY <1>1, <1>2 DEF IInv

\* A change of one file leaves each file with a version of its text.
LEMMA ChangedTree ==
  ASSUME TreeIsText,
         \E f \in Files, v \in Versions : v # tree[f] /\ tree' = [tree EXCEPT ![f] = v]
  PROVE  TreeIsText'
BY DEF TreeIsText, Trees

\* What is left alone stays so.
LEMMA KeptLooks ==
  ASSUME LooksAreAtText, looks' = looks \/ looks' = {}
  PROVE  LooksAreAtText'
BY DEF LooksAreAtText

LEMMA KeptRuns ==
  ASSUME RunsAreHonest, runs' = runs \/ runs' = <<>>
  PROVE  RunsAreHonest'
<1>1. CASE runs' = runs
  BY <1>1 DEF RunsAreHonest
<1>2. CASE runs' = <<>>
  BY <1>2 DEF RunsAreHonest
<1> QED BY <1>1, <1>2

LEMMA HonestRuns ==
  ASSUME RunsAreHonest
  PROVE  \A k \in DOMAIN runs : Honest(runs[k]) /\ k \in Nat
<1> DEFINE H == {c \in ToSet(runs) : Honest(c)}
<1>1. runs \in Seq(H)
  BY DEF RunsAreHonest
<1>2. \A c \in H : Honest(c)
  OBVIOUS
<1> HIDE DEF H
<1>3. \A k \in DOMAIN runs : runs[k] \in H /\ k \in Nat
  BY <1>1
<1> QED BY <1>2, <1>3

\* One more honest run.
LEMMA MoreRuns ==
  ASSUME RunsAreHonest, NEW c, Honest(c), runs' = Append(runs, c)
  PROVE  RunsAreHonest'
<1> DEFINE H == {d \in ToSet(runs) : Honest(d)}
           K == {d \in ToSet(runs') : Honest(d)}
<1>1. runs \in Seq(H)
  BY DEF RunsAreHonest
<1>2. runs \in Seq(H \cup {c}) /\ Len(runs) \in Nat
  BY <1>1
<1>3. runs' \in Seq(H \cup {c}) /\ Len(runs') = Len(runs) + 1
  BY <1>2
<1>4. \A i \in 1..Len(runs') : runs'[i] \in K
  <2>1. \A i \in 1..Len(runs') : runs'[i] \in ToSet(runs')
    BY <1>3 DEF ToSet
  <2>2. \A d \in H \cup {c} : Honest(d)
    OBVIOUS
  <2>3. \A i \in 1..Len(runs') : runs'[i] \in H \cup {c}
    BY <1>3
  <2> QED BY <2>1, <2>2, <2>3
<1>5. runs' \in Seq(K)
  <2> HIDE DEF H, K
  <2> QED BY <1>3, <1>4
<1> QED BY <1>5 DEF RunsAreHonest

\* What a session records of a command it runs is how the tree had it.
LEMMA RunsAsTheTreeHasIt ==
  ASSUME TreeIsText, RunsAreHonest, RunCommand
  PROVE  RunsAreHonest'
<1>1. CASE Run("look", TRUE, "passed", {})
  <2>1. Honest([cmd |-> "look", ok |-> TRUE, blocked |-> "passed" = "blocked",
                prints |-> "passed", on |-> {}])
    BY DEF Honest
  <2> QED BY <1>1, <2>1, MoreRuns DEF Run
<1>2. CASE Run("test", FALSE, "blocked", {})
  <2>1. Honest([cmd |-> "test", ok |-> FALSE, blocked |-> "blocked" = "blocked",
                prints |-> "blocked", on |-> {}])
    BY DEF Honest
  <2> QED BY <1>2, <2>1, MoreRuns DEF Run
<1>3. CASE (\A f \in Files : tree[f] \notin Failing) /\ Run("test", TRUE, "passed", {tree})
  <2>1. Honest([cmd |-> "test", ok |-> TRUE, blocked |-> "passed" = "blocked",
                prints |-> "passed", on |-> {tree}])
    BY <1>3 DEF Honest, TreeIsText
  <2> QED BY <1>3, <2>1, MoreRuns DEF Run
<1>4. ASSUME \E f \in Files : tree[f] \in Failing, NEW p \in Prints, Run("test", FALSE, p, {tree})
      PROVE  RunsAreHonest'
  <2>1. Honest([cmd |-> "test", ok |-> FALSE, blocked |-> p = "blocked",
                prints |-> p, on |-> {tree}])
    BY <1>4 DEF Honest, TreeIsText
  <2> QED BY <1>4, <2>1, MoreRuns DEF Run
<1> QED BY <1>1, <1>2, <1>3, <1>4 DEF RunCommand

\* A Read shows a version of a file's text.
LEMMA LooksAtText ==
  ASSUME IInv, ReadFile \/ Search
  PROVE  LooksAreAtText'
<1>1. ASSUME NEW f \in Files, Look([does |-> "read", file |-> f, saw |-> tree[f]])
      PROVE  LooksAreAtText'
  BY <1>1 DEF IInv, TreeIsText, Trees, LooksAreAtText, Look
<1>2. ASSUME NEW w \in Patterns, Look([does |-> "search", file |-> None, saw |-> w])
      PROVE  LooksAreAtText'
  BY <1>2 DEF IInv, LooksAreAtText, Look
<1> QED BY <1>1, <1>2 DEF ReadFile, Search

THEOREM NextIInv ==
  IInv /\ [Next]_vars => IInv'
<1> SUFFICES ASSUME IInv, [Next]_vars
             PROVE  IInv'
  OBVIOUS
<1> USE DEF IInv
<1>1. CASE ReadFile \/ Search
  <2>1. tree' = tree /\ runs' = runs
    BY <1>1 DEF ReadFile, Search, Look
  <2>2. TreeIsText' /\ RunsAreHonest'
    BY <2>1, KeptRuns DEF TreeIsText
  <2> QED BY <1>1, <2>2, LooksAtText
<1>2. CASE RunCommand
  <2>1. tree' = tree /\ looks' = looks
    BY <1>2 DEF RunCommand, Run
  <2>2. TreeIsText' /\ LooksAreAtText'
    BY <2>1, KeptLooks DEF TreeIsText
  <2> QED BY <1>2, <2>2, RunsAsTheTreeHasIt
<1>3. CASE Change \/ OthersChange
  <2>1. looks' = looks /\ runs' = runs
    BY <1>3 DEF Change, OthersChange
  <2>2. TreeIsText'
    BY <1>3, ChangedTree DEF Change, OthersChange
  <2> QED BY <2>1, <2>2, KeptLooks, KeptRuns
<1>4. ASSUME tree' = tree,
             (looks' = looks /\ runs' = runs) \/ (looks' = {} /\ runs' = <<>>)
      PROVE  IInv'
  BY <1>4, KeptLooks, KeptRuns DEF TreeIsText
<1>5. CASE Flow
  <2>1. tree' = tree
    BY <1>5 DEF Flow, Refuse, LockHeld, LockFree, TakeLock, Unlock, BeginStage, HandOn
  <2>2. (looks' = looks /\ runs' = runs) \/ (looks' = {} /\ runs' = <<>>)
    BY <1>5 DEF Flow, Refuse, LockHeld, LockFree, TakeLock, Unlock, BeginStage, HandOn, Closed, session
  <2> QED BY <1>4, <2>1, <2>2
<1>6. CASE Reply \/ NoReply
  <2>1. tree' = tree
    BY <1>6 DEF Reply, NoReply
  <2>2. (looks' = looks /\ runs' = runs) \/ (looks' = {} /\ runs' = <<>>)
    BY <1>6 DEF Reply, NoReply, Closed, session
  <2> QED BY <1>4, <2>1, <2>2
<1>7. CASE Die("me") \/ Die("other")
  <2>1. tree' = tree
    BY <1>7 DEF Die
  <2>2. (looks' = looks /\ runs' = runs) \/ (looks' = {} /\ runs' = <<>>)
    BY <1>7 DEF Die, Closed, session
  <2> QED BY <1>4, <2>1, <2>2
<1>8. CASE LockHeld("other") \/ LockFree("other") \/ TakeLock("other") \/ Unlock("other") \/ OtherEnds
  <2>1. tree' = tree /\ looks' = looks /\ runs' = runs
    BY <1>8 DEF LockHeld, LockFree, TakeLock, Unlock, OtherEnds, session
  <2> QED BY <1>4, <2>1
<1>9. CASE UNCHANGED vars
  <2>1. tree' = tree /\ looks' = looks /\ runs' = runs
    BY <1>9 DEF vars, session
  <2> QED BY <1>4, <2>1
<1> QED BY <1>1, <1>2, <1>3, <1>5, <1>6, <1>7, <1>8, <1>9 DEF Next, Session

\* In every state of a run the files hold versions of their text, each Read
\* showed one, and each run ended as the tree had it.
THEOREM Invariant ==
  Spec => []IInv
<1>1. Init => IInv
  BY InitIInv
<1>2. IInv /\ [Next]_vars => IInv'
  BY NextIInv
<1> QED BY <1>1, <1>2, PTL DEF Spec

----------------------------------------------------------------------------
(* What is accepted is so. *)

\* The line quoted is in the tree, at the number it says if it says one.
Standing(p) ==
  \E k \in DOMAIN Text[tree[p.file]] : Text[tree[p.file]][k] = p.says /\ p.at \in {0, k}

\* evaluate: a claim that stood has no gap against it, and each quote under it
\* is in the tree as it is when it is judged, whoever changed it since.
THEOREM StoodIsChecked ==
  Spec => []StoodWasChecked
<1>1. StoodWasChecked
  <2> SUFFICES ASSUME NEW a \in Answers, NEW coverage \in BOOLEAN,
                      NEW i \in Report(a, coverage).stood
               PROVE  /\ Refusals(Report(a, coverage), i) = {}
                      /\ \A p \in a.claims[i].pieces : p.kind = "quote" => Standing(p)
    BY DEF StoodWasChecked, Standing
  <2> DEFINE s == Found(coverage)
             c == Taken(a)[i]
  <2>1. Report(a, coverage) = Evaluate(Contract, a, s)
    BY DEF Report
  <2>2. s.tree = tree
    BY DEF Found
  <2> HIDE DEF s
  <2>3. i \in DOMAIN Taken(a) /\ Stands(Contract, c, s)
    BY <2>1, Judgement
  <2>4. i \in Nat \ {0} /\ c = a.claims[i]
    BY <2>3, TakenFirst
  <2>5. ClaimGaps(Contract, c, s) = {}
    BY <2>3 DEF Stands
  <2>6. Refusals(Report(a, coverage), i) = {}
    BY <2>1, <2>4, <2>5, RefusalsOfAClaim
  <2>7. ASSUME NEW p \in c.pieces, p.kind = "quote"
        PROVE  Standing(p)
    <3>1. Check(p, s.tree, s.runs)
      BY <2>3, StandsIsChecked
    <3>2. Places(p, tree[p.file]) # {}
      BY <2>2, <2>7, <3>1 DEF Check
    <3> QED BY <3>2 DEF Places, Standing
  <2> QED BY <2>4, <2>6, <2>7
<1> QED BY <1>1, PTL DEF Spec

\* _read_showed: a claim that cites only what a Read of this session showed where
\* it says is neither refused nor told to read it, though the tree has visibly
\* moved; and one that cites what neither the tree has nor a Read showed of a
\* version that is gone is refused.
THEOREM ShownIsAccepted ==
  Spec => []ShownIsNotRefused
<1>1. IInv => ShownIsNotRefused
  <2> SUFFICES ASSUME IInv, NEW a \in Answers, NEW coverage \in BOOLEAN, NEW i \in DOMAIN Taken(a)
               PROVE  /\ a.claims[i].pieces # {} /\ (\A p \in a.claims[i].pieces : Shown(p))
                           => Refusals(Report(a, coverage), i) \cap {"fails", "unseen"} = {}
                      /\ (\E p \in a.claims[i].pieces : Made(p))
                           => "fails" \in Refusals(Report(a, coverage), i)
    BY DEF ShownIsNotRefused
  <2> DEFINE s == Found(coverage)
             c == Taken(a)[i]
  <2>1. Report(a, coverage) = Evaluate(Contract, a, s)
    BY DEF Report
  <2>2. s.looks = looks /\ s.tree = tree
    BY DEF Found
  <2> HIDE DEF s
  <2>3. i \in Nat \ {0} /\ c = a.claims[i]
    BY TakenFirst
  <2>4. ASSUME c.pieces # {}, \A p \in c.pieces : Shown(p)
        PROVE  Refusals(Report(a, coverage), i) \cap {"fails", "unseen"} = {}
    <3>1. ASSUME NEW p \in c.pieces
          PROVE  Verdict(p, s) \notin {"fails", "unseen"}
      <4>1. Shown(p)
        BY <2>4
      <4>2. PICK l \in looks : /\ l.does = "read" /\ l.file = p.file /\ Places(p, l.saw) # {}
                               /\ \/ Places(p, tree[p.file]) = Places(p, l.saw)
                                  \/ Places(p, tree[p.file]) = {} /\ Drifted(l.saw, tree[p.file])
        BY <4>1 DEF Shown
      <4>3. p.kind = "quote"
        BY <4>1 DEF Shown
      <4> QED BY <2>2, <4>2, <4>3, ShownIsExcused
    <3>2. ClaimGaps(Contract, c, s) \cap {"fails", "unseen"} = {}
      BY <2>4, <3>1, ShownClaimIsExcused
    <3> QED BY <2>1, <2>3, <3>2, RefusalsOfAClaim
  <2>5. ASSUME NEW p \in c.pieces, Made(p)
        PROVE  "fails" \in Refusals(Report(a, coverage), i)
    <3>1. Verdict(p, s) = "fails"
      <4>1. \A l \in looks : l.does = "read" => l.saw \in Versions
        BY DEF IInv, LooksAreAtText
      <4> QED BY <2>2, <2>5, <4>1, MadeFails DEF Made
    <3> QED BY <2>1, <3>1, ClaimIsRefused
  <2> QED BY <2>3, <2>4, <2>5
<1> QED BY <1>1, Invariant, PTL DEF Spec

\* _red_then_green: a failure and then a pass that are accepted as the proof of a
\* change were run, in that order, on two different trees.
THEOREM RedIsARun ==
  Spec => []RedIsReal
<1>1. IInv => RedIsReal
  <2> SUFFICES ASSUME IInv, Contract.redGreen, NEW a \in Answers, NEW coverage \in BOOLEAN,
                      "no red then green" \notin Refusals(Report(a, coverage), 0)
               PROVE  \E i, j \in DOMAIN runs :
                        /\ i < j /\ runs[i].cmd = runs[j].cmd /\ ~runs[i].ok /\ runs[j].ok
                        /\ runs[i].on # {} /\ runs[i].on # runs[j].on
    BY DEF RedIsReal
  <2> DEFINE s == Found(coverage)
  <2>1. Report(a, coverage) = Evaluate(Contract, a, s)
    BY DEF Report
  <2>2. s.runs = runs
    BY DEF Found
  <2> HIDE DEF s
  <2>3. "no red then green" \notin AnswerGaps(Contract, a, s)
    BY <2>1, RefusalsOfTheWhole
  <2>4. Reds(runs) # {}
    BY <2>2, <2>3, RedsWereAsked
  <2>5. PICK i \in Probes(runs) : ~runs[i].ok /\ \E j \in Same(runs, i) : j > i /\ runs[j].ok
    BY <2>4 DEF Reds
  <2> PICK j \in Same(runs, i) : j > i /\ runs[j].ok
    BY <2>5
  <2>6. /\ i \in DOMAIN runs /\ runs[i].cmd # "look" /\ ~runs[i].blocked
        /\ j \in DOMAIN runs /\ runs[j].cmd # "look" /\ runs[j].cmd = runs[i].cmd
    BY <2>5 DEF Same, Probes, Ran
  <2>7. \A k \in DOMAIN runs : Honest(runs[k]) /\ k \in Nat
    BY HonestRuns DEF IInv
  <2>8. PICK t \in Trees : runs[i].on = {t} /\ ~\A f \in Files : t[f] \notin Failing
    BY <2>5, <2>6, <2>7 DEF Honest
  <2>9. PICK u \in Trees : runs[j].on = {u} /\ \A f \in Files : u[f] \notin Failing
    BY <2>5, <2>6, <2>7 DEF Honest
  <2>10. runs[i].on # {} /\ runs[i].on # runs[j].on
    <3>1. t # u
      BY <2>8, <2>9
    <3> QED BY <2>8, <2>9, <3>1
  <2>11. i < j /\ runs[i].cmd = runs[j].cmd /\ ~runs[i].ok /\ runs[j].ok
    BY <2>5, <2>6, <2>7
  <2> QED BY <2>6, <2>10, <2>11
<1> QED BY <1>1, Invariant, PTL DEF Spec

=============================================================================
