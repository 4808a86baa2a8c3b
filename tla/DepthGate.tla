----------------------------- MODULE DepthGate -----------------------------
(***************************************************************************)
(* What an answer is held to: the contract of its adapter (cc_ledger.py)   *)
(* and the arithmetic of the gate (cc-depth-gate.py, evaluate), which the  *)
(* Stop hook and the scripted driver share.                                *)
(*                                                                         *)
(* A file holds a version of its text, and a version is lines.  A session  *)
(* has looked: Read a file, which showed a version whole, or searched; and *)
(* it has run commands, in an order, each with its outcome and what it     *)
(* printed.  A piece of evidence is a quote (a file, a line of it, and the *)
(* number it is said to have, nought if none is said), a command with what *)
(* it is said to have printed, or a pattern that is in a log or nowhere in *)
(* the tree.  How quotes of several lines, reads of parts of a file and    *)
(* commands are compared in full is module Citations.                      *)
(***************************************************************************)
EXTENDS Integers, SequencesExt

CONSTANTS
  Versions,   \* the versions of a file's text
  Text,       \* the lines of each
  Telling,    \* of the lines of each, those over 12 characters, the 20 longest at most
  Hollow,     \* those whose added tests assert nothing but the wiring
  Inert,      \* those that add a parameter no caller passes
  Logged,     \* the patterns that are in the logs
  ClaimCap    \* how many claims are judged: 12

None == "none"

ASSUME GateAssumption ==
  /\ Hollow \subseteq Versions /\ Inert \subseteq Versions /\ ClaimCap \in Nat
  /\ \A v \in Versions : /\ Text[v] \in Seq(ToSet(Text[v])) /\ None \notin ToSet(Text[v])
                         /\ Telling[v] \subseteq ToSet(Text[v])

Asks ==
  [wants |-> {}, probes |-> 0, defects |-> FALSE, disproofs |-> TRUE,
   measures |-> 0, redGreen |-> FALSE, predicts |-> FALSE]

ADAPTERS ==
  [review |-> [Asks EXCEPT !.wants = {{"quote", "command"}}, !.defects = TRUE],
   debug |-> [Asks EXCEPT !.wants = {{"command"}}, !.probes = 2],
   refactor_proposal |-> [Asks EXCEPT !.wants = {{"quote"}, {"absence"}}, !.probes = 1],
   ops_perf |-> [Asks EXCEPT !.wants = {{"log"}}, !.probes = 1, !.measures = 2],
   change_plan |-> [Asks EXCEPT !.wants = {{"quote"}}, !.disproofs = FALSE, !.predicts = TRUE],
   implement |-> [Asks EXCEPT !.wants = {{"command"}}, !.probes = 3, !.disproofs = FALSE,
                              !.redGreen = TRUE],
   bench_audit |-> [Asks EXCEPT !.wants = {{"command"}, {"quote"}}, !.probes = 2]]

----------------------------------------------------------------------------
(* The runs of a session. *)

\* A seeded fault: a call the client refused counts as a run that failed.
Ran_Refused(c) == TRUE

Ran(c) == c.ok \/ ~c.blocked

\* _is_probe: a command that only looks around disproves nothing.  The places of
\* the others among the runs.
Probes(runs) == {i \in DOMAIN runs : Ran(runs[i]) /\ runs[i].cmd # "look"}

Was_run(cmd, runs) == \E i \in Probes(runs) : runs[i].cmd = cmd

\* _red_then_green: the failing runs that a later run of the same command made
\* good, the first failure of each command.
Same(runs, i) == {j \in Probes(runs) : runs[j].cmd = runs[i].cmd}
Reds(runs) ==
  {i \in Probes(runs) :
     /\ ~runs[i].ok
     /\ \A j \in Same(runs, i) : j < i => runs[j].ok
     /\ \E j \in Same(runs, i) : j > i /\ runs[j].ok}

\* The one taken is of the command that was run first.
Red(runs) ==
  CHOOSE i \in Reds(runs) : \A j \in Reds(runs) : Min(Same(runs, i)) <= Min(Same(runs, j))

As_predicted(red, predicted) == red.prints = "" \/ red.prints \in predicted
Behavioural(red) == red.prints # "interface"

----------------------------------------------------------------------------
(* The evidence. *)

\* The lines of a version where a quote is, at the number it says if it says one.
Places(p, v) == {k \in DOMAIN Text[v] : Text[v][k] = p.says /\ p.at \in {0, k}}

\* locate: the first of them.
Located(p, v) == {k \in Places(p, v) : \A j \in Places(p, v) : k <= j}

log_match(pattern) == pattern \in Logged
absence(tree, pattern) == \A f \in DOMAIN tree : pattern \notin ToSet(Text[tree[f]])

\* _check.
Check(p, tree, runs) ==
  CASE p.kind = "quote" -> Places(p, tree[p.file]) # {}
    [] p.kind = "command" ->
         \E c \in ToSet(runs) :
           c.cmd = p.cmd /\ ((c.ok /\ p.says = "passed") \/ (c.blocked /\ p.says = "blocked"))
    [] p.kind = "log" -> log_match(p.says)
    [] p.kind = "absence" -> absence(tree, p.says)

\* covers, of the line a quote has or is found at, and _was_searched.
Seen(p, tree, looks) ==
  CASE p.kind = "quote" ->
         \E l \in looks : /\ l.does = "read" /\ l.file = p.file
                         /\ Located(p, tree[p.file]) \subseteq DOMAIN Text[l.saw]
    [] p.kind \in {"log", "absence"} -> [does |-> "search", file |-> None, saw |-> p.says] \in looks
    [] OTHER -> TRUE

\* _drifted: a line the Read displayed, long enough to tell, is nowhere in the
\* file now.  Lines put in, moved or shorter leave no trace of this kind.
Drifted(saw, now) == Telling[saw] \ ToSet(Text[now]) # {}

\* A seeded fault: a file that moved under the stage is held against it.
Read_showed_Never(p, tree, looks) == FALSE

\* _read_showed: a Read displayed the line quoted, wherever it stood, of a file
\* that has drifted since.
Read_showed(p, tree, looks) ==
  p.kind = "quote" /\ \E l \in looks : /\ l.does = "read" /\ l.file = p.file
                                      /\ p.says \in ToSet(Text[l.saw])
                                      /\ Drifted(l.saw, tree[p.file])

Verdict(p, s) ==
  IF ~Check(p, s.tree, s.runs) THEN IF Read_showed(p, s.tree, s.looks) THEN "moved" ELSE "fails"
  ELSE IF s.coverage /\ ~Seen(p, s.tree, s.looks) THEN "unseen" ELSE "holds"

----------------------------------------------------------------------------
(* evaluate: what is missing from an answer, and the claims that stood.  s  *)
(* is what the session did and found: its looks and runs, the tree as it is *)
(* now, whether its transcript is there, and what was foretold.             *)

Is_opinion(c) == c.opinion /\ c.disproof = None

ClaimGaps(asks, c, s) ==
  IF c.pieces = {} THEN {"cites nothing"}
  ELSE {v \in {Verdict(p, s) : p \in c.pieces} : v \in {"fails", "unseen"}}
       \cup {g \in {"opinion"} : asks.defects /\ Is_opinion(c)}
       \cup {g \in {"not disproved"} : c.high /\ asks.disproofs
                                        /\ (c.disproof = None \/ ~Was_run(c.disproof, s.runs))}

\* What a changing task is asked for: the failure its plan foretold, then a pass.
RedGreenGaps(runs, predicted) ==
  IF Reds(runs) = {} THEN {"no red then green"}
  ELSE LET red == runs[Red(runs)]
       IN IF predicted # {} /\ ~As_predicted(red, predicted) THEN {"not as predicted"}
          ELSE {g \in {"not behavioural"} : ~Behavioural(red)}

\* cc_diff, on the files as they were changed.
hollow_tests(tree) == {f \in DOMAIN tree : tree[f] \in Hollow}
inert_parameters(tree) == {f \in DOMAIN tree : tree[f] \in Inert}

DiffGaps(tree) ==
  {g \in {"hollow"} : hollow_tests(tree) # {}} \cup {g \in {"inert"} : inert_parameters(tree) # {}}

\* A seeded fault: a claim whose file moved is handed on as one that held up.
Stands_Moved(asks, c, s) ==
  c.pieces # {} /\ ClaimGaps(asks, c, s) = {}

Stands(asks, c, s) ==
  /\ c.pieces # {} /\ ClaimGaps(asks, c, s) = {}
  /\ \A p \in c.pieces : Verdict(p, s) # "moved"

\* The claims that are judged.
Taken(answer) == SubSeq(answer.claims, 1, Min({ClaimCap, Len(answer.claims)}))

\* What the answer as a whole is short of.
AnswerGaps(asks, answer, s) ==
  LET claims == Taken(answer)
      pieces == UNION {{<<i, p>> : p \in claims[i].pieces} : i \in DOMAIN claims}
      measured == Cardinality({x \in pieces : x[2].kind \in {"log", "command"}})
      missing == claims # <<>> /\ \E g \in asks.wants : \A x \in pieces : x[2].kind \notin g
  IN {g \in {"too many"} : Len(answer.claims) > ClaimCap}
     \cup {g \in {"nothing stated"} : claims = <<>> /\ ~answer.unknown}
     \cup {g \in {"evidence of this kind"} : missing}
     \cup {g \in {"not even unknown"} : missing /\ ~answer.unknown}
     \cup {g \in {"commands run"} : Cardinality(Probes(s.runs)) < asks.probes}
     \cup {g \in RedGreenGaps(s.runs, s.foretold) \cup DiffGaps(s.tree) : asks.redGreen}
     \cup {g \in {"no prediction"} : asks.predicts /\ answer.predicts = {}}
     \cup {g \in {"measurements"} : measured < asks.measures}

Evaluate(asks, answer, s) ==
  LET claims == Taken(answer)
  IN [stood |-> {i \in DOMAIN claims : Stands(asks, claims[i], s)},
      gaps |-> (UNION {{[claim |-> i, why |-> g] : g \in ClaimGaps(asks, claims[i], s)} :
                         i \in DOMAIN claims})
               \cup {[claim |-> 0, why |-> g] : g \in AnswerGaps(asks, answer, s)}]

=============================================================================
