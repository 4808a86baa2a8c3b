--------------------------- MODULE DepthPipeline ---------------------------
(***************************************************************************)
(* The scripted driver (depth_pipeline.py): it takes the lock, puts each   *)
(* stage to a session of its own, has the answer judged, sends it back     *)
(* once, and hands it to the next stage.  A session reads, runs commands   *)
(* and, whatever tools it is denied, changes files through the shell.      *)
(* The other driver is modelled by what it does to what they share: the    *)
(* lock and the tree.                                                      *)
(***************************************************************************)
EXTENDS DepthGate

CONSTANTS
  Files, First,       \* the tree, and the version its files hold at first
  Failing,            \* the versions a test fails under
  Requests,           \* what the driver may be asked: an adapter, stages, and
                      \* whether another driver is started beside it
  Answers,            \* the answers a session may give
  Prints,             \* what a failing test may print
  Patterns,           \* what a session may search for
  MaxChanges,         \* bound: changes a session makes to the tree, one more to prove one
  MaxOthers           \* bound: changes others make during it

ASSUME PipelineAssumption ==
  /\ First \in Versions /\ Failing \subseteq Versions
  /\ {MaxChanges, MaxOthers} \subseteq Nat
  /\ \A a \in Answers : a.claims \in Seq(ToSet(a.claims))

Drivers == {"me", "other"}

VARIABLES
  request,              \* [adapter, stages, other], chosen once
  pc,                   \* where each driver is
  lock,                 \* the lock file: the driver it names, or None
  tree,                 \* the version each file holds
  looks, runs, round,   \* the session of the stage, and whether it was sent back
  watched,              \* the tree it found
  refused, foretold,    \* of its last answer: whether it has gaps, and what it predicts
  results,              \* what run_flow has gathered: per stage its outcome
  plan,                 \* what the plan predicted
  changes, others       \* history: changes in this session, and by others in it

session == <<looks, runs, round, watched, refused, foretold, changes, others>>
vars == <<request, pc, lock, tree, session, results, plan>>

Init ==
  /\ request \in Requests
  /\ pc = [d \in Drivers |-> IF d = "me" \/ request.other THEN "start" ELSE "done"]
  /\ lock = None
  /\ tree = [f \in Files |-> First]
  /\ looks = {} /\ runs = <<>> /\ round = 0 /\ watched = tree /\ refused = FALSE /\ foretold = {}
  /\ results = <<>> /\ plan = {} /\ changes = 0 /\ others = 0

----------------------------------------------------------------------------
(* cc_flow: the stages. *)

Stages ==
  [survey    |-> [adapter |-> None, judged |-> FALSE, writes |-> FALSE, blocking |-> FALSE],
   claims    |-> [adapter |-> None, judged |-> TRUE, writes |-> FALSE, blocking |-> TRUE],
   adversary |-> [adapter |-> None, judged |-> TRUE, writes |-> FALSE, blocking |-> FALSE],
   plan      |-> [adapter |-> "change_plan", judged |-> TRUE, writes |-> FALSE, blocking |-> TRUE],
   implement |-> [adapter |-> None, judged |-> FALSE, writes |-> TRUE, blocking |-> FALSE],
   verify    |-> [adapter |-> None, judged |-> TRUE, writes |-> FALSE, blocking |-> FALSE]]

Name == request.stages[Len(results) + 1]
Stage == Stages[Name]
\* contract_for, of the stage or else of the run.
Contract == ADAPTERS[IF Stage.adapter = None THEN request.adapter ELSE Stage.adapter]

Go(d, from, to) == pc[d] = from /\ pc' = [pc EXCEPT ![d] = to]

----------------------------------------------------------------------------
(* main: what is refused before anything is run, and the lock. *)

Refused(r) ==
  \/ \E i \in DOMAIN r.stages : r.stages[i] \notin DOMAIN Stages
  \/ ADAPTERS[r.adapter].redGreen /\ \A i \in DOMAIN r.stages : ~Stages[r.stages[i]].writes

Refuse ==
  /\ Go("me", "start", "refused") /\ Refused(request)
  /\ UNCHANGED <<request, lock, tree, session, results, plan>>

\* A lock is left alone while the process it names is alive.
Held == lock # None /\ pc[lock] \notin {"dead", "done"}

LockHeld(d) ==
  /\ Go(d, "start", "refused") /\ Held /\ ~(d = "me" /\ Refused(request))
  /\ UNCHANGED <<request, lock, tree, session, results, plan>>

LockFree(d) ==
  /\ Go(d, "start", "free") /\ ~Held /\ ~(d = "me" /\ Refused(request))
  /\ lock' = None
  /\ UNCHANGED <<request, tree, session, results, plan>>

TakeLock(d) ==
  /\ Go(d, "free", "flow") /\ lock' = d
  /\ UNCHANGED <<request, tree, session, results, plan>>

\* A driver takes the lock file away at the end, whoever it names.
Unlock(d) ==
  /\ Go(d, "over", "done") /\ lock' = None
  /\ UNCHANGED <<request, tree, session, results, plan>>

\* The session is closed: what the next one starts from.
Closed ==
  /\ looks' = {} /\ runs' = <<>> /\ round' = 0 /\ watched' = [f \in Files |-> First]
  /\ refused' = FALSE /\ foretold' = {} /\ changes' = 0 /\ others' = 0

Die(d) ==
  /\ pc[d] \notin {"start", "refused", "done", "dead"}
  /\ pc' = [pc EXCEPT ![d] = "dead"]
  /\ IF d = "me" THEN Closed ELSE UNCHANGED session
  /\ UNCHANGED <<request, lock, tree, results, plan>>

\* The other's stages, and its end.
OtherEnds ==
  /\ Go("other", "flow", "over")
  /\ UNCHANGED <<request, lock, tree, session, results, plan>>

\* Its stages, or whoever else works in the tree, change it.
OthersChange ==
  /\ pc["me"] = "asked" /\ others < MaxOthers
  /\ \E f \in Files, v \in Versions : v # tree[f] /\ tree' = [tree EXCEPT ![f] = v]
  /\ others' = others + 1
  /\ UNCHANGED <<request, pc, lock, looks, runs, round, watched, refused, foretold, changes, results, plan>>

----------------------------------------------------------------------------
(* run_flow and run_stage. *)

\* The stage is put to a new session; the tree it finds is fingerprinted unless
\* it may write.
BeginStage ==
  /\ Len(results) < Len(request.stages)
  /\ Go("me", "flow", "asked")
  /\ round' = 1 /\ watched' = tree
  /\ UNCHANGED <<request, lock, tree, looks, runs, refused, foretold, changes, others, results, plan>>

\* Bounds: looks and commands enough for the contract.  Those of a stage that
\* nobody judges are left out, its changes are not.
MaxLooks == IF Contract.redGreen THEN 0 ELSE Cardinality(Contract.wants)
MaxRuns == Max({1, Contract.probes})

Look(l) ==
  /\ pc["me"] = "asked" /\ Stage.judged /\ Cardinality(looks \cup {l}) <= MaxLooks
  /\ looks' = looks \cup {l}
  /\ UNCHANGED <<request, pc, lock, tree, runs, round, watched, refused, foretold, changes, others,
                 results, plan>>

ReadFile == \E f \in Files : Look([does |-> "read", file |-> f, saw |-> tree[f]])
Search == \E w \in Patterns : Look([does |-> "search", file |-> None, saw |-> w])

Run(cmd, ok, prints, on) ==
  /\ pc["me"] = "asked" /\ Stage.judged /\ Len(runs) < MaxRuns
  /\ runs' = Append(runs, [cmd |-> cmd, ok |-> ok, blocked |-> prints = "blocked",
                            prints |-> prints, on |-> on])
  /\ UNCHANGED <<request, pc, lock, tree, looks, round, watched, refused, foretold, changes, others,
                 results, plan>>

\* A test passes or fails as the tree has it; the guard may refuse any command.
RunCommand ==
  \/ Run("look", TRUE, "passed", {})
  \/ Run("test", FALSE, "blocked", {})
  \/ (\A f \in Files : tree[f] \notin Failing) /\ Run("test", TRUE, "passed", {tree})
  \/ (\E f \in Files : tree[f] \in Failing) /\ \E p \in Prints : Run("test", FALSE, p, {tree})

\* With the editing tools or through the shell: a stash is such a change.
Change ==
  /\ pc["me"] = "asked" /\ changes < MaxChanges + (IF Contract.redGreen THEN 1 ELSE 0)
  /\ \E f \in Files, v \in Versions : v # tree[f] /\ tree' = [tree EXCEPT ![f] = v]
  /\ changes' = changes + 1
  /\ UNCHANGED <<request, pc, lock, looks, runs, round, watched, refused, foretold, others, results, plan>>

\* invoke comes back with an error and no answer, a time-out among them, and the
\* second time with no answer at all.  The first ends the flow; of the second,
\* the first answer stays.
NoReply ==
  /\ IF round = 1
     THEN Go("me", "asked", "over") /\ results' = Append(results, "failed") /\ Closed
     ELSE Go("me", "asked", "judged") /\ UNCHANGED <<results, session>>
  /\ UNCHANGED <<request, lock, tree, plan>>

\* What the gate goes by.
Found(coverage) ==
  [tree |-> tree, looks |-> looks, runs |-> runs, coverage |-> coverage,
   foretold |-> IF Contract.redGreen THEN plan ELSE {}]

\* check, and after the first answer the fingerprint.
Gaps(a, coverage) ==
  Evaluate(Contract, a, Found(coverage)).gaps
    \cup {[claim |-> 0, why |-> g] : g \in {g \in {"changed the tree"} :
                                         round = 1 /\ ~Stage.writes /\ tree # watched}}

\* A seeded fault: an answer is sent back as long as it has gaps.
Reply_SentBackAgain ==
  /\ pc["me"] = "asked"
  /\ \E a \in Answers, coverage \in BOOLEAN :
       /\ refused' = (Stage.judged /\ Gaps(a, coverage) # {})
       /\ foretold' = a.predicts
  /\ IF refused' THEN round' = 2 /\ UNCHANGED pc
     ELSE Go("me", "asked", "judged") /\ UNCHANGED round
  /\ UNCHANGED <<request, lock, tree, looks, runs, watched, changes, others, results, plan>>

\* An answer with gaps is sent back once.  A transcript that is not found leaves
\* the coverage unchecked.
Reply ==
  /\ pc["me"] = "asked"
  /\ \E a \in Answers, coverage \in BOOLEAN :
       /\ refused' = (Stage.judged /\ Gaps(a, coverage) # {})
       /\ foretold' = a.predicts
  /\ IF refused' /\ round = 1 THEN round' = 2 /\ UNCHANGED pc
     ELSE Go("me", "asked", "judged") /\ UNCHANGED round
  /\ UNCHANGED <<request, lock, tree, looks, runs, watched, changes, others, results, plan>>

\* The answer is written down for the stages after; one that is refused stops
\* the flow if they would act on it.
HandOn ==
  /\ pc["me"] = "judged"
  /\ IF (Stage.blocking /\ refused) \/ Len(results) + 1 = Len(request.stages)
     THEN Go("me", "judged", "over") ELSE Go("me", "judged", "flow")
  /\ results' = Append(results, IF refused THEN "refused" ELSE "passed")
  /\ plan' = IF Name = "plan" THEN foretold ELSE plan
  /\ Closed
  /\ UNCHANGED <<request, lock, tree>>

Flow ==
  \/ Refuse \/ LockHeld("me") \/ LockFree("me") \/ TakeLock("me") \/ Unlock("me")
  \/ BeginStage \/ HandOn

Session == ReadFile \/ Search \/ RunCommand \/ Change \/ Reply \/ NoReply

Next ==
  \/ Flow \/ Session \/ Die("me")
  \/ LockHeld("other") \/ LockFree("other") \/ TakeLock("other") \/ Unlock("other") \/ Die("other")
  \/ OtherEnds \/ OthersChange

\* The driver goes on, and a session replies or its hour is over (invoke).
Fairness == WF_vars(Flow) /\ WF_vars(Reply \/ NoReply)

Spec == Init /\ [][Next]_vars /\ Fairness

----------------------------------------------------------------------------
(* Properties. *)

\* Whatever it answers now, with or without its transcript.
Judging == pc["me"] = "asked" /\ Stage.judged
Report(a, coverage) == Evaluate(Contract, a, Found(coverage))
Refusals(r, i) == {g.why : g \in {g \in r.gaps : g.claim = i}}

\* A claim is reported as one that stood only if each thing it quotes is in the
\* tree as it is judged, at the line it says, whatever changed since it was read.
StoodWasChecked ==
  Judging => \A a \in Answers, coverage \in BOOLEAN : \A i \in Report(a, coverage).stood :
    /\ Refusals(Report(a, coverage), i) = {}
    /\ \A p \in a.claims[i].pieces : p.kind = "quote" =>
         \E k \in DOMAIN Text[tree[p.file]] : Text[tree[p.file]][k] = p.says /\ p.at \in {0, k}

\* What a Read of this session showed at the line that is said, and the tree
\* still has there or can be seen to have lost since: a line of that Read that
\* is long enough to tell is gone, whoever changed the file.
Shown(p) ==
  p.kind = "quote" /\ \E l \in looks :
    /\ l.does = "read" /\ l.file = p.file /\ Places(p, l.saw) # {}
    /\ \/ Places(p, tree[p.file]) = Places(p, l.saw)
       \/ Places(p, tree[p.file]) = {} /\ Drifted(l.saw, tree[p.file])

\* A quote that is not in the tree now, and that no Read of this session showed
\* in a version the file has left since.
Made(p) ==
  /\ p.kind = "quote" /\ Places(p, tree[p.file]) = {}
  /\ \A l \in looks : l.does = "read" /\ l.file = p.file /\ l.saw # tree[p.file] =>
       \A k \in DOMAIN Text[l.saw] : Text[l.saw][k] # p.says

\* A stage is not refused for a quote that a Read of this session showed it where
\* it says, though the file was changed under it; and it is refused for one the
\* tree does not have that the session was never shown, changed file or not.
ShownIsNotRefused ==
  Judging => \A a \in Answers, coverage \in BOOLEAN : \A i \in DOMAIN Taken(a) :
    LET why == Refusals(Report(a, coverage), i)
        pieces == a.claims[i].pieces
    IN /\ pieces # {} /\ (\A p \in pieces : Shown(p)) => why \cap {"fails", "unseen"} = {}
       /\ (\E p \in pieces : Made(p)) => "fails" \in why

\* A failure and then a pass that are accepted as the proof of a change are two
\* runs on two different trees: the command went round between them.
RedIsReal ==
  Judging /\ Contract.redGreen =>
    \A a \in Answers, coverage \in BOOLEAN :
      "no red then green" \notin Refusals(Report(a, coverage), 0) =>
      \E i, j \in DOMAIN runs :
        /\ i < j /\ runs[i].cmd = runs[j].cmd /\ ~runs[i].ok /\ runs[j].ok
        /\ runs[i].on # {} /\ runs[i].on # runs[j].on

\* A driver that is started refuses to run or comes to its end: each answer is
\* sent back once, and a session that says nothing is given an hour.
Ended == pc["me"] \in {"refused", "done", "dead"}
RunEnds == <>Ended

\* tree_fingerprint: "A judge that leaves the tree different from how it found
\* it is not reporting on a change, it is making one."  So none is accepted.
JudgesLeaveTheTree ==
  pc["me"] = "judged" /\ Stage.judged /\ ~Stage.writes /\ ~refused /\ others = 0
    => tree = watched

=============================================================================
