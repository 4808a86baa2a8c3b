----------------------------- MODULE FlowState -----------------------------
(***************************************************************************)
(* The stages of a flow (scripts/cc_flow.py) and the flow file kept beside *)
(* a session (scripts/cc_flowstate.py): every operator the hooks use to    *)
(* read the file and to change it, as a function of its "stages" list.     *)
(*                                                                         *)
(* The list is a set of entries.  `at` is an entry's place in it, so       *)
(* appending takes the place after the latest and the list's order is the  *)
(* order of `at`.  A flow's stages are the numbers 1..NumStages, in the    *)
(* order they run.  Time is an entry's age since its last sign of life:    *)
(* 0 fresh, 1 past REOPENED_STALE, 2 past STALE_AFTER.                     *)
(***************************************************************************)
EXTENDS Integers, FiniteSets

CONSTANTS
  NumStages,   \* how many stages the flow has
  Blocking,    \* the stages nothing later may follow when they fail
  Judged,      \* the stages with verify=True
  Shell,       \* the stages allowed to run commands
  Writers,     \* the stages allowed to edit
  Budget,      \* [stage -> tool calls one round may spend]
  RoundCap,    \* ROUND_CAP: refusals on evidence before giving up
  SilentCap,   \* SILENT_CAP: refusals with no ledger before giving up
  DeafAfter,   \* DEAF_AFTER: refusals ignored before a stage is "deaf"
  Agents,      \* the ids the client gives subagents
  NoAgent,     \* the empty agent id
  Findings,    \* the findings a round can prove
  Texts        \* bound: the kinds of text a report may be, of Text below

Stage == 1..NumStages
NoStage == 0

ASSUME StagesAssumption ==
  /\ NumStages \in Nat \ {0}
  /\ Blocking \subseteq Stage
  /\ Judged \subseteq Stage
  /\ Shell \subseteq Stage
  /\ Writers \subseteq Stage
  /\ Budget \in [Stage -> Nat]

ASSUME CapsAssumption ==
  /\ RoundCap \in Nat \ {0}
  /\ SilentCap \in Nat \ {0}
  /\ DeafAfter \in Nat

ASSUME AgentsAssumption == NoAgent \notin Agents

Verdict == {"none", "accepted", "refused"}

\* One element of "stages".  `answer` says that the refused text it keeps holds
\* a CLAIM, `summary` that a digest was stored.
Entry ==
  [at : Nat \ {0}, stage : Stage, agent : Agents \cup {NoAgent},
   verdict : Verdict, reopened : BOOLEAN, calls : Nat, denied : Nat,
   age : 0..2, answer : BOOLEAN, summary : BOOLEAN, stood : SUBSET Findings]

\* What the gate hands to record_verdict: whether it found gaps, what it can
\* tell of the text, and the findings that passed every check.  A text with a
\* CLAIM has no digest when no line begins with one, and a digest need have no
\* CLAIM: an answer of UNKNOWNs has none.
Text == {"empty", "prose", "claim", "digest", "ledger"}

\* A stage can always end without a word.
ASSUME TextsAssumption == Texts \subseteq Text /\ "empty" \in Texts

Report == [gaps : BOOLEAN, text : Texts, stood : SUBSET Findings]

Claims(rep) == rep.text \in {"claim", "ledger"}
Digested(rep) == rep.text \in {"digest", "ledger"}

Oldest(E) == CHOOSE e \in E : \A f \in E : e.at <= f.at
Latest(E) == CHOOSE e \in E : \A f \in E : f.at <= e.at

----------------------------------------------------------------------------
(* Reading the file. *)

Of(S, s) == {e \in S : e.stage = s}
InFlight(S) == {e \in S : e.verdict = "none"}
Pending(S, s) == {e \in InFlight(S) : e.stage = s}

running(S) == {e.stage : e \in InFlight(S)}
done(S) == {e.stage : e \in {x \in S : x.verdict = "accepted"}}
refused(S) == {e \in S : e.verdict = "refused"}

\* running(state)[0], the stage every charge goes to.
FirstRunning(S) == Oldest(InFlight(S)).stage

_answered(e) == e.answer \/ e.summary

\* A seeded fault: one refusal too many.
exhausted_PastTheCap(S, s) ==
  LET bad    == {e \in refused(S) : e.stage = s}
      judged == {e \in bad : _answered(e)}
  IN  \/ Cardinality(judged) > RoundCap
      \/ Cardinality(bad \ judged) > SilentCap

exhausted(S, s) ==
  LET bad    == {e \in refused(S) : e.stage = s}
      judged == {e \in bad : _answered(e)}
  IN  \/ Cardinality(judged) >= RoundCap
      \/ Cardinality(bad \ judged) >= SilentCap

\* The stages next_stage() does not step over: a finished stage is passed by,
\* and so is one given up on unless what follows depends on it.
Unpassed(S) == {s \in Stage \ done(S) : s \in Blocking \/ ~exhausted(S, s)}

next_stage(S) ==
  IF Unpassed(S) = {} THEN NoStage
  ELSE LET s == CHOOSE x \in Unpassed(S) : \A y \in Unpassed(S) : x <= y
       IN  IF exhausted(S, s) THEN NoStage ELSE s

\* A seeded fault: a launch is timed from its first call only.
silent_AfterACall(e) == e.calls > 0 /\ e.age >= 2

_silent(e) == IF e.reopened /\ e.calls = 0 THEN e.age >= 1 ELSE e.age >= 2

\* Entries whose round was refused more often than a working stage ever is.
DeafEntries(S) == {e \in InFlight(S) : e.denied > DeafAfter}
deaf(S) == {e.stage : e \in DeafEntries(S)}

given_up(S) == {s \in Stage \ done(S) : exhausted(S, s)}

salvage(S, s) == UNION {e.stood : e \in Of(S, s)}

----------------------------------------------------------------------------
(* Admission of a launch. *)

LiveEntries(S, s) == {e \in Pending(S, s) : ~_silent(e)}

\* A seeded fault: the stage need not be the one that is due.
admits_OutOfOrder(S, s) ==
  /\ s \in Stage
  /\ \A e \in refused(S) : e.stage \in Blocking => e.stage = s
  /\ \A e \in LiveEntries(S, s) : e.reopened

admits(S, s) ==
  /\ s \in Stage
  /\ \A e \in refused(S) : e.stage \in Blocking => e.stage = s
  /\ next_stage(S) = s
  /\ \A e \in LiveEntries(S, s) : e.reopened

\* What admits() leaves of the list when it says yes: a held-open round is
\* superseded by the relaunch.
AfterAdmission(S, s) == S \ LiveEntries(S, s)

----------------------------------------------------------------------------
(* Changing the file. *)

NextAt(S) == IF S = {} THEN 1 ELSE Latest(S).at + 1

NewEntry(S, s, a, again) ==
  [at |-> NextAt(S), stage |-> s, agent |-> a, verdict |-> "none",
   reopened |-> again, calls |-> 0, denied |-> 0, age |-> 0,
   answer |-> FALSE, summary |-> FALSE, stood |-> {}]

record_launch(S, s, a) == S \cup {NewEntry(S, s, a, FALSE)}

Replace(S, old, new) == (S \ {old}) \cup {new}

\* A seeded fault: the finished rounds of the stage go with the others.
DropPending_AllRounds(S, s) == {e \in S : e.stage # s}

DropPending(S, s) == S \ Pending(S, s)

\* The entry a report of stage s lands on: the oldest one waiting, else the
\* latest that carries the reporter's id.
Reported(S, s, a) ==
  IF Pending(S, s) # {} THEN Oldest(Pending(S, s))
  ELSE Latest({e \in Of(S, s) : a = NoAgent \/ e.agent = a})

\* A finished entry's calls, refusals and age are cleared: nothing but the
\* status line reads them once there is a verdict.
WithVerdict(e, rep, a) ==
  [e EXCEPT !.verdict = IF rep.gaps THEN "refused" ELSE "accepted",
            !.agent = IF a = NoAgent THEN @ ELSE a,
            !.answer = IF rep.gaps /\ rep.text # "empty" THEN Claims(rep) ELSE @,
            !.stood = IF rep.stood = {} THEN @ ELSE rep.stood,
            !.calls = 0, !.denied = 0, !.age = 0]

\* A seeded fault: a refused round is reopened past the caps.
record_verdict_AlwaysReopens(S, s, rep, a, reopen) ==
  IF Pending(S, s) = {} /\ {e \in Of(S, s) : a = NoAgent \/ e.agent = a} = {}
  THEN S
  ELSE LET new    == WithVerdict(Reported(S, s, a), rep, a)
           judged == Replace(S, Reported(S, s, a), new)
       IN  IF ~rep.gaps THEN judged
           ELSE IF reopen THEN judged \cup {NewEntry(judged, s, new.agent, TRUE)}
                ELSE DropPending(judged, s)

record_verdict(S, s, rep, a, reopen) ==
  IF Pending(S, s) = {} /\ {e \in Of(S, s) : a = NoAgent \/ e.agent = a} = {}
  THEN S
  ELSE LET old    == Reported(S, s, a)
           new    == WithVerdict(old, rep, a)
           judged == Replace(S, old, new)
       IN  IF ~rep.gaps THEN judged
           ELSE IF reopen /\ ~exhausted(judged, s)
                THEN judged \cup {NewEntry(judged, s, new.agent, TRUE)}
                ELSE DropPending(judged, s)

\* The gate's loop over reversed(stages): the digest goes to the latest entry
\* of the stage that has none.
Summarise(S, s) ==
  LET bare == {e \in Of(S, s) : ~e.summary}
  IN  IF bare = {} THEN S
      ELSE Replace(S, Latest(bare), [Latest(bare) EXCEPT !.summary = TRUE])

\* A seeded fault: the list is walked from its start.
Charged_Oldest(S, s) == Oldest(Pending(S, s))

\* Charging, binding and counting all touch the latest entry in flight.
Charged(S, s) == Latest(Pending(S, s))

\* Calls past the budget, and refusals past deafness, all read alike: the
\* counters stop one above the number they are compared with.
spend(S, s) ==
  LET e == Charged(S, s)
  IN  Replace(S, e, [e EXCEPT !.calls = IF @ > Budget[s] THEN @ ELSE @ + 1, !.age = 0])

bind(S, s, a) ==
  LET e == Charged(S, s)
  IN  Replace(S, e, [e EXCEPT !.agent = IF @ = NoAgent THEN a ELSE @])

refused_once_more(S, s) ==
  LET e == Charged(S, s)
  IN  Replace(S, e, [e EXCEPT !.denied = IF @ > DeafAfter THEN @ ELSE @ + 1])

\* The context guard's count of a refusal, whoever made the call: once for each
\* launch in flight, and on the latest launch of that stage.
_counts_against_the_stage(S) ==
  LET k(s)   == Cardinality(Pending(S, s))
      more(e) == IF e.denied + k(e.stage) > DeafAfter THEN DeafAfter + 1
                 ELSE e.denied + k(e.stage)
  IN  {IF e.verdict = "none" /\ e = Charged(S, e.stage)
       THEN [e EXCEPT !.denied = more(e)] ELSE e : e \in S}

overspent(S, s) == Charged(S, s).calls > Budget[s]

forget_running(S, every) == {e \in S : e.verdict # "none" \/ ~(every \/ _silent(e))}

\* TaskStop on deaf stages: one record_verdict per deaf entry.  The first one
\* empties the stage's places, so a second lands on the latest finished entry.
EndDeaf(S) ==
  LET rep == [gaps |-> TRUE, text |-> "empty", stood |-> {}]
      once(s) == record_verdict(Of(S, s), s, rep, NoAgent, FALSE)
      ended(s) ==
        IF s \notin deaf(S) THEN Of(S, s)
        ELSE IF \E e, f \in DeafEntries(S) : e # f /\ e.stage = s /\ f.stage = s
             THEN record_verdict(once(s), s, rep, NoAgent, FALSE)
             ELSE once(s)
  IN  UNION {ended(s) : s \in Stage}

\* A seeded fault: the age of what is in flight is not held at its cap.
Older_Uncapped(S) ==
  {IF e.verdict = "none" THEN [e EXCEPT !.age = @ + 1] ELSE e : e \in S}

\* The clock: everything in flight has been quiet for longer.
Older(S) ==
  {IF e.verdict = "none" /\ e.age < 2 THEN [e EXCEPT !.age = @ + 1] ELSE e : e \in S}

=============================================================================
