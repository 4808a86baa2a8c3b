---------------------------- MODULE FlowSession ----------------------------
(***************************************************************************)
(* A Claude Code session running a flow: the parent, which is meant only   *)
(* to launch stages; the subagents that work; the client that starts them; *)
(* and the two hooks that hold both to the flow, scripts/cc-flow-guard.py  *)
(* (PreToolUse, PostToolUse) and scripts/cc-depth-gate.py (Stop,           *)
(* SubagentStop).  Each hook is one step here, except that the Stop hook   *)
(* gives up the flow file while it waits for a stage.  FlowLock looks      *)
(* inside the steps, at how a hook reads and writes the file.              *)
(***************************************************************************)
EXTENDS FlowState

CONSTANTS
  NudgeLimit,       \* NUDGE_LIMIT of the gate
  ParentDeafAfter,  \* PARENT_DEAF_AFTER of the guard
  MaxPlaces         \* bound: the last place in the list a launch may take

ASSUME LimitsAssumption ==
  /\ NudgeLimit \in Nat
  /\ ParentDeafAfter \in Nat \ {0}
  /\ MaxPlaces \in Nat \ {0}

VARIABLES
  stages,     \* flow.json: the list of launches
  nudges,     \* flow.json: times the session was pushed back into the flow
  balked,     \* flow.json: consecutive orders the parent ignored
  aborted,    \* flow.json: the guard stopped the turn
  disclosed,  \* flow.json: the closing answer of a flow given up on is out
  handed,     \* flow.json: the closing answer of a finished flow is out
  final,      \* flow.json: that closing answer
  turn,       \* the parent: working, held in its Stop hook, or ended
  stopStage,  \* the stage the Stop hook read before it began to wait
  launching,  \* a launch the guard admitted and the client has not started
  worker      \* the stage each live subagent was started for

fileVars == <<stages, nudges, balked, aborted, disclosed, handed, final>>
clientVars == <<turn, stopStage, launching, worker>>
vars == <<fileVars, clientVars>>

NoAnswer == [kind |-> "none", proved |-> {}]
AbortAnswer == [kind |-> "aborted", proved |-> {}]
Result(fs) == [kind |-> "result", proved |-> fs]

\* What every state of the session is made of.
TypeOK ==
  /\ stages \in SUBSET Entry
  /\ nudges \in Nat
  /\ balked \in Nat
  /\ aborted \in BOOLEAN
  /\ disclosed \in BOOLEAN
  /\ handed \in BOOLEAN
  /\ final \in [kind : {"none", "aborted", "result"}, proved : SUBSET Findings]
  /\ turn \in {"working", "waiting", "ended"}
  /\ stopStage \in Stage \cup {NoStage}
  /\ launching \in Stage \cup {NoStage}
  /\ worker \in [Agents -> Stage \cup {NoStage}]

LiveWorkers == {a \in Agents : worker[a] # NoStage}
Retire(a) == worker' = [worker EXCEPT ![a] = NoStage]

\* The client never uses an id twice.  Here one that nothing in flight is bound
\* to stands for a new one, which only adds behaviours.
Fresh == {a \in Agents \ LiveWorkers : \A e \in InFlight(stages) : e.agent # a}

Init ==
  /\ stages = {} /\ nudges = 0 /\ balked = 0 /\ aborted = FALSE
  /\ disclosed = FALSE /\ handed = FALSE /\ final = NoAnswer
  /\ turn = "working"
  /\ stopStage = NoStage
  /\ launching = NoStage
  /\ worker = [a \in Agents |-> NoStage]

----------------------------------------------------------------------------
(* The person. *)

\* A seeded fault: the closing answer of the flow before is still there.
Begin_KeepsAnswer ==
  /\ turn = "ended"
  /\ turn' = "working"
  /\ stages' = {} /\ nudges' = 0 /\ balked' = 0 /\ aborted' = FALSE
  /\ disclosed' = FALSE /\ handed' = FALSE
  /\ UNCHANGED <<final, stopStage, launching, worker>>

\* begin(): a prompt that names a flow discards the one before it.
Begin ==
  /\ turn = "ended"
  /\ turn' = "working"
  /\ stages' = {} /\ nudges' = 0 /\ balked' = 0 /\ aborted' = FALSE
  /\ disclosed' = FALSE /\ handed' = FALSE /\ final' = NoAnswer
  /\ UNCHANGED <<stopStage, launching, worker>>

Resume ==
  /\ turn = "ended"
  /\ turn' = "working"
  /\ UNCHANGED <<fileVars, stopStage, launching, worker>>

----------------------------------------------------------------------------
(* PreToolUse on Task, and the client's answer to it (PostToolUse). *)

\* The launch of stage s is admitted, and on record before the client has
\* started anything.  The client gives subagents no Task tool.
LaunchAdmitted(s) ==
  /\ turn = "working"
  /\ launching = NoStage /\ Fresh # {} /\ NextAt(stages) <= MaxPlaces
  /\ admits(stages, s)
  /\ stages' = record_launch(AfterAdmission(stages, s), s, NoAgent)
  /\ balked' = 0
  /\ launching' = s
  /\ UNCHANGED <<nudges, aborted, disclosed, handed, final,
                 turn, stopStage, worker>>

ClientStarts(a) ==
  /\ launching # NoStage /\ a \in Fresh
  /\ worker' = [worker EXCEPT ![a] = launching]
  /\ launching' = NoStage
  /\ UNCHANGED <<fileVars, turn, stopStage>>

\* _launched(): the client refused the launch, so everything in flight goes.
ClientFails ==
  /\ launching # NoStage
  /\ launching' = NoStage
  /\ stages' = forget_running(stages, TRUE)
  /\ UNCHANGED <<nudges, balked, aborted, disclosed, handed, final,
                 turn, stopStage, worker>>

\* _gone(): the client was asked for its tasks and has none.
ClientHasNoTasks ==
  /\ turn = "working" /\ launching = NoStage /\ LiveWorkers = {}
  /\ InFlight(stages) # {}
  /\ stages' = forget_running(stages, TRUE)
  /\ UNCHANGED <<nudges, balked, aborted, disclosed, handed, final, clientVars>>

----------------------------------------------------------------------------
(* PreToolUse on every other tool. *)

\* The streak of orders ignored is bounded, and the turn is halted at the
\* bound; past it one more refusal is like the last.
refuse_parent ==
  /\ balked' = IF balked < ParentDeafAfter THEN balked + 1 ELSE balked
  /\ IF balked' >= ParentDeafAfter
     THEN aborted' = TRUE /\ final' = AbortAnswer /\ turn' = "ended"
     ELSE UNCHANGED <<aborted, final, turn>>

\* Polling is refused whatever the flow is doing, and so is any work of the
\* parent's own while a stage is running or due.  The context guard may turn
\* the same call down, and counts that against whatever is in flight.
ParentDetour ==
  /\ turn = "working"
  /\ refuse_parent
  /\ stages' \in {stages, _counts_against_the_stage(stages)}
  /\ UNCHANGED <<nudges, disclosed, handed, stopStage, launching, worker>>

\* TaskStop, allowed for a stage that has gone deaf and for no other.
ParentStopsDeafStage ==
  /\ turn = "working" /\ deaf(stages) # {}
  /\ stages' = EndDeaf(stages)
  /\ \/ \E a \in LiveWorkers : Retire(a)
     \/ UNCHANGED worker
  /\ UNCHANGED <<nudges, balked, aborted, disclosed, handed, final,
                 turn, stopStage, launching>>

\* A subagent calling while nothing is in flight puts its launch back, as
\* whatever stage is due.
Restored(S, a) ==
  IF InFlight(S) = {} THEN record_launch(S, next_stage(S), a) ELSE S

\* The call is charged to the first stage in flight, which is bound to the
\* caller.  An edit or a command the stage may not make is turned down before
\* the budget is looked at.
Spent(S, a, tool) ==
  LET s       == FirstRunning(S)
      charged == bind(spend(S, s), s, a)
      barred  == \/ tool = "edit" /\ s \notin Writers
                 \/ tool = "shell" /\ s \notin Shell
  IN  IF ~barred /\ overspent(charged, s) THEN refused_once_more(charged, s) ELSE charged

WorkerCalls(a, tool) ==
  /\ a \in LiveWorkers
  /\ InFlight(stages) # {} \/ next_stage(stages) # NoStage
  /\ stages' = Spent(Restored(stages, a), a, tool)
  /\ balked' = 0
  /\ UNCHANGED <<nudges, aborted, disclosed, handed, final, clientVars>>

\* The context guard turns down a subagent's call: the flow guard's hook for
\* the same call is a step of its own, or charges nothing.
ContextGuardRefuses(a) ==
  /\ a \in LiveWorkers
  /\ InFlight(stages) # {}
  /\ stages' = _counts_against_the_stage(stages)
  /\ UNCHANGED <<nudges, balked, aborted, disclosed, handed, final, clientVars>>

----------------------------------------------------------------------------
(* SubagentStop. *)

\* _stage_of(): the latest launch in flight that this agent may be.
StageOf(S, a) ==
  LET mine == {e \in InFlight(S) : a = NoAgent \/ e.agent \in {NoAgent, a}}
  IN  IF mine = {} THEN NoStage ELSE Latest(mine).stage

\* What the gate may find.  An inventory is refused only for being empty; the
\* claims that are judged may be in a file, whatever the text is.
Reports(s) ==
  {r \in Report :
     s \notin Judged => r.stood = {} /\ (r.gaps <=> r.text = "empty")}

\* A delegate's refused round ends there (fresh_retry); everyone else's is
\* held open, and an inventory's always.
JudgedFile(S, s, rep, a) ==
  LET after == record_verdict(S, s, rep, a, a = NoAgent \/ s \notin Judged \/ ~rep.gaps)
  IN  IF Digested(rep) \/ (s \notin Judged /\ ~rep.gaps)
      THEN Summarise(after, s) ELSE after

\* The push budget starts again when a stage reports, unless the report was
\* an empty inventory.
JudgedNudges(s, rep) == IF s \notin Judged /\ rep.gaps THEN nudges ELSE 0

WorkerReports(a, rep) ==
  LET s == StageOf(stages, a)
  IN  /\ a \in LiveWorkers
      /\ s # NoStage
      /\ rep \in Reports(s)
      /\ stages' = JudgedFile(stages, s, rep, a)
      /\ nudges' = JudgedNudges(s, rep)
      /\ IF s \notin Judged /\ rep.gaps THEN UNCHANGED worker ELSE Retire(a)
      /\ UNCHANGED <<balked, aborted, disclosed, handed, final,
                     turn, stopStage, launching>>

\* A subagent that is killed, that ends in a short answer the gate lets pass
\* unjudged, whose launch nobody remembers, or whose gate crashed (fail open).
WorkerVanishes(a) ==
  /\ a \in LiveWorkers
  /\ Retire(a)
  /\ UNCHANGED <<fileVars, turn, stopStage, launching>>

\* Time passes for everything in flight.
ClockPasses ==
  /\ Older(stages) # stages
  /\ stages' = Older(stages)
  /\ UNCHANGED <<nudges, balked, aborted, disclosed, handed, final, clientVars>>

----------------------------------------------------------------------------
(* Stop. *)

Over(S) == next_stage(S) = NoStage

\* A stage is running or due, and the session may still be pushed.  flight
\* says whether the hook takes a stage to be running.
Nudge(S, flight) ==
  /\ flight \/ ~Over(S)
  /\ nudges < NudgeLimit
  /\ nudges' = nudges + 1
  /\ turn' = "working"
  /\ stages' = S
  /\ UNCHANGED <<disclosed, handed, final>>

Pushes(flight) == flight /\ nudges < NudgeLimit

\* The flow is over, so the closing answer is rendered, once.
Close(S, flight) ==
  /\ ~Pushes(flight) /\ Over(S)
  /\ IF given_up(S) # {}
     THEN /\ ~disclosed
          /\ disclosed' = TRUE
          /\ final' = Result(UNION {salvage(S, s) : s \in given_up(S)})
          /\ UNCHANGED handed
     ELSE /\ ~handed
          /\ handed' = TRUE
          /\ final' = Result(UNION {salvage(S, s) : s \in done(S)})
          /\ UNCHANGED disclosed
  /\ turn' = "working"
  /\ stages' = S
  /\ UNCHANGED nudges

\* A seeded fault: a flow that is over lets the session go at once.
Echo_Unasked(S, flight) ==
  /\ ~Pushes(flight) /\ Over(S)
  /\ turn' \in {"working", "ended"}
  /\ stages' = S
  /\ UNCHANGED <<nudges, disclosed, handed, final>>

\* The closing answer was asked for; the session ends once it is repeated
\* word for word, and is asked again until then.
Echo(S, flight) ==
  /\ ~Pushes(flight) /\ Over(S)
  /\ IF given_up(S) # {} THEN disclosed ELSE handed
  /\ turn' \in {"working", "ended"}
  /\ stages' = S
  /\ UNCHANGED <<nudges, disclosed, handed, final>>

\* Nothing is left to push with.  The parent's own closing text goes to the
\* gate, as the report of the stage that was in flight when the hook began.
FallThrough(S, s) ==
  /\ ~Over(S) /\ nudges >= NudgeLimit
  /\ \/ /\ s = NoStage
        /\ turn' \in {"working", "ended"}
        /\ stages' = S
        /\ UNCHANGED nudges
     \/ /\ s \in Judged           \* too short to be held to a ledger
        /\ turn' = "ended"
        /\ stages' = S
        /\ UNCHANGED nudges
     \/ /\ s # NoStage
        /\ \E rep \in Reports(s) :
             /\ stages' = JudgedFile(S, s, rep, NoAgent)
             /\ nudges' = JudgedNudges(s, rep)
             /\ turn' \in IF ~rep.gaps THEN {"ended"}
                          ELSE IF s \in Judged THEN {"working", "ended"}
                          ELSE {"working"}
  /\ UNCHANGED <<disclosed, handed, final>>

StopDecides(S, s, flight) ==
  Nudge(S, flight) \/ Close(S, flight) \/ Echo(S, flight) \/ FallThrough(S, s)

\* Launches with no sign of life are forgotten; with nothing in flight the
\* hook answers at once.
ParentStops ==
  /\ turn = "working" /\ ~aborted
  /\ InFlight(forget_running(stages, FALSE)) = {}
  /\ StopDecides(forget_running(stages, FALSE), StageOf(stages, NoAgent), FALSE)
  /\ UNCHANGED <<balked, aborted, stopStage, launching, worker>>

ParentStopWaits ==
  /\ turn = "working" /\ ~aborted
  /\ InFlight(forget_running(stages, FALSE)) # {}
  /\ stages' = forget_running(stages, FALSE)
  /\ stopStage' = StageOf(stages, NoAgent)
  /\ turn' = "waiting"
  /\ UNCHANGED <<nudges, balked, aborted, disclosed, handed, final,
                 launching, worker>>

\* _await_stage() returns: the stage reported, went deaf, was held open for a
\* worker that has yet to move, or the twelve minutes are up.  What is running
\* was read before the file was loaded again, and may have reported since.
ParentStopResumes ==
  /\ turn = "waiting"
  /\ \E flight \in {TRUE, InFlight(stages) # {}} : StopDecides(stages, stopStage, flight)
  /\ stopStage' = NoStage
  /\ UNCHANGED <<balked, aborted, launching, worker>>

\* After an abort only the stored text may leave.
ParentStopsAborted ==
  /\ turn = "working" /\ aborted
  /\ turn' = "ended"
  /\ UNCHANGED <<fileVars, stopStage, launching, worker>>

----------------------------------------------------------------------------

Next ==
  \/ Begin \/ Resume
  \/ \E s \in Stage : LaunchAdmitted(s)
  \/ \E a \in Agents : ClientStarts(a)
  \/ ClientFails \/ ClientHasNoTasks
  \/ ParentDetour \/ ParentStopsDeafStage
  \/ \E a \in Agents, tool \in {"read", "edit", "shell"} : WorkerCalls(a, tool)
  \/ \E a \in Agents : ContextGuardRefuses(a)
  \/ \E a \in Agents : \E rep \in Report : WorkerReports(a, rep)
  \/ \E a \in Agents : WorkerVanishes(a)
  \/ ClockPasses
  \/ ParentStops \/ ParentStopWaits \/ ParentStopResumes \/ ParentStopsAborted

Spec == Init /\ [][Next]_vars

\* The clock runs, and the client either starts what it was allowed to start
\* or says that it failed.
ClockSpec ==
  /\ Spec
  /\ WF_vars(ClockPasses)
  /\ WF_vars(ClientFails \/ \E a \in Agents : ClientStarts(a))

----------------------------------------------------------------------------
(* Properties. *)

\* What a stage depends on was judged before the stage was launched: for
\* every launch on record each blocking stage ahead of it has an earlier
\* entry with a verdict.  (admits, and the launches put back by the guard.)
BuiltOnJudged ==
  \A e \in stages : \A b \in Blocking :
    b < e.stage => \E j \in Of(stages, b) : j.verdict # "none" /\ j.at < e.at

\* Once the flow has given up on a stage none of its launches is in flight:
\* no worker goes on towards a verdict nobody will read (record_verdict's
\* reopening and dropping, the guard's restored launches).
GivenUpIsFinal ==
  \A s \in given_up(stages) : Pending(stages, s) = {}

\* However the rounds of a stage end - reported, killed for deafness, judged
\* twice - it is refused fewer times than the two caps add up to.
BoundedRefusals ==
  \A s \in Stage :
    Cardinality({e \in refused(stages) : e.stage = s}) < RoundCap + SilentCap

\* A stage has at most one launch with a sign of life that is not a round held
\* open, so a relaunch never adds a worker beside one that is working.
OneLiveRound ==
  \A s \in Stage : Cardinality({e \in LiveEntries(stages, s) : ~e.reopened}) <= 1

\* While the session can still be pushed, no step takes back the acceptance of
\* a stage: a duplicate's report, a kill and a drop all leave it alone.
AcceptedSurvives ==
  [][nudges < NudgeLimit => done(stages) \subseteq done(stages') \/ stages' = {}]_vars

\* What the closing answer claims was proved in this flow: each finding it
\* holds is on record in a round of the current flow file.
ClosingIsProved == final.proved \subseteq UNION {e.stood : e \in stages}

\* A session ends in the middle of a flow, or without the closing answer of a
\* flow that is over, only once the pushes are spent.
EndsAnswered ==
  [][turn # "ended" /\ turn' = "ended"
       => final'.kind # "none" \/ nudges >= NudgeLimit]_vars

\* A launch whose worker is gone does not hold the flow for good: with no
\* worker left, the stage that is due becomes launchable again once the silent
\* launches have aged, unless a blocking refusal stands against it.
Barred == \E e \in refused(stages) : e.stage \in Blocking /\ e.stage # next_stage(stages)
Launchable == Over(stages) \/ Barred \/ admits(stages, next_stage(stages))
GhostNeverBlocks == [](LiveWorkers = {} => <>(LiveWorkers # {} \/ Launchable))

\* A flow with nothing in flight and a stage due will let that stage be
\* launched: a blocking stage that was refused and then satisfied does not stay
\* refused (record_verdict's docstring).
NextStageAdmitted ==
  InFlight(stages) = {} /\ ~Over(stages) => admits(stages, next_stage(stages))

\* The closing answer of a flow leaves out nothing that an accepted stage
\* proved: it says that no other findings were verified (_closing_answer).
ClosingTellsAll ==
  [][final'.kind = "result" /\ final' # final
       => \A s \in done(stages') : salvage(stages', s) \subseteq final'.proved]_vars

=============================================================================
