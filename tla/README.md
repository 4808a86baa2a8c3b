# A verification project for the coding-bench harness

This directory holds TLA+ models of the program kept in this repository, TLC
configurations that check them on small instances, and theorems about them
whose proofs TLAPS checks. Paths below are relative to the root of the
repository (`src/` in `PROJECT.json`).

The repository is a benchmark of local and hosted coding models, and a harness
that makes a local model work in stages: a *flow*. The flow harness has the most
state, concurrency and failure handling of its own; the benchmark's runner, its
queues and its chat client come next, then the proxy between client and model.

1. [Inventory](#inventory): the parts, and what makes each correct
2. [Modules](#modules): what models what, and how actions correspond to code
3. [Runs](#runs): what is checked, the bounds, the reductions, the fairness
4. [What the violated runs show](#what-the-violated-runs-show)
5. [Proofs](#proofs): what is proved, from what, and what is only checked
6. [Observations](#observations) and [Not modelled](#not-modelled)

## Inventory

| Part | State | Operations | What is hard | What makes it correct |
|---|---|---|---|---|
| **Flow state** `scripts/cc_flowstate.py`, `cc_flow.py` | `flow.json`: the list of launches, each with verdict, calls, refusals, ages, findings | `record_launch`, `record_verdict`, `admits`, `next_stage`, `exhausted`, `spend`, `refused_once_more`, `forget_running`, `salvage` | a launch is matched to a report by order alone; rounds are reopened, superseded, dropped, forgotten | stages in order, a bounded number of refusals, one live round, nothing proved is lost |
| **Flow file** the same file: `_lock`, `load`, `peek`, `save`, `release`, `begin` | `flow.json`, `flow.tmp`, an `flock` | read-modify-write by many hook processes at once | two saves from one load, a lock wait that times out, a shared temporary file, killed hooks | no saved record is overwritten, a reader sees whole files, a lock is let go |
| **Flow guard** `scripts/cc-flow-guard.py` | the file, and `balked` | PreToolUse and PostToolUse of every tool | parent and subagents call in parallel; launches fail or are lost | the parent only launches; a worker is charged for its own calls; a loop is bounded |
| **Depth gate** `scripts/cc-depth-gate.py` | the file, `nudges`, `disclosed`, `handed`, the closing answer | Stop, SubagentStop, `evaluate` | a hook that waits twelve minutes for another; reports of the wrong stage; giving up; evidence that moved | a session ends with an answer made of judged findings; what stood is so |
| **Context guard** `scripts/cc-context-guard.py` | transcripts, a ledger of refusals, the flow file | PreToolUse of every tool: twelve rules in an order | parent and subagents share a ledger and files; compactions | what is refused as seen before is in front of whoever asks |
| **Verification** `scripts/cc_verify.py`, `cc_ledger.py`, `cc_evidence.py`, `cc_diff.py` | none (an answer, the tree, a transcript) | read claims, look up quotes, commands, logs, absences, reads, added tests | line-by-line readers with pending state; tolerances that widen what is accepted | each claim keeps its own evidence; what is accepted is there |
| **Scripted pipeline** `scripts/depth_pipeline.py` | stage reports, a lock file, a fingerprint of the tree | run the stages one after another, send back once, hand on | check-then-write lock; the tree changes under the driver | a finding that stood was checked against the tree; a run ends |
| **Benchmark runner** `bench_lib/bench_runner.py` | stamped result files, a *latest* file | run tasks, resume, merge, save | kills between two saves, two suites of one tag, corrupt files | no measured row is lost |
| **Queues and watchdog** `scripts/run_cursor_repohard_stale.py`, `run_bench_gaps.py`, `watch_stuck_tasks.py` | the *latest* files, archives, a lock file, processes | start suites, restore a fixture, kill, enter a row | they write what the runner writes; stale locks; restarts | rows survive; the queue ends |
| **Chat, tool loops, time limits** `bench_lib/ollama_chat.py`, `ollama_think.py`, `cursor_cli.py`, `task_timeout.py`, `benches/*/bench.py` | a stream, a detector, counters, a transcript, a runner in the server | stream, stall, unload, retry, promote, nudge, grade | retries that deliver twice, limits that do not know each other | what is graded was said; a task ends |
| **Proxy** `scripts/anthropic_proxy.py`, `context_watch.py` | an open message and its blocks; a log | translate a stream of events; pair turns from the log | upstream errors in the middle; threads that log in turn | a well-formed message or the beginning of one; turns told apart |

Parent, subagents and client interact only through the hooks; the hooks are
separate short-lived processes and interact through the flow file and the ledger
of refusals. Queues, suites and watchdog interact through the latest files, the
fixture's lock and signals. The driver of the pipeline uses the gate's
`evaluate` as a function. The client, the model and its server are external
and are modelled by how the code uses them.

## Modules

| Module | Models | Uses |
|---|---|---|
| `FlowState` | the operators of `cc_flowstate.py` on the list of launches | |
| `FlowSession` | the hooks of one session: flow guard, the flow part of the depth gate, the context guard's effect on the file | `FlowState` |
| `FlowLock` | how concurrent hooks lock, read and write the file, save by save | |
| `ContextGuard` | the context guard: rules, transcripts, ledger | |
| `Citations` | decisions of the verifier about one quote, command, read, record, test | |
| `Verify` | the reader of an answer, line by line; one citation judged | `Citations` |
| `DepthGate` | contracts and `evaluate` | |
| `DepthPipeline` | the scripted driver | `DepthGate` |
| `ResultStore` | abstract: what a queue promises of results | |
| `BenchQueue` | queue, suites, watchdog | refines `ResultStore` |
| `AgentTask` | one task: loop, chat call, stream, detector, transcript | |
| `MessageStream` | abstract: a well-formed streamed message | |
| `Proxy` | the proxy's threads and log | refines `MessageStream` |
| `*Proofs` | theorems about the module they are named for | |
| `MC*` | instances for TLC | |

Definitions named `X_Something` and commented as a seeded fault are forms of `X`
with a plausible bug, which each property is shown to catch.

### FlowState, FlowSession, FlowLock

`FlowState` has one operator per function, with its name. The list is a
set of entries with their places (`at`), so that "the oldest waiting" and
"the latest in flight" are what the code's loops find. Text is kept only as
what later code tells apart: a refused answer *holds a CLAIM* (`_answered`
looks for one), a digest *was stored* (`_digest` keeps the lines that begin
with a keyword), a set of findings *stood*. So a report is one of five
kinds: `empty`, `prose`, a `claim` in the middle of a line, a `digest`
without a claim (UNKNOWNs only), and a `ledger`, which has both. The gate may
refuse or accept any of them, except that an inventory, which is not judged,
is refused for being empty and for nothing else.
Time is the age of an entry since its last sign of life, in three steps:
fresh, past `REOPENED_STALE`, past `STALE_AFTER`.

`FlowSession` has one action per hook branch that changes something; the Stop
hook is the one hook that is split, because it lets go of the file while it
waits.

| Action | Code |
|---|---|
| `Begin`, `Resume` | a prompt that begins a flow (`begin`), and any other prompt |
| `LaunchAdmitted` | PreToolUse of Task: `admits`, `record_launch` (`cc-flow-guard.py` 462-490) |
| `ClientStarts`, `ClientFails` | the client starts the subagent, or PostToolUse says it did not (`_launched`) |
| `ClientHasNoTasks` | PostToolUse of a task listing that is empty (`_gone`) |
| `ParentDetour` | PreToolUse refuses the parent (`refuse_parent`), and halts it at the bound; the context guard may refuse the same call |
| `ParentStopsDeafStage` | TaskStop for a deaf stage: a verdict per deaf entry |
| `WorkerCalls` | a subagent's tool call: the launch put back if it was lost, charged, bound, and refused past the budget |
| `ContextGuardRefuses` | `cc-context-guard.py` `deny`: every stage in flight is charged with a refusal |
| `WorkerReports` | SubagentStop: matched by `_stage_of`, judged, filed by `record_verdict` |
| `WorkerVanishes` | a subagent is killed, or its gate lets it go without a verdict |
| `ClockPasses` | time, for `_silent` |
| `ParentStops`, `ParentStopWaits`, `ParentStopResumes` | Stop: silent launches forgotten, then at once or after `_await_stage` one of `Nudge`, `Close`, `Echo`, `FallThrough` |
| `ParentStopsAborted` | Stop after an abort |

In `FlowLock` a hook runs one of five programs, which are the five orders in
which the code loads and saves: `once`, `twice` (two saves from one load: 297
then 331, or 252 then 297, of the guard; 928 then a later one of the gate),
`reader`, `waiter` (the Stop hook, which saves what it peeked) and `begin`.

Left out of these modules: what a hook says, and what it writes into prompts;
what `evaluate` looks at (its verdict is any of those it can return; `DepthGate`
has the rest); the `closing` counter of lines 998-1024 of the gate, which the
return at 991-997 makes unreachable; a shell command's text. A hook that fails
open is a hook that does nothing. A finished entry's calls, refusals and age are
cleared, since only a status line reads them. The client's ids are unique; the
models use one again once nothing in flight carries it, so a round the parent's
report reopens may here be bound to a later subagent as well as to its own,
which is more than can happen.

### ContextGuard

A call of an agent is one hook process. `Decide` looks the rules up in the
transcript and the files, in `main`'s order, and the first that applies refuses
the call; `Count` is `_repeats` up to reading the ledger, `deny` its write and
the refusal, so that the hooks of two agents overlap on the file; `Execute` is
the call itself, and `Compact` the client's compaction, before which nothing
counts. The transcript looked in is the agent's own, or, while a subagent's file
is not on disk yet, the one the call names, which is its parent's
(`own_transcript`). A file's modification time and a transcript's time stamp are on the
half-second clock, and the stamp is cut to the second as in the code. Whether
the budget is spent comes from `FlowSession`'s file and may come out either way
here. The text of a call is what the rules' regular expressions find in it.

### Citations, Verify

`Citations` is pure: a line is its indentation and its words. One operator per
function of `cc_verify` that decides something about a quote (`file_quote` and
`locate`: exact, drifted, reflowed, clipped, partial, unescaped, numbered), a
command (`_matching`, `_supports`, settings, payloads and code given to the
interpreter as it stands), and of `cc_evidence` and `cc_diff` (`collect`,
`covered_ranges`, `hollow_tests`, with hunk headers, context and other defs
between the lines added). What a command printed and what is said of it are words;
only a word for a refusal has another form that counts as the same.

`Verify` reads an answer one line per step, as `normalise` and then
`parse_ledger` do, with their locals as variables: whether a finding was
announced, which piece of evidence a quote attaches to, the quote still open.
Lines are told apart by what the two passes' regular expressions find in them;
an EVIDENCE line may cite one place, two, or one that it also quotes, alone or
beside a command.
`given` is history: the quotes under a claim. The same module asks one
question of `Citations` per behaviour, so that the references below (`AcceptedIsThere`
and the others) are checked over all small inputs.

### DepthGate, DepthPipeline

`DepthGate` has the contracts of `cc_ledger.ADAPTERS` and `Evaluate`: per claim
and for the answer as a whole, the gaps that refuse it and the claims that
stood. A file holds a version of its text, and a version is a sequence of lines,
some of them long enough to tell a drift by (`Telling`: over 12 characters and
among the twenty longest). Evidence is a line quoted at a number or at
none, a command with what it is said to have printed, or a pattern.

| Action of `DepthPipeline` | Code |
|---|---|
| `Refuse`, `LockHeld`, `LockFree`, `TakeLock`, `Unlock` | `main`, and its `finally` |
| `BeginStage` | `run_flow` and `run_stage` up to `invoke` |
| `ReadFile`, `Search`, `RunCommand`, `Change` | what a session may do, external |
| `Reply`, `NoReply` | the answer comes, is checked and perhaps sent back; or an error or the hour's limit |
| `HandOn` | the report, `blocking`, the next stage |
| `OtherEnds`, `OthersChange`, `Die` | another driver, others in the tree, a kill |

### BenchQueue, ResultStore

Several models, one worker thread each (`run_one`): look, wait for an idle
machine, restore the fixture under a lock file (`MakeLock`, `SeeStale`,
`BreakLock`, `Restored`), archive, run a suite, and a second one that merges
(`SuiteOver`). The suite is `run_main`: `Start`, then per task `Skip` or
`RunTask` and `Save`. `GapSaves` is a suite of the other queue for the same
model; the watchdog kills (`DogKills`) and enters a row in three steps
(`DogReads`, `DogOpens`, `DogWrites`); `Crash` stops the queue and starts it
again. `StoreSpec` says that for the models nobody else runs the files behave as
a `ResultStore`: cleared at most once in a pass, and from then on rows are only
entered where there was none, through kills and resumption. A crash begins a new
pass, which may clear a file once more; what it held is archived first.

### AgentTask

One task from its first round to its row, for every bench's loop: what sets the
loops apart is three flags (the clock is looked at; a second cut-off reply ends
the task; a reply is the answer as it stands). `Request`, `Think`, `Answer`,
`Done`, `Abort`, `Stall`, `HttpError`, `Lost`, `UnloadExpired` are the chat call,
with the loop detector's and the transcript's state beside it; `Top`, `Accept`,
`Nudge`, `CutOff`, `ProtocolError`, `Dispatch`, `Plain` the loop; `AskCursor` the
one question put to a Cursor agent. The thought of a stream is told apart by
whether it holds a closed final answer; the page of the transcript by the order
of its tags, repeats left out. `heard` is history: what has arrived since the last
request, apart from `said` and `thought`, which `Return` rewrites when it promotes.

### Proxy, MessageStream

One thread per request: `Ask` logs it, then the upstream answers with an error
(`overflow_of` decides whether the client is told to compact), one object, or a
stream. `Chunk` is the body of `stream_anthropic`'s loop, with reasoning, text,
fragments of tool calls and a reason in any combination; `StreamEnds` what
follows it; `Write` puts one event on the line, where `ClientGone` and
`UpstreamBreaks` may strike. `turns` is how `context_watch.py` reads the log, row by row: a turn told is the
row of the request in hand, none when there is none, and the row that ended
it, a failure included. `alone` is history: no request was made while another
was being answered.
`MessageStream` is the event grammar of the proxy's docstring: a message starts
once, blocks are numbered and never nested, the reason follows the last block. Its
reasons are those of `STOP_REASON` (`anthropic_proxy.py:54-59`), where `length` is
`end_turn`; line 34 of the docstring still says `max_tokens`.

## Runs

All runs set `CHECK_DEADLOCK FALSE`: a session, a queue and a task simply end.

| Run | Shows | Bounds |
|---|---|---|
| `order` | The implement flow up to its second stage. `BuiltOnJudged`: what a stage depends on was judged before the stage was launched, relaunched or put back. `GivenUpIsFinal`: nothing is in flight of a stage given up on. `OneLiveRound`: no relaunch adds a worker beside a live one. `BoundedRefusals`: however rounds end, a stage is refused no more often than the caps add up to. `AcceptedSurvives`: while pushes are left nothing takes back an acceptance. `EndsAnswered`: a session leaves an unfinished flow only when the pushes are spent. | two stages, two subagents |
| `ghost` | The review flow up to its second stage, with fairness. `GhostNeverBlocks`: a launch whose worker is gone does not hold the flow for good. `ClosingIsProved`: the closing answer holds only findings on record in this flow. | one subagent, one finding |
| `locked` | While every save was made under the lock, `LockedSavesSurvive` and `NeverHalfLocked`; always `LockFreed`. | three hooks of any program, killed or timing out anywhere |
| `guard` | `ToldOffForRepeats`: nobody is told off for more refusals than there were. `RereadIsAbove`: a refused re-read is of lines that are, as they are on disk, in that agent's prompt, or, while it has no record of its own, in its parent's. | parent and subagent, three files (one long, one fat), three calls |
| `verify` | `ClaimsStandAlone`, `NoQuoteLost`: the reader keeps each claim's evidence with it and loses none, but for one case (see the observations). `AcceptedIsThere`, `CommandsWereRun`, `SessionEvidence`, `HollowForItsOwnLines`: the decisions agree with reference definitions. | answers of up to four lines of twenty-one kinds, and a citation of two, one of them perhaps quoted at once, with four more lines; files of up to three lines |
| `pipeline` | `StoodWasChecked`: what is handed on as having stood is so in the tree now. `ShownIsNotRefused`: nobody is refused for a quote a Read showed where it says, of a file that still has it or has visibly lost lines; and a made-up quote is refused, in a changed file too. `RedIsReal`: a demonstrated failure and its repair are two runs on two trees. `RunEnds`. | one file in four versions, one change by the session, one more if it has to demonstrate a failure, one by others; two claims |
| `bench` | `LatestIsBacked`, `EarlierRowsKept`, `WholeUnlessStubbed`: no measurement is lost through kills, crashes and restarts, and a file is half written only by the watchdog. `OneRestorer`. `StoreSpec`, the refinement. `QueueEnds`. | two models, one of them shared with another queue, one task, one crash, one strike |
| `chat` | `AnswerIsNoThinking`: the transcript never shows the answer as thinking. `GradedWasSaid`: a row is graded exactly for an answer said, or closed in the thinking, in the last attempt of the last reply. `NoLoopGoesOn`: a loop of lines or of blocks is cut where the detector says. `TaskEnds`. | three rounds, one tool call, two attempts, six lines of two kinds |
| `proxy` | `StreamSpec`, the refinement: every client sees the beginning of a well-formed message. `PairedInTurn`: while requests do not overlap, each end in the log is told as the turn of its own request; always, none is told twice and no failure is missed. | two clients, two requests, two chunks, two tool calls in one |
| `satisfied`, `closing`, `judge` | Violated, see below. | as `order`, `ghost`, `pipeline` |

**Why the bounds are enough for the cases.** `RoundCap` 2 and `SilentCap` 1 keep the two caps
different and the first above one, so that a round can be refused and reopened,
then refused for good. `Texts` are the kinds of report a run uses. `DeafAfter` 0
makes the first refusal ignored the last. One call is within the budget of a
stage and two are not. The client starts one launch at a time. `NudgeLimit` 1
leaves states with and without a push. `MaxPlaces` bounds the place in the list a launch of the
parent may take: with 3, a stage can be launched, refused, reopened, superseded
and launched again. It cuts off longer histories, which is what the theorems are
for. Both orders of blocking are run.
`guard`: two calls refused in the same words and a third are the fewest
that reach `REPEAT_CAP`; a read, an edit and a re-read are three calls.
`verify`: what the reader keeps from line to line is set and used within three
lines. `pipeline`: a version that is quoted, one that lost its long line,
one with a line put in above, and one with its lines in another order: of these
only the second has drifted. `bench`: one task is enough for a row to be there, or
missing, or failed; the number of tasks, models, crashes and kills is left to the
theorems. `chat`: three rounds are two nudges and a third aborted reply, or two
cut-off replies; five lines are the cycle of two lines that
`NoLoopGoesOn` forbids to grow, and the sixth is the line that would make it grow.
`proxy`: the second chunk opens a block beside another or ends a call begun in
the first.

**Reductions.** `order` and the violated runs of the session check up to a
permutation of subagents. Their view also renumbers the places of the list and
drops the ids of finished entries other than the latest of a stage: every
operator compares places only, and the id of a finished entry is looked at only
when a verdict finds nothing of its stage waiting; then it is the parent's or a
killed stage's, which names no id and lands on the latest. `locked` permutes
hooks. `proxy` permutes clients, and its view keeps of what was sent the last
event and the number of blocks, which is all that the grammar looks at, and
drops the locals of a thread that has ended. No run with a liveness property is
reduced.

**Fairness**, and why the code justifies it:

* `ghost`: the clock runs, and the client either starts an admitted launch or says
  that it failed. Neither parent nor subagent is assumed to do anything, which
  is why there is no property that a flow ends.
* `bench`: processes go on; a lock grows old; the watchdog finishes what it began.
  A worker that finds the lock taken looks again five times a second, and a lock
  is free for as long between two workers, so a worker is taken not to miss it for
  ever (strong fairness). Kills and crashes are bounded, and nobody waits for one.
* `chat`: the harness goes on and waits at most three minutes for a runner
  (`wait_model_ready`). A stream ends, because the server stops at
  `num_predict` tokens and silence is a stall.
* `pipeline`: the driver goes on, and a session replies or its hour is over
  (`invoke`'s time-out). Nothing is assumed of the other driver.

## What the violated runs show

* `satisfied` - `admits` refuses every later stage while *any* entry of a
  blocking stage is refused, also once a later round of it was accepted: the
  docstring of `record_verdict` names this as the failure to avoid.
* `closing` - when some stage was given up on, the closing answer is made of
  the findings of the stages given up on, and leaves out what accepted stages
  proved, while saying that nothing else was verified.
* `judge` - a stage that may not write is held to the fingerprint of the tree
  after its first answer and not after its second: a judge that is sent back
  may edit, and pass.

## Proofs

For every value of the constants that satisfies the named assumptions: every
safety property of the passing runs, among them the two refinements. Only what
is said of liveness is left to TLC. None of the invariants is inductive as it
stands; each proof module states what it adds.

* **`FlowSessionProofs`**: `TypeCorrect` (`TypeOK`), `LaunchesBuildOnJudged`
  (`BuiltOnJudged`), `SessionEndsAnswered` (`EndsAnswered`), from the
  assumptions of `FlowState` (the stage sets are sets of stages, the caps are
  positive, a budget is a natural number, a report may be empty) and
  `FlowSession`. `IInv` adds that the list is finite, its places bounded, and
  `BuiltOn` of the list: the oldest and the latest of a set of entries are
  defined by `CHOOSE`, and exist only because the places are bounded. Every
  operator either *shrinks* the list (each place keeps its stage, and its
  verdict once it has one) or appends a launch whose blocking predecessors
  were all judged; `NextStageDue` is why a launch that is admitted or put back
  is of that kind, and a reopened round stands on what the round before it stood
  on. `EndsAnswered` follows from `AnswerKept`: whatever lets a turn end without
  a push has put its answer on record.
  Its second part, from an invariant of its own (`RInv`): `OneRoundAtATime`
  (`OneLiveRound`). A call makes the
  latest launch of its stage live again, so the invariant is `Rounds`: of two
  launches that are not held open it is the earlier one that is silent.
  Its third (`FInv`): `GivenUpStaysFinal` (`GivenUpIsFinal`),
  `RefusalsBounded` (`BoundedRefusals`), `AcceptanceStands` (`AcceptedSurvives`)
  and `ClosingStaysProved` (`ClosingIsProved`). That invariant is about one
  stage's part of the list (`StageOK`): what has a verdict comes before what has
  none, because a verdict lands on the oldest launch in flight (`Ordered`); a
  stage whose last entry is no refusal is two short of the caps together
  (`Fewer`); a launch in flight has proved nothing (`Blank`). A second kill of a
  deaf stage finds the entry the first one refused and changes nothing
  (`KilledOnce`). Every step but a launch and the parent's own report is `Firm`:
  it loses nothing accepted or proved and leaves a stage with nothing in flight
  alone. So a flow that is over stays over (`OverStays`), and the one step that
  can rewrite a finished round is out of reach once the answer is out.
* **`FlowLockProofs`**: `LockTypeCorrect`, `LockAlwaysFreed`,
  `NothingSavedIsLost`, `NeverReadHalf`, for any number of hooks and any files.
  `IInv` adds that there is one holder, that `flow.tmp` is never `flow.json`,
  and, as long as every save was made under the lock, that the hook that writes
  is the holder (`WriterHolds`), that its copy has all of the file
  (`HolderKnows`), and that what it is about to rename is that copy, whole
  (`WrittenWhole`).
* **`BenchQueueProofs`**: `TypeCorrect`, `LatestAlwaysBacked`,
  `EarlierRowsAlwaysKept`, `FilesWhole`, `OneRestorerAtATime`, for any models,
  tasks, crashes and strikes, and `StoreRefined` (`StoreSpec`): initial states
  map to initial states and every step to a step of `ResultStore` or a stutter.
  `MemoryBacked` says that what a suite holds in memory is filed;
  `MemoryFollows`, that it is what the latest file says (nothing, for a first
  suite that has not saved), with one row more just before a save;
  `InsideHolds`, that whoever is inside holds the lock unless one was broken.
* **`ContextGuardProofs`**: `NobodyToldOffEarly` (`ToldOffForRepeats`) and
  `RefusedRereadsAreAbove` (`RereadIsAbove`), for any number of agents, files and
  calls and any limits. A count in the ledger, or in a copy of it any process
  holds, is at most the number of refusals on record (`AllHonest`): records are
  only added, so a stale copy is too small, never too large. A read on record
  showed the file as it was at its time (`AllFresh`, `InPast`): a file not
  written since the second before is as it was shown.
* **`AgentTaskProofs`**: `TypeCorrect`, `AnswersAreNoThinking`
  (`AnswerIsNoThinking`), `GradesAreOfTheLastReply` (`GradedWasSaid`)
  and `LoopsAreCut` (`NoLoopGoesOn`), for any benches, budgets, retries, lines and limits, with
  and without the rescue. `PageOK` says that an open thinking block is known to
  be open, so that the answer never lands in it; `Counted`, that the detector's
  counts are no smaller than the repetitions there are; `Heard`, that while a
  reply streams, and once it is at the loop, `said` and `thought` are what has
  arrived in this attempt, promoted or not.

* **`DepthPipelineProofs`**: `StoodIsChecked` (`StoodWasChecked`),
  `ShownIsAccepted` (`ShownIsNotRefused`) and `RedIsARun` (`RedIsReal`), for any
  versions, answers and changes. The invariant is small: the files hold versions
  of their text (`TreeIsText`), what a session saw was a text (`LooksAreAtText`),
  and a run on record came out as its version of the file makes it come out
  (`RunsAreHonest`). Of the versions it is assumed that the lines that tell a drift
  are lines of theirs. The work is in `Evaluate`, which hands a claim on only if
  every piece of evidence it needs was checked against the tree of that step.
* **`ProxyProofs`**: `EveryClientReadsAStream` (`StreamSpec`): what a client has
  heard, followed by what is due to it, is the beginning of a well-formed
  message that agrees with the locals of `stream_anthropic` (`InGrammar`): which
  block is open, how many were. A chunk with several tool calls is an induction
  over the fragments (`CalledTells`, `CallsAreTold`), and the end of a stream
  closes what is open (`Closing`, `EndTells`). `TurnsAreToldApart`
  (`PairedInTurn`): by induction over the rows, the reader tells each end at
  most once and lets go of the request it told (`Distinct`); and if no two requests
  ever overlapped, at most one client has an open request, the one logged last
  (`Sequential`), so that the request in hand is the one that ends (`Exact`).
* **`VerifyProofs`**, the reader: `NothingIsBorrowed` (`ClaimsStandAlone`) and
  `QuotesAreKept` (`NoQuoteLost`), for answers of any length. The invariant (`Ok`)
  is about the claims read so far and the parser's locals: claims come in the order
  of their lines; a piece of evidence points to lines from its claim's to the one
  read last; the piece at hand is one of those cited last, which wait for a quote
  together (`AtHand`); an open quote waits with a piece that has none (`Open`); a
  quote that was closed is with some claim, or was one inside an EVIDENCE line and
  is replaced by a quote shared out (`NoneLost`). `AtHand` is what makes it
  inductive: an elided quote is shared out over all that were cited last, and of
  these only a quote from their own EVIDENCE line can be overwritten (`Yields`).
* **`VerifyProofs`**, the decisions: `AcceptedQuotesAreThere` (`AcceptedIsThere`),
  `CommandsCountedWereRun` (`CommandsWereRun`), `RecordsAreReadWhole`
  (`SessionEvidence`) and `HollowTestsAreHollow` (`HollowForItsOwnLines`), for any
  questions. `HollowForItsOwnLines` tells a test's own lines, up to the next header of
  a hunk, context or def, from those that the loop counts for it as well.
  The invariant only says that a verdict is what the rules make of the
  question (`Decided`); each theorem then rests on what a loop computes, by
  induction over its turns: what `hollow_tests` knows after n lines (`Knows`), what
  `command_result` has seen after n runs (`ConsideringIs`), that `covers` has
  reached a line exactly if there is no hole before it (`Reached`), that after n
  events the calls collected are those made, each at its event with the outcome
  of its own last result (`Placed`), and that the blank lines left out of a quote take
  no words with them (`KeptIs`). A quote accepted by a rule is either the words
  of the lines cited in a row (`Words`) or each of its lines is in one of
  theirs (`LineByLine`).

Loops over data are recursive functions, and the inductions over them are
done by hand: `UpToLast` says that what holds at nought, and at each step if at
the one before, holds throughout, and `FoldExists` that a function defined by
recursion is there.

What the questions are assumed to be is stated in `Verify`:
`VerifyAssumption` (answers are sequences of known lines), `QuotesAssumption` (files
and quotes are sequences of lines, and a quote has one other reading at
most), `EvidenceAssumption` (records are
sequences of calls, events and added lines, with line numbers that are
natural numbers), and `CommandsAssumption` (a command is a sequence of words, on either
side possibly with none: `CommandsWereRun` says that they share a word only when
both have one).

Only model-checked: liveness (`GhostNeverBlocks`, `QueueEnds`, `TaskEnds`,
`RunEnds`), which the prover does not reach, and the three violated runs.

## Observations

Seen while modelling, true of the models, and no property of a run; the line is
where it happens.

*Flow*

* Two stages can be in flight at once (one given up on, relaunched or put back
  while the other works), although `_stage_of` (`cc-depth-gate.py:776`) rests on
  there being one.
* The lock covers one save. A hook's second save (`cc-flow-guard.py:331`) is made
  without it, overwrites what others saved since, and shares `flow.tmp` with
  them (`cc_flowstate.py:108-110`).
* Refusals of the parent's own calls are counted against the stage in flight
  (`cc-context-guard.py:141`), which goes deaf that way though its worker is
  dead, not disobedient.

*Gate, verifier, pipeline*

* A numbered line inside a quote, under a heading CLAIMS, is read as a claim.
* A quote given inside its own EVIDENCE line (`cc_verify.py:843-854`) beside a
  command is lost when a QUOTE with one elision follows: its two pieces are shared
  out over the two citations (1475-1481) and the first takes its place, although
  1533 calls a second QUOTE "a second piece of evidence, not a correction of the first".
* `hollow_tests` keeps the last added test open across hunks and other defs
  (`cc_diff.py:135-136`): assertions added to an old test further down make a test of
  mocks look real, and a `pass` there makes a real one hollow, although the
  docstring (120) says a test that already existed is nobody's business.
* After lines are put in above, or lines change places, or only short lines
  change, no line shown is gone and `_drifted` (`cc-depth-gate.py:697-711`) finds
  nothing: a quote that was right when it was read is refused for its number.
* A claim with no evidence is not looked at further, for an opinion or a severity.
* A quote whose indentation was retouched may pass as a clipped one.
* A `RUN:` with nothing after it cites an empty command (`cc_verify.py:1585`),
  which is inside every other: a quote under it counts if any Bash run of the
  session printed it (`cc-depth-gate.py:740`).
* Two drivers can both find the lock free, and the first to end takes the
  other's lock away. What others change in the tree is blamed on the judge.
* A second answer that never comes leaves the first, refused, as the stage's
  report; a stage that is not blocking hands it on.

*Benchmark*

* On resume a row that says a task timed out or failed counts as done
  (`bench_runner.py:189`): it is not measured again.
* The deadline is looked at between rounds only; stalls and retries inside one
  add up beyond it, and a final answer that comes late is graded.
* The detector's "block repeated 3x" fires after `2 * size + 2` lines of a cycle,
  not after three blocks.
* A body that breaks off inside a chunk (`IncompleteRead`) is not retried.
* A stalled runner is unloaded before the retry; if the unload gets no answer, the
  retry finds the runner that stalled.
* Thinking that arrives on the retry, after the answer began on the first
  attempt, stands outside its tags in the transcript.

*Context guard, proxy*

* Refusals for the budget and the window carry numbers that change in their
  first ninety characters, so they are never counted as repeats.
* `already_answered` counts what refused calls printed, and for the parent what
  its subagents ran.
* A subagent whose transcript is not on disk yet is judged by its parent's
  (`cc-context-guard.py:180-185`), and may be told that a file's contents "are still
  above in this conversation" (613) when only the parent has them.
* A ledger written back late restores older counts, so a loop may be told later.
* A whole tool call beside one that was cut is sent, and the message ends with
  `end_turn`; a reason `tool_calls` whose only call does not parse ends with
  `tool_use` and no call.
* An upstream that breaks off in mid-stream leaves the message open, and its log
  row, if there is one, says the client went away.
* With two threads (`anthropic_proxy.py:576-578`) the end of one request is told as
  the turn of whichever was logged last, and the end of the other, if it is a
  `done`, is not told at all; `context_watch.py:38-39` calls the pairing exact.

## Not modelled

* What a hook, a gate or a driver says, and the composing of prompts
  (`cc_flow` prompts, `compose`, `amend`, `cc-depth-contract.py`).
* `_fabricated_quotes` and `_invented_paths` of the gate, which search a closing
  answer's prose; parsing with regular expressions in general, which is given by
  what it finds.
* `to_openai` and `to_anthropic` of the proxy, which translate one object into
  another.
* The functions of `task_timeout.py` that fork a child: nothing calls them.
* The tools of the benches, applying a diff and grading: files and private tests.
* `--dry-run` and other options that only print; reports, probes,
  status lines; shell scripts, which are sequences of commands.
* Tasks, fixtures, recorded results, model files, generators of data.
