----------------------------- MODULE BenchQueue -----------------------------
(***************************************************************************)
(* The queue that re-runs a benchmark for several models at once           *)
(* (run_cursor_repohard_stale.py), the suites it starts (bench_runner.py), *)
(* and the watchdog of another queue (watch_stuck_tasks.py), which takes   *)
(* every Cursor suite for its own and may know one of the models.          *)
(*                                                                         *)
(* A model's latest file is a table of rows, one per task: a measured row, *)
(* or one that says the task timed out or failed.  The runner replaces the *)
(* file whole; the watchdog rewrites it in place.                          *)
(***************************************************************************)
EXTENDS Naturals, FiniteSets

CONSTANTS
  Models,   \* the models the queue has to run, one worker each
  Shared,   \* the one the other queue runs as well, or none of them
  N,        \* tasks in the suite
  Earlier,  \* the tasks that may have been measured before the queue begins
  Crashes,  \* how often the queue may be stopped and started again
  Strikes   \* how often the watchdog may strike

Tasks == 1..N
Kinds == {"measured", "failed"}
Row == Kinds \cup {"none"}

ASSUME QueueAssumption ==
  /\ N \in Nat \ {0} /\ Crashes \in Nat /\ Strikes \in Nat
  /\ Earlier \subseteq 1..N
  /\ "free" \notin Models

VARIABLES
  pc,        \* where each worker is, in its own code or in its suite's
  run,       \* its first suite, which starts afresh, or the second, which merges
  next,      \* the task its suite has come to
  rows,      \* results_map of the suite
  latest,    \* the latest files
  filed,     \* tasks with a measured row in a stamped or archived file
  had,       \* tasks that had a measured row before the queue began
  saved,     \* models whose suite has saved since the queue was started
  lock,      \* who made the lock file of the fixture, or "free"
  old,       \* the lock file is older than two minutes
  inside,    \* workers between making the lock file and unlinking it
  broken,    \* a lock was broken for its age
  dog,       \* the watchdog, and the rows it is about to write
  crashes, strikes

workers == <<pc, run, next, rows>>
files == <<latest, filed, saved>>
fixture == <<lock, old, inside, broken>>
others == <<dog, strikes>>
vars == <<workers, files, had, fixture, others, crashes>>

Empty == [t \in Tasks |-> "none"]
Whole(r) == [rows |-> r, whole |-> TRUE]
Torn == [rows |-> Empty, whole |-> FALSE]
Measured(r) == {t \in Tasks : r[t] = "measured"}

InSuite == {"load", "task", "save"}
Steps == InSuite \cup {"check", "lock", "stale", "restore", "ended", "done"}

TypeOK ==
  /\ pc \in [Models -> Steps] /\ run \in [Models -> 1..2] /\ next \in [Models -> 1..N + 1]
  /\ rows \in [Models -> [Tasks -> Row]]
  /\ latest \in [Models -> [rows : [Tasks -> Row], whole : BOOLEAN]]
  /\ filed \in [Models -> SUBSET Tasks] /\ had \in [Models -> SUBSET Tasks]
  /\ saved \subseteq Models
  /\ lock \in Models \cup {"free"} /\ old \in BOOLEAN /\ broken \in BOOLEAN
  /\ inside \subseteq Models
  /\ dog \in [pc : {"idle", "read", "open", "write"}, task : Tasks, rows : [Tasks -> Row]]
  /\ crashes \in 0..Crashes /\ strikes \in 0..Strikes

Init ==
  /\ pc = [m \in Models |-> "check"] /\ run = [m \in Models |-> 1]
  /\ next = [m \in Models |-> 1] /\ rows = [m \in Models |-> Empty]
  /\ had \in [Models -> SUBSET Earlier]
  /\ latest = [m \in Models |->
                 Whole([t \in Tasks |-> IF t \in had[m] THEN "measured" ELSE "none"])]
  /\ filed = [m \in Models |-> {}] /\ saved = {}
  /\ lock = "free" /\ old = FALSE /\ inside = {} /\ broken = FALSE
  /\ dog = [pc |-> "idle", task |-> 1, rows |-> Empty]
  /\ crashes = Crashes /\ strikes = Strikes

Goto(m, l) == pc' = [pc EXCEPT ![m] = l]

\* A suite's memory dies with its process.
End(S) ==
  /\ pc' = [m \in Models |-> IF m \in S THEN "ended" ELSE pc[m]]
  /\ rows' = [m \in Models |-> IF m \in S THEN Empty ELSE rows[m]]
  /\ next' = [m \in Models |-> IF m \in S THEN 1 ELSE next[m]]

\* has_patches: a file that does not parse counts as one without.
HasPatches(m) == latest[m].whole /\ Measured(latest[m].rows) = Tasks

----------------------------------------------------------------------------
(* run_one, around the suites. *)

\* The first look; a model may be forced to run all the same.  The wait for an
\* idle machine that follows ends, by finding one or by giving up.
Check(m) ==
  /\ pc[m] = "check"
  /\ \/ HasPatches(m) /\ Goto(m, "done")
     \/ Goto(m, "lock")
  /\ UNCHANGED <<run, next, rows, files, had, fixture, others, crashes>>

\* A seeded fault: a lock file that exists is opened like a new one.
MakeLock_NotExclusive(m) ==
  /\ pc[m] = "lock"
  /\ lock' = m /\ old' = FALSE /\ inside' = inside \cup {m}
  /\ Goto(m, "restore")
  /\ UNCHANGED <<run, next, rows, files, had, broken, others, crashes>>

\* restore_ledgerkit: O_CREAT | O_EXCL.
MakeLock(m) ==
  /\ pc[m] = "lock" /\ lock = "free"
  /\ lock' = m /\ old' = FALSE /\ inside' = inside \cup {m}
  /\ Goto(m, "restore")
  /\ UNCHANGED <<run, next, rows, files, had, broken, others, crashes>>

\* A seeded fault: nobody looks at the age of the lock.
SeeStale_Never(m) ==
  /\ FALSE /\ Goto(m, "stale")
  /\ UNCHANGED <<run, next, rows, files, had, fixture, others, crashes>>

SeeStale(m) ==
  /\ pc[m] = "lock" /\ lock # "free" /\ old
  /\ Goto(m, "stale")
  /\ UNCHANGED <<run, next, rows, files, had, fixture, others, crashes>>

\* It unlinks the name, whichever file that stands for by now.
BreakLock(m) ==
  /\ pc[m] = "stale"
  /\ lock' = "free" /\ old' = FALSE /\ broken' = TRUE
  /\ Goto(m, "lock")
  /\ UNCHANGED <<run, next, rows, files, had, inside, others, crashes>>

\* git checkout has ended; the worker unlinks the name as well.
Restored(m) ==
  /\ pc[m] = "restore"
  /\ lock' = "free" /\ old' = FALSE /\ inside' = inside \ {m}
  /\ Goto(m, "load")
  /\ UNCHANGED <<run, next, rows, files, had, broken, others, crashes>>

\* The suite is over, in one way or another; the second suite has the last word.
SuiteOver(m) ==
  /\ pc[m] = "ended"
  /\ \/ /\ HasPatches(m) \/ run[m] = 2
        /\ Goto(m, "done") /\ run' = [run EXCEPT ![m] = 1]
     \/ /\ ~HasPatches(m) /\ run[m] = 1
        /\ Goto(m, "lock") /\ run' = [run EXCEPT ![m] = 2]
  /\ UNCHANGED <<next, rows, files, had, fixture, others, crashes>>

LockAges ==
  /\ lock # "free" /\ ~old
  /\ old' = TRUE
  /\ UNCHANGED <<workers, files, had, lock, inside, broken, others, crashes>>

----------------------------------------------------------------------------
(* run_main. *)

\* A seeded fault: the second suite does not merge.
Start_Fresh(m) ==
  /\ pc[m] = "load" /\ Goto(m, "task")
  /\ filed' = [filed EXCEPT ![m] = @ \cup Measured(latest[m].rows)]
  /\ UNCHANGED <<run, next, rows, latest, saved, had, fixture, others, crashes>>

\* A seeded fault: the file is not archived.
Start_Unarchived(m) ==
  /\ pc[m] = "load" /\ Goto(m, "task")
  /\ rows' = [rows EXCEPT ![m] =
                IF run[m] = 2 /\ latest[m].whole THEN latest[m].rows ELSE Empty]
  /\ UNCHANGED <<run, next, files, had, fixture, others, crashes>>

\* run_one archives the latest file before the first suite, which starts with
\* nothing; the second is filled in from the file, where one that cannot be
\* read is no results.  A model that does not answer the warm-up ends a suite.
Start(m) ==
  /\ pc[m] = "load"
  /\ filed' = [filed EXCEPT ![m] =
                 IF run[m] = 1 THEN @ \cup Measured(latest[m].rows) ELSE @]
  /\ \/ /\ rows' = [rows EXCEPT ![m] =
                      IF run[m] = 2 /\ latest[m].whole THEN latest[m].rows ELSE Empty]
        /\ Goto(m, "task")
        /\ UNCHANGED next
     \/ End({m})
  /\ UNCHANGED <<run, latest, saved, had, fixture, others, crashes>>

\* done_ids: the tasks that had a row, whatever it says.
Skip(m) ==
  /\ pc[m] = "task" /\ next[m] <= N /\ rows[m][next[m]] # "none"
  /\ next' = [next EXCEPT ![m] = @ + 1]
  /\ UNCHANGED <<pc, run, rows, files, had, fixture, others, crashes>>

\* A seeded fault: the task list is read one past its end.
RunTask_OffByOne(m) ==
  /\ pc[m] = "task" /\ next[m] <= N + 1
  /\ Goto(m, "save")
  /\ UNCHANGED <<run, next, rows, files, had, fixture, others, crashes>>

\* A seeded fault: the latest file is written before the stamped one.
RunTask_FiledLater(m) ==
  /\ pc[m] = "task" /\ next[m] <= N /\ rows[m][next[m]] = "none"
  /\ \E k \in Kinds :
       /\ rows' = [rows EXCEPT ![m][next[m]] = k]
       /\ latest' = [latest EXCEPT ![m] = Whole(rows'[m])]
  /\ saved' = saved \cup {m}
  /\ Goto(m, "save")
  /\ UNCHANGED <<run, next, filed, had, fixture, others, crashes>>

\* run_agent answers, or raises and _error_row stands in for its answer; the
\* merged rows go to the stamped file of this suite.
RunTask(m) ==
  /\ pc[m] = "task" /\ next[m] <= N /\ rows[m][next[m]] = "none"
  /\ \E k \in Kinds : rows' = [rows EXCEPT ![m][next[m]] = k]
  /\ filed' = [filed EXCEPT ![m] = @ \cup Measured(rows'[m])]
  /\ Goto(m, "save")
  /\ UNCHANGED <<run, next, latest, had, saved, fixture, others, crashes>>

\* A seeded fault: the file is written in place, and may be seen half written.
Save_InPlace(m) ==
  /\ pc[m] = "save"
  /\ latest' = [latest EXCEPT ![m] = IF @.whole THEN Torn ELSE Whole(rows[m])]
  /\ saved' = saved \cup {m}
  /\ IF latest[m].whole THEN UNCHANGED <<pc, next>>
     ELSE next' = [next EXCEPT ![m] = @ + 1] /\ Goto(m, "task")
  /\ UNCHANGED <<run, rows, filed, had, fixture, others, crashes>>

\* write_atomic: a temporary file of its own, renamed over the latest file.
Save(m) ==
  /\ pc[m] = "save"
  /\ latest' = [latest EXCEPT ![m] = Whole(rows[m])]
  /\ saved' = saved \cup {m}
  /\ next' = [next EXCEPT ![m] = @ + 1]
  /\ Goto(m, "task")
  /\ UNCHANGED <<run, rows, filed, had, fixture, others, crashes>>

Finish(m) ==
  /\ pc[m] = "task" /\ next[m] = N + 1
  /\ End({m})
  /\ UNCHANGED <<run, files, had, fixture, others, crashes>>

----------------------------------------------------------------------------
(* The others. *)

\* The other queue's suite of Shared saves what it has in memory, over whatever
\* is there; like every suite it has written its stamped file first.
GapSaves ==
  /\ Shared \in Models
  /\ \E r \in [Tasks -> Row] \ {Empty} :
       /\ latest' = [latest EXCEPT ![Shared] = Whole(r)]
       /\ filed' = [filed EXCEPT ![Shared] = @ \cup Measured(r)]
  /\ UNCHANGED <<workers, had, saved, fixture, others, crashes>>

\* The last banner of the other queue's log is past its budget, also when that
\* task was the last one and its suite has ended.  Every Cursor suite dies.
DogKills ==
  /\ dog.pc = "idle" /\ strikes > 0
  /\ IF Shared \in Models
     THEN \E t \in Tasks : dog' = [pc |-> "read", task |-> t, rows |-> Empty]
     ELSE UNCHANGED dog
  /\ End({m \in Models : pc[m] \in InSuite})
  /\ strikes' = strikes - 1
  /\ UNCHANGED <<run, files, had, fixture, crashes>>

\* _append_timeout_row reads the file, then truncates it, then writes it.
DogReads ==
  /\ dog.pc = "read"
  /\ LET there == IF latest[Shared].whole THEN latest[Shared].rows ELSE Empty
     IN dog' = [pc |-> "open", task |-> dog.task,
                rows |-> [there EXCEPT ![dog.task] = "failed"]]
  /\ UNCHANGED <<workers, files, had, fixture, strikes, crashes>>

DogOpens ==
  /\ dog.pc = "open"
  /\ latest' = [latest EXCEPT ![Shared] = Torn]
  /\ dog' = [pc |-> "write", task |-> dog.task, rows |-> dog.rows]
  /\ UNCHANGED <<workers, filed, saved, had, fixture, strikes, crashes>>

DogWrites ==
  /\ dog.pc = "write"
  /\ latest' = [latest EXCEPT ![Shared] = Whole(dog.rows)]
  /\ dog' = [pc |-> "idle", task |-> 1, rows |-> Empty]
  /\ UNCHANGED <<workers, filed, saved, had, fixture, strikes, crashes>>

\* The queue, its workers and its suites are stopped, and the queue is started
\* again.  The lock file stays.
Crash ==
  /\ crashes > 0
  /\ crashes' = crashes - 1
  /\ pc' = [m \in Models |-> "check"] /\ run' = [m \in Models |-> 1]
  /\ rows' = [m \in Models |-> Empty] /\ next' = [m \in Models |-> 1]
  /\ inside' = {} /\ saved' = {}
  /\ UNCHANGED <<latest, filed, had, lock, old, broken, others>>

----------------------------------------------------------------------------

Worker(m) ==
  \/ Check(m) \/ MakeLock(m) \/ SeeStale(m) \/ BreakLock(m) \/ Restored(m)
  \/ Start(m) \/ Skip(m) \/ RunTask(m) \/ Save(m) \/ Finish(m) \/ SuiteOver(m)

Dog == DogReads \/ DogOpens \/ DogWrites

Next ==
  \/ \E m \in Models : Worker(m)
  \/ LockAges \/ GapSaves \/ DogKills \/ Dog \/ Crash

\* Every process goes on, and time passes.  A worker that keeps finding the
\* lock taken tries again, so it gets a lock that is free time and again.
Fairness ==
  /\ \A m \in Models : WF_vars(Worker(m)) /\ SF_vars(MakeLock(m))
  /\ WF_vars(LockAges) /\ WF_vars(Dog)

Spec == Init /\ [][Next]_vars /\ Fairness

----------------------------------------------------------------------------
(* Properties. *)

\* What the latest file says was measured is also in a file that no later
\* suite rewrites, or it was there before the queue began: a suite killed at
\* any point leaves no measurement that the next save would destroy.
LatestIsBacked ==
  \A m \in Models : Measured(latest[m].rows) \subseteq filed[m] \cup had[m]

\* What was measured before the queue began is in the latest file or archived,
\* through kills, crashes and restarts, for the models nobody else runs.
EarlierRowsKept ==
  \A m \in Models \ {Shared} : had[m] \subseteq filed[m] \cup Measured(latest[m].rows)

\* A reader finds half a file only while the watchdog is writing that file.
WholeUnlessStubbed ==
  \A m \in Models : ~latest[m].whole => m = Shared /\ dog.pc = "write"

\* The fixture is restored by one worker at a time unless a lock was broken
\* for its age, also after a restart that finds the lock of the crashed queue.
OneRestorer == broken \/ Cardinality(inside) <= 1

\* Every worker comes to an end, whatever lock a crash left behind.
QueueEnds == \A m \in Models : <>[](pc[m] = "done")

\* For the models nobody else runs the files are a ResultStore: killed suites,
\* crashes and the resumption after them lose and re-measure nothing.
Own == Models \ {Shared}
Store == INSTANCE ResultStore WITH
  Models <- Own, Absent <- "none",
  rows <- [m \in Own |-> latest[m].rows],
  cleared <- saved \cap Own
StoreSpec == Store!Spec

=============================================================================
