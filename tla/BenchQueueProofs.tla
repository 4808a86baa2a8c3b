-------------------------- MODULE BenchQueueProofs --------------------------
(* Theorems about BenchQueue, for any models, tasks, crashes and strikes. *)
EXTENDS BenchQueue, FiniteSetTheorems, TLAPS

\* What a suite holds in memory is backed like what its file says, and covers
\* what its model had; so is what the watchdog is about to write.
MemoryBacked ==
  /\ \A m \in Models : pc[m] \in {"task", "save"} =>
       /\ Measured(rows[m]) \subseteq filed[m] \cup had[m]
       /\ m # Shared => had[m] \subseteq filed[m] \cup Measured(rows[m])
  /\ dog.pc \in {"open", "write"} => Measured(dog.rows) \subseteq filed[Shared] \cup had[Shared]

\* Until a lock is broken the one worker inside is the one whose lock it is.
InsideHolds ==
  /\ ~broken => inside \subseteq {lock}
  /\ \A m \in Models : pc[m] = "restore" => m \in inside

\* A suite saves a row of a task.
SavesATask == \A m \in Models : pc[m] = "save" => next[m] \in Tasks

\* A suite's memory is its file, or empty until the first suite has saved; just
\* before a save it has one row more.
Base(m) == IF run[m] = 1 /\ m \notin saved THEN Empty ELSE latest[m].rows
Follows(m) ==
  /\ latest[m].whole
  /\ run[m] = 1 /\ pc[m] \in {"check", "lock", "stale", "restore", "load"} => m \notin saved
  /\ pc[m] = "task" => rows[m] = Base(m)
  /\ pc[m] = "save" =>
       /\ Base(m)[next[m]] = "none"
       /\ \E k \in Kinds : rows[m] = [Base(m) EXCEPT ![next[m]] = k]
MemoryFollows == \A m \in Own : Follows(m)

\* The watchdog writes stubs only where the other queue has a file.
DogHasAFile == dog.pc # "idle" => Shared \in Models

IInv ==
  /\ TypeOK /\ SavesATask /\ DogHasAFile /\ LatestIsBacked /\ EarlierRowsKept /\ WholeUnlessStubbed
  /\ MemoryBacked /\ InsideHolds /\ MemoryFollows

USE QueueAssumption DEF Tasks, Kinds, Row, Steps, InSuite

LEMMA MeasuredTasks == ASSUME NEW r PROVE Measured(r) \subseteq Tasks
  BY DEF Measured

LEMMA EmptyRows == Empty \in [Tasks -> Row] /\ Measured(Empty) = {}
  BY DEF Empty, Measured

LEMMA InitInv == Init => IInv
<1> SUFFICES ASSUME Init PROVE IInv
  OBVIOUS
<1>1. TypeOK
  <2>1. \A m \in Models :
          [t \in Tasks |-> IF t \in had[m] THEN "measured" ELSE "none"] \in [Tasks -> Row]
    OBVIOUS
  <2>2. latest \in [Models -> [rows : [Tasks -> Row], whole : BOOLEAN]]
    BY <2>1 DEF Init, Whole
  <2>3. pc \in [Models -> Steps] /\ run \in [Models -> 1..2] /\ next \in [Models -> 1..N + 1]
    BY DEF Init
  <2>4. /\ rows \in [Models -> [Tasks -> Row]]
        /\ dog \in [pc : {"idle", "read", "open", "write"}, task : Tasks, rows : [Tasks -> Row]]
    BY EmptyRows DEF Init
  <2>5. filed \in [Models -> SUBSET Tasks] /\ had \in [Models -> SUBSET Tasks]
    BY DEF Init
  <2>6. crashes = Crashes /\ strikes = Strikes /\ saved = {} /\ inside = {}
    BY DEF Init
  <2>7. lock \in Models \cup {"free"} /\ old \in BOOLEAN /\ broken \in BOOLEAN
    BY DEF Init
  <2>8. QED
    BY <2>2, <2>3, <2>4, <2>5, <2>6, <2>7 DEF TypeOK
<1>2. \A m \in Models : Measured(latest[m].rows) = had[m]
  BY DEF Init, Whole, Measured
<1>3. LatestIsBacked /\ EarlierRowsKept
  BY <1>2 DEF LatestIsBacked, EarlierRowsKept
<1>4. WholeUnlessStubbed /\ SavesATask
  BY DEF Init, WholeUnlessStubbed, SavesATask, Whole
<1>5. MemoryBacked /\ InsideHolds /\ DogHasAFile
  BY DEF Init, MemoryBacked, InsideHolds, DogHasAFile
<1>6. MemoryFollows
  BY DEF Init, MemoryFollows, Follows, Whole, Own
<1>7. QED
  BY <1>1, <1>3, <1>4, <1>5, <1>6 DEF IInv

TypeWorkers ==
  pc \in [Models -> Steps] /\ run \in [Models -> 1..2] /\ next \in [Models -> 1..N + 1]

TypeMemory ==
  rows \in [Models -> [Tasks -> Row]]

TypeFiles ==
  /\ latest \in [Models -> [rows : [Tasks -> Row], whole : BOOLEAN]]
  /\ filed \in [Models -> SUBSET Tasks] /\ had \in [Models -> SUBSET Tasks]
  /\ saved \subseteq Models

TypeFixture ==
  /\ lock \in Models \cup {"free"} /\ old \in BOOLEAN /\ broken \in BOOLEAN
  /\ inside \subseteq Models

TypeOthers ==
  /\ dog \in [pc : {"idle", "read", "open", "write"}, task : Tasks, rows : [Tasks -> Row]]
  /\ crashes \in 0..Crashes /\ strikes \in 0..Strikes

LEMMA TypeParts == TypeOK <=> TypeWorkers /\ TypeMemory /\ TypeFiles /\ TypeFixture /\ TypeOthers
  BY DEF TypeOK, TypeWorkers, TypeMemory, TypeFiles, TypeFixture, TypeOthers

LEMMA TypeWorkersStep == ASSUME TypeOK, SavesATask, [Next]_vars PROVE TypeWorkers'
<1> USE DEF Goto, workers, files, fixture, others
<1>1. ASSUME NEW m \in Models, Worker(m) PROVE TypeWorkers'
  <2>1. CASE Check(m)
    BY <2>1 DEF TypeOK, SavesATask, TypeWorkers, Empty, End, Check
  <2>2. CASE MakeLock(m)
    BY <2>2 DEF TypeOK, SavesATask, TypeWorkers, Empty, End, MakeLock
  <2>3. CASE SeeStale(m)
    BY <2>3 DEF TypeOK, SavesATask, TypeWorkers, Empty, End, SeeStale
  <2>4. CASE BreakLock(m)
    BY <2>4 DEF TypeOK, SavesATask, TypeWorkers, Empty, End, BreakLock
  <2>5. CASE Restored(m)
    BY <2>5 DEF TypeOK, SavesATask, TypeWorkers, Empty, End, Restored
  <2>6. CASE Start(m)
    <3>1. CASE End({m})
      BY <2>6, <3>1 DEF Start, End, TypeOK, TypeWorkers
    <3>2. CASE pc' = [pc EXCEPT ![m] = "task"] /\ next' = next
      BY <2>6, <3>2 DEF Start, TypeOK, TypeWorkers
    <3>3. QED
      BY <2>6, <3>1, <3>2 DEF Start
  <2>7. CASE Skip(m)
    BY <2>7 DEF TypeOK, SavesATask, TypeWorkers, Empty, End, Skip
  <2>8. CASE RunTask(m)
    BY <2>8 DEF TypeOK, SavesATask, TypeWorkers, Empty, End, RunTask
  <2>9. CASE Save(m)
    BY <2>9 DEF TypeOK, SavesATask, TypeWorkers, Empty, End, Save
  <2>10. CASE Finish(m)
    BY <2>10 DEF TypeOK, SavesATask, TypeWorkers, Empty, End, Finish
  <2>11. CASE SuiteOver(m)
    <3>1. CASE pc' = [pc EXCEPT ![m] = "done"] /\ run' = [run EXCEPT ![m] = 1]
      BY <2>11, <3>1 DEF SuiteOver, TypeOK, TypeWorkers
    <3>2. CASE pc' = [pc EXCEPT ![m] = "lock"] /\ run' = [run EXCEPT ![m] = 2]
      BY <2>11, <3>2 DEF SuiteOver, TypeOK, TypeWorkers
    <3>3. QED
      BY <2>11, <3>1, <3>2 DEF SuiteOver
  <2>12. QED
    BY <1>1, <2>1, <2>2, <2>3, <2>4, <2>5, <2>6, <2>7, <2>8, <2>9, <2>10, <2>11 DEF Worker
<1>2. CASE LockAges
  BY <1>2 DEF TypeOK, SavesATask, TypeWorkers, Empty, End, LockAges
<1>3. CASE GapSaves
  BY <1>3 DEF TypeOK, SavesATask, TypeWorkers, Empty, End, GapSaves
<1>4. CASE DogKills
  BY <1>4 DEF TypeOK, SavesATask, TypeWorkers, Empty, End, DogKills
<1>5. CASE DogReads
  BY <1>5 DEF TypeOK, SavesATask, TypeWorkers, Empty, End, DogReads
<1>6. CASE DogOpens
  BY <1>6 DEF TypeOK, SavesATask, TypeWorkers, Empty, End, DogOpens
<1>7. CASE DogWrites
  BY <1>7 DEF TypeOK, SavesATask, TypeWorkers, Empty, End, DogWrites
<1>8. CASE Crash
  BY <1>8 DEF TypeOK, SavesATask, TypeWorkers, Empty, End, Crash
<1>9. CASE UNCHANGED vars
  BY <1>9 DEF TypeOK, SavesATask, TypeWorkers, Empty, End, vars
<1>10. QED
  BY <1>1, <1>2, <1>3, <1>4, <1>5, <1>6, <1>7, <1>8, <1>9 DEF Next, Dog

LEMMA TypeMemoryStep == ASSUME TypeOK, SavesATask, [Next]_vars PROVE TypeMemory'
<1> USE DEF Goto, workers, files, fixture, others
<1>1. ASSUME NEW m \in Models, Worker(m) PROVE TypeMemory'
  <2>1. CASE Check(m)
    BY <2>1 DEF TypeOK, SavesATask, TypeMemory, Empty, End, Check
  <2>2. CASE MakeLock(m)
    BY <2>2 DEF TypeOK, SavesATask, TypeMemory, Empty, End, MakeLock
  <2>3. CASE SeeStale(m)
    BY <2>3 DEF TypeOK, SavesATask, TypeMemory, Empty, End, SeeStale
  <2>4. CASE BreakLock(m)
    BY <2>4 DEF TypeOK, SavesATask, TypeMemory, Empty, End, BreakLock
  <2>5. CASE Restored(m)
    BY <2>5 DEF TypeOK, SavesATask, TypeMemory, Empty, End, Restored
  <2>6. CASE Start(m)
    <3>1. (IF run[m] = 2 /\ latest[m].whole THEN latest[m].rows ELSE Empty) \in [Tasks -> Row]
      BY EmptyRows DEF TypeOK
    <3>2. CASE End({m})
      BY <3>2, EmptyRows DEF End, TypeOK, TypeMemory
    <3>3. CASE ~End({m})
      BY <2>6, <3>1, <3>3 DEF Start, TypeOK, TypeMemory
    <3>4. QED
      BY <3>2, <3>3
  <2>7. CASE Skip(m)
    BY <2>7 DEF TypeOK, SavesATask, TypeMemory, Empty, End, Skip
  <2>8. CASE RunTask(m)
    BY <2>8 DEF TypeOK, SavesATask, TypeMemory, Empty, End, RunTask
  <2>9. CASE Save(m)
    BY <2>9 DEF TypeOK, SavesATask, TypeMemory, Empty, End, Save
  <2>10. CASE Finish(m)
    BY <2>10 DEF TypeOK, SavesATask, TypeMemory, Empty, End, Finish
  <2>11. CASE SuiteOver(m)
    BY <2>11 DEF TypeOK, SavesATask, TypeMemory, Empty, End, SuiteOver
  <2>12. QED
    BY <1>1, <2>1, <2>2, <2>3, <2>4, <2>5, <2>6, <2>7, <2>8, <2>9, <2>10, <2>11 DEF Worker
<1>2. CASE LockAges
  BY <1>2 DEF TypeOK, SavesATask, TypeMemory, Empty, End, LockAges
<1>3. CASE GapSaves
  BY <1>3 DEF TypeOK, SavesATask, TypeMemory, Empty, End, GapSaves
<1>4. CASE DogKills
  BY <1>4 DEF TypeOK, SavesATask, TypeMemory, Empty, End, DogKills
<1>5. CASE DogReads
  BY <1>5 DEF TypeOK, SavesATask, TypeMemory, Empty, End, DogReads
<1>6. CASE DogOpens
  BY <1>6 DEF TypeOK, SavesATask, TypeMemory, Empty, End, DogOpens
<1>7. CASE DogWrites
  BY <1>7 DEF TypeOK, SavesATask, TypeMemory, Empty, End, DogWrites
<1>8. CASE Crash
  BY <1>8 DEF TypeOK, SavesATask, TypeMemory, Empty, End, Crash
<1>9. CASE UNCHANGED vars
  BY <1>9 DEF TypeOK, SavesATask, TypeMemory, Empty, End, vars
<1>10. QED
  BY <1>1, <1>2, <1>3, <1>4, <1>5, <1>6, <1>7, <1>8, <1>9 DEF Next, Dog

LEMMA TypeFilesStep == ASSUME TypeOK, SavesATask, [Next]_vars PROVE TypeFiles'
<1> USE DEF Goto, workers, files, fixture, others
<1>1. ASSUME NEW m \in Models, Worker(m) PROVE TypeFiles'
  <2>1. CASE Check(m)
    BY <2>1 DEF TypeOK, SavesATask, TypeFiles, Empty, Torn, Whole, Measured, Check
  <2>2. CASE MakeLock(m)
    BY <2>2 DEF TypeOK, SavesATask, TypeFiles, Empty, Torn, Whole, Measured, MakeLock
  <2>3. CASE SeeStale(m)
    BY <2>3 DEF TypeOK, SavesATask, TypeFiles, Empty, Torn, Whole, Measured, SeeStale
  <2>4. CASE BreakLock(m)
    BY <2>4 DEF TypeOK, SavesATask, TypeFiles, Empty, Torn, Whole, Measured, BreakLock
  <2>5. CASE Restored(m)
    BY <2>5 DEF TypeOK, SavesATask, TypeFiles, Empty, Torn, Whole, Measured, Restored
  <2>6. CASE Start(m)
    <3>1. filed' \in [Models -> SUBSET Tasks]
      BY <2>6, MeasuredTasks DEF Start, TypeOK
    <3>2. QED
      BY <2>6, <3>1 DEF Start, TypeOK, TypeFiles
  <2>7. CASE Skip(m)
    BY <2>7 DEF TypeOK, SavesATask, TypeFiles, Empty, Torn, Whole, Measured, Skip
  <2>8. CASE RunTask(m)
    BY <2>8 DEF TypeOK, SavesATask, TypeFiles, Empty, Torn, Whole, Measured, RunTask
  <2>9. CASE Save(m)
    BY <2>9 DEF TypeOK, SavesATask, TypeFiles, Empty, Torn, Whole, Measured, Save
  <2>10. CASE Finish(m)
    BY <2>10 DEF TypeOK, SavesATask, TypeFiles, Empty, Torn, Whole, Measured, Finish
  <2>11. CASE SuiteOver(m)
    BY <2>11 DEF TypeOK, SavesATask, TypeFiles, Empty, Torn, Whole, Measured, SuiteOver
  <2>12. QED
    BY <1>1, <2>1, <2>2, <2>3, <2>4, <2>5, <2>6, <2>7, <2>8, <2>9, <2>10, <2>11 DEF Worker
<1>2. CASE LockAges
  BY <1>2 DEF TypeOK, SavesATask, TypeFiles, Empty, Torn, Whole, Measured, LockAges
<1>3. CASE GapSaves
  BY <1>3 DEF TypeOK, SavesATask, TypeFiles, Empty, Torn, Whole, Measured, GapSaves
<1>4. CASE DogKills
  BY <1>4 DEF TypeOK, SavesATask, TypeFiles, Empty, Torn, Whole, Measured, DogKills
<1>5. CASE DogReads
  BY <1>5 DEF TypeOK, SavesATask, TypeFiles, Empty, Torn, Whole, Measured, DogReads
<1>6. CASE DogOpens
  BY <1>6 DEF TypeOK, SavesATask, TypeFiles, Empty, Torn, Whole, Measured, DogOpens
<1>7. CASE DogWrites
  BY <1>7 DEF TypeOK, SavesATask, TypeFiles, Empty, Torn, Whole, Measured, DogWrites
<1>8. CASE Crash
  BY <1>8 DEF TypeOK, SavesATask, TypeFiles, Empty, Torn, Whole, Measured, Crash
<1>9. CASE UNCHANGED vars
  BY <1>9 DEF TypeOK, SavesATask, TypeFiles, Empty, Torn, Whole, Measured, vars
<1>10. QED
  BY <1>1, <1>2, <1>3, <1>4, <1>5, <1>6, <1>7, <1>8, <1>9 DEF Next, Dog

LEMMA TypeFixtureStep == ASSUME TypeOK, SavesATask, [Next]_vars PROVE TypeFixture'
<1> USE DEF Goto, workers, files, fixture, others
<1>1. ASSUME NEW m \in Models, Worker(m) PROVE TypeFixture'
  <2>1. CASE Check(m)
    BY <2>1 DEF TypeOK, SavesATask, TypeFixture, Empty, Check
  <2>2. CASE MakeLock(m)
    BY <2>2 DEF TypeOK, SavesATask, TypeFixture, Empty, MakeLock
  <2>3. CASE SeeStale(m)
    BY <2>3 DEF TypeOK, SavesATask, TypeFixture, Empty, SeeStale
  <2>4. CASE BreakLock(m)
    BY <2>4 DEF TypeOK, SavesATask, TypeFixture, Empty, BreakLock
  <2>5. CASE Restored(m)
    BY <2>5 DEF TypeOK, SavesATask, TypeFixture, Empty, Restored
  <2>6. CASE Start(m)
    BY <2>6 DEF TypeOK, SavesATask, TypeFixture, Empty, Start
  <2>7. CASE Skip(m)
    BY <2>7 DEF TypeOK, SavesATask, TypeFixture, Empty, Skip
  <2>8. CASE RunTask(m)
    BY <2>8 DEF TypeOK, SavesATask, TypeFixture, Empty, RunTask
  <2>9. CASE Save(m)
    BY <2>9 DEF TypeOK, SavesATask, TypeFixture, Empty, Save
  <2>10. CASE Finish(m)
    BY <2>10 DEF TypeOK, SavesATask, TypeFixture, Empty, Finish
  <2>11. CASE SuiteOver(m)
    BY <2>11 DEF TypeOK, SavesATask, TypeFixture, Empty, SuiteOver
  <2>12. QED
    BY <1>1, <2>1, <2>2, <2>3, <2>4, <2>5, <2>6, <2>7, <2>8, <2>9, <2>10, <2>11 DEF Worker
<1>2. CASE LockAges
  BY <1>2 DEF TypeOK, SavesATask, TypeFixture, Empty, LockAges
<1>3. CASE GapSaves
  BY <1>3 DEF TypeOK, SavesATask, TypeFixture, Empty, GapSaves
<1>4. CASE DogKills
  BY <1>4 DEF TypeOK, SavesATask, TypeFixture, Empty, DogKills
<1>5. CASE DogReads
  BY <1>5 DEF TypeOK, SavesATask, TypeFixture, Empty, DogReads
<1>6. CASE DogOpens
  BY <1>6 DEF TypeOK, SavesATask, TypeFixture, Empty, DogOpens
<1>7. CASE DogWrites
  BY <1>7 DEF TypeOK, SavesATask, TypeFixture, Empty, DogWrites
<1>8. CASE Crash
  BY <1>8 DEF TypeOK, SavesATask, TypeFixture, Empty, Crash
<1>9. CASE UNCHANGED vars
  BY <1>9 DEF TypeOK, SavesATask, TypeFixture, Empty, vars
<1>10. QED
  BY <1>1, <1>2, <1>3, <1>4, <1>5, <1>6, <1>7, <1>8, <1>9 DEF Next, Dog

LEMMA TypeOthersStep == ASSUME TypeOK, DogHasAFile, [Next]_vars PROVE TypeOthers'
<1> USE DEF Goto, workers, files, fixture, others
<1>1. ASSUME NEW m \in Models, Worker(m) PROVE TypeOthers'
  <2>1. CASE Check(m)
    BY <2>1 DEF TypeOK, SavesATask, TypeOthers, Empty, Check
  <2>2. CASE MakeLock(m)
    BY <2>2 DEF TypeOK, SavesATask, TypeOthers, Empty, MakeLock
  <2>3. CASE SeeStale(m)
    BY <2>3 DEF TypeOK, SavesATask, TypeOthers, Empty, SeeStale
  <2>4. CASE BreakLock(m)
    BY <2>4 DEF TypeOK, SavesATask, TypeOthers, Empty, BreakLock
  <2>5. CASE Restored(m)
    BY <2>5 DEF TypeOK, SavesATask, TypeOthers, Empty, Restored
  <2>6. CASE Start(m)
    BY <2>6 DEF TypeOK, SavesATask, TypeOthers, Empty, Start
  <2>7. CASE Skip(m)
    BY <2>7 DEF TypeOK, SavesATask, TypeOthers, Empty, Skip
  <2>8. CASE RunTask(m)
    BY <2>8 DEF TypeOK, SavesATask, TypeOthers, Empty, RunTask
  <2>9. CASE Save(m)
    BY <2>9 DEF TypeOK, SavesATask, TypeOthers, Empty, Save
  <2>10. CASE Finish(m)
    BY <2>10 DEF TypeOK, SavesATask, TypeOthers, Empty, Finish
  <2>11. CASE SuiteOver(m)
    BY <2>11 DEF TypeOK, SavesATask, TypeOthers, Empty, SuiteOver
  <2>12. QED
    BY <1>1, <2>1, <2>2, <2>3, <2>4, <2>5, <2>6, <2>7, <2>8, <2>9, <2>10, <2>11 DEF Worker
<1>2. CASE LockAges
  BY <1>2 DEF TypeOK, SavesATask, TypeOthers, Empty, LockAges
<1>3. CASE GapSaves
  BY <1>3 DEF TypeOK, SavesATask, TypeOthers, Empty, GapSaves
<1>4. CASE DogKills
  BY <1>4 DEF TypeOK, SavesATask, TypeOthers, Empty, DogKills
<1>5. CASE DogReads
  <2>1. (IF latest[Shared].whole THEN latest[Shared].rows ELSE Empty) \in [Tasks -> Row]
    BY EmptyRows, <1>5 DEF TypeOK, DogHasAFile, DogReads
  <2>2. QED
    BY <1>5, <2>1 DEF DogReads, TypeOK, TypeOthers
<1>6. CASE DogOpens
  BY <1>6 DEF TypeOK, SavesATask, TypeOthers, Empty, DogOpens
<1>7. CASE DogWrites
  BY <1>7 DEF TypeOK, SavesATask, TypeOthers, Empty, DogWrites
<1>8. CASE Crash
  BY <1>8 DEF TypeOK, SavesATask, TypeOthers, Empty, Crash
<1>9. CASE UNCHANGED vars
  BY <1>9 DEF TypeOK, SavesATask, TypeOthers, Empty, vars
<1>10. QED
  BY <1>1, <1>2, <1>3, <1>4, <1>5, <1>6, <1>7, <1>8, <1>9 DEF Next, Dog

LEMMA TypeStep == ASSUME TypeOK, SavesATask, DogHasAFile, [Next]_vars PROVE TypeOK'
<1>1. TypeWorkers' /\ TypeMemory' /\ TypeFiles' /\ TypeFixture' /\ TypeOthers'
  BY TypeWorkersStep, TypeMemoryStep, TypeFilesStep, TypeFixtureStep, TypeOthersStep
<1>2. QED
  BY <1>1 DEF TypeOK, TypeWorkers, TypeMemory, TypeFiles, TypeFixture, TypeOthers

LEMMA SavesATaskStep == ASSUME TypeOK, SavesATask, [Next]_vars PROVE SavesATask'
<1> USE DEF Goto, workers, files, fixture, others
<1>1. ASSUME NEW m \in Models, Worker(m) PROVE SavesATask'
  <2>1. CASE Check(m)
    BY <2>1 DEF TypeOK, SavesATask, End, Check
  <2>2. CASE MakeLock(m)
    BY <2>2 DEF TypeOK, SavesATask, End, MakeLock
  <2>3. CASE SeeStale(m)
    BY <2>3 DEF TypeOK, SavesATask, End, SeeStale
  <2>4. CASE BreakLock(m)
    BY <2>4 DEF TypeOK, SavesATask, End, BreakLock
  <2>5. CASE Restored(m)
    BY <2>5 DEF TypeOK, SavesATask, End, Restored
  <2>6. CASE Start(m)
    BY <2>6 DEF TypeOK, SavesATask, End, Start
  <2>7. CASE Skip(m)
    BY <2>7 DEF TypeOK, SavesATask, End, Skip
  <2>8. CASE RunTask(m)
    BY <2>8 DEF TypeOK, SavesATask, End, RunTask
  <2>9. CASE Save(m)
    BY <2>9 DEF TypeOK, SavesATask, End, Save
  <2>10. CASE Finish(m)
    BY <2>10 DEF TypeOK, SavesATask, End, Finish
  <2>11. CASE SuiteOver(m)
    BY <2>11 DEF TypeOK, SavesATask, End, SuiteOver
  <2>12. QED
    BY <1>1, <2>1, <2>2, <2>3, <2>4, <2>5, <2>6, <2>7, <2>8, <2>9, <2>10, <2>11 DEF Worker
<1>2. CASE LockAges
  BY <1>2 DEF TypeOK, SavesATask, End, LockAges
<1>3. CASE GapSaves
  BY <1>3 DEF TypeOK, SavesATask, End, GapSaves
<1>4. CASE DogKills
  BY <1>4 DEF TypeOK, SavesATask, End, DogKills
<1>5. CASE DogReads
  BY <1>5 DEF TypeOK, SavesATask, End, DogReads
<1>6. CASE DogOpens
  BY <1>6 DEF TypeOK, SavesATask, End, DogOpens
<1>7. CASE DogWrites
  BY <1>7 DEF TypeOK, SavesATask, End, DogWrites
<1>8. CASE Crash
  BY <1>8 DEF TypeOK, SavesATask, End, Crash
<1>9. CASE UNCHANGED vars
  BY <1>9 DEF TypeOK, SavesATask, End, vars
<1>10. QED
  BY <1>1, <1>2, <1>3, <1>4, <1>5, <1>6, <1>7, <1>8, <1>9 DEF Next, Dog

LEMMA DogHasAFileStep == ASSUME TypeOK, DogHasAFile, [Next]_vars PROVE DogHasAFile'
<1> USE DEF Goto, workers, files, fixture, others
<1>1. ASSUME NEW m \in Models, Worker(m) PROVE DogHasAFile'
  <2>1. CASE Check(m)
    BY <2>1 DEF TypeOK, DogHasAFile, Check
  <2>2. CASE MakeLock(m)
    BY <2>2 DEF TypeOK, DogHasAFile, MakeLock
  <2>3. CASE SeeStale(m)
    BY <2>3 DEF TypeOK, DogHasAFile, SeeStale
  <2>4. CASE BreakLock(m)
    BY <2>4 DEF TypeOK, DogHasAFile, BreakLock
  <2>5. CASE Restored(m)
    BY <2>5 DEF TypeOK, DogHasAFile, Restored
  <2>6. CASE Start(m)
    BY <2>6 DEF TypeOK, DogHasAFile, Start
  <2>7. CASE Skip(m)
    BY <2>7 DEF TypeOK, DogHasAFile, Skip
  <2>8. CASE RunTask(m)
    BY <2>8 DEF TypeOK, DogHasAFile, RunTask
  <2>9. CASE Save(m)
    BY <2>9 DEF TypeOK, DogHasAFile, Save
  <2>10. CASE Finish(m)
    BY <2>10 DEF TypeOK, DogHasAFile, Finish
  <2>11. CASE SuiteOver(m)
    BY <2>11 DEF TypeOK, DogHasAFile, SuiteOver
  <2>12. QED
    BY <1>1, <2>1, <2>2, <2>3, <2>4, <2>5, <2>6, <2>7, <2>8, <2>9, <2>10, <2>11 DEF Worker
<1>2. CASE LockAges
  BY <1>2 DEF TypeOK, DogHasAFile, LockAges
<1>3. CASE GapSaves
  BY <1>3 DEF TypeOK, DogHasAFile, GapSaves
<1>4. CASE DogKills
  BY <1>4 DEF TypeOK, DogHasAFile, DogKills
<1>5. CASE DogReads
  BY <1>5 DEF TypeOK, DogHasAFile, DogReads
<1>6. CASE DogOpens
  BY <1>6 DEF TypeOK, DogHasAFile, DogOpens
<1>7. CASE DogWrites
  BY <1>7 DEF TypeOK, DogHasAFile, DogWrites
<1>8. CASE Crash
  BY <1>8 DEF TypeOK, DogHasAFile, Crash
<1>9. CASE UNCHANGED vars
  BY <1>9 DEF TypeOK, DogHasAFile, vars
<1>10. QED
  BY <1>1, <1>2, <1>3, <1>4, <1>5, <1>6, <1>7, <1>8, <1>9 DEF Next, Dog

LEMMA WholeStep == ASSUME TypeOK, DogHasAFile, WholeUnlessStubbed, [Next]_vars PROVE WholeUnlessStubbed'
<1> USE DEF Goto, workers, files, fixture, others
<1>1. ASSUME NEW m \in Models, Worker(m) PROVE WholeUnlessStubbed'
  <2>1. CASE Check(m)
    BY <2>1 DEF TypeOK, DogHasAFile, WholeUnlessStubbed, Whole, Torn, Check
  <2>2. CASE MakeLock(m)
    BY <2>2 DEF TypeOK, DogHasAFile, WholeUnlessStubbed, Whole, Torn, MakeLock
  <2>3. CASE SeeStale(m)
    BY <2>3 DEF TypeOK, DogHasAFile, WholeUnlessStubbed, Whole, Torn, SeeStale
  <2>4. CASE BreakLock(m)
    BY <2>4 DEF TypeOK, DogHasAFile, WholeUnlessStubbed, Whole, Torn, BreakLock
  <2>5. CASE Restored(m)
    BY <2>5 DEF TypeOK, DogHasAFile, WholeUnlessStubbed, Whole, Torn, Restored
  <2>6. CASE Start(m)
    BY <2>6 DEF TypeOK, DogHasAFile, WholeUnlessStubbed, Whole, Torn, Start
  <2>7. CASE Skip(m)
    BY <2>7 DEF TypeOK, DogHasAFile, WholeUnlessStubbed, Whole, Torn, Skip
  <2>8. CASE RunTask(m)
    BY <2>8 DEF TypeOK, DogHasAFile, WholeUnlessStubbed, Whole, Torn, RunTask
  <2>9. CASE Save(m)
    BY <2>9 DEF TypeOK, DogHasAFile, WholeUnlessStubbed, Whole, Torn, Save
  <2>10. CASE Finish(m)
    BY <2>10 DEF TypeOK, DogHasAFile, WholeUnlessStubbed, Whole, Torn, Finish
  <2>11. CASE SuiteOver(m)
    BY <2>11 DEF TypeOK, DogHasAFile, WholeUnlessStubbed, Whole, Torn, SuiteOver
  <2>12. QED
    BY <1>1, <2>1, <2>2, <2>3, <2>4, <2>5, <2>6, <2>7, <2>8, <2>9, <2>10, <2>11 DEF Worker
<1>2. CASE LockAges
  BY <1>2 DEF TypeOK, DogHasAFile, WholeUnlessStubbed, Whole, Torn, LockAges
<1>3. CASE GapSaves
  BY <1>3 DEF TypeOK, DogHasAFile, WholeUnlessStubbed, Whole, Torn, GapSaves
<1>4. CASE DogKills
  BY <1>4 DEF TypeOK, DogHasAFile, WholeUnlessStubbed, Whole, Torn, DogKills
<1>5. CASE DogReads
  BY <1>5 DEF TypeOK, DogHasAFile, WholeUnlessStubbed, Whole, Torn, DogReads
<1>6. CASE DogOpens
  BY <1>6 DEF TypeOK, DogHasAFile, WholeUnlessStubbed, Whole, Torn, DogOpens
<1>7. CASE DogWrites
  BY <1>7 DEF TypeOK, DogHasAFile, WholeUnlessStubbed, Whole, Torn, DogWrites
<1>8. CASE Crash
  BY <1>8 DEF TypeOK, DogHasAFile, WholeUnlessStubbed, Whole, Torn, Crash
<1>9. CASE UNCHANGED vars
  BY <1>9 DEF TypeOK, DogHasAFile, WholeUnlessStubbed, Whole, Torn, vars
<1>10. QED
  BY <1>1, <1>2, <1>3, <1>4, <1>5, <1>6, <1>7, <1>8, <1>9 DEF Next, Dog

LEMMA InsideStep == ASSUME TypeOK, InsideHolds, [Next]_vars PROVE InsideHolds'
<1> USE DEF Goto, workers, files, fixture, others
<1>1. ASSUME NEW m \in Models, Worker(m) PROVE InsideHolds'
  <2>1. CASE Check(m)
    BY <2>1 DEF TypeOK, InsideHolds, End, Check
  <2>2. CASE MakeLock(m)
    BY <2>2 DEF TypeOK, InsideHolds, End, MakeLock
  <2>3. CASE SeeStale(m)
    BY <2>3 DEF TypeOK, InsideHolds, End, SeeStale
  <2>4. CASE BreakLock(m)
    BY <2>4 DEF TypeOK, InsideHolds, End, BreakLock
  <2>5. CASE Restored(m)
    BY <2>5 DEF TypeOK, InsideHolds, End, Restored
  <2>6. CASE Start(m)
    BY <2>6 DEF TypeOK, InsideHolds, End, Start
  <2>7. CASE Skip(m)
    BY <2>7 DEF TypeOK, InsideHolds, End, Skip
  <2>8. CASE RunTask(m)
    BY <2>8 DEF TypeOK, InsideHolds, End, RunTask
  <2>9. CASE Save(m)
    BY <2>9 DEF TypeOK, InsideHolds, End, Save
  <2>10. CASE Finish(m)
    BY <2>10 DEF TypeOK, InsideHolds, End, Finish
  <2>11. CASE SuiteOver(m)
    BY <2>11 DEF TypeOK, InsideHolds, End, SuiteOver
  <2>12. QED
    BY <1>1, <2>1, <2>2, <2>3, <2>4, <2>5, <2>6, <2>7, <2>8, <2>9, <2>10, <2>11 DEF Worker
<1>2. CASE LockAges
  BY <1>2 DEF TypeOK, InsideHolds, End, LockAges
<1>3. CASE GapSaves
  BY <1>3 DEF TypeOK, InsideHolds, End, GapSaves
<1>4. CASE DogKills
  BY <1>4 DEF TypeOK, InsideHolds, End, DogKills
<1>5. CASE DogReads
  BY <1>5 DEF TypeOK, InsideHolds, End, DogReads
<1>6. CASE DogOpens
  BY <1>6 DEF TypeOK, InsideHolds, End, DogOpens
<1>7. CASE DogWrites
  BY <1>7 DEF TypeOK, InsideHolds, End, DogWrites
<1>8. CASE Crash
  BY <1>8 DEF TypeOK, InsideHolds, End, Crash
<1>9. CASE UNCHANGED vars
  BY <1>9 DEF TypeOK, InsideHolds, End, vars
<1>10. QED
  BY <1>1, <1>2, <1>3, <1>4, <1>5, <1>6, <1>7, <1>8, <1>9 DEF Next, Dog

LEMMA BackedStep == ASSUME TypeOK, DogHasAFile, WholeUnlessStubbed, LatestIsBacked, EarlierRowsKept, MemoryBacked, [Next]_vars PROVE (LatestIsBacked /\ MemoryBacked)'
<1> USE DEF Goto, workers, files, fixture, others
<1>1. ASSUME NEW m \in Models, Worker(m) PROVE (LatestIsBacked /\ MemoryBacked)'
  <2>1. CASE Check(m)
    <3>1. UNCHANGED <<latest, filed, had, dog, rows>>
      BY <2>1 DEF Check
    <3>2. \A n \in Models : pc'[n] \in {"task", "save"} => pc'[n] = pc[n]
      BY <2>1 DEF Check, TypeOK
    <3>3. QED
      BY <3>1, <3>2 DEF LatestIsBacked, MemoryBacked
  <2>2. CASE MakeLock(m)
    BY <2>2 DEF TypeOK, DogHasAFile, LatestIsBacked, MemoryBacked, EarlierRowsKept, WholeUnlessStubbed, End, Whole, Torn, Measured, Empty, MakeLock
  <2>3. CASE SeeStale(m)
    BY <2>3 DEF TypeOK, DogHasAFile, LatestIsBacked, MemoryBacked, EarlierRowsKept, WholeUnlessStubbed, End, Whole, Torn, Measured, Empty, SeeStale
  <2>4. CASE BreakLock(m)
    BY <2>4 DEF TypeOK, DogHasAFile, LatestIsBacked, MemoryBacked, EarlierRowsKept, WholeUnlessStubbed, End, Whole, Torn, Measured, Empty, BreakLock
  <2>5. CASE Restored(m)
    BY <2>5 DEF TypeOK, DogHasAFile, LatestIsBacked, MemoryBacked, EarlierRowsKept, WholeUnlessStubbed, End, Whole, Torn, Measured, Empty, Restored
  <2>6. CASE Start(m)
    <3>1. UNCHANGED <<latest, had, dog>>
      BY <2>6 DEF Start
    <3>2. \A n \in Models : filed[n] \subseteq filed'[n]
      BY <2>6 DEF Start, TypeOK
    <3>3. LatestIsBacked'
      BY <3>1, <3>2 DEF LatestIsBacked
    <3>4. \A n \in Models : pc'[n] \in {"task", "save"} =>
            \/ n # m /\ pc'[n] = pc[n] /\ rows'[n] = rows[n]
            \/ n = m /\ rows'[m] = IF run[m] = 2 /\ latest[m].whole
                                   THEN latest[m].rows ELSE Empty
      BY <2>6 DEF Start, End, TypeOK
    <3>5. pc'[m] \in {"task", "save"} =>
            /\ Measured(rows'[m]) \subseteq filed'[m] \cup had[m]
            /\ m # Shared => had[m] \subseteq filed'[m] \cup Measured(rows'[m])
      <4>1. CASE run[m] = 1
        <5>1. filed'[m] = filed[m] \cup Measured(latest[m].rows)
          BY <2>6, <4>1 DEF Start, TypeOK
        <5>2. QED
          BY <3>4, <4>1, <5>1, EmptyRows DEF EarlierRowsKept
      <4>2. CASE run[m] = 2
        BY <3>2, <3>4, <4>2, EmptyRows DEF EarlierRowsKept, LatestIsBacked, WholeUnlessStubbed
      <4>3. QED
        BY <4>1, <4>2 DEF TypeOK
    <3>6. QED
      BY <3>1, <3>2, <3>3, <3>4, <3>5 DEF MemoryBacked, DogHasAFile
  <2>7. CASE Skip(m)
    BY <2>7 DEF TypeOK, DogHasAFile, LatestIsBacked, MemoryBacked, EarlierRowsKept, WholeUnlessStubbed, End, Whole, Torn, Measured, Empty, Skip
  <2>8. CASE RunTask(m)
    BY <2>8 DEF TypeOK, DogHasAFile, LatestIsBacked, MemoryBacked, EarlierRowsKept, WholeUnlessStubbed, End, Whole, Torn, Measured, Empty, RunTask
  <2>9. CASE Save(m)
    BY <2>9 DEF TypeOK, DogHasAFile, LatestIsBacked, MemoryBacked, EarlierRowsKept, WholeUnlessStubbed, End, Whole, Torn, Measured, Empty, Save
  <2>10. CASE Finish(m)
    BY <2>10 DEF TypeOK, DogHasAFile, LatestIsBacked, MemoryBacked, EarlierRowsKept, WholeUnlessStubbed, End, Whole, Torn, Measured, Empty, Finish
  <2>11. CASE SuiteOver(m)
    <3>1. UNCHANGED <<latest, filed, had, dog, rows>>
      BY <2>11 DEF SuiteOver
    <3>2. \A n \in Models : pc'[n] \in {"task", "save"} => pc'[n] = pc[n]
      BY <2>11 DEF SuiteOver, TypeOK
    <3>3. QED
      BY <3>1, <3>2 DEF LatestIsBacked, MemoryBacked
  <2>12. QED
    BY <1>1, <2>1, <2>2, <2>3, <2>4, <2>5, <2>6, <2>7, <2>8, <2>9, <2>10, <2>11 DEF Worker
<1>2. CASE LockAges
  BY <1>2 DEF TypeOK, DogHasAFile, LatestIsBacked, MemoryBacked, EarlierRowsKept, WholeUnlessStubbed, End, Whole, Torn, Measured, Empty, LockAges
<1>3. CASE GapSaves
  BY <1>3 DEF TypeOK, DogHasAFile, LatestIsBacked, MemoryBacked, EarlierRowsKept, WholeUnlessStubbed, End, Whole, Torn, Measured, Empty, GapSaves
<1>4. CASE DogKills
  BY <1>4 DEF TypeOK, DogHasAFile, LatestIsBacked, MemoryBacked, EarlierRowsKept, WholeUnlessStubbed, End, Whole, Torn, Measured, Empty, DogKills
<1>5. CASE DogReads
  BY <1>5 DEF TypeOK, DogHasAFile, LatestIsBacked, MemoryBacked, EarlierRowsKept, WholeUnlessStubbed, End, Whole, Torn, Measured, Empty, DogReads
<1>6. CASE DogOpens
  BY <1>6 DEF TypeOK, DogHasAFile, LatestIsBacked, MemoryBacked, EarlierRowsKept, WholeUnlessStubbed, End, Whole, Torn, Measured, Empty, DogOpens
<1>7. CASE DogWrites
  BY <1>7 DEF TypeOK, DogHasAFile, LatestIsBacked, MemoryBacked, EarlierRowsKept, WholeUnlessStubbed, End, Whole, Torn, Measured, Empty, DogWrites
<1>8. CASE Crash
  BY <1>8 DEF TypeOK, DogHasAFile, LatestIsBacked, MemoryBacked, EarlierRowsKept, WholeUnlessStubbed, End, Whole, Torn, Measured, Empty, Crash
<1>9. CASE UNCHANGED vars
  BY <1>9 DEF TypeOK, DogHasAFile, LatestIsBacked, MemoryBacked, EarlierRowsKept, WholeUnlessStubbed, End, Whole, Torn, Measured, Empty, vars
<1>10. QED
  BY <1>1, <1>2, <1>3, <1>4, <1>5, <1>6, <1>7, <1>8, <1>9 DEF Next, Dog

LEMMA EarlierStep == ASSUME TypeOK, DogHasAFile, EarlierRowsKept, MemoryBacked, [Next]_vars PROVE EarlierRowsKept'
<1> USE DEF Goto, workers, files, fixture, others
<1>1. ASSUME NEW m \in Models, Worker(m) PROVE EarlierRowsKept'
  <2>1. CASE Check(m)
    BY <2>1 DEF TypeOK, DogHasAFile, MemoryBacked, EarlierRowsKept, End, Whole, Torn, Measured, Check
  <2>2. CASE MakeLock(m)
    BY <2>2 DEF TypeOK, DogHasAFile, MemoryBacked, EarlierRowsKept, End, Whole, Torn, Measured, MakeLock
  <2>3. CASE SeeStale(m)
    BY <2>3 DEF TypeOK, DogHasAFile, MemoryBacked, EarlierRowsKept, End, Whole, Torn, Measured, SeeStale
  <2>4. CASE BreakLock(m)
    BY <2>4 DEF TypeOK, DogHasAFile, MemoryBacked, EarlierRowsKept, End, Whole, Torn, Measured, BreakLock
  <2>5. CASE Restored(m)
    BY <2>5 DEF TypeOK, DogHasAFile, MemoryBacked, EarlierRowsKept, End, Whole, Torn, Measured, Restored
  <2>6. CASE Start(m)
    BY <2>6 DEF TypeOK, DogHasAFile, MemoryBacked, EarlierRowsKept, End, Whole, Torn, Measured, Start
  <2>7. CASE Skip(m)
    BY <2>7 DEF TypeOK, DogHasAFile, MemoryBacked, EarlierRowsKept, End, Whole, Torn, Measured, Skip
  <2>8. CASE RunTask(m)
    BY <2>8 DEF TypeOK, DogHasAFile, MemoryBacked, EarlierRowsKept, End, Whole, Torn, Measured, RunTask
  <2>9. CASE Save(m)
    BY <2>9 DEF TypeOK, DogHasAFile, MemoryBacked, EarlierRowsKept, End, Whole, Torn, Measured, Save
  <2>10. CASE Finish(m)
    BY <2>10 DEF TypeOK, DogHasAFile, MemoryBacked, EarlierRowsKept, End, Whole, Torn, Measured, Finish
  <2>11. CASE SuiteOver(m)
    BY <2>11 DEF TypeOK, DogHasAFile, MemoryBacked, EarlierRowsKept, End, Whole, Torn, Measured, SuiteOver
  <2>12. QED
    BY <1>1, <2>1, <2>2, <2>3, <2>4, <2>5, <2>6, <2>7, <2>8, <2>9, <2>10, <2>11 DEF Worker
<1>2. CASE LockAges
  BY <1>2 DEF TypeOK, DogHasAFile, MemoryBacked, EarlierRowsKept, End, Whole, Torn, Measured, LockAges
<1>3. CASE GapSaves
  BY <1>3 DEF TypeOK, DogHasAFile, MemoryBacked, EarlierRowsKept, End, Whole, Torn, Measured, GapSaves
<1>4. CASE DogKills
  BY <1>4 DEF TypeOK, DogHasAFile, MemoryBacked, EarlierRowsKept, End, Whole, Torn, Measured, DogKills
<1>5. CASE DogReads
  BY <1>5 DEF TypeOK, DogHasAFile, MemoryBacked, EarlierRowsKept, End, Whole, Torn, Measured, DogReads
<1>6. CASE DogOpens
  BY <1>6 DEF TypeOK, DogHasAFile, MemoryBacked, EarlierRowsKept, End, Whole, Torn, Measured, DogOpens
<1>7. CASE DogWrites
  BY <1>7 DEF TypeOK, DogHasAFile, MemoryBacked, EarlierRowsKept, End, Whole, Torn, Measured, DogWrites
<1>8. CASE Crash
  BY <1>8 DEF TypeOK, DogHasAFile, MemoryBacked, EarlierRowsKept, End, Whole, Torn, Measured, Crash
<1>9. CASE UNCHANGED vars
  BY <1>9 DEF TypeOK, DogHasAFile, MemoryBacked, EarlierRowsKept, End, Whole, Torn, Measured, vars
<1>10. QED
  BY <1>1, <1>2, <1>3, <1>4, <1>5, <1>6, <1>7, <1>8, <1>9 DEF Next, Dog

LEMMA FollowsStep == ASSUME TypeOK, DogHasAFile, SavesATask, MemoryFollows, [Next]_vars PROVE MemoryFollows'
<1> USE DEF Goto, workers, files, fixture, others
<1>1. ASSUME NEW m \in Models, Worker(m) PROVE MemoryFollows'
  <2>1. CASE Check(m)
    BY <2>1 DEF TypeOK, DogHasAFile, SavesATask, MemoryFollows, Follows, Base, Own, End, Whole, Torn, Check
  <2>2. CASE MakeLock(m)
    BY <2>2 DEF TypeOK, DogHasAFile, SavesATask, MemoryFollows, Follows, Base, Own, End, Whole, Torn, MakeLock
  <2>3. CASE SeeStale(m)
    BY <2>3 DEF TypeOK, DogHasAFile, SavesATask, MemoryFollows, Follows, Base, Own, End, Whole, Torn, SeeStale
  <2>4. CASE BreakLock(m)
    BY <2>4 DEF TypeOK, DogHasAFile, SavesATask, MemoryFollows, Follows, Base, Own, End, Whole, Torn, BreakLock
  <2>5. CASE Restored(m)
    BY <2>5 DEF TypeOK, DogHasAFile, SavesATask, MemoryFollows, Follows, Base, Own, End, Whole, Torn, Restored
  <2>6. CASE Start(m)
    <3>1. UNCHANGED <<latest, saved, run>>
      BY <2>6 DEF Start
    <3>2. \A n \in Models : n # m => pc'[n] = pc[n] /\ rows'[n] = rows[n] /\ next'[n] = next[n]
      BY <2>6 DEF Start, End, TypeOK
    <3>3. \/ pc'[m] = "ended"
          \/ /\ pc'[m] = "task"
             /\ rows'[m] = IF run[m] = 2 /\ latest[m].whole THEN latest[m].rows ELSE Empty
      BY <2>6 DEF Start, End, TypeOK
    <3>4. \A n \in Models : Base(n)' = Base(n)
      BY <3>1 DEF Base
    <3>5. ASSUME m \in Own PROVE Follows(m)'
      <4>1. Follows(m) /\ pc[m] = "load" /\ run[m] \in 1..2
        BY <2>6, <3>5 DEF Start, MemoryFollows, TypeOK
      <4>2. pc'[m] = "task" => rows'[m] = Base(m)
        BY <3>3, <4>1 DEF Follows, Base
      <4>3. QED
        BY <3>1, <3>3, <3>4, <4>1, <4>2 DEF Follows
    <3>6. ASSUME NEW n \in Own, n # m PROVE Follows(n)'
      <4>1. /\ n \in Models /\ Follows(n) /\ Base(n)' = Base(n)
            /\ pc'[n] = pc[n] /\ rows'[n] = rows[n] /\ next'[n] = next[n]
        BY <3>2, <3>4, <3>6 DEF MemoryFollows, Own
      <4>2. QED
        BY <3>1, <4>1 DEF Follows
    <3>7. QED
      BY <3>5, <3>6 DEF MemoryFollows, Own
  <2>7. CASE Skip(m)
    BY <2>7 DEF TypeOK, DogHasAFile, SavesATask, MemoryFollows, Follows, Base, Own, End, Whole, Torn, Skip
  <2>8. CASE RunTask(m)
    <3>1. UNCHANGED <<latest, saved, run, next>>
      BY <2>8 DEF RunTask
    <3>2. \A n \in Models : n # m => pc'[n] = pc[n] /\ rows'[n] = rows[n]
      BY <2>8 DEF RunTask, TypeOK
    <3>3. PICK k \in Kinds : rows' = [rows EXCEPT ![m][next[m]] = k]
      BY <2>8 DEF RunTask
    <3>4. pc'[m] = "save" /\ rows'[m] = [rows[m] EXCEPT ![next[m]] = k]
      BY <2>8, <3>3 DEF RunTask, TypeOK
    <3>5. \A n \in Models : Base(n)' = Base(n)
      BY <3>1 DEF Base
    <3>6. m \in Own => rows[m] = Base(m) /\ rows[m][next[m]] = "none" /\ latest[m].whole
      BY <2>8 DEF RunTask, MemoryFollows, Follows
    <3>7. m \in Own => Follows(m)'
      BY <3>1, <3>4, <3>5, <3>6 DEF Follows
    <3>8. ASSUME NEW n \in Own, n # m PROVE Follows(n)'
      <4>1. /\ n \in Models /\ Follows(n) /\ Base(n)' = Base(n)
            /\ pc'[n] = pc[n] /\ rows'[n] = rows[n]
        BY <3>2, <3>5, <3>8 DEF MemoryFollows, Own
      <4>2. QED
        BY <3>1, <4>1 DEF Follows
    <3>9. QED
      BY <3>7, <3>8 DEF MemoryFollows, Own
  <2>9. CASE Save(m)
    BY <2>9 DEF TypeOK, DogHasAFile, SavesATask, MemoryFollows, Follows, Base, Own, End, Whole, Torn, Save
  <2>10. CASE Finish(m)
    BY <2>10 DEF TypeOK, DogHasAFile, SavesATask, MemoryFollows, Follows, Base, Own, End, Whole, Torn, Finish
  <2>11. CASE SuiteOver(m)
    BY <2>11 DEF TypeOK, DogHasAFile, SavesATask, MemoryFollows, Follows, Base, Own, End, Whole, Torn, SuiteOver
  <2>12. QED
    BY <1>1, <2>1, <2>2, <2>3, <2>4, <2>5, <2>6, <2>7, <2>8, <2>9, <2>10, <2>11 DEF Worker
<1>2. CASE LockAges
  BY <1>2 DEF TypeOK, DogHasAFile, SavesATask, MemoryFollows, Follows, Base, Own, End, Whole, Torn, LockAges
<1>3. CASE GapSaves
  BY <1>3 DEF TypeOK, DogHasAFile, SavesATask, MemoryFollows, Follows, Base, Own, End, Whole, Torn, GapSaves
<1>4. CASE DogKills
  BY <1>4 DEF TypeOK, DogHasAFile, SavesATask, MemoryFollows, Follows, Base, Own, End, Whole, Torn, DogKills
<1>5. CASE DogReads
  BY <1>5 DEF TypeOK, DogHasAFile, SavesATask, MemoryFollows, Follows, Base, Own, End, Whole, Torn, DogReads
<1>6. CASE DogOpens
  BY <1>6 DEF TypeOK, DogHasAFile, SavesATask, MemoryFollows, Follows, Base, Own, End, Whole, Torn, DogOpens
<1>7. CASE DogWrites
  BY <1>7 DEF TypeOK, DogHasAFile, SavesATask, MemoryFollows, Follows, Base, Own, End, Whole, Torn, DogWrites
<1>8. CASE Crash
  BY <1>8 DEF TypeOK, DogHasAFile, SavesATask, MemoryFollows, Follows, Base, Own, End, Whole, Torn, Crash
<1>9. CASE UNCHANGED vars
  BY <1>9 DEF TypeOK, DogHasAFile, SavesATask, MemoryFollows, Follows, Base, Own, End, Whole, Torn, vars
<1>10. QED
  BY <1>1, <1>2, <1>3, <1>4, <1>5, <1>6, <1>7, <1>8, <1>9 DEF Next, Dog

LEMMA NextInv == IInv /\ [Next]_vars => IInv'
<1> SUFFICES ASSUME IInv, [Next]_vars PROVE IInv'
  OBVIOUS
<1>1. TypeOK'
  <2>1. TypeWorkers' /\ TypeMemory' /\ TypeFiles' /\ TypeFixture' /\ TypeOthers'
    BY TypeWorkersStep, TypeMemoryStep, TypeFilesStep, TypeFixtureStep, TypeOthersStep DEF IInv
  <2>2. QED
    BY <2>1 DEF TypeOK, TypeWorkers, TypeMemory, TypeFiles, TypeFixture, TypeOthers
<1>2. SavesATask' /\ DogHasAFile' /\ WholeUnlessStubbed' /\ InsideHolds'
  BY SavesATaskStep, DogHasAFileStep, WholeStep, InsideStep DEF IInv
<1>3. (LatestIsBacked /\ MemoryBacked)' /\ EarlierRowsKept' /\ MemoryFollows'
  BY BackedStep, EarlierStep, FollowsStep DEF IInv
<1>4. QED
  BY <1>1, <1>2, <1>3 DEF IInv

LEMMA Invariant == Spec => []IInv
BY InitInv, NextInv, PTL DEF Spec

\* The types, through kills, crashes and restarts: no suite reads past its task
\* list and no row is left half entered.
THEOREM TypeCorrect == Spec => []TypeOK
BY Invariant, PTL DEF IInv

\* Whenever a suite is killed, what its latest file says was measured is in a
\* stamped or archived file too, or was there before the queue began.
THEOREM LatestAlwaysBacked == Spec => []LatestIsBacked
BY Invariant, PTL DEF IInv

\* The archive made by run_one loses no earlier measurement of the models the
\* other queue leaves alone.
THEOREM EarlierRowsAlwaysKept == Spec => []EarlierRowsKept
BY Invariant, PTL DEF IInv

\* write_atomic keeps every file whole but the one the watchdog writes in place.
THEOREM FilesWhole == Spec => []WholeUnlessStubbed
BY Invariant, PTL DEF IInv

\* restore_ledgerkit keeps two checkouts apart until a lock is broken for its age.
THEOREM OneRestorerAtATime == Spec => []OneRestorer
<1>1. IInv => OneRestorer
  <2>1. SUFFICES ASSUME IInv, ~broken PROVE Cardinality(inside) <= 1
    BY DEF OneRestorer
  <2>2. inside = {} \/ inside = {lock}
    BY <2>1 DEF IInv, InsideHolds
  <2>3. QED
    BY <2>2, FS_EmptySet, FS_Singleton
<1>2. QED
  BY Invariant, <1>1, PTL

----------------------------------------------------------------------------

LEMMA StoreInit == Init => Store!Init
<1> SUFFICES ASSUME Init PROVE Store!Init
  OBVIOUS
<1>1. TypeOK
  BY InitInv DEF IInv
<1>2. \A m \in Own : latest[m].rows \in [Tasks -> Row]
  BY <1>1 DEF TypeOK, Own
<1>3. saved \cap Own = {}
  BY DEF Init
<1>4. QED
  BY <1>2, <1>3 DEF Store!Init

\* What a step must leave alone for the results to stay as they are.
Kept == (\A m \in Own : latest'[m] = latest[m]) /\ saved' \cap Own = saved \cap Own

LEMMA KeptIsAStutter == ASSUME Kept PROVE UNCHANGED <<[m \in Own |-> latest[m].rows], saved \cap Own>>
BY DEF Kept

\* A save of a model of its own begins the results of a pass, or enters a row.
LEMMA SaveEnters ==
  ASSUME IInv, NEW m \in Own, Save(m) PROVE Store!Next
<1> USE DEF Goto
<1>1. m \in Models /\ pc[m] = "save" /\ next[m] \in Tasks /\ Follows(m)
  BY DEF IInv, Own, Save, SavesATask, MemoryFollows
<1>2. PICK k \in Kinds : rows[m] = [Base(m) EXCEPT ![next[m]] = k]
  BY <1>1 DEF Follows
<1>3. latest' = [latest EXCEPT ![m] = Whole(rows[m])] /\ saved' = saved \cup {m}
  BY DEF Save
<1>4. [n \in Own |-> latest[n].rows]' = [[n \in Own |-> latest[n].rows] EXCEPT ![m] = rows[m]]
  BY <1>1, <1>3 DEF Whole, IInv, TypeOK, Own
<1>5. (saved \cap Own)' = (saved \cap Own) \cup {m}
  BY <1>3
<1>6. Empty \in [Tasks -> Row] /\ latest[m].rows \in [Tasks -> Row]
  BY <1>1, EmptyRows DEF IInv, TypeOK
<1>7. CASE run[m] = 1 /\ m \notin saved
  <2>1. rows[m] = [u \in Tasks |-> IF u = next[m] THEN k ELSE "none"]
    BY <1>1, <1>2, <1>7 DEF Base, Empty
  <2>2. Store!Begin(m, next[m], k)
    BY <1>4, <1>5, <1>7, <2>1 DEF Store!Begin
  <2>3. QED
    BY <1>1, <2>2 DEF Store!Next
<1>8. CASE ~(run[m] = 1 /\ m \notin saved)
  <2>1. /\ rows[m] = [latest[m].rows EXCEPT ![next[m]] = k]
        /\ latest[m].rows[next[m]] = "none"
    BY <1>1, <1>2, <1>8 DEF Base, Follows
  <2>2. Store!Enter(m, next[m], k)
    BY <1>4, <1>5, <2>1 DEF Store!Enter
  <2>3. QED
    BY <1>1, <2>2 DEF Store!Next
<1>9. QED
  BY <1>7, <1>8

LEMMA StoreStep ==
  ASSUME IInv, [Next]_vars
  PROVE  Store!Next \/ UNCHANGED <<[m \in Own |-> latest[m].rows], saved \cap Own>>
<1> USE DEF Goto, workers, files, fixture, others
<1>1. ASSUME NEW m \in Models, Worker(m)
      PROVE  Store!Next \/ Kept
  <2>1. CASE Save(m)
    <3>1. CASE m \in Own
      BY <2>1, <3>1, SaveEnters
    <3>2. CASE m \notin Own
      BY <2>1, <3>2 DEF Save, Kept, IInv, TypeOK, Own
    <3>3. QED
      BY <3>1, <3>2
  <2>2. CASE ~Save(m)
    <3>1. UNCHANGED <<latest, saved>>
      BY <1>1, <2>2 DEF Worker, Check, MakeLock, SeeStale, BreakLock, Restored, Start, Skip,
                        RunTask, Finish, SuiteOver
    <3>2. QED
      BY <3>1 DEF Kept
  <2>3. QED
    BY <2>1, <2>2
<1>2. CASE GapSaves \/ Dog
  <2>1. saved' = saved /\ \A m \in Own : latest'[m] = latest[m]
    BY <1>2 DEF GapSaves, Dog, DogReads, DogOpens, DogWrites, Own, IInv, TypeOK
  <2>2. QED
    BY <2>1 DEF Kept
<1>3. CASE LockAges \/ DogKills \/ UNCHANGED vars
  BY <1>3 DEF LockAges, DogKills, vars, Kept
<1>4. CASE Crash
  BY <1>4 DEF Crash, Store!NewPass, Store!Next
<1>5. QED
  BY <1>1, <1>2, <1>3, <1>4, KeptIsAStutter DEF Next

\* The queue implements ResultStore: for the models nobody else runs, a pass
\* clears the results at most once and enters rows only where there are none.
THEOREM StoreRefined == Spec => StoreSpec
<1>1. Init => Store!Init
  BY StoreInit
<1>2. IInv /\ [Next]_vars => [Store!Next]_<<[m \in Own |-> latest[m].rows], saved \cap Own>>
  BY StoreStep
<1>3. QED
  BY Invariant, <1>1, <1>2, PTL DEF Spec, StoreSpec, Store!Spec

=============================================================================
