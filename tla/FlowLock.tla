------------------------------ MODULE FlowLock ------------------------------
(***************************************************************************)
(* How the hook processes read and write the flow file (cc_flowstate.py:   *)
(* _lock, load, peek, save, begin, release).  A client that issues several *)
(* calls in one turn runs as many hooks at once; each takes an flock in    *)
(* load() and gives it up in its first save(), or when it exits, and goes  *)
(* on without it when five seconds were not enough to get it.              *)
(*                                                                         *)
(* The file holds the records that hooks have put in it, one per save.     *)
(* save() writes flow.tmp, the same name for every process, and renames it *)
(* over flow.json, so the two names stand for files that processes may     *)
(* hold open together.  What the records mean is FlowState's business.     *)
(***************************************************************************)
EXTENDS Naturals, FiniteSets

CONSTANTS
  Hooks,    \* the hook processes, each running one program once
  Patient,  \* whether five seconds are always enough to get the lock
  Programs, \* what they may run, of the programs below
  Files,    \* the files that the two names may stand for
  NoFile,   \* a name that stands for none
  Opened    \* the file flow.json stands for at first

ASSUME FilesAssumption == NoFile \notin Files /\ Opened \in Files

\* What a hook does with the file.
\*   once    load, change, save: a launch, a verdict, a forgotten stage
\*   twice   the same, and a second save of what it still has in memory: the
\*           guard that charges a call and then counts the refusal, or puts a
\*           lost launch back and then charges it; the gate that forgets the
\*           silent launches and then counts a push
\*   reader  load, decide to change nothing, exit
\*   waiter  the Stop hook whose wait ended because a peek showed nothing in
\*           flight: it saves what it peeked
\*   begin   a new flow, written over whatever is there
Program == {"once", "twice", "reader", "waiter", "begin"}

ASSUME ProgramsAssumption == Programs \subseteq Program /\ Patient \in BOOLEAN

Record == Hooks \X {1, 2}

VARIABLES
  pc,         \* where each hook is
  program,    \* what each hook runs
  mem,        \* the records in each hook's copy of the state
  fd,         \* the file each hook has open for writing
  saves,      \* saves each hook has finished
  holders,    \* hooks holding the flock
  disk,       \* what each file holds, and whether it is whole
  json, tmp,  \* the files flow.json and flow.tmp stand for
  committed,  \* records whose save() has returned, since the last begin()
  bare        \* some hook has saved without holding the lock

vars == <<pc, program, mem, fd, saves, holders, disk, json, tmp, committed, bare>>

TypeOK ==
  /\ pc \in [Hooks -> {"idle", "lock", "read", "open", "write", "rename", "exit", "gone"}]
  /\ program \in [Hooks -> Program]
  /\ mem \in [Hooks -> SUBSET Record]
  /\ fd \in [Hooks -> Files \cup {NoFile}]
  /\ saves \in [Hooks -> 0..2]
  /\ holders \subseteq Hooks
  /\ disk \in [Files -> [recs : SUBSET Record, whole : BOOLEAN]]
  /\ json \in Files
  /\ tmp \in Files \cup {NoFile}
  /\ committed \subseteq Record
  /\ bare \in BOOLEAN

Blank == [recs |-> {}, whole |-> TRUE]

\* A file that no name stands for and no hook has open is gone.
Swept(j, t, f) ==
  [i \in Files |-> IF i \in {j, t} \/ \E q \in Hooks : f[q] = i THEN disk[i] ELSE Blank]

Init ==
  /\ pc = [p \in Hooks |-> "idle"]
  /\ program \in [Hooks -> Programs]
  \* A person types one prompt at a time.
  /\ \A p, q \in Hooks : program[p] = "begin" /\ program[q] = "begin" => p = q
  /\ mem = [p \in Hooks |-> {}]
  /\ fd = [p \in Hooks |-> NoFile]
  /\ saves = [p \in Hooks |-> 0]
  /\ holders = {}
  /\ disk = [i \in Files |-> Blank]
  /\ json = Opened /\ tmp = NoFile
  /\ committed = {} /\ bare = FALSE

Goto(p, l) == pc' = [pc EXCEPT ![p] = l]

\* The record a hook's next save adds to its copy.
Mine(p) == <<p, saves[p] + 1>>

----------------------------------------------------------------------------

Start(p) ==
  /\ pc[p] = "idle"
  /\ IF program[p] = "begin"
     THEN /\ mem' = [mem EXCEPT ![p] = {Mine(p)}]
          /\ Goto(p, "open")
     ELSE /\ Goto(p, IF program[p] = "waiter" THEN "read" ELSE "lock")
          /\ UNCHANGED mem
  /\ UNCHANGED <<program, fd, saves, holders, disk, json, tmp, committed, bare>>

\* A seeded fault: the lock is taken shared.
Acquire_Shared(p) ==
  /\ pc[p] = "lock"
  /\ holders' = holders \cup {p}
  /\ Goto(p, "read")
  /\ UNCHANGED <<program, mem, fd, saves, disk, json, tmp, committed, bare>>

\* _lock(): flock(LOCK_EX | LOCK_NB), tried until it works or time is up.
Acquire(p) ==
  /\ pc[p] = "lock" /\ holders = {}
  /\ holders' = {p}
  /\ Goto(p, "read")
  /\ UNCHANGED <<program, mem, fd, saves, disk, json, tmp, committed, bare>>

TimeOut(p) ==
  /\ ~Patient /\ pc[p] = "lock" /\ holders # {}
  /\ Goto(p, "read")
  /\ UNCHANGED <<program, mem, fd, saves, holders, disk, json, tmp, committed, bare>>

\* load() or peek().  A file that does not parse reads as no flow at all, and
\* then the hook has nothing to do.
Read(p) ==
  /\ pc[p] = "read"
  /\ IF disk[json].whole /\ program[p] # "reader"
     THEN /\ mem' = [mem EXCEPT ![p] = disk[json].recs \cup {Mine(p)}]
          /\ Goto(p, "open")
     ELSE /\ Goto(p, "exit")
          /\ UNCHANGED mem
  /\ UNCHANGED <<program, fd, saves, holders, disk, json, tmp, committed, bare>>

\* A seeded fault: save() writes flow.json in place.
OpenTmp_InPlace(p) ==
  /\ pc[p] = "open"
  /\ fd' = [fd EXCEPT ![p] = json]
  /\ disk' = [disk EXCEPT ![json] = [recs |-> {}, whole |-> FALSE]]
  /\ bare' = (bare \/ p \notin holders)
  /\ Goto(p, "write")
  /\ UNCHANGED <<program, mem, saves, holders, json, tmp, committed>>

\* save(): open flow.tmp for writing, which truncates whatever it stands for.
OpenTmp(p) ==
  /\ pc[p] = "open"
  /\ \E i \in IF tmp = NoFile
               THEN Files \ ({json} \cup {fd[q] : q \in Hooks}) ELSE {tmp} :
       /\ tmp' = i
       /\ fd' = [fd EXCEPT ![p] = i]
       /\ disk' = [disk EXCEPT ![i] = [recs |-> {}, whole |-> FALSE]]
  /\ bare' = (bare \/ p \notin holders)
  /\ Goto(p, "write")
  /\ UNCHANGED <<program, mem, saves, holders, json, committed>>

\* The text goes in at the start of the file.  Over the text of another hook
\* that opened the same file it may leave a tail of that text behind.
WriteTmp(p) ==
  /\ pc[p] = "write"
  /\ \E whole \in {TRUE, ~disk[fd[p]].whole} :
       disk' = [disk EXCEPT ![fd[p]] = [recs |-> mem[p], whole |-> whole]]
  /\ Goto(p, "rename")
  /\ UNCHANGED <<program, mem, fd, saves, holders, json, tmp, committed, bare>>

\* A seeded fault: the name flow.json follows flow.tmp wherever it leads.
Rename_Unchecked(p) ==
  /\ pc[p] = "rename"
  /\ json' = tmp /\ tmp' = NoFile
  /\ fd' = [fd EXCEPT ![p] = NoFile]
  /\ holders' = holders \ {p}
  /\ saves' = [saves EXCEPT ![p] = @ + 1]
  /\ committed' = committed \cup {Mine(p)}
  /\ Goto(p, "exit")
  /\ UNCHANGED <<program, mem, disk, bare>>

\* os.replace(), and the unlock that ends save().  With flow.tmp already taken
\* by another hook the rename fails and save() returns all the same.
Rename(p) ==
  /\ pc[p] = "rename"
  /\ json' = IF tmp = NoFile THEN json ELSE tmp
  /\ tmp' = NoFile
  /\ fd' = [fd EXCEPT ![p] = NoFile]
  /\ holders' = holders \ {p}
  /\ saves' = [saves EXCEPT ![p] = @ + 1]
  /\ committed' = (IF program[p] = "begin" THEN {} ELSE committed) \cup {Mine(p)}
  /\ disk' = Swept(json', tmp', fd')
  /\ IF program[p] = "twice" /\ saves[p] = 0
     THEN /\ mem' = [mem EXCEPT ![p] = @ \cup {<<p, 2>>}]
          /\ Goto(p, "open")
     ELSE /\ Goto(p, "exit")
          /\ UNCHANGED mem
  /\ UNCHANGED <<program, bare>>

\* A seeded fault: nothing lets go of the lock of a hook that saves nothing.
Exit_KeepsLock(p) ==
  /\ pc[p] = "exit"
  /\ mem' = [mem EXCEPT ![p] = {}]
  /\ Goto(p, "gone")
  /\ UNCHANGED <<program, fd, saves, holders, disk, json, tmp, committed, bare>>

\* The atexit handler lets go of a lock that no save has.
Exit(p) ==
  /\ pc[p] = "exit"
  /\ holders' = holders \ {p}
  /\ mem' = [mem EXCEPT ![p] = {}]
  /\ Goto(p, "gone")
  /\ UNCHANGED <<program, fd, saves, disk, json, tmp, committed, bare>>

\* The client gives up on a hook and kills it; the kernel drops its lock.
Killed(p) ==
  /\ pc[p] \notin {"idle", "gone"}
  /\ holders' = holders \ {p}
  /\ fd' = [fd EXCEPT ![p] = NoFile]
  /\ disk' = Swept(json, tmp, fd')
  /\ mem' = [mem EXCEPT ![p] = {}]
  /\ Goto(p, "gone")
  /\ UNCHANGED <<program, saves, json, tmp, committed, bare>>

Next ==
  \E p \in Hooks :
    \/ Start(p) \/ Acquire(p) \/ TimeOut(p) \/ Read(p)
    \/ OpenTmp(p) \/ WriteTmp(p) \/ Rename(p) \/ Exit(p) \/ Killed(p)

Spec == Init /\ [][Next]_vars

----------------------------------------------------------------------------
(* Properties. *)

\* While every save has been made under the lock, what any save() returned
\* from is in the file: no hook writes another's record out of existence, not
\* even one that was killed half way or gave up waiting for the lock.
LockedSavesSurvive == ~bare => committed \subseteq disk[json].recs

\* While every save has been made under the lock, a reader never sees half a
\* file, whatever is killed in the middle of writing it.
NeverHalfLocked == ~bare => disk[json].whole

\* A lock is held by a process that is still running and has not saved yet,
\* so no hook waits for one that will never be released.
LockFreed ==
  \A p \in holders : pc[p] \in {"read", "open", "write", "rename", "exit"} /\ saves[p] = 0

=============================================================================
