--------------------------- MODULE FlowLockProofs ---------------------------
(***************************************************************************)
(* FlowLock for any number of hooks of any kind, killed or timed out at    *)
(* any point.  The three safety properties come from one invariant: who    *)
(* holds the lock is between its load and its first save, and as long as   *)
(* every save has been made under the lock the one hook that is writing is *)
(* the holder, alone with flow.tmp, and has all of the file in its copy.   *)
(***************************************************************************)
EXTENDS FlowLock, TLAPS

Writing == {"write", "rename"}
Saving == {"open"} \cup Writing

\* A hook has saved nothing before it has read, and leaves after two saves.
Progress ==
  \A p \in Hooks :
    /\ pc[p] \in {"idle", "lock", "read"} => saves[p] = 0
    /\ pc[p] \in Saving => saves[p] \in {0, 1}

\* A hook has a file open exactly while it writes it.
OpenFiles == \A p \in Hooks : fd[p] = NoFile <=> pc[p] \notin Writing

OneHolder == \A p, q \in holders : p = q

\* The writer is the holder and has flow.tmp to itself.
WriterHolds ==
  \A p \in Hooks : pc[p] \in Writing => p \in holders /\ fd[p] = tmp

\* Nothing gets into the file after the holder has read it.
HolderKnows ==
  \A p \in holders :
    pc[p] \in Saving => disk[json].recs \cup {Mine(p)} \subseteq mem[p]

\* What is renamed is whole, and is the writer's copy.
WrittenWhole ==
  \A p \in Hooks :
    /\ pc[p] = "write" => disk[fd[p]].whole = FALSE
    /\ pc[p] = "rename" => disk[fd[p]] = [recs |-> mem[p], whole |-> TRUE]

Locked ==
  /\ WriterHolds
  /\ HolderKnows
  /\ WrittenWhole
  /\ disk[json].whole
  /\ committed \subseteq disk[json].recs

Base ==
  /\ TypeOK
  /\ Progress
  /\ OpenFiles
  /\ tmp # json
  /\ LockFreed
  /\ OneHolder

IInv == Base /\ (~bare => Locked)

----------------------------------------------------------------------------

LEMMA SweptKeeps ==
  ASSUME TypeOK, NEW j, NEW t, NEW f
  PROVE  /\ Swept(j, t, f) \in [Files -> [recs : SUBSET Record, whole : BOOLEAN]]
         /\ \A i \in Files : (i \in {j, t} \/ \E q \in Hooks : f[q] = i)
              => Swept(j, t, f)[i] = disk[i]
BY DEF TypeOK, Swept, Blank

LEMMA MineRecord ==
  ASSUME NEW p \in Hooks, saves[p] \in {0, 1}
  PROVE  Mine(p) \in Record
BY DEF Mine, Record

LEMMA InitIInv == Init => IInv
<1> SUFFICES ASSUME Init
             PROVE  IInv
  OBVIOUS
<1> USE FilesAssumption, ProgramsAssumption
<1>1. TypeOK
  <2>1. program \in [Hooks -> Program]
    BY DEF Init
  <2>2. disk \in [Files -> [recs : SUBSET Record, whole : BOOLEAN]]
    BY DEF Init, Blank
  <2>3. /\ pc \in [Hooks -> {"idle", "lock", "read", "open", "write", "rename",
                              "exit", "gone"}]
        /\ mem \in [Hooks -> SUBSET Record] /\ saves \in [Hooks -> 0..2]
        /\ fd \in [Hooks -> Files \cup {NoFile}]
    BY DEF Init
  <2>4. /\ holders \subseteq Hooks /\ committed \subseteq Record
        /\ json \in Files /\ tmp \in Files \cup {NoFile} /\ bare \in BOOLEAN
    BY DEF Init
  <2> QED BY <2>1, <2>2, <2>3, <2>4 DEF TypeOK
<1>2. Progress /\ OpenFiles /\ tmp # json /\ LockFreed /\ OneHolder
  BY DEF Init, Progress, OpenFiles, LockFreed, OneHolder, Saving, Writing
<1>3. Locked
  BY DEF Init, Locked, WriterHolds, HolderKnows, WrittenWhole, Saving, Writing,
         Blank
<1> QED BY <1>1, <1>2, <1>3 DEF IInv, Base

----------------------------------------------------------------------------
(* What holds whether or not a hook has saved without the lock. *)

LEMMA StepBase ==
  ASSUME Base, [Next]_vars
  PROVE  Base'
<1> USE DEF Base
<1>1. CASE UNCHANGED vars
  BY <1>1 DEF vars, TypeOK, Progress, OpenFiles, LockFreed, OneHolder, Mine
<1>2. ASSUME NEW p \in Hooks, Start(p)
      PROVE  Base'
  <2>1. Mine(p) \in Record
    BY <1>2, MineRecord DEF Start, Progress
  <2>2. TypeOK'
    BY <1>2, <2>1 DEF Start, Goto, TypeOK
  <2>3. Progress' /\ OpenFiles' /\ LockFreed' /\ OneHolder' /\ (tmp # json)'
    BY <1>2 DEF Start, Goto, TypeOK, Progress, OpenFiles, LockFreed, OneHolder,
                Saving, Writing
  <2> QED BY <2>2, <2>3
<1>3. ASSUME NEW p \in Hooks, Acquire(p) \/ TimeOut(p)
      PROVE  Base'
  <2>1. TypeOK'
    BY <1>3 DEF Acquire, TimeOut, Goto, TypeOK
  <2>2. Progress' /\ OpenFiles' /\ LockFreed' /\ OneHolder' /\ (tmp # json)'
    BY <1>3 DEF Acquire, TimeOut, Goto, TypeOK, Progress, OpenFiles, LockFreed,
                OneHolder, Saving, Writing
  <2> QED BY <2>1, <2>2
<1>4. ASSUME NEW p \in Hooks, Read(p)
      PROVE  Base'
  <2>1. Mine(p) \in Record
    BY <1>4, MineRecord DEF Read, Progress
  <2>2. TypeOK'
    BY <1>4, <2>1 DEF Read, Goto, TypeOK
  <2>3. Progress' /\ OpenFiles' /\ LockFreed' /\ OneHolder' /\ (tmp # json)'
    BY <1>4 DEF Read, Goto, TypeOK, Progress, OpenFiles, LockFreed, OneHolder,
                Saving, Writing
  <2> QED BY <2>2, <2>3
<1>5. ASSUME NEW p \in Hooks, OpenTmp(p)
      PROVE  Base'
  <2>1. PICK i \in IF tmp = NoFile
                   THEN Files \ ({json} \cup {fd[q] : q \in Hooks}) ELSE {tmp} :
          /\ tmp' = i
          /\ fd' = [fd EXCEPT ![p] = i]
          /\ disk' = [disk EXCEPT ![i] = [recs |-> {}, whole |-> FALSE]]
    BY <1>5 DEF OpenTmp
  <2>2. i \in Files /\ i # json /\ i # NoFile
    BY <2>1, FilesAssumption DEF TypeOK
  <2>3. TypeOK'
    BY <1>5, <2>1, <2>2 DEF OpenTmp, Goto, TypeOK
  <2>4. Progress' /\ OpenFiles' /\ LockFreed' /\ OneHolder' /\ (tmp # json)'
    BY <1>5, <2>1, <2>2 DEF OpenTmp, Goto, TypeOK, Progress, OpenFiles, LockFreed,
                OneHolder, Saving, Writing
  <2> QED BY <2>3, <2>4
<1>6. ASSUME NEW p \in Hooks, WriteTmp(p)
      PROVE  Base'
  <2>1. fd[p] \in Files
    BY <1>6 DEF WriteTmp, OpenFiles, Writing, TypeOK
  <2>2. PICK whole \in {TRUE, ~disk[fd[p]].whole} :
          disk' = [disk EXCEPT ![fd[p]] = [recs |-> mem[p], whole |-> whole]]
    BY <1>6 DEF WriteTmp
  <2>3. whole \in BOOLEAN
    BY <2>1, <2>2 DEF TypeOK
  <2>4. TypeOK'
    BY <1>6, <2>1, <2>2, <2>3 DEF WriteTmp, Goto, TypeOK
  <2>5. Progress' /\ OpenFiles' /\ LockFreed' /\ OneHolder' /\ (tmp # json)'
    BY <1>6 DEF WriteTmp, Goto, TypeOK, Progress, OpenFiles, LockFreed, OneHolder,
                Saving, Writing
  <2> QED BY <2>4, <2>5
<1>7. ASSUME NEW p \in Hooks, Rename(p)
      PROVE  Base'
  <2>1. Mine(p) \in Record /\ saves[p] \in {0, 1}
    BY <1>7, MineRecord DEF Rename, Progress, Saving, Writing
  <2>2. disk' \in [Files -> [recs : SUBSET Record, whole : BOOLEAN]]
    BY <1>7, SweptKeeps DEF Rename
  <2>3. json' \in Files /\ tmp' = NoFile
    BY <1>7 DEF Rename, TypeOK
  <2>4. <<p, 2>> \in Record
    BY DEF Record
  <2>5. /\ mem' \in [Hooks -> SUBSET Record]
        /\ pc' \in [Hooks -> {"idle", "lock", "read", "open", "write",
                              "rename", "exit", "gone"}]
    BY <1>7, <2>4 DEF Rename, Goto, TypeOK
  <2>6. saves' \in [Hooks -> 0..2] /\ fd' \in [Hooks -> Files \cup {NoFile}]
    BY <1>7, <2>1 DEF Rename, TypeOK
  <2>7. /\ committed' \subseteq Record /\ holders' \subseteq Hooks
        /\ program' \in [Hooks -> Program] /\ bare' \in BOOLEAN
    BY <1>7, <2>1 DEF Rename, TypeOK
  <2>8. TypeOK'
    BY <2>2, <2>3, <2>5, <2>6, <2>7 DEF TypeOK
  <2>9. Progress' /\ OpenFiles' /\ LockFreed' /\ OneHolder' /\ (tmp # json)'
    BY <1>7, <2>1, <2>3, FilesAssumption
       DEF Rename, Goto, TypeOK, Progress, OpenFiles, LockFreed, OneHolder,
           Saving, Writing
  <2> QED BY <2>8, <2>9
<1>8. ASSUME NEW p \in Hooks, Exit(p)
      PROVE  Base'
  <2>1. TypeOK'
    BY <1>8 DEF Exit, Goto, TypeOK
  <2>2. Progress' /\ OpenFiles' /\ LockFreed' /\ OneHolder' /\ (tmp # json)'
    BY <1>8 DEF Exit, Goto, TypeOK, Progress, OpenFiles, LockFreed, OneHolder,
                Saving, Writing
  <2> QED BY <2>1, <2>2
<1>9. ASSUME NEW p \in Hooks, Killed(p)
      PROVE  Base'
  <2>1. disk' \in [Files -> [recs : SUBSET Record, whole : BOOLEAN]]
    BY <1>9, SweptKeeps DEF Killed
  <2>2. TypeOK'
    BY <1>9, <2>1 DEF Killed, Goto, TypeOK
  <2>3. Progress' /\ OpenFiles' /\ LockFreed' /\ OneHolder' /\ (tmp # json)'
    BY <1>9 DEF Killed, Goto, TypeOK, Progress, OpenFiles, LockFreed, OneHolder,
                Saving, Writing
  <2> QED BY <2>2, <2>3
<1> QED BY <1>1, <1>2, <1>3, <1>4, <1>5, <1>6, <1>7, <1>8, <1>9 DEF Next

----------------------------------------------------------------------------
(* What holds as long as every save has been made under the lock. *)

\* A step that leaves the files, the lock and the copies of savers alone.
LEMMA LockedKept ==
  ASSUME Base, Locked, Base', UNCHANGED <<saves, fd, disk, json, tmp, committed>>,
         \A p \in Hooks : pc'[p] \in Writing => p \in holders' /\ pc'[p] = pc[p],
         \A p \in holders' :
           pc'[p] \in Saving
             => \/ p \in holders /\ pc[p] \in Saving /\ mem'[p] = mem[p]
                \/ disk[json].recs \cup {Mine(p)} \subseteq mem'[p],
         \A p \in Hooks : pc'[p] = "rename" => mem'[p] = mem[p]
  PROVE  Locked'
<1>1. WriterHolds'
  BY DEF Locked, WriterHolds
<1>2. HolderKnows'
  BY DEF Base, TypeOK, Locked, HolderKnows, Mine
<1>3. WrittenWhole'
  BY DEF Locked, WrittenWhole, Writing
<1> QED BY <1>1, <1>2, <1>3 DEF Locked

\* While everything is locked, two hooks that write are one hook.
LEMMA OneWriter ==
  ASSUME Base, Locked, NEW p \in Hooks, NEW q \in Hooks,
         p \in holders, pc[q] \in Writing
  PROVE  q = p
BY DEF Base, OneHolder, Locked, WriterHolds

LEMMA StepLocked ==
  ASSUME Base, ~bare => Locked, [Next]_vars, ~bare'
  PROVE  Locked'
<1>0. Base'
  BY StepBase
<1>b. ~bare /\ Locked
  BY DEF Next, vars, Start, Acquire, TimeOut, Read, OpenTmp, WriteTmp, Rename,
         Exit, Killed, Base, TypeOK
<1>1. CASE UNCHANGED vars
  BY <1>1, <1>b DEF vars, Locked, WriterHolds, HolderKnows, WrittenWhole, Mine
<1>2. ASSUME NEW p \in Hooks, Start(p) \/ Acquire(p) \/ TimeOut(p)
      PROVE  Locked'
  <2>1. UNCHANGED <<saves, fd, disk, json, tmp, committed>>
    BY <1>2 DEF Start, Acquire, TimeOut
  <2>2. p \notin holders
    BY <1>2 DEF Start, Acquire, TimeOut, Base, LockFreed
  <2>3. \A q \in Hooks : pc'[q] \in Writing => q \in holders' /\ pc'[q] = pc[q]
    BY <1>2, <1>b DEF Start, Acquire, TimeOut, Goto, Base, TypeOK, Locked,
                      WriterHolds, Writing
  <2>4. ASSUME NEW q \in holders', pc'[q] \in Saving
        PROVE  q \in holders /\ pc[q] \in Saving /\ mem'[q] = mem[q]
    BY <1>2, <2>2, <2>4 DEF Start, Acquire, TimeOut, Goto, Base, TypeOK, Saving,
                            Writing
  <2>5. ASSUME NEW q \in Hooks, pc'[q] = "rename"
        PROVE  mem'[q] = mem[q]
    BY <1>2, <2>5 DEF Start, Acquire, TimeOut, Goto, Base, TypeOK
  <2> QED BY <1>0, <1>b, <2>1, <2>3, <2>4, <2>5, LockedKept
<1>3. ASSUME NEW p \in Hooks, Read(p)
      PROVE  Locked'
  <2>1. UNCHANGED <<saves, fd, disk, json, tmp, committed>>
    BY <1>3 DEF Read
  <2>2. \A q \in Hooks : pc'[q] \in Writing => q \in holders' /\ pc'[q] = pc[q]
    BY <1>3, <1>b DEF Read, Goto, Base, TypeOK, Locked, WriterHolds, Writing
  <2>3. ASSUME NEW q \in holders', pc'[q] \in Saving
        PROVE  \/ q \in holders /\ pc[q] \in Saving /\ mem'[q] = mem[q]
               \/ disk[json].recs \cup {Mine(q)} \subseteq mem'[q]
    BY <1>3, <2>3 DEF Read, Goto, Base, TypeOK, Saving, Writing
  <2>4. ASSUME NEW q \in Hooks, pc'[q] = "rename"
        PROVE  mem'[q] = mem[q]
    BY <1>3, <2>4 DEF Read, Goto, Base, TypeOK
  <2> QED BY <1>0, <1>b, <2>1, <2>2, <2>3, <2>4, LockedKept
<1>4. ASSUME NEW p \in Hooks, Exit(p)
      PROVE  Locked'
  <2>1. UNCHANGED <<saves, fd, disk, json, tmp, committed>>
    BY <1>4 DEF Exit
  <2>2. \A q \in Hooks : pc'[q] \in Writing => q \in holders' /\ pc'[q] = pc[q]
    BY <1>4, <1>b DEF Exit, Goto, Base, TypeOK, Locked, WriterHolds, Writing
  <2>3. ASSUME NEW q \in holders', pc'[q] \in Saving
        PROVE  q \in holders /\ pc[q] \in Saving /\ mem'[q] = mem[q]
    BY <1>4, <2>3 DEF Exit, Goto, Base, TypeOK, Saving, Writing
  <2>4. ASSUME NEW q \in Hooks, pc'[q] = "rename"
        PROVE  mem'[q] = mem[q]
    BY <1>4, <2>4 DEF Exit, Goto, Base, TypeOK
  <2> QED BY <1>0, <1>b, <2>1, <2>2, <2>3, <2>4, LockedKept
<1>5. ASSUME NEW p \in Hooks, OpenTmp(p)
      PROVE  Locked'
  <2>1. PICK i \in IF tmp = NoFile
                   THEN Files \ ({json} \cup {fd[q] : q \in Hooks}) ELSE {tmp} :
          /\ tmp' = i
          /\ fd' = [fd EXCEPT ![p] = i]
          /\ disk' = [disk EXCEPT ![i] = [recs |-> {}, whole |-> FALSE]]
    BY <1>5 DEF OpenTmp
  <2>2. i \in Files /\ i # json
    BY <2>1 DEF Base, TypeOK
  <2>3. p \in holders
    BY <1>5 DEF OpenTmp
  <2>4. \A q \in Hooks : pc[q] \notin Writing
    BY <1>5, <1>b, <2>3, OneWriter DEF OpenTmp, Writing
  <2>5. disk'[json'] = disk[json] /\ UNCHANGED <<mem, saves, committed, holders>>
    BY <1>5, <2>1, <2>2 DEF OpenTmp, Base, TypeOK
  <2>6. \A q \in Hooks : pc'[q] \in Writing => q = p /\ pc'[q] = "write"
    BY <1>5, <2>4 DEF OpenTmp, Goto, Base, TypeOK, Writing
  <2>7. WriterHolds'
    BY <1>5, <2>1, <2>3, <2>6 DEF OpenTmp, WriterHolds, Base, TypeOK
  <2>8. HolderKnows'
    BY <1>5, <1>b, <2>5 DEF OpenTmp, Goto, Locked, HolderKnows, Mine, Base, TypeOK,
                            Saving
  <2>9. WrittenWhole'
    BY <2>1, <2>2, <2>6 DEF WrittenWhole, Writing, Base, TypeOK
  <2> QED BY <1>b, <2>5, <2>7, <2>8, <2>9 DEF Locked
<1>6. ASSUME NEW p \in Hooks, WriteTmp(p)
      PROVE  Locked'
  <2>1. p \in holders /\ fd[p] = tmp /\ disk[fd[p]].whole = FALSE
    BY <1>6, <1>b DEF WriteTmp, Locked, WriterHolds, WrittenWhole, Writing
  <2>2. fd[p] \in Files /\ fd[p] # json
    BY <1>6, <2>1 DEF WriteTmp, Base, OpenFiles, Writing, TypeOK
  <2>3. disk' = [disk EXCEPT ![fd[p]] = [recs |-> mem[p], whole |-> TRUE]]
    BY <1>6, <2>1 DEF WriteTmp
  <2>4. UNCHANGED <<mem, saves, committed, holders, fd, tmp, json>>
    BY <1>6 DEF WriteTmp
  <2>5. disk'[json'] = disk[json]
    BY <2>2, <2>3, <2>4
  <2>6. \A q \in Hooks : pc'[q] \in Writing => q = p /\ pc'[q] = "rename"
    BY <1>6, <1>b, <2>1, OneWriter DEF WriteTmp, Goto, Base, TypeOK, Writing
  <2>7. WriterHolds'
    BY <2>1, <2>4, <2>6 DEF WriterHolds
  <2>8. HolderKnows'
    BY <1>6, <1>b, <2>4, <2>5 DEF WriteTmp, Goto, Locked, HolderKnows, Mine, Base,
                                  TypeOK, Saving, Writing
  <2>9. WrittenWhole'
    BY <2>2, <2>3, <2>4, <2>6 DEF WrittenWhole, Writing, Base, TypeOK
  <2> QED BY <1>b, <2>4, <2>5, <2>7, <2>8, <2>9 DEF Locked
<1>7. ASSUME NEW p \in Hooks, Rename(p)
      PROVE  Locked'
  <2>1. p \in holders /\ fd[p] = tmp /\ tmp \in Files
    BY <1>7, <1>b DEF Rename, Locked, WriterHolds, Writing, Base, OpenFiles, TypeOK
  <2>2. disk[tmp] = [recs |-> mem[p], whole |-> TRUE]
    BY <1>7, <1>b, <2>1 DEF Rename, Locked, WrittenWhole
  <2>3. json' = tmp
    BY <1>7, <2>1, FilesAssumption DEF Rename
  <2>4. disk'[json'] = disk[tmp]
    BY <1>7, <2>1, <2>3, SweptKeeps DEF Rename, Base
  <2>5. disk[json].recs \cup {Mine(p)} \subseteq mem[p]
    BY <1>7, <1>b, <2>1 DEF Rename, Locked, HolderKnows, Saving, Writing
  <2>6. committed' \subseteq disk'[json'].recs
    BY <1>7, <1>b, <2>2, <2>4, <2>5 DEF Rename, Locked
  <2>7. holders' = {}
    BY <1>7, <2>1 DEF Rename, Base, OneHolder
  <2>8. \A q \in Hooks : pc'[q] \notin Writing
    BY <1>7, <1>b, <2>1, OneWriter DEF Rename, Goto, Base, TypeOK, Writing
  <2>9. WriterHolds' /\ HolderKnows'
    BY <2>7, <2>8 DEF WriterHolds, HolderKnows
  <2>10. WrittenWhole'
    BY <2>8 DEF WrittenWhole, Writing
  <2> QED BY <2>2, <2>4, <2>6, <2>9, <2>10 DEF Locked
<1>8. ASSUME NEW p \in Hooks, Killed(p)
      PROVE  Locked'
  <2>1. /\ UNCHANGED <<saves, json, tmp, committed>> /\ holders' = holders \ {p}
        /\ fd' = [fd EXCEPT ![p] = NoFile] /\ mem' = [mem EXCEPT ![p] = {}]
        /\ pc' = [pc EXCEPT ![p] = "gone"]
    BY <1>8 DEF Killed, Goto
  <2>2. disk'[json'] = disk[json]
    BY <1>8, SweptKeeps DEF Killed, Base, TypeOK
  <2>3. ASSUME NEW q \in Hooks, pc'[q] \in Writing
        PROVE  q # p /\ pc[q] = pc'[q] /\ mem'[q] = mem[q] /\ fd'[q] = fd[q]
    BY <2>1, <2>3 DEF Base, TypeOK, Writing
  <2>4. ASSUME NEW q \in Hooks, pc'[q] \in Writing
        PROVE  disk'[fd'[q]] = disk[fd[q]]
    <3>1. fd'[q] = fd[q] /\ fd[q] \in Files
      BY <2>3, <2>4 DEF Base, OpenFiles, TypeOK
    <3>2. Swept(json, tmp, fd')[fd[q]] = disk[fd[q]]
      BY <3>1, SweptKeeps DEF Base
    <3> QED BY <1>8, <3>1, <3>2 DEF Killed
  <2>5. WriterHolds'
    BY <1>b, <2>1, <2>3 DEF Locked, WriterHolds
  <2>6. HolderKnows'
    BY <1>b, <2>1, <2>2 DEF Locked, HolderKnows, Mine, Base, TypeOK
  <2>7. WrittenWhole'
    BY <1>b, <2>3, <2>4 DEF Locked, WrittenWhole, Writing
  <2> QED BY <1>b, <2>1, <2>2, <2>5, <2>6, <2>7 DEF Locked
<1> QED BY <1>1, <1>2, <1>3, <1>4, <1>5, <1>6, <1>7, <1>8 DEF Next

----------------------------------------------------------------------------
(* The theorems. *)

\* The invariant holds of every state, whatever the hooks run.
THEOREM IInvHolds == Spec => []IInv
<1>1. IInv /\ [Next]_vars => IInv'
  BY StepBase, StepLocked DEF IInv
<1> QED BY InitIInv, <1>1, PTL DEF Spec

\* Every state of the hooks and the file has the type the runs check.
THEOREM LockTypeCorrect == Spec => []TypeOK
BY IInvHolds, PTL DEF IInv, Base

\* No hook ever waits for a lock whose holder has ended or has already saved.
THEOREM LockAlwaysFreed == Spec => []LockFreed
BY IInvHolds, PTL DEF IInv, Base

\* While every save has been made under the lock, no saved record is lost,
\* however many hooks there are and wherever they are killed.
THEOREM NothingSavedIsLost == Spec => []LockedSavesSurvive
<1>1. IInv => LockedSavesSurvive
  BY DEF IInv, Locked, LockedSavesSurvive
<1> QED BY IInvHolds, <1>1, PTL

\* While every save has been made under the lock, flow.json is whole.
THEOREM NeverReadHalf == Spec => []NeverHalfLocked
<1>1. IInv => NeverHalfLocked
  BY DEF IInv, Locked, NeverHalfLocked
<1> QED BY IInvHolds, <1>1, PTL

=============================================================================
