------------------------- MODULE ContextGuardProofs -------------------------
(* What ContextGuard promises, for any agents, files, rules and limits.       *)
EXTENDS ContextGuard, FiniteSetTheorems, TLAPS

-----------------------------------------------------------------------------
(* What every state has: what is on record, and what a hook knows. *)

RuleNames == <<"budget", "answered", "sleep", "tampers", "switch", "ledger",
               "denied", "window", "bytes", "lines", "reread", "dump">>
Words == {RuleNames[i] : i \in 1..12} \cup {"none", "allow", "ran"}
Entry == [reason : Words \X Nat, n : Nat]
CallRecord == [kind : {"call"}, call : Calls, ok : BOOLEAN, at : Nat,
               text : Words \X Nat \X Nat, seen : Nat]
Records == CallRecord \cup {[kind |-> "compacted"]}
Working == [at : {"allowed", "refusing", "counted"}, call : Calls,
            reason : Words \X Nat, since : Nat,
            seen : [Agents -> Entry], said : Nat]

TypeInv ==
  /\ transcript \in [Agents -> Seq(Records)]
  /\ mtime \in [File -> Nat]
  /\ clock \in Nat
  /\ ledger \in [Agents -> Entry]
  /\ hook \in [Agents -> Working \cup {Idle}]

\* No file was written in the future, and no call made in it.
InPast ==
  /\ \A f \in File : mtime[f] < clock
  /\ \A a \in Agents : hook[a].at # "idle" => hook[a].since <= clock

\* A file a call has read is as it was then, or was written after the call.
Fresh(r, written, now) ==
  r.kind = "call" /\ r.ok /\ r.call.tool = "Read"
    => r.at < now /\ (written[r.call.file] = r.seen \/ r.at < written[r.call.file])
AllFresh ==
  \A a \in Agents : \A i \in DOMAIN transcript[a] : Fresh(transcript[a][i], mtime, clock)

\* No entry of a ledger counts more refusals than are on record.
Honest(entries) ==
  \A a \in Agents : entries[a].n <= Cardinality(Refusals(transcript[a], entries[a].reason))
HonestHook(a) ==
  hook[a].at # "idle" =>
    /\ Honest(hook[a].seen)
    /\ hook[a].said <= Cardinality(Refusals(transcript[a], hook[a].reason)) + 1
AllHonest == Honest(ledger) /\ \A a \in Agents : HonestHook(a)

IInv == TypeInv /\ InPast /\ AllFresh /\ AllHonest

-----------------------------------------------------------------------------
(* Refusals on record *)

LEMMA RefusalsFinite ==
  ASSUME NEW t \in Seq(Records), NEW reason
  PROVE  IsFiniteSet(Refusals(t, reason)) /\ Cardinality(Refusals(t, reason)) \in Nat
<1>1. DOMAIN t = 1..Len(t) /\ Len(t) \in Nat
  OBVIOUS
<1>2. IsFiniteSet(1..Len(t))
  BY <1>1, FS_Interval
<1>3. Refusals(t, reason) \subseteq 1..Len(t)
  BY <1>1 DEF Refusals
<1> QED
  BY <1>2, <1>3, FS_Subset, FS_CardinalityType

\* What is on record only grows.
LEMMA RefusalsGrow ==
  ASSUME NEW t \in Seq(Records), NEW r \in Records, NEW reason
  PROVE  /\ Cardinality(Refusals(t, reason)) \in Nat
         /\ Cardinality(Refusals(Append(t, r), reason)) \in Nat
         /\ Cardinality(Refusals(t, reason)) <= Cardinality(Refusals(Append(t, r), reason))
<1>1. Append(t, r) \in Seq(Records)
  OBVIOUS
<1>2. Refusals(t, reason) \subseteq Refusals(Append(t, r), reason)
  BY DEF Refusals, Calling
<1> QED
  BY <1>1, <1>2, RefusalsFinite, FS_Subset

LEMMA OneRefusalMore ==
  ASSUME NEW t \in Seq(Records), NEW r \in CallRecord, NEW reason,
         ~r.ok, <<r.text[1], r.text[2]>> = reason
  PROVE  Cardinality(Refusals(Append(t, r), reason)) = Cardinality(Refusals(t, reason)) + 1
<1> DEFINE k == Len(t) + 1
<1>1. r \in Records /\ Append(t, r) \in Seq(Records)
  BY DEF Records
<1>2. k \notin Refusals(t, reason)
  BY DEF Refusals
<1>3. Refusals(Append(t, r), reason) = Refusals(t, reason) \cup {k}
  <2>1. DOMAIN Append(t, r) = DOMAIN t \cup {k} /\ Append(t, r)[k] = r
    BY <1>1
  <2>2. \A i \in DOMAIN t : Append(t, r)[i] = t[i]
    BY <1>1
  <2>3. r.kind = "call"
    BY DEF CallRecord
  <2> QED
    BY <2>1, <2>2, <2>3 DEF Refusals, Calling
<1> QED
  BY <1>2, <1>3, RefusalsFinite, FS_AddElement

-----------------------------------------------------------------------------
(* Decisions *)

LEMMA CallTypes ==
  ASSUME NEW c \in Calls
  PROVE  /\ c.tool \in {"Read", "Bash", "Edit"} /\ c.file \in Nat
         /\ c.tool = "Read" => c.file \in File
<1>1. CASE \E f \in File : c = Call("Read", "read", f, 1, Endless)
  BY <1>1, GuardAssumption DEF Call, File
<1>2. CASE \E f \in File, n \in 1..MaxLines : c = Call("Read", "read", f, n, MaxLines)
  BY <1>2, GuardAssumption DEF Call, File
<1>3. CASE \E does \in {"show", "dump", "sleep", "commit", "touch", "probe"} :
               c = Call("Bash", does, 1, 0, 0)
  BY <1>3 DEF Call
<1>4. CASE \E does \in {"code", "ledger", "switch"} : c = Call("Edit", does, 1, 0, 0)
  BY <1>4 DEF Call
<1> QED
  BY <1>1, <1>2, <1>3, <1>4 DEF Calls

LEMMA RuleName ==
  ASSUME NEW w \in Agents, NEW c \in Calls, NEW o \in BOOLEAN
  PROVE  /\ DOMAIN Rules(w, c, o) = 1..12
         /\ \A i \in 1..12 : Rules(w, c, o)[i][1] = RuleNames[i]
<1>1. DOMAIN Rules(w, c, o) = 1..12
  BY DEF Rules
<1>2. /\ Rules(w, c, o)[1][1] = "budget" /\ Rules(w, c, o)[2][1] = "answered"
      /\ Rules(w, c, o)[3][1] = "sleep" /\ Rules(w, c, o)[4][1] = "tampers"
      /\ Rules(w, c, o)[5][1] = "switch" /\ Rules(w, c, o)[6][1] = "ledger"
  BY DEF Rules
<1>3. /\ Rules(w, c, o)[7][1] = "denied" /\ Rules(w, c, o)[8][1] = "window"
      /\ Rules(w, c, o)[9][1] = "bytes" /\ Rules(w, c, o)[10][1] = "lines"
      /\ Rules(w, c, o)[11][1] = "reread" /\ Rules(w, c, o)[12][1] = "dump"
  BY DEF Rules
<1> QED
  BY <1>1, <1>2, <1>3 DEF RuleNames

\* The file of every call, the one that commands and edits name included.
LEMMA FileWritten ==
  ASSUME NEW c \in Calls, 1 \in File
  PROVE  c.file \in File
<1>1. CASE \E f \in File : c = Call("Read", "read", f, 1, Endless)
  BY <1>1 DEF Call
<1>2. CASE \E f \in File, n \in 1..MaxLines : c = Call("Read", "read", f, n, MaxLines)
  BY <1>2 DEF Call
<1>3. CASE \E does \in {"show", "dump", "sleep", "commit", "touch", "probe"} :
               c = Call("Bash", does, 1, 0, 0)
  BY <1>3 DEF Call
<1>4. CASE \E does \in {"code", "ledger", "switch"} : c = Call("Edit", does, 1, 0, 0)
  BY <1>4 DEF Call
<1> QED
  BY <1>1, <1>2, <1>3, <1>4 DEF Calls

LEMMA MainType ==
  ASSUME TypeInv, NEW a \in Agents, NEW w \in Agents, NEW c \in Calls, NEW o \in BOOLEAN, NEW reason \in main(a, w, c, o)
  PROVE  reason \in Words \X Nat
<1>1. c.file \in Nat
  BY CallTypes
<1>2. Len(transcript[a]) \in Nat /\ Len(transcript[w]) \in Nat
  BY DEF TypeInv
<1>3. \A rule \in Words : Reason(a, w, c, rule) \in Words \X Nat
  BY <1>1, <1>2 DEF Reason
<1>4. \A i \in 1..12 : RuleNames[i] \in Words
  BY DEF Words
<1>5. \A i \in DOMAIN Rules(w, c, o) : Rules(w, c, o)[i][1] \in Words
  BY <1>4, RuleName
<1>6. \A r \in main(a, w, c, o) : r = <<"allow", 0>> \/ \E i \in DOMAIN Rules(w, c, o) : r = Reason(a, w, c, Rules(w, c, o)[i][1])
  BY DEF main
<1> QED
  <2>1. <<"allow", 0>> \in Words \X Nat
    BY DEF Words
  <2> QED
    BY <2>1, <1>3, <1>5, <1>6, Zenon

\* Only the rule about rereading says so.
LEMMA RereadMeansRead ==
  ASSUME NEW a \in Agents, NEW w \in Agents, NEW c \in Calls, NEW o \in BOOLEAN,
         NEW reason \in main(a, w, c, o), reason[1] = "reread"
  PROVE  c.tool = "Read" /\ AlreadyRead(transcript[w], c)
<1> DEFINE rules == Rules(w, c, o)
<1>1. PICK i \in DOMAIN rules : rules[i][2] /\ reason = Reason(a, w, c, rules[i][1])
  BY DEF main
<1>2. rules[i][1] = "reread"
  BY <1>1 DEF Reason
<1>3. i = 11
  BY <1>1, <1>2, RuleName DEF RuleNames
<1>4. rules[11][2] = (c.tool = "Read" /\ AlreadyRead(transcript[w], c))
  BY DEF Rules
<1> QED
  BY <1>1, <1>3, <1>4

-----------------------------------------------------------------------------
(* The steps, one lemma for each *)

LEMMA InitInv == Init => IInv
<1> SUFFICES ASSUME Init PROVE IInv
  OBVIOUS
<1>1. TypeInv
  BY DEF Init, TypeInv, Entry, Words
<1>2. InPast /\ AllFresh
  BY DEF Init, InPast, AllFresh, Idle
<1>3. AllHonest
  <2>1. \A a \in Agents : Cardinality(Refusals(transcript[a], ledger[a].reason)) \in Nat
    BY <1>1, RefusalsFinite DEF TypeInv
  <2> QED
    BY <2>1 DEF Init, AllHonest, Honest, HonestHook, Idle
<1> QED
  BY <1>1, <1>2, <1>3 DEF IInv

LEMMA OwnIsAnAgents ==
  ASSUME NEW a \in Agents, NEW w \in own_transcript(a)
  PROVE  w \in Agents
BY GuardAssumption DEF own_transcript

LEMMA DecideInv == ASSUME IInv, NEW a \in Agents, Decide(a) PROVE IInv'
<1> USE DEF IInv
<1>1. PICK w \in own_transcript(a), c \in Calls, o \in BOOLEAN : \E reason \in main(a, w, c, o) :
         hook' = [hook EXCEPT ![a] =
           [at |-> IF reason[1] = "allow" THEN "allowed" ELSE "refusing",
            call |-> c, reason |-> reason, since |-> clock, seen |-> ledger, said |-> 0]]
  BY DEF Decide
<1>2. PICK reason \in main(a, w, c, o) :
         hook' = [hook EXCEPT ![a] =
           [at |-> IF reason[1] = "allow" THEN "allowed" ELSE "refusing",
            call |-> c, reason |-> reason, since |-> clock, seen |-> ledger, said |-> 0]]
  BY <1>1
<1>3. UNCHANGED <<transcript, mtime, clock, ledger>>
  BY DEF Decide
<1>4. reason \in Words \X Nat
  BY OwnIsAnAgents, MainType
<1>5. hook' \in [Agents -> Working \cup {Idle}]
  BY <1>2, <1>4 DEF TypeInv, Working
<1>6. TypeInv'
  BY <1>3, <1>5 DEF TypeInv
<1>7. InPast'
  BY <1>2, <1>3 DEF InPast, TypeInv
<1>8. AllFresh'
  BY <1>3 DEF AllFresh, Fresh
<1>9. AllHonest'
  <2>1. Honest(ledger)'
    BY <1>3 DEF AllHonest, Honest
  <2>2. \A b \in Agents : Cardinality(Refusals(transcript[b], hook'[b].reason)) \in Nat
    BY RefusalsFinite DEF TypeInv
  <2>3. ASSUME NEW b \in Agents PROVE HonestHook(b)'
    BY <1>2, <1>3, <2>2 DEF AllHonest, HonestHook, Honest, TypeInv
  <2> QED
    BY <2>1, <2>3 DEF AllHonest
<1> QED
  BY <1>6, <1>7, <1>8, <1>9

LEMMA CountInv == ASSUME IInv, NEW a \in Agents, Count(a) PROVE IInv'
<1> USE DEF IInv
<1>1. /\ hook[a].at = "refusing"
      /\ hook' = [hook EXCEPT ![a] = [hook[a] EXCEPT !.at = "counted", !.seen = ledger,
                                      !.said = Repeats(a, hook[a].reason)]]
      /\ UNCHANGED <<transcript, mtime, clock, ledger>>
  BY DEF Count
<1>2. hook[a] \in Working
  BY <1>1 DEF TypeInv, Idle
<1>3. Repeats(a, hook[a].reason) \in Nat
  BY DEF Repeats, TypeInv, Entry
<1>4. TypeInv'
  BY <1>1, <1>2, <1>3 DEF TypeInv, Working
<1>5. InPast'
  BY <1>1, <1>2 DEF InPast, TypeInv, Working
<1>6. AllFresh'
  BY <1>1 DEF AllFresh, Fresh
<1>7. AllHonest'
  <2>1. Honest(ledger)'
    BY <1>1 DEF AllHonest, Honest
  <2>2. Cardinality(Refusals(transcript[a], hook[a].reason)) \in Nat
    BY RefusalsFinite DEF TypeInv
  <2>3. ledger[a].n <= Cardinality(Refusals(transcript[a], ledger[a].reason)) /\ ledger[a].n \in Nat
    BY DEF AllHonest, Honest, TypeInv, Entry
  <2>4. Repeats(a, hook[a].reason) <= Cardinality(Refusals(transcript[a], hook[a].reason)) + 1
    BY <2>2, <2>3 DEF Repeats
  <2>5. HonestHook(a)'
    BY <1>1, <1>2, <2>4, <2>1 DEF HonestHook, Honest, TypeInv, Working
  <2>6. ASSUME NEW b \in Agents, b # a PROVE HonestHook(b)'
    BY <1>1, <2>6 DEF AllHonest, HonestHook, Honest, TypeInv
  <2> QED
    BY <2>1, <2>5, <2>6 DEF AllHonest
<1> QED
  BY <1>4, <1>5, <1>6, <1>7

\* Whatever is put on record, nobody has been refused less often than before.
LEMMA RecordGrows ==
  ASSUME TypeInv, NEW a \in Agents, NEW r \in Records,
         transcript' = [transcript EXCEPT ![a] = Append(@, r)]
  PROVE  /\ transcript' \in [Agents -> Seq(Records)]
         /\ \A b \in Agents, reason \in Words \X Nat :
              /\ Cardinality(Refusals(transcript[b], reason)) \in Nat
              /\ Cardinality(Refusals(transcript'[b], reason)) \in Nat
              /\ Cardinality(Refusals(transcript[b], reason)) <= Cardinality(Refusals(transcript'[b], reason))
<1>1. transcript[a] \in Seq(Records) /\ Append(transcript[a], r) \in Seq(Records)
  BY DEF TypeInv
<1>2. transcript' \in [Agents -> Seq(Records)]
  BY <1>1 DEF TypeInv
<1>3. ASSUME NEW b \in Agents, NEW reason \in Words \X Nat
      PROVE  /\ Cardinality(Refusals(transcript[b], reason)) \in Nat
             /\ Cardinality(Refusals(transcript'[b], reason)) \in Nat
             /\ Cardinality(Refusals(transcript[b], reason)) <= Cardinality(Refusals(transcript'[b], reason))
  <2>1. transcript[b] \in Seq(Records)
    BY DEF TypeInv
  <2>2. CASE b = a
    BY <2>1, <2>2, RefusalsGrow DEF TypeInv
  <2>3. CASE b # a
    <3>1. transcript'[b] = transcript[b]
      BY <2>3 DEF TypeInv
    <3> QED
      BY <3>1, <2>1, RefusalsFinite
  <2> QED
    BY <2>2, <2>3
<1> QED
  BY <1>2, <1>3

LEMMA StaysHonest ==
  ASSUME TypeInv, NEW a \in Agents, NEW r \in Records,
         transcript' = [transcript EXCEPT ![a] = Append(@, r)]
  PROVE  \A entries \in [Agents -> Entry] :
           (\A b \in Agents : entries[b].n <= Cardinality(Refusals(transcript[b], entries[b].reason)))
           => \A b \in Agents : entries[b].n <= Cardinality(Refusals(transcript'[b], entries[b].reason))
<1> SUFFICES ASSUME NEW entries \in [Agents -> Entry], NEW b \in Agents,
                    entries[b].n <= Cardinality(Refusals(transcript[b], entries[b].reason))
             PROVE  entries[b].n <= Cardinality(Refusals(transcript'[b], entries[b].reason))
  OBVIOUS
<1>1. entries[b].reason \in Words \X Nat /\ entries[b].n \in Nat
  BY DEF Entry
<1>2. \A reason \in Words \X Nat :
              /\ Cardinality(Refusals(transcript[b], reason)) \in Nat
              /\ Cardinality(Refusals(transcript'[b], reason)) \in Nat
              /\ Cardinality(Refusals(transcript[b], reason)) <= Cardinality(Refusals(transcript'[b], reason))
  BY RecordGrows
<1> QED
  BY <1>1, <1>2

\* A hook whose own state the step leaves alone stays honest.
LEMMA HookStaysHonest ==
  ASSUME TypeInv, NEW a \in Agents, NEW r \in Records,
         transcript' = [transcript EXCEPT ![a] = Append(@, r)],
         NEW b \in Agents, hook'[b] = hook[b], HonestHook(b)
  PROVE  HonestHook(b)'
<1> SUFFICES ASSUME hook[b].at # "idle"
             PROVE  /\ \A d \in Agents : hook[b].seen[d].n
                            <= Cardinality(Refusals(transcript'[d], hook[b].seen[d].reason))
                    /\ hook[b].said <= Cardinality(Refusals(transcript'[b], hook[b].reason)) + 1
  BY DEF HonestHook, Honest
<1>1. hook[b] \in Working
  BY DEF TypeInv, Idle
<1>2. hook[b].seen \in [Agents -> Entry] /\ hook[b].reason \in Words \X Nat /\ hook[b].said \in Nat
  BY <1>1 DEF Working
<1>3. \A d \in Agents : hook[b].seen[d].n
             <= Cardinality(Refusals(transcript'[d], hook[b].seen[d].reason))
  BY <1>2, StaysHonest DEF HonestHook, Honest
<1>4. \A reason \in Words \X Nat :
              /\ Cardinality(Refusals(transcript[b], reason)) \in Nat
              /\ Cardinality(Refusals(transcript'[b], reason)) \in Nat
              /\ Cardinality(Refusals(transcript[b], reason)) <= Cardinality(Refusals(transcript'[b], reason))
  BY RecordGrows
<1>5. hook[b].said <= Cardinality(Refusals(transcript'[b], hook[b].reason)) + 1
  BY <1>2, <1>4 DEF HonestHook
<1> QED
  BY <1>3, <1>5

LEMMA DenyInv == ASSUME IInv, NEW a \in Agents, deny(a) PROVE IInv'
<1> USE DEF IInv
<1> DEFINE r == [kind |-> "call", call |-> hook[a].call, ok |-> FALSE, at |-> hook[a].since,
                 text |-> <<hook[a].reason[1], hook[a].reason[2],
                            IF hook[a].said > RepeatCap THEN hook[a].said ELSE 0>>, seen |-> 0]
<1>1. /\ hook[a].at = "counted"
      /\ ledger' = [hook[a].seen EXCEPT ![a] = [reason |-> hook[a].reason, n |-> hook[a].said]]
      /\ transcript' = [transcript EXCEPT ![a] = Append(@, r)]
      /\ hook' = [hook EXCEPT ![a] = Idle]
      /\ UNCHANGED <<mtime, clock>>
  BY DEF deny, Record
<1>2. hook[a] \in Working
  BY <1>1 DEF TypeInv, Idle
<1>3. hook[a].seen \in [Agents -> Entry] /\ hook[a].reason \in Words \X Nat /\ hook[a].said \in Nat
      /\ hook[a].call \in Calls /\ hook[a].since \in Nat
  BY <1>2 DEF Working
<1>4. r \in CallRecord /\ r \in Records
  <2>1. r.text \in Words \X Nat \X Nat
    BY <1>3
  <2> QED
    BY <1>3, <2>1 DEF CallRecord, Records
<1>5. ledger' \in [Agents -> Entry]
  BY <1>1, <1>3 DEF Entry
<1>6. TypeInv'
  BY <1>1, <1>4, <1>5, RecordGrows DEF TypeInv
<1>7. InPast'
  BY <1>1 DEF InPast, TypeInv, Idle
<1>8. AllFresh'
  <2>1. \A b \in Agents : \A i \in DOMAIN transcript'[b] :
          transcript'[b][i] = r \/ (i \in DOMAIN transcript[b] /\ transcript'[b][i] = transcript[b][i])
    BY <1>1, <1>4 DEF TypeInv
  <2>2. ~r.ok
    OBVIOUS
  <2> QED
    BY <1>1, <2>1, <2>2 DEF AllFresh, Fresh
<1>9. AllHonest'
  <2>1. \A b \in Agents : hook[a].seen[b].n <= Cardinality(Refusals(transcript'[b], hook[a].seen[b].reason))
    BY <1>1, <1>3, <1>4, StaysHonest DEF AllHonest, HonestHook, Honest
  <2>2. hook[a].said <= Cardinality(Refusals(transcript'[a], hook[a].reason))
    <3>1. transcript'[a] = Append(transcript[a], r)
      BY <1>1 DEF TypeInv
    <3>2. <<r.text[1], r.text[2]>> = hook[a].reason
      BY <1>3
    <3>3. Cardinality(Refusals(transcript'[a], hook[a].reason))
            = Cardinality(Refusals(transcript[a], hook[a].reason)) + 1
      <4>1. transcript[a] \in Seq(Records) /\ ~r.ok
        BY DEF TypeInv
      <4> HIDE DEF r
      <4> QED
        BY <1>4, <3>1, <3>2, <4>1, OneRefusalMore
    <3> QED
      BY <1>1, <3>3 DEF AllHonest, HonestHook
  <2>3. Honest(ledger)'
    BY <1>1, <1>3, <2>1, <2>2 DEF Honest
  <2>4. ASSUME NEW b \in Agents PROVE HonestHook(b)'
    <3>1. CASE b = a
      BY <1>1, <3>1 DEF HonestHook, TypeInv, Idle
    <3>2. CASE b # a
      <4>1. hook'[b] = hook[b]
        BY <1>1, <3>2 DEF TypeInv
      <4> QED
        BY <1>1, <1>4, <4>1, HookStaysHonest DEF AllHonest
    <3> QED
      BY <3>1, <3>2
  <2> QED
    BY <2>3, <2>4 DEF AllHonest
<1> QED
  BY <1>6, <1>7, <1>8, <1>9

LEMMA ExecuteInv == ASSUME IInv, NEW a \in Agents, Execute(a) PROVE IInv'
<1> USE DEF IInv
<1> DEFINE c == hook[a].call
           r == [kind |-> "call", call |-> c, ok |-> TRUE, at |-> hook[a].since,
                 text |-> <<"ran", mtime[c.file], 0>>, seen |-> mtime[c.file]]
<1>1. /\ hook[a].at = "allowed"
      /\ mtime' = IF c.tool = "Edit" THEN [mtime EXCEPT ![c.file] = clock] ELSE mtime
      /\ transcript' = [transcript EXCEPT ![a] = Append(@, r)]
      /\ clock' = clock + 1
      /\ hook' = [hook EXCEPT ![a] = Idle]
      /\ UNCHANGED ledger
  BY DEF Execute, Record
<1>2. hook[a] \in Working
  BY <1>1 DEF TypeInv, Idle
<1>3. c \in Calls /\ hook[a].since \in Nat /\ hook[a].since < clock + 1 /\ clock \in Nat
  <2>1. c \in Calls /\ hook[a].since \in Nat /\ clock \in Nat
    BY <1>2 DEF Working, TypeInv
  <2>2. hook[a].since <= clock
    BY <1>1 DEF InPast
  <2> QED
    BY <2>1, <2>2
<1>4. c.tool = "Read" => c.file \in File
  BY <1>3, CallTypes
<1>5. mtime' \in [File -> Nat] /\ \A f \in File : mtime'[f] = mtime[f] \/ mtime'[f] = clock
  BY <1>1, <1>3 DEF TypeInv
<1>6. r \in CallRecord /\ r \in Records
  <2>1. mtime[c.file] \in Nat
    BY <1>3, GuardAssumption, FileWritten DEF TypeInv, File
  <2>2. r.text \in Words \X Nat \X Nat
    BY <2>1 DEF Words
  <2> QED
    BY <1>3, <2>1, <2>2 DEF CallRecord, Records
<1>7. TypeInv'
  BY <1>1, <1>3, <1>5, <1>6, RecordGrows DEF TypeInv
<1>8. InPast'
  <2>1. \A f \in File : mtime'[f] < clock + 1
    <3>1. \A f \in File : mtime[f] \in Nat /\ mtime[f] < clock
      BY DEF InPast, TypeInv
    <3> QED
      BY <1>3, <1>5, <3>1
  <2>2. ASSUME NEW b \in Agents, hook'[b].at # "idle" PROVE hook'[b].since <= clock + 1
    <3>1. b # a /\ hook'[b] = hook[b]
      BY <1>1, <2>2 DEF TypeInv, Idle
    <3>2. hook[b].since \in Nat
      BY <3>1, <2>2 DEF TypeInv, Working, Idle
    <3> QED
      BY <1>3, <3>1, <3>2, <2>2 DEF InPast
  <2> QED
    BY <1>1, <2>1, <2>2 DEF InPast
<1>9. AllFresh'
  <2> SUFFICES ASSUME NEW b \in Agents, NEW i \in DOMAIN transcript'[b] 
                  PROVE  Fresh(transcript'[b][i], mtime', clock')
    BY DEF AllFresh
  <2>1. transcript'[b][i] = r \/ (i \in DOMAIN transcript[b] /\ transcript'[b][i] = transcript[b][i])
    BY <1>1, <1>6 DEF TypeInv
  <2>2. CASE transcript'[b][i] = r
    <3>1. c.tool = "Read" => mtime'[c.file] = mtime[c.file]
      BY <1>1
    <3> QED
      BY <1>1, <1>3, <2>2, <3>1 DEF Fresh
  <2>3. CASE i \in DOMAIN transcript[b] /\ transcript'[b][i] = transcript[b][i]
    <3> DEFINE q == transcript[b][i]
    <3>1. q \in Records /\ Fresh(q, mtime, clock)
      BY <2>3 DEF TypeInv, AllFresh
    <3>2. SUFFICES ASSUME q.kind = "call", q.ok, q.call.tool = "Read"
                   PROVE  q.at < clock + 1 /\ (mtime'[q.call.file] = q.seen \/ q.at < mtime'[q.call.file])
      BY <1>1, <2>3 DEF Fresh
    <3>3. q \in CallRecord
      BY <3>1, <3>2 DEF Records
    <3>4. q.at \in Nat /\ q.call.file \in File
      BY <3>2, <3>3, CallTypes DEF CallRecord
    <3> QED
      BY <1>3, <1>5, <3>1, <3>2, <3>4 DEF Fresh
  <2> QED
    BY <2>1, <2>2, <2>3
<1>10. AllHonest'
  <2>1. Honest(ledger)'
    <3>1. ledger \in [Agents -> Entry]
      BY DEF TypeInv
    <3> QED
      BY <1>1, <1>6, <3>1, StaysHonest DEF AllHonest, Honest
  <2>2. ASSUME NEW b \in Agents PROVE HonestHook(b)'
    <3>1. CASE b = a
      BY <1>1, <3>1 DEF HonestHook, TypeInv, Idle
    <3>2. CASE b # a
      <4>1. hook'[b] = hook[b]
        BY <1>1, <3>2 DEF TypeInv
      <4> QED
        BY <1>1, <1>6, <4>1, HookStaysHonest DEF AllHonest
    <3> QED
      BY <3>1, <3>2
  <2> QED
    BY <2>1, <2>2 DEF AllHonest
<1> QED
  BY <1>7, <1>8, <1>9, <1>10

LEMMA CompactInv == ASSUME IInv, NEW a \in Agents, Compact(a) PROVE IInv'
<1> USE DEF IInv
<1> DEFINE r == [kind |-> "compacted"]
<1>1. /\ transcript' = [transcript EXCEPT ![a] = Append(@, r)]
      /\ UNCHANGED <<mtime, clock, ledger, hook>>
  BY DEF Compact
<1>2. r \in Records
  BY DEF Records
<1>3. TypeInv'
  BY <1>1, <1>2, RecordGrows DEF TypeInv
<1>4. InPast'
  BY <1>1 DEF InPast
<1>5. AllFresh'
  <2>1. \A b \in Agents : \A i \in DOMAIN transcript'[b] :
          transcript'[b][i] = r \/ (i \in DOMAIN transcript[b] /\ transcript'[b][i] = transcript[b][i])
    BY <1>1, <1>2 DEF TypeInv
  <2> QED
    BY <1>1, <2>1 DEF AllFresh, Fresh
<1>6. AllHonest'
  <2>1. Honest(ledger)'
    <3>1. ledger \in [Agents -> Entry]
      BY DEF TypeInv
    <3> QED
      BY <1>1, <1>2, <3>1, StaysHonest DEF AllHonest, Honest
  <2>2. ASSUME NEW b \in Agents PROVE HonestHook(b)'
    BY <1>1, <1>2, HookStaysHonest DEF AllHonest
  <2> QED
    BY <2>1, <2>2 DEF AllHonest
<1> QED
  BY <1>3, <1>4, <1>5, <1>6

LEMMA Invariant == Spec => []IInv
<1>1. ASSUME IInv, [Next]_vars PROVE IInv'
  <2>1. ASSUME NEW a \in Agents, Decide(a) \/ Count(a) \/ deny(a) \/ Execute(a) \/ Compact(a)
        PROVE  IInv'
    BY <1>1, <2>1, DecideInv, CountInv, DenyInv, ExecuteInv, CompactInv
  <2>2. CASE UNCHANGED vars
    BY <1>1, <2>2 DEF vars, IInv, TypeInv, InPast, AllFresh, Fresh, AllHonest, Honest, HonestHook
  <2> QED
    BY <1>1, <2>1, <2>2 DEF Next
<1> QED
  BY <1>1, InitInv, PTL DEF Spec

-----------------------------------------------------------------------------
(* What follows from it *)

\* However the hooks of any number of agents overtake each other between
\* reading and writing the ledger, nobody is told off for repeating himself
\* who was not refused in the same words as often as the cap says.
THEOREM NobodyToldOffEarly == Spec => []ToldOffForRepeats
<1>1. IInv => ToldOffForRepeats
  <2> SUFFICES ASSUME IInv, NEW a \in Agents, hook[a].at = "counted", hook[a].said > RepeatCap
               PROVE  Cardinality(Refusals(transcript[a], hook[a].reason)) >= RepeatCap
    BY DEF ToldOffForRepeats
  <2>1. hook[a] \in Working
    BY DEF IInv, TypeInv, Idle
  <2>2. Cardinality(Refusals(transcript[a], hook[a].reason)) \in Nat /\ hook[a].said \in Nat
    BY <2>1, RefusalsFinite DEF IInv, TypeInv, Working
  <2>3. hook[a].said <= Cardinality(Refusals(transcript[a], hook[a].reason)) + 1
    BY DEF IInv, AllHonest, HonestHook
  <2> QED
    BY <2>2, <2>3, GuardAssumption
<1> QED
  BY <1>1, Invariant, PTL

\* Whoever is refused a read as a repetition has in its own conversation -- or,
\* with nothing on record there, in the parent's -- uncompacted, a read that
\* returned all of it, and the file is as it was.
THEOREM RefusedRereadsAreAbove == Spec => RereadIsAbove
<1> DEFINE Above(a) ==
      hook[a].at = "idle" /\ hook'[a].at = "refusing" /\ hook'[a].reason[1] = "reread"
       => \E w \in Agents : \E i \in DOMAIN transcript[w] :
            LET r == transcript[w][i] IN
            /\ w = a \/ (w = Parent /\ transcript[a] = <<>>)
            /\ r.kind = "call" /\ r.ok /\ r.call.tool = "Read" /\ r.call.file = hook'[a].call.file
            /\ r.call.from <= hook'[a].call.from /\ hook'[a].call.to <= r.call.to
            /\ r.seen = mtime[r.call.file]
            /\ \A j \in i..Len(transcript[w]) : transcript[w][j].kind = "call"
<1>1. ASSUME IInv, [Next]_vars, NEW a \in Agents PROVE Above(a)
  <2> SUFFICES ASSUME hook[a].at = "idle", hook'[a].at = "refusing", hook'[a].reason[1] = "reread"
               PROVE  \E w \in Agents : \E i \in DOMAIN transcript[w] :
            LET r == transcript[w][i] IN
            /\ w = a \/ (w = Parent /\ transcript[a] = <<>>)
            /\ r.kind = "call" /\ r.ok /\ r.call.tool = "Read" /\ r.call.file = hook'[a].call.file
            /\ r.call.from <= hook'[a].call.from /\ hook'[a].call.to <= r.call.to
            /\ r.seen = mtime[r.call.file]
            /\ \A j \in i..Len(transcript[w]) : transcript[w][j].kind = "call"
    OBVIOUS
  <2>1. Decide(a)
    <3>1. \A b \in Agents : b # a => ~(Decide(b) \/ Count(b) \/ deny(b) \/ Execute(b) \/ Compact(b))
      BY <1>1 DEF IInv, TypeInv, Decide, Count, deny, Execute, Compact
    <3>2. ~Count(a) /\ ~deny(a) /\ ~Execute(a) /\ ~Compact(a) /\ hook' # hook
      BY DEF Count, deny, Execute, Compact
    <3> QED
      BY <1>1, <3>1, <3>2 DEF Next, vars
  <2>2. PICK w \in own_transcript(a), c \in Calls, o \in BOOLEAN : \E reason \in main(a, w, c, o) :
         hook' = [hook EXCEPT ![a] =
           [at |-> IF reason[1] = "allow" THEN "allowed" ELSE "refusing",
            call |-> c, reason |-> reason, since |-> clock, seen |-> ledger, said |-> 0]]
    BY <2>1 DEF Decide
  <2>3. PICK reason \in main(a, w, c, o) :
         hook' = [hook EXCEPT ![a] =
           [at |-> IF reason[1] = "allow" THEN "allowed" ELSE "refusing",
            call |-> c, reason |-> reason, since |-> clock, seen |-> ledger, said |-> 0]]
    BY <2>2
  <2>4. hook'[a].reason = reason /\ hook'[a].call = c
    BY <1>1, <2>3 DEF IInv, TypeInv
  <2>12. w \in Agents /\ (w = a \/ (w = Parent /\ transcript[a] = <<>>))
    BY GuardAssumption DEF own_transcript
  <2>5. c.tool = "Read" /\ AlreadyRead(transcript[w], c)
    BY <2>4, <2>12, RereadMeansRead
  <2>6. PICK i \in segment_records(transcript[w]) :
          /\ transcript[w][i].ok /\ transcript[w][i].call.tool = "Read"
          /\ transcript[w][i].call.file = c.file
          /\ transcript[w][i].call.from <= c.from /\ transcript[w][i].call.to >= c.to
          /\ mtime[c.file] <= Stamp(transcript[w][i])
    BY <2>5 DEF AlreadyRead, prior_reads
  <2> DEFINE r == transcript[w][i]
  <2>7. /\ i \in DOMAIN transcript[w]
        /\ \A j \in i..Len(transcript[w]) : transcript[w][j].kind = "call"
    BY <2>6 DEF segment_records, Calling
  <2>8. r.kind = "call" /\ r \in CallRecord
    <3>1. transcript[w] \in Seq(Records)
      BY <1>1, <2>12 DEF IInv, TypeInv
    <3>2. i \in i..Len(transcript[w]) /\ r \in Records
      BY <2>7, <3>1
    <3> QED
      BY <2>7, <3>2 DEF Records
  <2>9. r.at \in Nat /\ r.seen \in Nat /\ c.file \in File /\ mtime[c.file] \in Nat
    BY <1>1, <2>5, <2>8, CallTypes DEF CallRecord, IInv, TypeInv
  <2>10. mtime[c.file] <= r.at
    BY <2>6, <2>9 DEF Stamp
  <2>11. r.seen = mtime[c.file]
    BY <1>1, <2>6, <2>7, <2>8, <2>9, <2>10, <2>12 DEF IInv, AllFresh, Fresh
  <2> QED
    BY <2>4, <2>6, <2>7, <2>8, <2>11, <2>12
<1>2. IInv /\ [Next]_vars => [\A a \in Agents : Above(a)]_vars
  BY <1>1
<1> QED
  BY <1>2, Invariant, PTL DEF Spec, RereadIsAbove
=============================================================================
