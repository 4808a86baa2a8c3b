------------------------- MODULE FlowSessionProofs -------------------------
(***************************************************************************)
(* The properties of FlowSession for every flow, every set of agents and   *)
(* every value of the caps, with no bound on the length of the list beyond *)
(* the one MaxPlaces puts on launches by the parent.  There are three      *)
(* parts, each with its own inductive invariant on top of the first one's: *)
(*   IInv      TypeOK, BuiltOnJudged, EndsAnswered                         *)
(*   RInv      OneLiveRound                                                *)
(*   the third GivenUpIsFinal, BoundedRefusals, AcceptedSurvives and       *)
(*             ClosingIsProved                                             *)
(*                                                                         *)
(* The flow file is an unordered set of entries here, so what the hooks    *)
(* find by walking the list (the oldest, the latest) exists only because   *)
(* the places in it are bounded; Bounded is the part of the invariant that *)
(* says so.  Every change a hook makes either keeps each place, the stage  *)
(* launched there and the fact that it was judged (Shrinks), or appends a  *)
(* launch of a stage whose blocking predecessors were all judged.          *)
(***************************************************************************)
EXTENDS FlowSession, FiniteSetTheorems, WellFoundedInduction, TLAPS

Bounded(S) == \E n \in Nat : \A e \in S : e.at <= n

\* BuiltOnJudged, of any list.
BuiltOn(S) ==
  \A e \in S : \A b \in Blocking :
    b < e.stage => \E j \in Of(S, b) : j.verdict # "none" /\ j.at < e.at

Good(S) == S \in SUBSET Entry /\ IsFiniteSet(S) /\ Bounded(S) /\ BuiltOn(S)

IInv == TypeOK /\ Good(stages)

\* T is no longer than S, has no place that S has not, and lost none that was
\* judged.
Shrinks(S, T) ==
  /\ IsFiniteSet(S) => IsFiniteSet(T)
  /\ \A t \in T : \E e \in S : e.at = t.at /\ e.stage = t.stage
  /\ \A j \in S : j.verdict # "none" =>
       \E k \in T : k.at = j.at /\ k.stage = j.stage /\ k.verdict # "none"

\* The report a killed stage is charged with.
DeafReport == [gaps |-> TRUE, text |-> "empty", stood |-> {}]

----------------------------------------------------------------------------
(* The first and the last of a set of entries. *)

\* A non-empty set of naturals has a least element.
LEMMA LeastNat ==
  ASSUME NEW T \in SUBSET Nat, T # {}
  PROVE  \E n \in T : \A m \in T : n <= m
<1> DEFINE R == {ss \in Nat \X Nat : ss[1] < ss[2]}
<1>1. IsWellFoundedOn(R, Nat)
  BY NatLessThanWellFounded, Zenon DEF OpToRel
<1>2. \E x \in T : \A y \in T : ~(<<y, x>> \in R)
  <2> HIDE DEF R
  <2> QED BY <1>1, WFMin, Zenon
<1>3. \A x, y \in T : x <= y \/ <<y, x>> \in R
  OBVIOUS
<1> HIDE DEF R
<1> QED BY <1>2, <1>3

\* A non-empty set of entries has one at the first place.
LEMMA OldestIn ==
  ASSUME NEW E \in SUBSET Entry, E # {}
  PROVE  Oldest(E) \in E /\ \A f \in E : Oldest(E).at <= f.at
<1> DEFINE T == {e.at : e \in E}
<1>1. T \in SUBSET Nat /\ T # {}
  BY DEF Entry
<1>2. PICK n \in T : \A m \in T : n <= m
  <2> HIDE DEF T
  <2> QED BY <1>1, LeastNat
<1>3. PICK e \in E : e.at = n
  OBVIOUS
<1>4. \A f \in E : e.at <= f.at
  BY <1>2, <1>3
<1> QED BY <1>3, <1>4 DEF Oldest

\* A non-empty set of entries with bounded places has one at the last place.
LEMMA LatestIn ==
  ASSUME NEW E \in SUBSET Entry, E # {}, Bounded(E)
  PROVE  Latest(E) \in E /\ \A f \in E : f.at <= Latest(E).at
<1>1. PICK n \in Nat : \A e \in E : e.at <= n
  BY DEF Bounded
<1> DEFINE T == {n - e.at : e \in E}
<1>2. T \in SUBSET Nat /\ T # {}
  <2>1. \A e \in E : e.at \in Nat /\ e.at <= n
    BY <1>1 DEF Entry
  <2> QED BY <2>1
<1>3. PICK d \in T : \A m \in T : d <= m
  <2> HIDE DEF T
  <2> QED BY <1>2, LeastNat
<1>4. PICK e \in E : n - e.at = d
  OBVIOUS
<1>5. \A f \in E : f.at <= e.at
  <2> TAKE f \in E
  <2>1. n - e.at <= n - f.at
    BY <1>3, <1>4
  <2>2. n \in Nat /\ e.at \in Nat /\ f.at \in Nat
    BY DEF Entry
  <2> QED BY <2>1, <2>2
<1> QED BY <1>4, <1>5 DEF Latest

\* Part of a bounded list is bounded.
LEMMA BoundedPart ==
  ASSUME NEW S, NEW T \in SUBSET S, Bounded(S)
  PROVE  Bounded(T)
BY DEF Bounded

----------------------------------------------------------------------------
(* Changes that keep what was judged. *)

LEMMA ShrinksRefl == \A S : Shrinks(S, S)
BY DEF Shrinks

LEMMA ShrinksTrans ==
  ASSUME NEW S, NEW T, NEW U, Shrinks(S, T), Shrinks(T, U)
  PROVE  Shrinks(S, U)
<1>1. \A u \in U : \E e \in S : e.at = u.at /\ e.stage = u.stage
  <2> TAKE u \in U
  <2>1. PICK t \in T : t.at = u.at /\ t.stage = u.stage
    BY DEF Shrinks
  <2>2. PICK e \in S : e.at = t.at /\ e.stage = t.stage
    BY DEF Shrinks
  <2> QED BY <2>1, <2>2
<1>2. \A j \in S : j.verdict # "none" =>
        \E k \in U : k.at = j.at /\ k.stage = j.stage /\ k.verdict # "none"
  <2> SUFFICES ASSUME NEW j \in S, j.verdict # "none"
               PROVE  \E k \in U : k.at = j.at /\ k.stage = j.stage /\ k.verdict # "none"
    OBVIOUS
  <2>1. PICK t \in T : t.at = j.at /\ t.stage = j.stage /\ t.verdict # "none"
    BY DEF Shrinks
  <2>2. PICK k \in U : k.at = t.at /\ k.stage = t.stage /\ k.verdict # "none"
    BY <2>1 DEF Shrinks
  <2> QED BY <2>1, <2>2
<1>3. IsFiniteSet(S) => IsFiniteSet(U)
  BY DEF Shrinks
<1> QED BY <1>1, <1>2, <1>3 DEF Shrinks

\* A list that shrinks stays bounded.
LEMMA ShrinksBounded ==
  ASSUME NEW S, NEW T, Bounded(S), Shrinks(S, T)
  PROVE  Bounded(T)
<1>1. PICK n \in Nat : \A e \in S : e.at <= n
  BY DEF Bounded
<1>2. \A t \in T : t.at <= n
  BY <1>1 DEF Shrinks
<1> QED BY <1>2 DEF Bounded

\* A list that shrinks keeps the invariant.
LEMMA ShrinksGood ==
  ASSUME NEW S, NEW T \in SUBSET Entry, Good(S), Shrinks(S, T)
  PROVE  Good(T)
<1>1. Bounded(T)
  BY ShrinksBounded DEF Good
<1>2. BuiltOn(T)
  <2> SUFFICES ASSUME NEW t \in T, NEW b \in Blocking, b < t.stage
               PROVE  \E k \in Of(T, b) : k.verdict # "none" /\ k.at < t.at
    BY DEF BuiltOn
  <2>1. PICK e \in S : e.at = t.at /\ e.stage = t.stage
    BY DEF Shrinks
  <2>2. PICK j \in Of(S, b) : j.verdict # "none" /\ j.at < e.at
    BY <2>1 DEF Good, BuiltOn
  <2>3. PICK k \in T : k.at = j.at /\ k.stage = j.stage /\ k.verdict # "none"
    BY <2>2 DEF Shrinks, Of
  <2> QED BY <2>1, <2>2, <2>3 DEF Of
<1>3. IsFiniteSet(T)
  BY DEF Good, Shrinks
<1> QED BY <1>1, <1>2, <1>3 DEF Good

\* Dropping launches that are still in flight.
LEMMA DropShrinks ==
  ASSUME NEW S, NEW T \in SUBSET S, \A e \in S : e \notin T => e.verdict = "none"
  PROVE  Shrinks(S, T)
BY FS_Subset DEF Shrinks

\* Rewriting one entry without moving it or taking back its verdict.
LEMMA ReplaceShrinks ==
  ASSUME NEW S \in SUBSET Entry, NEW old \in S, NEW new \in Entry,
         new.at = old.at, new.stage = old.stage,
         old.verdict # "none" => new.verdict # "none"
  PROVE  /\ Replace(S, old, new) \in SUBSET Entry
         /\ Shrinks(S, Replace(S, old, new))
<1>1. IsFiniteSet(S) => IsFiniteSet((S \ {old}) \cup {new})
  <2>1. IsFiniteSet(S) => IsFiniteSet(S \ {old})
    BY FS_Subset
  <2> QED BY <2>1, FS_AddElement
<1> QED BY <1>1 DEF Shrinks, Replace

\* Rewriting entries in place, each on its own.
LEMMA MapShrinks ==
  ASSUME NEW S, NEW T, NEW f \in [S -> Entry], T = {f[e] : e \in S},
         \A e \in S : /\ f[e].at = e.at /\ f[e].stage = e.stage
                      /\ f[e].verdict = e.verdict
  PROVE  T \in SUBSET Entry /\ Shrinks(S, T)
<1>1. f \in Surjection(S, T)
  BY DEF Surjection
<1>2. IsFiniteSet(S) => IsFiniteSet(T)
  BY <1>1, FS_Surjection
<1> QED BY <1>2 DEF Shrinks

----------------------------------------------------------------------------
(* Appending a launch. *)

\* A new launch goes after everything on the list.
LEMMA NextAtLast ==
  ASSUME NEW S \in SUBSET Entry, Bounded(S)
  PROVE  NextAt(S) \in Nat \ {0} /\ \A e \in S : e.at < NextAt(S)
<1>1. CASE S = {}
  BY <1>1 DEF NextAt
<1>2. CASE S # {}
  <2>1. Latest(S) \in S /\ \A e \in S : e.at <= Latest(S).at
    BY <1>2, LatestIn
  <2>2. \A e \in S : e.at \in Nat \ {0}
    BY DEF Entry
  <2> QED BY <1>2, <2>1, <2>2 DEF NextAt
<1> QED BY <1>1, <1>2

\* A launch may be appended once every blocking stage ahead of it is judged.
LEMMA AppendGood ==
  ASSUME NEW S, Good(S), NEW s \in Stage, NEW a \in Agents \cup {NoAgent},
         NEW again \in BOOLEAN,
         \A b \in Blocking : b < s => \E j \in Of(S, b) : j.verdict # "none"
  PROVE  Good(S \cup {NewEntry(S, s, a, again)})
<1> DEFINE new == NewEntry(S, s, a, again)
           T == S \cup {new}
<1>1. NextAt(S) \in Nat \ {0} /\ \A e \in S : e.at < NextAt(S)
  BY NextAtLast DEF Good
<1>2. new \in Entry /\ new.at = NextAt(S) /\ new.stage = s
  BY <1>1 DEF NewEntry, Entry, Verdict
<1>3. T \in SUBSET Entry
  BY <1>2 DEF Good
<1>4. Bounded(T)
  <2>1. \A e \in T : e.at <= NextAt(S)
    BY <1>1, <1>2, <1>3 DEF Entry
  <2> QED BY <1>1, <2>1 DEF Bounded
<1>5. BuiltOn(T)
  <2> SUFFICES ASSUME NEW e \in T, NEW b \in Blocking, b < e.stage
               PROVE  \E j \in Of(T, b) : j.verdict # "none" /\ j.at < e.at
    BY DEF BuiltOn
  <2>1. CASE e \in S
    BY <2>1 DEF Good, BuiltOn, Of
  <2>2. CASE e = new
    <3> HIDE DEF new
    <3>1. PICK j \in Of(S, b) : j.verdict # "none"
      BY <1>2, <2>2
    <3>2. j \in S /\ j.at < e.at
      BY <1>1, <1>2, <2>2 DEF Of
    <3> QED BY <3>1, <3>2 DEF Of
  <2> QED BY <2>1, <2>2
<1>6. IsFiniteSet(T)
  <2> HIDE DEF new
  <2> QED BY FS_AddElement DEF Good
<1> QED BY <1>3, <1>4, <1>5, <1>6 DEF Good

----------------------------------------------------------------------------
(* The operators of the flow file. *)

\* The stage that is due comes after blocking stages that are all accepted.
LEMMA NextStageDue ==
  ASSUME NEW S, next_stage(S) # NoStage
  PROVE  /\ next_stage(S) \in Stage
         /\ \A b \in Blocking : b < next_stage(S) =>
              \E j \in Of(S, b) : j.verdict # "none"
<1>1. Unpassed(S) # {} /\ Unpassed(S) \in SUBSET Nat /\ Unpassed(S) \subseteq Stage
  BY StagesAssumption DEF next_stage, Unpassed, Stage
<1> DEFINE s == CHOOSE x \in Unpassed(S) : \A y \in Unpassed(S) : x <= y
<1>2. s \in Unpassed(S) /\ \A y \in Unpassed(S) : s <= y
  BY <1>1, LeastNat
<1>3. next_stage(S) = s
  BY <1>1 DEF next_stage
<1> HIDE DEF s
<1>4. ASSUME NEW b \in Blocking, b < s
      PROVE  \E j \in Of(S, b) : j.verdict # "none"
  <2>1. b \in Stage /\ s \in Stage
    BY <1>1, <1>2, StagesAssumption
  <2>2. b \notin Unpassed(S)
    BY <1>2, <1>4, <2>1 DEF Stage
  <2>3. b \in done(S)
    BY <2>1, <2>2 DEF Unpassed
  <2> QED BY <2>3 DEF done, Of
<1> QED BY <1>1, <1>2, <1>3, <1>4

\* A launch the guard admits.
LEMMA LaunchGood ==
  ASSUME NEW S, Good(S), NEW s, admits(S, s)
  PROVE  Good(record_launch(AfterAdmission(S, s), s, NoAgent))
<1> DEFINE T == AfterAdmission(S, s)
<1>1. s \in Stage /\ next_stage(S) = s /\ s # NoStage
  BY StagesAssumption DEF admits, Stage, NoStage
<1>2. T \in SUBSET S /\ \A e \in S : e \notin T => e.verdict = "none"
  BY DEF AfterAdmission, LiveEntries, Pending, InFlight
<1>3. Shrinks(S, T) /\ T \in SUBSET Entry
  BY <1>2, DropShrinks DEF Good
<1>4. Good(T)
  BY <1>3, ShrinksGood
<1>5. \A b \in Blocking : b < s => \E j \in Of(T, b) : j.verdict # "none"
  BY <1>1, <1>2, NextStageDue DEF Of
<1> QED BY <1>1, <1>4, <1>5, AppendGood DEF record_launch

\* A launch the guard puts back for a subagent that calls.
LEMMA RestoredGood ==
  ASSUME NEW S, Good(S), NEW a \in Agents,
         InFlight(S) # {} \/ next_stage(S) # NoStage
  PROVE  Good(Restored(S, a)) /\ InFlight(Restored(S, a)) # {}
<1>1. CASE InFlight(S) # {}
  BY <1>1 DEF Restored
<1>2. CASE InFlight(S) = {}
  <2>1. Restored(S, a) = S \cup {NewEntry(S, next_stage(S), a, FALSE)}
    BY <1>2 DEF Restored, record_launch
  <2>2. Good(Restored(S, a))
    BY <1>2, <2>1, NextStageDue, AppendGood
  <2>3. NewEntry(S, next_stage(S), a, FALSE) \in InFlight(Restored(S, a))
    BY <2>1 DEF InFlight, NewEntry
  <2> QED BY <2>2, <2>3
<1> QED BY <1>1, <1>2

\* What is charged is a launch in flight.
LEMMA ChargedIn ==
  ASSUME NEW S, Good(S), NEW s, Pending(S, s) # {}
  PROVE  Charged(S, s) \in S /\ Charged(S, s).verdict = "none" /\ Charged(S, s).stage = s
<1>1. Pending(S, s) \in SUBSET Entry /\ Bounded(Pending(S, s))
  BY BoundedPart DEF Good, Pending, InFlight
<1>2. Charged(S, s) \in Pending(S, s)
  BY <1>1, LatestIn DEF Charged
<1> QED BY <1>2 DEF Pending, InFlight

\* Charging a launch, binding it and counting a refusal rewrite it in place.
LEMMA ChargeGood ==
  ASSUME NEW S, Good(S), NEW s \in Stage, Pending(S, s) # {}, NEW a \in Agents
  PROVE  /\ Good(spend(S, s)) /\ Pending(spend(S, s), s) # {}
         /\ Good(bind(S, s, a)) /\ Pending(bind(S, s, a), s) # {}
         /\ Good(refused_once_more(S, s))
<1> DEFINE e == Charged(S, s)
<1>1. e \in S /\ e.verdict = "none" /\ e.stage = s
  BY ChargedIn
<1> HIDE DEF e
<1>2. e \in Entry /\ S \in SUBSET Entry
  BY <1>1 DEF Good
<1>3. ASSUME NEW f \in Entry, f.at = e.at, f.stage = e.stage, f.verdict = "none"
      PROVE  Good(Replace(S, e, f)) /\ Pending(Replace(S, e, f), s) # {}
  <2>1. Good(Replace(S, e, f))
    BY <1>1, <1>2, <1>3, ReplaceShrinks, ShrinksGood
  <2>2. f \in Pending(Replace(S, e, f), s)
    BY <1>1, <1>3 DEF Pending, InFlight, Replace
  <2> QED BY <2>1, <2>2
<1>4. Good(spend(S, s)) /\ Pending(spend(S, s), s) # {}
  <2> DEFINE n == IF e.calls > Budget[s] THEN e.calls ELSE e.calls + 1
             g == [e EXCEPT !.calls = n]
             f == [g EXCEPT !.age = 0]
  <2>1. n \in Nat
    BY <1>2 DEF Entry
  <2>2. spend(S, s) = Replace(S, e, f)
    BY Zenon DEF spend, e
  <2> HIDE DEF n
  <2>3. g \in Entry /\ g.at = e.at /\ g.stage = e.stage /\ g.verdict = "none"
    BY <1>1, <1>2, <2>1 DEF Entry
  <2> HIDE DEF g
  <2>4. f \in Entry /\ f.at = e.at /\ f.stage = e.stage /\ f.verdict = "none"
    BY <2>3 DEF Entry
  <2> HIDE DEF f
  <2> QED BY <1>3, <2>2, <2>4
<1>5. Good(bind(S, s, a)) /\ Pending(bind(S, s, a), s) # {}
  <2> DEFINE f == [e EXCEPT !.agent = IF @ = NoAgent THEN a ELSE @]
  <2>1. f \in Entry /\ f.at = e.at /\ f.stage = e.stage /\ f.verdict = "none"
    BY <1>1, <1>2 DEF Entry
  <2>2. bind(S, s, a) = Replace(S, e, f)
    BY DEF bind, e
  <2> HIDE DEF f
  <2> QED BY <1>3, <2>1, <2>2
<1>6. Good(refused_once_more(S, s))
  <2> DEFINE f == [e EXCEPT !.denied = IF @ > DeafAfter THEN @ ELSE @ + 1]
  <2>1. f \in Entry /\ f.at = e.at /\ f.stage = e.stage /\ f.verdict = "none"
    BY <1>1, <1>2 DEF Entry
  <2>2. refused_once_more(S, s) = Replace(S, e, f)
    BY DEF refused_once_more, e
  <2> HIDE DEF f
  <2> QED BY <1>3, <2>1, <2>2
<1> QED BY <1>4, <1>5, <1>6

\* A subagent's call.
LEMMA SpentGood ==
  ASSUME NEW S, Good(S), InFlight(S) # {}, NEW a \in Agents, NEW tool
  PROVE  Good(Spent(S, a, tool))
<1> DEFINE s == FirstRunning(S)
           charged == bind(spend(S, s), s, a)
<1>1. Oldest(InFlight(S)) \in InFlight(S)
  BY OldestIn DEF Good, InFlight
<1>2. s \in Stage /\ Pending(S, s) # {}
  BY <1>1 DEF FirstRunning, Good, InFlight, Pending, Entry
<1>3. Good(charged) /\ Pending(charged, s) # {}
  BY <1>2, ChargeGood
<1>4. Good(refused_once_more(charged, s))
  BY <1>2, <1>3, ChargeGood
<1> QED BY <1>3, <1>4 DEF Spent

\* An entry with a verdict is still an entry, of the same launch.
LEMMA WithVerdictEntry ==
  ASSUME NEW e \in Entry, NEW rep \in Report, NEW a \in Agents \cup {NoAgent}
  PROVE  /\ WithVerdict(e, rep, a) \in Entry
         /\ WithVerdict(e, rep, a).at = e.at
         /\ WithVerdict(e, rep, a).stage = e.stage
         /\ WithVerdict(e, rep, a).verdict # "none"
<1> DEFINE e1 == [e EXCEPT !.verdict = IF rep.gaps THEN "refused" ELSE "accepted"]
           e2 == [e1 EXCEPT !.agent = IF a = NoAgent THEN @ ELSE a]
           answer == IF rep.gaps /\ rep.text # "empty" THEN Claims(rep)
                     ELSE e2.answer
           e3 == [e2 EXCEPT !.answer = answer]
           e4 == [e3 EXCEPT !.stood = IF rep.stood = {} THEN @ ELSE rep.stood]
           e5 == [e4 EXCEPT !.calls = 0]
           e6 == [e5 EXCEPT !.denied = 0]
           e7 == [e6 EXCEPT !.age = 0]
           Same(f) == f \in Entry /\ f.at = e.at /\ f.stage = e.stage /\ f.verdict # "none"
<1>1. WithVerdict(e, rep, a) = e7
  BY DEF WithVerdict
<1>2. Same(e1)
  BY DEF Entry, Verdict
<1> HIDE DEF e1
<1>3. Same(e2)
  BY <1>2 DEF Entry
<1> HIDE DEF e2
<1>4. answer \in BOOLEAN
  <2>1. e2.answer \in BOOLEAN
    BY <1>3 DEF Entry
  <2>2. Claims(rep) \in BOOLEAN
    BY DEF Claims
  <2> QED BY <2>1, <2>2
<1> HIDE DEF answer
<1>5. Same(e3)
  BY <1>3, <1>4 DEF Entry
<1> HIDE DEF e3
<1>6. Same(e4)
  BY <1>5 DEF Entry, Report
<1> HIDE DEF e4
<1>7. Same(e5)
  BY <1>6 DEF Entry
<1> HIDE DEF e5
<1>8. Same(e6)
  BY <1>7 DEF Entry
<1> HIDE DEF e6
<1>9. Same(e7)
  BY <1>8 DEF Entry
<1> HIDE DEF e7
<1> QED BY <1>1, <1>9

\* The launches a report of stage s may land on, and the one it does.
Candidates(S, s, a) == {e \in Of(S, s) : a = NoAgent \/ e.agent = a}
Nobody(S, s, a) == Pending(S, s) = {} /\ Candidates(S, s, a) = {}

LEMMA ReportedIn ==
  ASSUME NEW S \in SUBSET Entry, Bounded(S), NEW s, NEW a, ~Nobody(S, s, a)
  PROVE  Reported(S, s, a) \in S /\ Reported(S, s, a).stage = s
<1>1. CASE Pending(S, s) # {}
  <2>1. Oldest(Pending(S, s)) \in Pending(S, s)
    BY <1>1, OldestIn DEF Pending, InFlight
  <2> QED BY <1>1, <2>1 DEF Reported, Pending, InFlight
<1>2. CASE Pending(S, s) = {}
  <2>1. Candidates(S, s, a) # {} /\ Candidates(S, s, a) \in SUBSET S
    BY <1>2 DEF Nobody, Candidates, Of
  <2>2. Latest(Candidates(S, s, a)) \in Candidates(S, s, a)
    BY <2>1, BoundedPart, LatestIn
  <2> QED BY <1>2, <2>2 DEF Reported, Candidates, Of
<1> QED BY <1>1, <1>2

\* The list once the report has its verdict, before a round is reopened or
\* the stage's other launches are dropped.
JudgedList(S, s, rep, a) ==
  Replace(S, Reported(S, s, a), WithVerdict(Reported(S, s, a), rep, a))

LEMMA JudgedShrinks ==
  ASSUME NEW S \in SUBSET Entry, Bounded(S), NEW s, NEW rep \in Report,
         NEW a \in Agents \cup {NoAgent}, ~Nobody(S, s, a)
  PROVE  /\ JudgedList(S, s, rep, a) \in SUBSET Entry
         /\ Shrinks(S, JudgedList(S, s, rep, a))
         /\ WithVerdict(Reported(S, s, a), rep, a) \in JudgedList(S, s, rep, a)
         /\ WithVerdict(Reported(S, s, a), rep, a).stage = s
<1> DEFINE old == Reported(S, s, a)
           new == WithVerdict(old, rep, a)
<1>1. old \in S /\ old.stage = s
  BY ReportedIn
<1>2. new \in Entry /\ new.at = old.at /\ new.stage = old.stage /\ new.verdict # "none"
  BY <1>1, WithVerdictEntry
<1>3. JudgedList(S, s, rep, a) = Replace(S, old, new)
  BY DEF JudgedList
<1> HIDE DEF new, old
<1>4. Replace(S, old, new) \in SUBSET Entry /\ Shrinks(S, Replace(S, old, new))
  BY <1>1, <1>2, ReplaceShrinks
<1>5. new \in Replace(S, old, new)
  BY DEF Replace
<1> QED BY <1>1, <1>2, <1>3, <1>4, <1>5 DEF new, old

\* What record_verdict leaves: nothing changed, the judged list, that list
\* with the round reopened, or that list without the stage's other launches.
LEMMA VerdictCases ==
  ASSUME NEW S, NEW s, NEW rep, NEW a, NEW reopen
  PROVE  LET T == JudgedList(S, s, rep, a)
             new == WithVerdict(Reported(S, s, a), rep, a)
         IN  \/ Nobody(S, s, a) /\ record_verdict(S, s, rep, a, reopen) = S
             \/ /\ ~Nobody(S, s, a)
                /\ \/ record_verdict(S, s, rep, a, reopen) = T
                   \/ /\ reopen
                      /\ record_verdict(S, s, rep, a, reopen)
                           = T \cup {NewEntry(T, s, new.agent, TRUE)}
                   \/ record_verdict(S, s, rep, a, reopen) = DropPending(T, s)
<1> DEFINE T == JudgedList(S, s, rep, a)
           new == WithVerdict(Reported(S, s, a), rep, a)
<1>1. record_verdict(S, s, rep, a, reopen) =
        IF Nobody(S, s, a) THEN S
        ELSE IF ~rep.gaps THEN T
        ELSE IF reopen /\ ~exhausted(T, s)
             THEN T \cup {NewEntry(T, s, new.agent, TRUE)}
             ELSE DropPending(T, s)
  BY Zenon DEF record_verdict, Nobody, Candidates, JudgedList
<1> HIDE DEF T, new
<1>2. QED BY <1>1 DEF T, new

\* Dropping a stage's launches in flight.
LEMMA DropPendingShrinks ==
  ASSUME NEW S, NEW s
  PROVE  DropPending(S, s) \in SUBSET S /\ Shrinks(S, DropPending(S, s))
<1>1. DropPending(S, s) \in SUBSET S
      /\ \A e \in S : e \notin DropPending(S, s) => e.verdict = "none"
  BY DEF DropPending, Pending, InFlight
<1> QED BY <1>1, DropShrinks

\* A verdict that reopens nothing.
LEMMA ClosedShrinks ==
  ASSUME NEW S \in SUBSET Entry, Bounded(S), NEW s, NEW rep \in Report,
         NEW a \in Agents \cup {NoAgent}
  PROVE  /\ record_verdict(S, s, rep, a, FALSE) \in SUBSET Entry
         /\ Shrinks(S, record_verdict(S, s, rep, a, FALSE))
<1> DEFINE T == JudgedList(S, s, rep, a)
<1>1. CASE Nobody(S, s, a)
  BY <1>1, VerdictCases, ShrinksRefl
<1>2. CASE ~Nobody(S, s, a)
  <2>1. T \in SUBSET Entry /\ Shrinks(S, T)
    BY <1>2, JudgedShrinks
  <2>2. DropPending(T, s) \in SUBSET Entry /\ Shrinks(S, DropPending(T, s))
    BY <2>1, DropPendingShrinks, ShrinksTrans
  <2>3. \/ record_verdict(S, s, rep, a, FALSE) = T
        \/ record_verdict(S, s, rep, a, FALSE) = DropPending(T, s)
    BY <1>2, VerdictCases
  <2> QED BY <2>1, <2>2, <2>3
<1> QED BY <1>1, <1>2

\* Any verdict: a reopened round stands on what the round before it stood on.
LEMMA VerdictGood ==
  ASSUME NEW S, Good(S), NEW s \in Stage, NEW rep \in Report,
         NEW a \in Agents \cup {NoAgent}, NEW reopen
  PROVE  Good(record_verdict(S, s, rep, a, reopen))
<1> DEFINE T == JudgedList(S, s, rep, a)
           new == WithVerdict(Reported(S, s, a), rep, a)
<1>1. CASE Nobody(S, s, a)
  BY <1>1, VerdictCases
<1>2. CASE ~Nobody(S, s, a)
  <2>1. T \in SUBSET Entry /\ Shrinks(S, T) /\ new \in T /\ new.stage = s
    BY <1>2, JudgedShrinks DEF Good
  <2>2. Good(T)
    BY <2>1, ShrinksGood
  <2>3. Good(DropPending(T, s))
    BY <2>1, <2>2, DropPendingShrinks, ShrinksGood
  <2>4. Good(T \cup {NewEntry(T, s, new.agent, TRUE)})
    <3>1. new.agent \in Agents \cup {NoAgent}
      BY <2>1 DEF Entry
    <3>2. \A b \in Blocking : b < s => \E j \in Of(T, b) : j.verdict # "none"
      BY <2>1, <2>2 DEF Good, BuiltOn
    <3> HIDE DEF T, new
    <3> QED BY <2>2, <3>1, <3>2, AppendGood
  <2> QED BY <1>2, <2>2, <2>3, <2>4, VerdictCases
<1> QED BY <1>1, <1>2

\* TaskStop on the stages that went deaf.
LEMMA EndDeafGood ==
  ASSUME NEW S, Good(S)
  PROVE  Good(EndDeaf(S))
<1> DEFINE once(s) == record_verdict(Of(S, s), s, DeafReport, NoAgent, FALSE)
           twice(s) == record_verdict(once(s), s, DeafReport, NoAgent, FALSE)
           ended(s) == IF s \notin deaf(S) THEN Of(S, s)
                       ELSE IF \E e, f \in DeafEntries(S) :
                                 e # f /\ e.stage = s /\ f.stage = s
                            THEN twice(s) ELSE once(s)
<1>1. DeafReport \in Report
  BY TextsAssumption DEF DeafReport, Report
<1>2. ASSUME NEW s \in Stage
      PROVE  ended(s) \in SUBSET Entry /\ Shrinks(Of(S, s), ended(s))
  <2>1. Of(S, s) \in SUBSET Entry /\ Bounded(Of(S, s))
    BY BoundedPart DEF Good, Of
  <2>2. once(s) \in SUBSET Entry /\ Shrinks(Of(S, s), once(s))
    BY <1>1, <2>1, ClosedShrinks
  <2>3. Bounded(once(s))
    BY <2>1, <2>2, ShrinksBounded
  <2>4. twice(s) \in SUBSET Entry /\ Shrinks(once(s), twice(s))
    <3> HIDE DEF once
    <3> QED BY <1>1, <2>2, <2>3, ClosedShrinks
  <2>5. Shrinks(Of(S, s), twice(s))
    <3> HIDE DEF once, twice
    <3> QED BY <2>2, <2>4, ShrinksTrans
  <2> HIDE DEF once, twice
  <2> QED BY <2>1, <2>2, <2>4, <2>5, ShrinksRefl
<1>3. EndDeaf(S) = UNION {ended(s) : s \in Stage}
  BY Zenon DEF EndDeaf, DeafReport
<1> HIDE DEF ended
<1>4. EndDeaf(S) \in SUBSET Entry
  BY <1>2, <1>3
<1>5. \A t \in EndDeaf(S) : \E e \in S : e.at = t.at /\ e.stage = t.stage
  <2> TAKE t \in EndDeaf(S)
  <2>1. PICK s \in Stage : t \in ended(s)
    BY <1>3
  <2>2. \E e \in Of(S, s) : e.at = t.at /\ e.stage = t.stage
    BY <1>2, <2>1 DEF Shrinks
  <2> QED BY <2>2 DEF Of
<1>6. \A j \in S : j.verdict # "none" =>
        \E k \in EndDeaf(S) : k.at = j.at /\ k.stage = j.stage /\ k.verdict # "none"
  <2> SUFFICES ASSUME NEW j \in S, j.verdict # "none"
               PROVE  \E k \in EndDeaf(S) :
                        k.at = j.at /\ k.stage = j.stage /\ k.verdict # "none"
    OBVIOUS
  <2>1. j.stage \in Stage /\ j \in Of(S, j.stage)
    BY DEF Good, Entry, Of
  <2>2. \E k \in ended(j.stage) :
          k.at = j.at /\ k.stage = j.stage /\ k.verdict # "none"
    BY <1>2, <2>1 DEF Shrinks
  <2> QED BY <1>3, <2>1, <2>2
<1>7. IsFiniteSet(EndDeaf(S))
  <2>1. \A s \in Stage : IsFiniteSet(ended(s))
    <3> TAKE s \in Stage
    <3>1. IsFiniteSet(Of(S, s))
      BY FS_Subset DEF Good, Of
    <3> QED BY <1>2, <3>1 DEF Shrinks
  <2> DEFINE parts == {ended(s) : s \in Stage}
  <2>2. IsFiniteSet(Stage)
    BY FS_Interval, StagesAssumption DEF Stage
  <2>3. IsFiniteSet(parts)
    <3>1. [s \in Stage |-> ended(s)] \in Surjection(Stage, parts)
      BY DEF Surjection
    <3> HIDE DEF parts
    <3> QED BY <2>2, <3>1, FS_Surjection
  <2>4. \A T \in parts : IsFiniteSet(T)
    BY <2>1
  <2> HIDE DEF parts
  <2>5. IsFiniteSet(UNION parts)
    BY <2>3, <2>4, FS_UNION
  <2> QED BY <1>3, <2>5 DEF parts
<1>8. Shrinks(S, EndDeaf(S))
  BY <1>5, <1>6, <1>7 DEF Shrinks
<1> QED BY <1>4, <1>8, ShrinksGood

\* The digest of a stage's report.
LEMMA SummariseGood ==
  ASSUME NEW S, Good(S), NEW s
  PROVE  Good(Summarise(S, s))
<1> DEFINE bare == {e \in Of(S, s) : ~e.summary}
           e == Latest(bare)
           f == [e EXCEPT !.summary = TRUE]
<1>1. CASE bare = {}
  BY <1>1 DEF Summarise
<1>2. CASE bare # {}
  <2>1. bare \in SUBSET S /\ bare \in SUBSET Entry /\ Bounded(bare)
    BY BoundedPart DEF Good, Of
  <2>2. e \in bare
    <3> HIDE DEF bare
    <3> QED BY <1>2, <2>1, LatestIn
  <2>3. Summarise(S, s) = Replace(S, e, f)
    BY <1>2, Zenon DEF Summarise
  <2>4. e \in S /\ e \in Entry
    BY <2>1, <2>2
  <2> HIDE DEF e
  <2>5. f \in Entry /\ f.at = e.at /\ f.stage = e.stage /\ f.verdict = e.verdict
    BY <2>4 DEF Entry
  <2> HIDE DEF f
  <2>6. S \in SUBSET Entry
    BY DEF Good
  <2> QED BY <2>3, <2>4, <2>5, <2>6, ReplaceShrinks, ShrinksGood
<1> QED BY <1>1, <1>2

\* A report as the gate files it.
LEMMA JudgedFileGood ==
  ASSUME NEW S, Good(S), NEW s \in Stage, NEW rep \in Report,
         NEW a \in Agents \cup {NoAgent}
  PROVE  Good(JudgedFile(S, s, rep, a))
<1>1. Good(record_verdict(S, s, rep, a, a = NoAgent \/ s \notin Judged \/ ~rep.gaps))
  BY VerdictGood
<1> QED BY <1>1, SummariseGood DEF JudgedFile

\* Forgetting launches.
LEMMA ForgetGood ==
  ASSUME NEW S, Good(S), NEW every
  PROVE  Good(forget_running(S, every))
<1>1. /\ forget_running(S, every) \in SUBSET S
      /\ \A e \in S : e \notin forget_running(S, every) => e.verdict = "none"
  BY DEF forget_running
<1>2. Shrinks(S, forget_running(S, every)) /\ forget_running(S, every) \in SUBSET Entry
  BY <1>1, DropShrinks DEF Good
<1> QED BY <1>2, ShrinksGood

\* The passing of time.
LEMMA OlderGood ==
  ASSUME NEW S, Good(S)
  PROVE  Good(Older(S))
<1> DEFINE older(e) == IF e.verdict = "none" /\ e.age < 2
                       THEN [e EXCEPT !.age = @ + 1] ELSE e
<1>1. ASSUME NEW e \in S
      PROVE  /\ older(e) \in Entry /\ older(e).at = e.at
             /\ older(e).stage = e.stage /\ older(e).verdict = e.verdict
  <2>1. e \in Entry
    BY DEF Good
  <2> QED BY <2>1 DEF Entry
<1>2. Older(S) = {older(e) : e \in S}
  BY DEF Older
<1> HIDE DEF older
<1> DEFINE f == [e \in S |-> older(e)]
<1>3. /\ f \in [S -> Entry] /\ Older(S) = {f[e] : e \in S}
      /\ \A e \in S : f[e].at = e.at /\ f[e].stage = e.stage /\ f[e].verdict = e.verdict
  BY <1>1, <1>2
<1> HIDE DEF f
<1> QED BY <1>3, MapShrinks, ShrinksGood

\* The context guard's count.
LEMMA CountGood ==
  ASSUME NEW S, Good(S)
  PROVE  Good(_counts_against_the_stage(S))
<1> DEFINE k(s) == Cardinality(Pending(S, s))
           more(e) == IF e.denied + k(e.stage) > DeafAfter THEN DeafAfter + 1
                      ELSE e.denied + k(e.stage)
           counted(e) == IF e.verdict = "none" /\ e = Charged(S, e.stage)
                         THEN [e EXCEPT !.denied = more(e)] ELSE e
           f == [e \in S |-> counted(e)]
<1>1. \A s : k(s) \in Nat
  <2> TAKE s
  <2>1. IsFiniteSet(Pending(S, s))
    BY FS_Subset DEF Good, Pending, InFlight
  <2> QED BY <2>1, FS_CardinalityType
<1>2. _counts_against_the_stage(S) = {counted(e) : e \in S}
  BY Zenon DEF _counts_against_the_stage
<1> HIDE DEF k
<1>3. ASSUME NEW e \in S
      PROVE  /\ counted(e) \in Entry /\ counted(e).at = e.at
             /\ counted(e).stage = e.stage /\ counted(e).verdict = e.verdict
  <2>1. e \in Entry /\ DeafAfter \in Nat
    BY CapsAssumption DEF Good
  <2>2. more(e) \in Nat
    BY <1>1, <2>1 DEF Entry
  <2> HIDE DEF more
  <2> QED BY <2>1, <2>2 DEF Entry
<1> HIDE DEF counted
<1>4. /\ f \in [S -> Entry] /\ _counts_against_the_stage(S) = {f[e] : e \in S}
      /\ \A e \in S : f[e].at = e.at /\ f[e].stage = e.stage /\ f[e].verdict = e.verdict
  BY <1>2, <1>3
<1> HIDE DEF f
<1> QED BY <1>4, MapShrinks, ShrinksGood

----------------------------------------------------------------------------
(* The steps. *)

\* What the Stop hook may say and write once it knows what is in flight.
LEMMA StopDecidesStep ==
  ASSUME TypeOK, NEW S, Good(S), NEW s \in Stage \cup {NoStage},
         NEW flight, StopDecides(S, s, flight)
  PROVE  /\ Good(stages')
         /\ nudges' \in Nat
         /\ disclosed' \in BOOLEAN /\ handed' \in BOOLEAN
         /\ final' \in [kind : {"none", "aborted", "result"}, proved : SUBSET Findings]
         /\ turn' \in {"working", "waiting", "ended"}
<1>1. CASE Nudge(S, flight)
  BY <1>1 DEF Nudge, TypeOK
<1>2. CASE Close(S, flight)
  <2>1. \A x : salvage(S, x) \in SUBSET Findings
    BY DEF Good, salvage, Of, Entry
  <2>2. \A X : Result(UNION {salvage(S, x) : x \in X})
                 \in [kind : {"none", "aborted", "result"}, proved : SUBSET Findings]
    BY <2>1 DEF Result
  <2> QED BY <1>2, <2>2 DEF Close, TypeOK
<1>3. CASE Echo(S, flight)
  BY <1>3 DEF Echo, TypeOK
<1>4. CASE FallThrough(S, s)
  <2>1. CASE stages' = S /\ nudges' = nudges
    BY <1>4, <2>1 DEF FallThrough, TypeOK
  <2>2. CASE /\ s # NoStage
             /\ \E rep \in Reports(s) :
                  stages' = JudgedFile(S, s, rep, NoAgent) /\ nudges' = JudgedNudges(s, rep)
    <3>1. PICK rep \in Reports(s) :
            stages' = JudgedFile(S, s, rep, NoAgent) /\ nudges' = JudgedNudges(s, rep)
      BY <2>2
    <3>2. rep \in Report
      BY DEF Reports
    <3>3. Good(stages')
      BY <2>2, <3>1, <3>2, JudgedFileGood
    <3>4. nudges' \in Nat
      BY <3>1 DEF JudgedNudges, TypeOK
    <3> QED BY <1>4, <3>3, <3>4 DEF FallThrough, TypeOK
  <2> QED BY <1>4, <2>1, <2>2 DEF FallThrough
<1> QED BY <1>1, <1>2, <1>3, <1>4 DEF StopDecides

\* The stage a stopping agent is taken for is a stage, or none.
LEMMA StageOfIn ==
  ASSUME NEW S, Good(S), NEW a
  PROVE  StageOf(S, a) \in Stage \cup {NoStage}
<1> DEFINE mine == {e \in InFlight(S) : a = NoAgent \/ e.agent \in {NoAgent, a}}
<1>1. CASE mine = {}
  BY <1>1 DEF StageOf
<1>2. CASE mine # {}
  <2>1. mine \in SUBSET Entry /\ Bounded(mine)
    BY BoundedPart DEF Good, InFlight
  <2>2. Latest(mine) \in Entry
    <3> HIDE DEF mine
    <3> QED BY <1>2, <2>1, LatestIn
  <2> QED BY <1>2, <2>2 DEF StageOf, Entry
<1> QED BY <1>1, <1>2

LEMMA InitIInv == Init => IInv
<1> SUFFICES ASSUME Init PROVE IInv
  OBVIOUS
<1>1. Good({})
  BY FS_EmptySet DEF Good, Bounded, BuiltOn
<1>2. NoAnswer \in [kind : {"none", "aborted", "result"}, proved : SUBSET Findings]
  BY DEF NoAnswer
<1>3. worker \in [Agents -> Stage \cup {NoStage}]
  BY DEF Init
<1>4. TypeOK
  BY <1>2, <1>3 DEF Init, TypeOK
<1> QED BY <1>1, <1>4 DEF Init, IInv

\* The invariant is inductive: every hook and every move of the client keeps it.
LEMMA StepIInv == IInv /\ [Next]_vars => IInv'
<1> SUFFICES ASSUME IInv, [Next]_vars
             PROVE  IInv'
  OBVIOUS
<1> USE DEF IInv
<1>0. Good(stages') => stages' \in SUBSET Entry
  BY DEF Good
<1>1. CASE Begin
  <2>1. Good({})
    BY FS_EmptySet DEF Good, Bounded, BuiltOn
  <2> QED BY <1>0, <1>1, <2>1 DEF Begin, TypeOK, NoAnswer
<1>2. CASE Resume
  BY <1>2 DEF Resume, TypeOK, fileVars
<1>3. ASSUME NEW s \in Stage, LaunchAdmitted(s)
      PROVE  IInv'
  <2>1. Good(stages')
    BY <1>3, LaunchGood DEF LaunchAdmitted
  <2> QED BY <1>0, <1>3, <2>1 DEF LaunchAdmitted, TypeOK
<1>4. ASSUME NEW a \in Agents, ClientStarts(a)
      PROVE  IInv'
  BY <1>4 DEF ClientStarts, TypeOK, fileVars
<1>5. CASE ClientFails
  <2>1. Good(stages')
    BY <1>5, ForgetGood DEF ClientFails
  <2> QED BY <1>0, <1>5, <2>1 DEF ClientFails, TypeOK
<1>6. CASE ClientHasNoTasks
  <2>1. Good(stages')
    BY <1>6, ForgetGood DEF ClientHasNoTasks
  <2> QED BY <1>0, <1>6, <2>1 DEF ClientHasNoTasks, TypeOK, clientVars
<1>7. CASE ParentDetour
  <2>1. AbortAnswer \in [kind : {"none", "aborted", "result"}, proved : SUBSET Findings]
    BY DEF AbortAnswer
  <2>2. balked' \in Nat
    BY <1>7 DEF ParentDetour, refuse_parent, TypeOK
  <2>3. Good(stages')
    BY <1>7, CountGood DEF ParentDetour
  <2>4. CASE balked' >= ParentDeafAfter
    BY <1>0, <1>7, <2>1, <2>2, <2>3, <2>4 DEF ParentDetour, refuse_parent, TypeOK
  <2>5. CASE ~(balked' >= ParentDeafAfter)
    BY <1>0, <1>7, <2>2, <2>3, <2>5 DEF ParentDetour, refuse_parent, TypeOK
  <2> QED BY <2>4, <2>5
<1>8. CASE ParentStopsDeafStage
  <2>1. Good(stages')
    BY <1>8, EndDeafGood DEF ParentStopsDeafStage
  <2>2. worker' \in [Agents -> Stage \cup {NoStage}]
    BY <1>8 DEF ParentStopsDeafStage, Retire, TypeOK
  <2> QED BY <1>0, <1>8, <2>1, <2>2 DEF ParentStopsDeafStage, TypeOK
<1>9. ASSUME NEW a \in Agents, NEW tool \in {"read", "edit", "shell"},
             WorkerCalls(a, tool)
      PROVE  IInv'
  <2>1. Good(Restored(stages, a)) /\ InFlight(Restored(stages, a)) # {}
    BY <1>9, RestoredGood DEF WorkerCalls
  <2>2. Good(stages')
    BY <1>9, <2>1, SpentGood DEF WorkerCalls
  <2> QED BY <1>0, <1>9, <2>2 DEF WorkerCalls, TypeOK, clientVars
<1>10. ASSUME NEW a \in Agents, NEW rep \in Report, WorkerReports(a, rep)
       PROVE  IInv'
  <2> DEFINE s == StageOf(stages, a)
  <2>1. s \in Stage
    BY <1>10, StageOfIn DEF WorkerReports
  <2>2. stages' = JudgedFile(stages, s, rep, a) /\ nudges' = JudgedNudges(s, rep)
    BY <1>10 DEF WorkerReports
  <2>3. Good(stages')
    BY <2>1, <2>2, JudgedFileGood
  <2>4. nudges' \in Nat
    BY <2>2 DEF JudgedNudges, TypeOK
  <2>5. worker' \in [Agents -> Stage \cup {NoStage}]
    BY <1>10 DEF WorkerReports, Retire, TypeOK
  <2> QED BY <1>0, <1>10, <2>3, <2>4, <2>5 DEF WorkerReports, TypeOK
<1>11. ASSUME NEW a \in Agents, WorkerVanishes(a)
       PROVE  IInv'
  BY <1>11 DEF WorkerVanishes, Retire, TypeOK, fileVars
<1>12. CASE ClockPasses
  <2>1. Good(stages')
    BY <1>12, OlderGood DEF ClockPasses
  <2> QED BY <1>0, <1>12, <2>1 DEF ClockPasses, TypeOK, clientVars
<1>13. CASE ParentStops
  <2>1. Good(forget_running(stages, FALSE))
    BY ForgetGood
  <2>2. StageOf(stages, NoAgent) \in Stage \cup {NoStage}
    BY StageOfIn
  <2> QED BY <1>0, <1>13, <2>1, <2>2, StopDecidesStep DEF ParentStops, TypeOK
<1>14. CASE ParentStopWaits
  <2>1. Good(stages')
    BY <1>14, ForgetGood DEF ParentStopWaits
  <2>2. stopStage' \in Stage \cup {NoStage}
    BY <1>14, StageOfIn DEF ParentStopWaits
  <2> QED BY <1>0, <1>14, <2>1, <2>2 DEF ParentStopWaits, TypeOK
<1>15. CASE ParentStopResumes
  <2>1. stopStage \in Stage \cup {NoStage}
    BY DEF TypeOK
  <2> QED BY <1>0, <1>15, <2>1, StopDecidesStep DEF ParentStopResumes, TypeOK
<1>16. CASE ParentStopsAborted
  BY <1>16 DEF ParentStopsAborted, TypeOK, fileVars
<1>17. ASSUME NEW a \in Agents, ContextGuardRefuses(a)
       PROVE  IInv'
  <2>1. Good(stages')
    BY <1>17, CountGood DEF ContextGuardRefuses
  <2> QED BY <1>0, <1>17, <2>1 DEF ContextGuardRefuses, TypeOK, clientVars
<1>18. CASE UNCHANGED vars
  BY <1>18 DEF vars, fileVars, clientVars, TypeOK
<1> QED BY <1>1, <1>2, <1>3, <1>4, <1>5, <1>6, <1>7, <1>8, <1>9, <1>10, <1>11,
           <1>12, <1>13, <1>14, <1>15, <1>16, <1>17, <1>18 DEF Next

\* Every state of a session is made of what TypeOK says: the flow file, the
\* counters in it, the closing answer, the parent and its subagents.
THEOREM TypeCorrect == Spec => []TypeOK
<1>1. IInv => TypeOK
  BY DEF IInv
<1> QED BY <1>1, InitIInv, StepIInv, PTL DEF Spec

\* Whatever the client, the clock, the subagents and the parent do, and
\* however many stages and agents there are, a stage is only ever launched,
\* relaunched or put back after each blocking stage ahead of it was judged.
THEOREM LaunchesBuildOnJudged == Spec => []BuiltOnJudged
<1>1. IInv => BuiltOnJudged
  BY DEF IInv, Good, BuiltOn, BuiltOnJudged
<1> QED BY <1>1, InitIInv, StepIInv, PTL DEF Spec

----------------------------------------------------------------------------
(* A session ends with an answer. *)

\* Whatever lets a turn end without a push has put its answer on record.
AnswerKept == aborted \/ disclosed \/ handed => final.kind # "none"

\* One step of EndsAnswered.
AnsweredStep ==
  turn # "ended" /\ turn' = "ended" => final'.kind # "none" \/ nudges >= NudgeLimit

\* The closing part of the Stop hook ends the turn only with an answer, or
\* once it has nothing left to push with.
LEMMA StopDecidesAnswered ==
  ASSUME AnswerKept, NEW S, NEW s, NEW flight, StopDecides(S, s, flight),
         UNCHANGED aborted
  PROVE  AnswerKept' /\ AnsweredStep
<1>1. CASE Nudge(S, flight)
  BY <1>1 DEF Nudge, AnswerKept, AnsweredStep
<1>2. CASE Close(S, flight)
  BY <1>2 DEF Close, Result, AnswerKept, AnsweredStep
<1>3. CASE Echo(S, flight)
  BY <1>3 DEF Echo, AnswerKept, AnsweredStep
<1>4. CASE FallThrough(S, s)
  BY <1>4 DEF FallThrough, AnswerKept, AnsweredStep
<1> QED BY <1>1, <1>2, <1>3, <1>4 DEF StopDecides

LEMMA StepAnswered == AnswerKept /\ [Next]_vars => AnswerKept' /\ [AnsweredStep]_vars
<1> SUFFICES ASSUME AnswerKept, [Next]_vars
             PROVE  AnswerKept' /\ AnsweredStep
  OBVIOUS
<1>1. CASE Begin
  BY <1>1 DEF Begin, AnswerKept, AnsweredStep
<1>2. CASE Resume
  BY <1>2 DEF Resume, fileVars, AnswerKept, AnsweredStep
<1>3. CASE ParentDetour
  BY <1>3 DEF ParentDetour, refuse_parent, AbortAnswer, AnswerKept, AnsweredStep
<1>4. CASE ParentStops
  BY <1>4, StopDecidesAnswered DEF ParentStops
<1>5. CASE ParentStopWaits
  BY <1>5 DEF ParentStopWaits, AnswerKept, AnsweredStep
<1>6. CASE ParentStopResumes
  BY <1>6, StopDecidesAnswered DEF ParentStopResumes
<1>7. CASE ParentStopsAborted
  BY <1>7 DEF ParentStopsAborted, fileVars, AnswerKept, AnsweredStep
<1>8. CASE UNCHANGED <<aborted, disclosed, handed, final, turn>>
  BY <1>8 DEF AnswerKept, AnsweredStep
<1>9. ASSUME \/ \E x \in Stage : LaunchAdmitted(x)
             \/ \E a \in Agents : ClientStarts(a)
             \/ ClientFails \/ ClientHasNoTasks \/ ParentStopsDeafStage
             \/ \E a \in Agents, tool \in {"read", "edit", "shell"} : WorkerCalls(a, tool)
             \/ \E a \in Agents : ContextGuardRefuses(a)
             \/ \E a \in Agents : \E rep \in Report : WorkerReports(a, rep)
             \/ \E a \in Agents : WorkerVanishes(a)
             \/ ClockPasses \/ UNCHANGED vars
      PROVE  UNCHANGED <<aborted, disclosed, handed, final, turn>>
  BY <1>9 DEF LaunchAdmitted, ClientStarts, ClientFails, ClientHasNoTasks,
       ParentStopsDeafStage, WorkerCalls, ContextGuardRefuses, WorkerReports,
       WorkerVanishes, ClockPasses, vars, fileVars, clientVars
<1> QED BY <1>1, <1>2, <1>3, <1>4, <1>5, <1>6, <1>7, <1>8, <1>9 DEF Next

\* Whoever stops whom and whatever crashes, a session leaves an unfinished
\* flow, or a finished one without its closing answer, only when the pushes
\* are spent.
THEOREM SessionEndsAnswered == Spec => EndsAnswered
<1>1. Init => AnswerKept
  BY DEF Init, AnswerKept
<1>2. AnswerKept /\ [Next]_vars => AnswerKept' /\ [AnsweredStep]_vars
  BY StepAnswered
<1> QED BY <1>1, <1>2, PTL DEF Spec, EndsAnswered, AnsweredStep

----------------------------------------------------------------------------
(***************************************************************************)
(* One round at a time.                                                    *)
(*                                                                         *)
(* OneLiveRound is not inductive: a call makes the latest launch in flight *)
(* of a stage live again, so of two launches that are not rounds held open *)
(* it must be the earlier one that has fallen silent.  Rounds says that.   *)
(***************************************************************************)

\* A launch in flight that is not a round held open.
Solo(e) == e.verdict = "none" /\ ~e.reopened

\* Of two such launches of one stage the earlier has fallen silent.
Rounds(S) ==
  \A e, f \in S :
    Solo(e) /\ Solo(f) /\ e # f /\ e.stage = f.stage
      => e.at # f.at /\ (e.at < f.at => e.age >= 2)

RInv == IInv /\ Rounds(stages)

----------------------------------------------------------------------------
(* Changes of the list that keep Rounds. *)

LEMMA RoundsPart ==
  ASSUME NEW S, Rounds(S), NEW T \in SUBSET S
  PROVE  Rounds(T)
BY DEF Rounds

\* Rewriting one launch without making it live again.
LEMMA RoundsReplace ==
  ASSUME NEW S, Rounds(S), NEW old \in S, NEW new,
         Solo(new) => /\ Solo(old) /\ new.at = old.at /\ new.stage = old.stage
                      /\ old.age >= 2 => new.age >= 2
  PROVE  Rounds(Replace(S, old, new))
<1> SUFFICES ASSUME NEW e \in Replace(S, old, new), NEW f \in Replace(S, old, new),
                    Solo(e), Solo(f), e # f, e.stage = f.stage
             PROVE  e.at # f.at /\ (e.at < f.at => e.age >= 2)
  BY DEF Rounds
<1>1. CASE e \in S /\ f \in S
  BY <1>1 DEF Rounds
<1>2. CASE e = new /\ f \in S \ {old}
  BY <1>2 DEF Rounds
<1>3. CASE f = new /\ e \in S \ {old}
  BY <1>3 DEF Rounds
<1> QED BY <1>1, <1>2, <1>3 DEF Replace

\* Holding a round open adds nothing that counts.
LEMMA RoundsHeldOpen ==
  ASSUME NEW S, Rounds(S), NEW s, NEW a
  PROVE  Rounds(S \cup {NewEntry(S, s, a, TRUE)})
<1>1. ~Solo(NewEntry(S, s, a, TRUE))
  BY DEF Solo, NewEntry
<1> QED BY <1>1 DEF Rounds

\* A launch may be appended once nothing of its stage is live.
LEMMA RoundsAppend ==
  ASSUME NEW S, Good(S), Rounds(S), NEW s, NEW a,
         \A e \in S : Solo(e) /\ e.stage = s => e.age >= 2
  PROVE  Rounds(S \cup {NewEntry(S, s, a, FALSE)})
<1> DEFINE new == NewEntry(S, s, a, FALSE)
<1>1. NextAt(S) \in Nat \ {0} /\ \A e \in S : e.at < NextAt(S) /\ e.at \in Nat
  BY NextAtLast DEF Good, Entry
<1>2. new.at = NextAt(S) /\ new.stage = s
  BY DEF NewEntry
<1> HIDE DEF new
<1> SUFFICES ASSUME NEW e \in S \cup {new}, NEW f \in S \cup {new},
                    Solo(e), Solo(f), e # f, e.stage = f.stage
             PROVE  e.at # f.at /\ (e.at < f.at => e.age >= 2)
  BY DEF Rounds, new
<1>3. CASE e \in S /\ f \in S
  BY <1>3 DEF Rounds
<1>4. CASE e \in S /\ f = new
  BY <1>1, <1>2, <1>4
<1>5. CASE e = new /\ f \in S
  BY <1>1, <1>2, <1>5
<1> QED BY <1>3, <1>4, <1>5

LEMMA RoundsLaunch ==
  ASSUME NEW S, Good(S), Rounds(S), NEW s, admits(S, s)
  PROVE  Rounds(record_launch(AfterAdmission(S, s), s, NoAgent))
<1> DEFINE T == AfterAdmission(S, s)
<1>1. T \in SUBSET S /\ \A e \in S : e \notin T => e.verdict = "none"
  BY DEF AfterAdmission, LiveEntries, Pending, InFlight
<1>2. Good(T)
  BY <1>1, DropShrinks, ShrinksGood DEF Good
<1>3. Rounds(T)
  BY <1>1, RoundsPart
<1>4. \A e \in T : Solo(e) /\ e.stage = s => e.age >= 2
  BY DEF AfterAdmission, LiveEntries, Pending, InFlight, Solo, _silent
<1> HIDE DEF T
<1> QED BY <1>2, <1>3, <1>4, RoundsAppend DEF record_launch, T

LEMMA RoundsRestored ==
  ASSUME NEW S, Good(S), Rounds(S), NEW a
  PROVE  Rounds(Restored(S, a))
<1>1. CASE InFlight(S) # {}
  BY <1>1 DEF Restored
<1>2. CASE InFlight(S) = {}
  <2>1. \A e \in S : ~Solo(e)
    BY <1>2 DEF InFlight, Solo
  <2> QED BY <1>2, <2>1, RoundsAppend DEF Restored, record_launch
<1> QED BY <1>1, <1>2

\* A call makes the latest launch of its stage live again, and no other.
LEMMA RoundsSpend ==
  ASSUME NEW S, Good(S), Rounds(S), NEW s, Pending(S, s) # {}
  PROVE  Rounds(spend(S, s))
<1> DEFINE c == Charged(S, s)
           n == IF c.calls > Budget[s] THEN c.calls ELSE c.calls + 1
           g == [c EXCEPT !.calls = n]
           new == [g EXCEPT !.age = 0]
<1>1. /\ Pending(S, s) \in SUBSET Entry /\ Bounded(Pending(S, s))
  BY BoundedPart DEF Good, Pending, InFlight
<1>2. c \in Pending(S, s) /\ \A e \in Pending(S, s) : e.at <= c.at
  BY <1>1, LatestIn DEF Charged
<1>3. spend(S, s) = Replace(S, c, new)
  BY Zenon DEF spend
<1>4. c \in Entry
  BY <1>1, <1>2
<1> HIDE DEF c, n
<1>5. new.at = c.at /\ new.stage = c.stage /\ new.reopened = c.reopened
  <2>1. g.at = c.at /\ g.stage = c.stage /\ g.reopened = c.reopened
        /\ g \in [DOMAIN c -> {g[x] : x \in DOMAIN c}]
    BY <1>4 DEF Entry
  <2> HIDE DEF g
  <2>2. DOMAIN g = DOMAIN c
    BY <2>1
  <2> QED BY <1>4, <2>1, <2>2 DEF Entry
<1> HIDE DEF g, new
<1> SUFFICES ASSUME NEW e \in Replace(S, c, new), NEW f \in Replace(S, c, new),
                    Solo(e), Solo(f), e # f, e.stage = f.stage
             PROVE  e.at # f.at /\ (e.at < f.at => e.age >= 2)
  BY <1>3 DEF Rounds
<1>6. \A x \in S : x.at \in Nat
  BY DEF Good, Entry
<1>7. c.stage = s /\ c.verdict = "none" /\ c \in S
  BY <1>2 DEF Pending, InFlight
<1>8. CASE e \in S /\ f \in S
  BY <1>8 DEF Rounds
<1>9. CASE e \in S \ {c} /\ f = new
  <2>1. Solo(c)
    BY <1>5, <1>7, <1>9 DEF Solo
  <2> QED BY <1>5, <1>7, <1>9, <2>1 DEF Rounds
<1>10. CASE e = new /\ f \in S \ {c}
  <2>1. Solo(c)
    BY <1>5, <1>7, <1>10 DEF Solo
  <2>2. f.at # c.at
    BY <1>5, <1>7, <1>10, <2>1 DEF Rounds
  <2>3. f \in Pending(S, s)
    BY <1>5, <1>7, <1>10 DEF Pending, InFlight, Solo
  <2> QED BY <1>2, <1>5, <1>6, <1>7, <1>10, <2>2, <2>3
<1> QED BY <1>8, <1>9, <1>10 DEF Replace

\* Binding a launch and counting a refusal leave it as live as it was.
LEMMA RoundsCharge ==
  ASSUME NEW S, Good(S), Rounds(S), NEW s, Pending(S, s) # {}, NEW a
  PROVE  Rounds(bind(S, s, a)) /\ Rounds(refused_once_more(S, s))
<1> DEFINE e == Charged(S, s)
<1>1. e \in S /\ e \in Entry
  BY ChargedIn DEF Good
<1>2. Rounds(bind(S, s, a))
  <2> DEFINE f == [e EXCEPT !.agent = IF @ = NoAgent THEN a ELSE @]
  <2>1. bind(S, s, a) = Replace(S, e, f)
    BY DEF bind
  <2> HIDE DEF e
  <2>2. /\ f.at = e.at /\ f.stage = e.stage /\ f.verdict = e.verdict
        /\ f.reopened = e.reopened /\ f.age = e.age
    BY <1>1 DEF Entry
  <2> HIDE DEF f
  <2> QED BY <1>1, <2>1, <2>2, RoundsReplace DEF Solo
<1>3. Rounds(refused_once_more(S, s))
  <2> DEFINE f == [e EXCEPT !.denied = IF @ > DeafAfter THEN @ ELSE @ + 1]
  <2>1. refused_once_more(S, s) = Replace(S, e, f)
    BY DEF refused_once_more
  <2> HIDE DEF e
  <2>2. /\ f.at = e.at /\ f.stage = e.stage /\ f.verdict = e.verdict
        /\ f.reopened = e.reopened /\ f.age = e.age
    BY <1>1 DEF Entry
  <2> HIDE DEF f
  <2> QED BY <1>1, <2>1, <2>2, RoundsReplace DEF Solo
<1> QED BY <1>2, <1>3

LEMMA RoundsWhenSpent ==
  ASSUME NEW S, Good(S), Rounds(S), InFlight(S) # {}, NEW a \in Agents, NEW tool
  PROVE  Rounds(Spent(S, a, tool))
<1> DEFINE s == FirstRunning(S)
<1>1. Oldest(InFlight(S)) \in InFlight(S)
  BY OldestIn DEF Good, InFlight
<1>2. s \in Stage /\ Pending(S, s) # {}
  BY <1>1 DEF FirstRunning, Good, InFlight, Pending, Entry
<1> HIDE DEF s
<1> DEFINE paid == spend(S, s)
           bound == bind(paid, s, a)
<1>3. Good(paid) /\ Pending(paid, s) # {} /\ Rounds(paid)
  BY <1>2, ChargeGood, RoundsSpend
<1> HIDE DEF paid
<1>4. Good(bound) /\ Pending(bound, s) # {} /\ Rounds(bound)
  BY <1>2, <1>3, ChargeGood, RoundsCharge
<1> HIDE DEF bound
<1>5. Rounds(refused_once_more(bound, s))
  BY <1>2, <1>4, RoundsCharge
<1>6. Spent(S, a, tool) \in {bound, refused_once_more(bound, s)}
  BY DEF Spent, bound, paid, s
<1> QED BY <1>4, <1>5, <1>6

\* Any verdict: a judged launch no longer counts, nor does one held open.
LEMMA RoundsVerdict ==
  ASSUME NEW S \in SUBSET Entry, Bounded(S), Rounds(S), NEW s, NEW rep \in Report,
         NEW a \in Agents \cup {NoAgent}, NEW reopen
  PROVE  Rounds(record_verdict(S, s, rep, a, reopen))
<1> DEFINE T == JudgedList(S, s, rep, a)
           old == Reported(S, s, a)
           new == WithVerdict(old, rep, a)
<1>1. CASE Nobody(S, s, a)
  BY <1>1, VerdictCases
<1>2. CASE ~Nobody(S, s, a)
  <2>1. old \in S
    BY <1>2, ReportedIn
  <2>2. ~Solo(new)
    BY <2>1, WithVerdictEntry DEF Solo
  <2>3. T = Replace(S, old, new)
    BY DEF JudgedList
  <2> HIDE DEF T, old, new
  <2>4. Rounds(T)
    BY <2>1, <2>2, <2>3, RoundsReplace
  <2>5. Rounds(DropPending(T, s))
    BY <2>4, RoundsPart, DropPendingShrinks
  <2>6. Rounds(T \cup {NewEntry(T, s, new.agent, TRUE)})
    BY <2>4, RoundsHeldOpen
  <2> QED BY <1>2, <2>4, <2>5, <2>6, VerdictCases DEF T, old, new
<1> QED BY <1>1, <1>2

LEMMA RoundsSummarise ==
  ASSUME NEW S, Good(S), Rounds(S), NEW s
  PROVE  Rounds(Summarise(S, s))
<1> DEFINE bare == {e \in Of(S, s) : ~e.summary}
           e == Latest(bare)
           f == [e EXCEPT !.summary = TRUE]
<1>1. CASE bare = {}
  BY <1>1 DEF Summarise
<1>2. CASE bare # {}
  <2>1. bare \in SUBSET Entry /\ Bounded(bare) /\ bare \in SUBSET S
    BY BoundedPart DEF Good, Of
  <2>2. e \in bare
    <3> HIDE DEF bare
    <3> QED BY <1>2, <2>1, LatestIn
  <2>3. Summarise(S, s) = Replace(S, e, f)
    BY <1>2, Zenon DEF Summarise
  <2>4. e \in S /\ e \in Entry
    BY <2>1, <2>2
  <2> HIDE DEF e
  <2>5. /\ f.at = e.at /\ f.stage = e.stage /\ f.verdict = e.verdict
        /\ f.reopened = e.reopened /\ f.age = e.age
    BY <2>4 DEF Entry
  <2> HIDE DEF f
  <2> QED BY <2>3, <2>4, <2>5, RoundsReplace DEF Solo
<1> QED BY <1>1, <1>2

LEMMA RoundsJudgedFile ==
  ASSUME NEW S, Good(S), Rounds(S), NEW s \in Stage, NEW rep \in Report,
         NEW a \in Agents \cup {NoAgent}
  PROVE  Rounds(JudgedFile(S, s, rep, a))
<1> DEFINE after ==
      record_verdict(S, s, rep, a, a = NoAgent \/ s \notin Judged \/ ~rep.gaps)
<1>1. Good(after)
  BY VerdictGood
<1>2. Rounds(after)
  BY RoundsVerdict DEF Good
<1> HIDE DEF after
<1>3. Rounds(Summarise(after, s))
  BY <1>1, <1>2, RoundsSummarise
<1> QED BY <1>2, <1>3 DEF JudgedFile, after

\* Rewriting entries in place, each on its own, making none live again.
LEMMA RoundsMap ==
  ASSUME NEW S, Rounds(S), NEW f \in [S -> Entry],
         \A e \in S : /\ f[e].at = e.at /\ f[e].stage = e.stage
                      /\ f[e].verdict = e.verdict /\ f[e].reopened = e.reopened
                      /\ e.age >= 2 => f[e].age >= 2
  PROVE  Rounds({f[e] : e \in S})
<1> SUFFICES ASSUME NEW x \in S, NEW y \in S, Solo(f[x]), Solo(f[y]),
                    f[x] # f[y], f[x].stage = f[y].stage
             PROVE  f[x].at # f[y].at /\ (f[x].at < f[y].at => f[x].age >= 2)
  BY DEF Rounds
<1>1. Solo(x) /\ Solo(y) /\ x # y /\ x.stage = y.stage
  BY DEF Solo
<1> QED BY <1>1 DEF Rounds

LEMMA RoundsOlder ==
  ASSUME NEW S, Good(S), Rounds(S)
  PROVE  Rounds(Older(S))
<1> DEFINE older(e) == IF e.verdict = "none" /\ e.age < 2
                       THEN [e EXCEPT !.age = @ + 1] ELSE e
           f == [e \in S |-> older(e)]
<1>1. ASSUME NEW e \in S
      PROVE  /\ older(e) \in Entry /\ older(e).at = e.at /\ older(e).stage = e.stage
             /\ older(e).verdict = e.verdict /\ older(e).reopened = e.reopened
             /\ e.age >= 2 => older(e).age >= 2
  <2>1. e \in Entry
    BY DEF Good
  <2> QED BY <2>1 DEF Entry
<1>2. Older(S) = {older(e) : e \in S}
  BY DEF Older
<1> HIDE DEF older
<1>3. /\ f \in [S -> Entry] /\ Older(S) = {f[e] : e \in S}
      /\ \A e \in S : /\ f[e].at = e.at /\ f[e].stage = e.stage
                      /\ f[e].verdict = e.verdict /\ f[e].reopened = e.reopened
                      /\ e.age >= 2 => f[e].age >= 2
  BY <1>1, <1>2
<1> HIDE DEF f
<1> QED BY <1>3, RoundsMap

LEMMA RoundsCount ==
  ASSUME NEW S, Good(S), Rounds(S)
  PROVE  Rounds(_counts_against_the_stage(S))
<1> DEFINE k(s) == Cardinality(Pending(S, s))
           more(e) == IF e.denied + k(e.stage) > DeafAfter THEN DeafAfter + 1
                      ELSE e.denied + k(e.stage)
           counted(e) == IF e.verdict = "none" /\ e = Charged(S, e.stage)
                         THEN [e EXCEPT !.denied = more(e)] ELSE e
<1>1. _counts_against_the_stage(S) = {counted(e) : e \in S}
  BY Zenon DEF _counts_against_the_stage
<1> HIDE DEF more
<1>2. ASSUME NEW e \in S
      PROVE  /\ counted(e).at = e.at /\ counted(e).stage = e.stage
             /\ counted(e).verdict = e.verdict /\ counted(e).reopened = e.reopened
             /\ counted(e).age = e.age
  <2>1. e \in Entry
    BY DEF Good
  <2> QED BY <2>1 DEF Entry
<1> HIDE DEF counted
<1> SUFFICES ASSUME NEW x \in S, NEW y \in S, Solo(counted(x)), Solo(counted(y)),
                    counted(x) # counted(y), counted(x).stage = counted(y).stage
             PROVE  /\ counted(x).at # counted(y).at
                    /\ counted(x).at < counted(y).at => counted(x).age >= 2
  BY <1>1 DEF Rounds
<1>3. Solo(x) /\ Solo(y) /\ x # y /\ x.stage = y.stage
  BY <1>2 DEF Solo
<1> QED BY <1>2, <1>3 DEF Rounds

\* TaskStop on the stages that went deaf, one stage at a time.
LEMMA RoundsEndDeaf ==
  ASSUME NEW S, Good(S), Rounds(S)
  PROVE  Rounds(EndDeaf(S))
<1> DEFINE once(s) == record_verdict(Of(S, s), s, DeafReport, NoAgent, FALSE)
           twice(s) == record_verdict(once(s), s, DeafReport, NoAgent, FALSE)
           ended(s) == IF s \notin deaf(S) THEN Of(S, s)
                       ELSE IF \E e, f \in DeafEntries(S) :
                                 e # f /\ e.stage = s /\ f.stage = s
                            THEN twice(s) ELSE once(s)
<1>1. DeafReport \in Report
  BY TextsAssumption DEF DeafReport, Report
<1>2. ASSUME NEW s \in Stage
      PROVE  Rounds(ended(s)) /\ \A t \in ended(s) : t.stage = s
  <2>1. /\ Of(S, s) \in SUBSET Entry /\ Bounded(Of(S, s)) /\ Rounds(Of(S, s))
        /\ \A t \in Of(S, s) : t.stage = s
    BY BoundedPart, RoundsPart DEF Good, Of
  <2>2. /\ once(s) \in SUBSET Entry /\ Shrinks(Of(S, s), once(s)) /\ Rounds(once(s))
    BY <1>1, <2>1, ClosedShrinks, RoundsVerdict
  <2>3. Bounded(once(s)) /\ \A t \in once(s) : t.stage = s
    BY <2>1, <2>2, ShrinksBounded DEF Shrinks
  <2>4. Rounds(twice(s)) /\ \A t \in twice(s) : t.stage = s
    <3> HIDE DEF once
    <3>1. Shrinks(once(s), twice(s)) /\ Rounds(twice(s))
      BY <1>1, <2>2, <2>3, ClosedShrinks, RoundsVerdict
    <3> QED BY <2>3, <3>1 DEF Shrinks
  <2> HIDE DEF once, twice
  <2> QED BY <2>1, <2>2, <2>3, <2>4
<1>3. EndDeaf(S) = UNION {ended(s) : s \in Stage}
  BY Zenon DEF EndDeaf, DeafReport
<1> HIDE DEF ended
<1> SUFFICES ASSUME NEW e \in EndDeaf(S), NEW f \in EndDeaf(S),
                    Solo(e), Solo(f), e # f, e.stage = f.stage
             PROVE  e.at # f.at /\ (e.at < f.at => e.age >= 2)
  BY DEF Rounds
<1>4. PICK s \in Stage : e \in ended(s)
  BY <1>3
<1>5. PICK r \in Stage : f \in ended(r)
  BY <1>3
<1>6. s = r
  BY <1>2, <1>4, <1>5
<1> QED BY <1>2, <1>4, <1>5, <1>6 DEF Rounds

----------------------------------------------------------------------------
(* The steps. *)

LEMMA StopDecidesRounds ==
  ASSUME NEW S, Good(S), Rounds(S), NEW s \in Stage \cup {NoStage},
         NEW flight, StopDecides(S, s, flight)
  PROVE  Rounds(stages')
<1>1. CASE stages' = S
  BY <1>1
<1>2. CASE s # NoStage /\ \E rep \in Reports(s) : stages' = JudgedFile(S, s, rep, NoAgent)
  <2>1. PICK rep \in Reports(s) : stages' = JudgedFile(S, s, rep, NoAgent)
    BY <1>2
  <2> QED BY <1>2, <2>1, RoundsJudgedFile DEF Reports
<1> QED BY <1>1, <1>2 DEF StopDecides, Nudge, Close, Echo, FallThrough

LEMMA StepRounds == IInv /\ Rounds(stages) /\ [Next]_vars => Rounds(stages')
<1> SUFFICES ASSUME IInv, Rounds(stages), [Next]_vars
             PROVE  Rounds(stages')
  OBVIOUS
<1>0. Good(stages)
  BY DEF IInv
<1>1. CASE Begin
  BY <1>1 DEF Begin, Rounds
<1>2. ASSUME NEW s \in Stage, LaunchAdmitted(s)
      PROVE  Rounds(stages')
  BY <1>0, <1>2, RoundsLaunch DEF LaunchAdmitted
<1>3. CASE ClientFails \/ ClientHasNoTasks
  <2>1. forget_running(stages, TRUE) \in SUBSET stages
    BY DEF forget_running
  <2> QED BY <1>3, <2>1, RoundsPart DEF ClientFails, ClientHasNoTasks
<1>4. CASE ParentDetour
  BY <1>0, <1>4, RoundsCount DEF ParentDetour
<1>5. CASE ParentStopsDeafStage
  BY <1>0, <1>5, RoundsEndDeaf DEF ParentStopsDeafStage
<1>6. ASSUME NEW a \in Agents, NEW tool \in {"read", "edit", "shell"},
             WorkerCalls(a, tool)
      PROVE  Rounds(stages')
  <2>1. Good(Restored(stages, a)) /\ InFlight(Restored(stages, a)) # {}
    BY <1>0, <1>6, RestoredGood DEF WorkerCalls
  <2>2. Rounds(Restored(stages, a))
    BY <1>0, RoundsRestored
  <2> QED BY <1>6, <2>1, <2>2, RoundsWhenSpent DEF WorkerCalls
<1>7. ASSUME NEW a \in Agents, ContextGuardRefuses(a)
      PROVE  Rounds(stages')
  BY <1>0, <1>7, RoundsCount DEF ContextGuardRefuses
<1>8. ASSUME NEW a \in Agents, NEW rep \in Report, WorkerReports(a, rep)
      PROVE  Rounds(stages')
  <2>1. StageOf(stages, a) \in Stage
    BY <1>0, <1>8, StageOfIn DEF WorkerReports
  <2> QED BY <1>0, <1>8, <2>1, RoundsJudgedFile DEF WorkerReports
<1>9. CASE ClockPasses
  BY <1>0, <1>9, RoundsOlder DEF ClockPasses
<1>10. forget_running(stages, FALSE) \in SUBSET stages
       /\ Good(forget_running(stages, FALSE)) /\ Rounds(forget_running(stages, FALSE))
  <2>1. forget_running(stages, FALSE) \in SUBSET stages
    BY DEF forget_running
  <2> QED BY <1>0, <2>1, ForgetGood, RoundsPart
<1>11. CASE ParentStops
  <2>1. StageOf(stages, NoAgent) \in Stage \cup {NoStage}
    BY <1>0, StageOfIn
  <2> QED BY <1>10, <1>11, <2>1, StopDecidesRounds DEF ParentStops
<1>12. CASE ParentStopWaits
  BY <1>10, <1>12 DEF ParentStopWaits
<1>13. CASE ParentStopResumes
  <2>1. stopStage \in Stage \cup {NoStage}
    BY DEF IInv, TypeOK
  <2> QED BY <1>0, <1>13, <2>1, StopDecidesRounds DEF ParentStopResumes
<1>14. ASSUME \/ Resume \/ ParentStopsAborted \/ UNCHANGED vars
              \/ \E a \in Agents : ClientStarts(a)
              \/ \E a \in Agents : WorkerVanishes(a)
       PROVE  Rounds(stages')
  BY <1>14 DEF Resume, ParentStopsAborted, ClientStarts, WorkerVanishes, vars, fileVars
<1> QED BY <1>1, <1>2, <1>3, <1>4, <1>5, <1>6, <1>7, <1>8, <1>9, <1>11, <1>12,
           <1>13, <1>14 DEF Next

\* However often stages are relaunched, put back, held open or forgotten, and
\* however the clock runs, no stage ever has two launches that show signs of
\* life and are not rounds held open.
THEOREM OneRoundAtATime == Spec => []OneLiveRound
<1>1. Init => RInv
  BY InitIInv DEF Init, RInv, Rounds
<1>2. RInv /\ [Next]_vars => RInv'
  BY StepIInv, StepRounds DEF RInv
<1>3. RInv => OneLiveRound
  <2> SUFFICES ASSUME RInv, NEW s \in Stage
               PROVE  Cardinality({e \in LiveEntries(stages, s) : ~e.reopened}) <= 1
    BY DEF OneLiveRound
  <2> DEFINE live == {e \in LiveEntries(stages, s) : ~e.reopened}
  <2>1. \A e, f \in live : e = f
    <3> SUFFICES ASSUME NEW e \in live, NEW f \in live, e # f
                 PROVE  FALSE
      OBVIOUS
    <3>1. /\ e \in stages /\ f \in stages /\ Solo(e) /\ Solo(f) /\ e.stage = f.stage
          /\ ~(e.age >= 2) /\ ~(f.age >= 2)
      BY DEF LiveEntries, Pending, InFlight, Solo, _silent
    <3>2. e.at \in Nat /\ f.at \in Nat
      BY <3>1 DEF RInv, IInv, Good, Entry
    <3> QED BY <3>1, <3>2 DEF RInv, Rounds
  <2>2. CASE live = {}
    BY <2>2, FS_EmptySet
  <2>3. CASE live # {}
    <3>1. PICK e \in live : live = {e}
      BY <2>1, <2>3
    <3> HIDE DEF live
    <3> QED BY <3>1, FS_Singleton DEF live
  <2> QED BY <2>2, <2>3
<1> QED BY <1>1, <1>2, <1>3, PTL DEF Spec

----------------------------------------------------------------------------
(***************************************************************************)
(* How the rounds of a stage end: GivenUpIsFinal, BoundedRefusals,         *)
(* AcceptedSurvives and ClosingIsProved.                                   *)
(*                                                                         *)
(* All four are about how the rounds of one stage end, so the invariant is *)
(* about one stage's part of the list, StageOK, and every hook is shown to *)
(* keep it for the stage it touches.  A verdict lands on the oldest launch *)
(* in flight: what has a verdict comes before what has none (Ordered), and *)
(* a stage that may still be refused is two short of both caps (Fewer).    *)
(* What the closing answer says stays true because a flow that is over     *)
(* stays over: nothing of a stage given up on is in flight, and an         *)
(* accepted stage stays accepted (Firm).                                   *)
(***************************************************************************)

----------------------------------------------------------------------------
(* One stage's part L of the list. *)

Waiting(L) == {e \in L : e.verdict = "none"}
Finished(L) == {e \in L : e.verdict # "none"}
Bad(L) == {e \in L : e.verdict = "refused"}
Accepts(L) == \E e \in L : e.verdict = "accepted"
Answered(L) == {e \in Bad(L) : _answered(e)}

\* exhausted(), of the stage's own entries.
RoundsSpent(L) ==
  \/ Cardinality(Answered(L)) >= RoundCap
  \/ Cardinality(Bad(L) \ Answered(L)) >= SilentCap

\* The places differ, and verdicts are given from the front.
Ordered(L) ==
  \A e, f \in L : e # f =>
    e.at # f.at /\ (e.verdict # "none" /\ f.verdict = "none" => e.at < f.at)

\* A launch in flight has proved nothing.
Blank(L) == \A e \in Waiting(L) : e.stood = {}

\* The last thing on record is no refusal: another may come.
StillOpen(L) == \E e \in L : e.verdict # "refused" /\ \A f \in Bad(L) : f.at < e.at

Fewer(L) ==
  /\ Cardinality(Bad(L)) < RoundCap + SilentCap
  /\ StillOpen(L) => Cardinality(Bad(L)) < RoundCap + SilentCap - 1

StageOK(L) ==
  /\ Ordered(L) /\ Blank(L) /\ Fewer(L)
  /\ RoundsSpent(L) /\ ~Accepts(L) => Waiting(L) = {}

AllOK(S) == \A s \in Stage : StageOK(Of(S, s))

\* Nothing accepted or proved is lost, ...
Proved(L) == UNION {e.stood : e \in L}
Keeps(L, M) == (Accepts(L) => Accepts(M)) /\ Proved(L) \subseteq Proved(M)

\* ... and a stage with nothing in flight is left alone.
Firm(L, M) == Keeps(L, M) /\ (Waiting(L) = {} => M = L)
AllFirm(S, T) == \A s \in Stage : Firm(Of(S, s), Of(T, s))

LEMMA FirmRefl == \A L : Firm(L, L)
BY DEF Firm, Keeps

LEMMA KeepsTrans ==
  ASSUME NEW L, NEW M, NEW N, Keeps(L, M), Keeps(M, N)
  PROVE  Keeps(L, N)
BY DEF Keeps

LEMMA FirmTrans ==
  ASSUME NEW S, NEW T, NEW U, AllFirm(S, T), AllFirm(T, U)
  PROVE  AllFirm(S, U)
<1> SUFFICES ASSUME NEW s \in Stage
             PROVE  Firm(Of(S, s), Of(U, s))
  BY DEF AllFirm
<1>1. Firm(Of(S, s), Of(T, s)) /\ Firm(Of(T, s), Of(U, s))
  BY DEF AllFirm
<1>2. Keeps(Of(S, s), Of(U, s))
  BY <1>1, KeepsTrans DEF Firm
<1> QED BY <1>1, <1>2 DEF Firm

\* The cap is a property of the stage's own entries.
LEMMA ExhaustedIs ==
  ASSUME NEW S, NEW s
  PROVE  exhausted(S, s) <=> RoundsSpent(Of(S, s))
<1>1. {e \in refused(S) : e.stage = s} = Bad(Of(S, s))
  BY DEF refused, Bad, Of
<1> QED BY <1>1, Zenon DEF exhausted, RoundsSpent, Answered

LEMMA BadFinite ==
  ASSUME NEW L, IsFiniteSet(L)
  PROVE  /\ IsFiniteSet(Bad(L)) /\ Cardinality(Bad(L)) \in Nat
         /\ IsFiniteSet(Answered(L)) /\ Cardinality(Answered(L)) \in Nat
<1>1. Bad(L) \in SUBSET L /\ Answered(L) \in SUBSET L
  BY DEF Bad, Answered
<1>2. IsFiniteSet(Bad(L)) /\ IsFiniteSet(Answered(L))
  BY <1>1, FS_Subset
<1> QED BY <1>2, FS_CardinalityType

\* A stage with rounds left is two short of the caps together.
LEMMA UnspentFew ==
  ASSUME NEW L, IsFiniteSet(L), ~RoundsSpent(L)
  PROVE  Cardinality(Bad(L)) < RoundCap + SilentCap - 1
<1> DEFINE A == Answered(L)
           B == Bad(L) \ A
<1>1. IsFiniteSet(Bad(L)) /\ IsFiniteSet(A) /\ Cardinality(A) \in Nat
  BY BadFinite
<1>2. IsFiniteSet(B)
  <2>1. B \in SUBSET Bad(L)
    OBVIOUS
  <2> QED BY <1>1, <2>1, FS_Subset
<1>3. Cardinality(B) \in Nat
  BY <1>2, FS_CardinalityType
<1>4. Bad(L) = A \cup B /\ A \cap B = {}
  BY DEF Answered
<1>5. Cardinality(A) < RoundCap /\ Cardinality(B) < SilentCap
  BY <1>1, <1>3, CapsAssumption DEF RoundsSpent
<1> HIDE DEF A, B
<1>6. Cardinality(A \cup B) = Cardinality(A) + Cardinality(B) - Cardinality(A \cap B)
  BY <1>1, <1>2, FS_Union
<1>7. Cardinality(A \cap B) = 0
  BY <1>4, FS_EmptySet
<1> QED BY <1>1, <1>3, <1>4, <1>5, <1>6, <1>7, CapsAssumption

\* A launch still in flight can be refused.
LEMMA WaitingOpen ==
  ASSUME NEW L, Ordered(L), Waiting(L) # {}
  PROVE  StillOpen(L)
BY DEF Ordered, Waiting, StillOpen, Bad

----------------------------------------------------------------------------
(* Changes to what is in flight only. *)

Quiet(L, M) ==
  /\ Finished(M) = Finished(L)
  /\ \A m \in Waiting(M) : m.stood = {} /\ \E l \in Waiting(L) : l.at = m.at
  /\ \A m, n \in Waiting(M) : m.at = n.at => m = n

LEMMA QuietKeeps ==
  ASSUME NEW L, NEW M, StageOK(L), Quiet(L, M)
  PROVE  StageOK(M) /\ Firm(L, M)
<1>1. Bad(M) = Bad(L) /\ Answered(M) = Answered(L)
  <2>1. \A X : Bad(X) = {e \in Finished(X) : e.verdict = "refused"}
    BY DEF Bad, Finished
  <2>2. Bad(M) = Bad(L)
    BY <2>1 DEF Quiet
  <2> QED BY <2>2 DEF Answered
<1>2. Accepts(M) <=> Accepts(L)
  <2>1. \A X : Accepts(X) <=> \E e \in Finished(X) : e.verdict = "accepted"
    BY DEF Accepts, Finished
  <2> QED BY <2>1 DEF Quiet
<1>3. Ordered(M)
  <2> SUFFICES ASSUME NEW e \in M, NEW f \in M, e # f
               PROVE  e.at # f.at /\ (e.verdict # "none" /\ f.verdict = "none" => e.at < f.at)
    BY DEF Ordered
  <2>1. ASSUME NEW x \in M, NEW y \in M, x.verdict # "none", y.verdict = "none"
        PROVE  x.at # y.at /\ x.at < y.at
    <3>1. x \in L /\ x.verdict # "none"
      BY <2>1 DEF Quiet, Finished
    <3>2. PICK l \in Waiting(L) : l.at = y.at
      BY <2>1 DEF Quiet, Waiting
    <3>3. l \in L /\ l.verdict = "none" /\ l # x
      BY <3>1, <3>2 DEF Waiting
    <3> QED BY <3>1, <3>2, <3>3 DEF StageOK, Ordered
  <2>2. CASE e.verdict = "none" /\ f.verdict = "none"
    BY <2>2 DEF Quiet, Waiting
  <2>3. CASE e.verdict # "none" /\ f.verdict # "none"
    <3>1. e \in L /\ f \in L
      BY <2>3 DEF Quiet, Finished
    <3> QED BY <2>3, <3>1 DEF StageOK, Ordered
  <2>4. CASE e.verdict # "none" /\ f.verdict = "none"
    BY <2>1, <2>4
  <2>5. CASE e.verdict = "none" /\ f.verdict # "none"
    BY <2>1, <2>5
  <2> QED BY <2>2, <2>3, <2>4, <2>5
<1>4. Blank(M)
  BY DEF Quiet, Blank
<1>5. StillOpen(M) => StillOpen(L)
  <2> SUFFICES ASSUME NEW e \in M, e.verdict # "refused", \A f \in Bad(M) : f.at < e.at
               PROVE  StillOpen(L)
    BY DEF StillOpen
  <2>1. CASE e.verdict = "none"
    <3>1. PICK l \in Waiting(L) : l.at = e.at
      BY <2>1 DEF Quiet, Waiting
    <3> QED BY <1>1, <3>1 DEF StillOpen, Waiting
  <2>2. CASE e.verdict # "none"
    <3>1. e \in L
      BY <2>2 DEF Quiet, Finished
    <3> QED BY <1>1, <3>1 DEF StillOpen
  <2> QED BY <2>1, <2>2
<1>6. Waiting(L) = {} => Waiting(M) = {}
  BY DEF Quiet
<1>7. Fewer(M) /\ (RoundsSpent(M) <=> RoundsSpent(L))
  BY <1>1, <1>5 DEF StageOK, Fewer, RoundsSpent
<1>8. StageOK(M)
  BY <1>2, <1>3, <1>4, <1>6, <1>7 DEF StageOK
<1>9. Keeps(L, M)
  <2>1. ASSUME NEW e \in L
        PROVE  e.stood = {} \/ e \in M
    BY DEF StageOK, Blank, Waiting, Quiet, Finished
  <2> QED BY <1>2, <2>1 DEF Keeps, Proved
<1>10. Waiting(L) = {} => M = L
  <2>1. \A X : X = Finished(X) \cup Waiting(X)
    BY DEF Finished, Waiting
  <2> QED BY <1>6, <2>1 DEF Quiet
<1> QED BY <1>8, <1>9, <1>10 DEF Firm

----------------------------------------------------------------------------
(* A launch is appended, a launch is judged. *)

LEMMA AppendKeeps ==
  ASSUME NEW L \in SUBSET Entry, IsFiniteSet(L), Ordered(L), Blank(L), ~RoundsSpent(L),
         NEW new \in Entry, new.verdict = "none", new.stood = {},
         \A e \in L : e.at < new.at
  PROVE  StageOK(L \cup {new}) /\ Keeps(L, L \cup {new})
<1> DEFINE M == L \cup {new}
<1>1. Bad(M) = Bad(L) /\ Answered(M) = Answered(L) /\ (Accepts(M) <=> Accepts(L))
  <2>1. Bad(M) = Bad(L) /\ (Accepts(M) <=> Accepts(L))
    BY DEF Bad, Accepts
  <2> QED BY <2>1 DEF Answered
<1>2. ~RoundsSpent(M)
  BY <1>1 DEF RoundsSpent
<1>3. Ordered(M)
  <2>1. \A e \in M : e.at \in Nat
    BY DEF Entry
  <2>2. \A e \in L : e.at < new.at
    OBVIOUS
  <2> SUFFICES ASSUME NEW e \in M, NEW f \in M, e # f
               PROVE  e.at # f.at /\ (e.verdict # "none" /\ f.verdict = "none" => e.at < f.at)
    BY DEF Ordered
  <2>3. CASE e \in L /\ f \in L
    BY <2>3 DEF Ordered
  <2>4. CASE e \in L /\ f = new
    BY <2>1, <2>2, <2>4
  <2>5. CASE e = new /\ f \in L
    BY <2>1, <2>2, <2>5
  <2> QED BY <2>3, <2>4, <2>5
<1>4. Blank(M)
  BY DEF Blank, Waiting
<1>5. Fewer(M)
  <2>1. Cardinality(Bad(L)) < RoundCap + SilentCap - 1 /\ Cardinality(Bad(L)) \in Nat
    BY UnspentFew, BadFinite
  <2> QED BY <1>1, <2>1, CapsAssumption DEF Fewer
<1>6. Keeps(L, M)
  BY <1>1 DEF Keeps, Proved
<1> QED BY <1>2, <1>3, <1>4, <1>5, <1>6 DEF StageOK

\* A verdict is due to the first launch in flight or, when there is none, to
\* the last on record.
Due(L, e) ==
  \/ e.verdict = "none" /\ \A f \in Waiting(L) : e.at <= f.at
  \/ \A f \in L : f.verdict # "none" /\ f.at <= e.at

\* What has a verdict other than the new one came before it.
Newest(M, new) == \A e \in Finished(M) : e # new => e.at < new.at

LEMMA JudgedOrdered ==
  ASSUME NEW L \in SUBSET Entry, StageOK(L), NEW old \in L, Due(L, old),
         NEW new \in Entry, new.at = old.at, new.verdict # "none"
  PROVE  /\ Ordered(Replace(L, old, new)) /\ Blank(Replace(L, old, new))
         /\ Newest(Replace(L, old, new), new)
<1> DEFINE M == Replace(L, old, new)
<1>1. M = (L \ {old}) \cup {new}
  BY DEF Replace
<1> HIDE DEF M
<1>2. \A e \in M : e.at \in Nat
  BY <1>1 DEF Entry
<1>3. old.at \in Nat /\ \A e \in L : e.at \in Nat
  BY DEF Entry
<1>4. ASSUME NEW e \in L, e # old
      PROVE  e.at # old.at /\ (e.verdict # "none" => e.at < old.at)
                           /\ (e.verdict = "none" => old.at < e.at)
  <2>1. e.at # old.at
    BY <1>4 DEF StageOK, Ordered
  <2>2. CASE old.verdict = "none" /\ \A f \in Waiting(L) : old.at <= f.at
    <3>1. e.verdict # "none" => e.at < old.at
      BY <1>4, <2>2 DEF StageOK, Ordered
    <3>2. e.verdict = "none" => old.at <= e.at
      BY <2>2 DEF Waiting
    <3> QED BY <1>3, <2>1, <3>1, <3>2
  <2>3. CASE \A f \in L : f.verdict # "none" /\ f.at <= old.at
    BY <1>3, <2>1, <2>3
  <2> QED BY <2>2, <2>3 DEF Due
<1>5. Newest(M, new)
  BY <1>1, <1>4 DEF Newest, Finished
<1>6. Ordered(M)
  <2> SUFFICES ASSUME NEW e \in M, NEW f \in M, e # f
               PROVE  e.at # f.at /\ (e.verdict # "none" /\ f.verdict = "none" => e.at < f.at)
    BY DEF Ordered
  <2>1. CASE e \in L \ {old} /\ f \in L \ {old}
    BY <2>1 DEF StageOK, Ordered
  <2>2. CASE e \in L \ {old} /\ f = new
    BY <1>4, <2>2
  <2>3. CASE e = new /\ f \in L \ {old}
    BY <1>4, <2>3
  <2> QED BY <1>1, <2>1, <2>2, <2>3
<1>7. Blank(M)
  BY <1>1 DEF StageOK, Blank, Waiting
<1> QED BY <1>5, <1>6, <1>7 DEF M

\* The number of refusals after a verdict.
LEMMA JudgedFewer ==
  ASSUME NEW L \in SUBSET Entry, IsFiniteSet(L), StageOK(L), NEW old \in L, Due(L, old),
         NEW new \in Entry, new.at = old.at, new.verdict # "none"
  PROVE  LET n == Cardinality(Bad(Replace(L, old, new)))
         IN  /\ n \in Nat /\ n < RoundCap + SilentCap
             /\ new.verdict = "accepted" => n < RoundCap + SilentCap - 1
<1> DEFINE M == Replace(L, old, new)
           B == Bad(L) \ {old}
<1>1. M = (L \ {old}) \cup {new}
  BY DEF Replace
<1> HIDE DEF M
<1>2. /\ new.verdict = "refused" => Bad(M) = B \cup {new}
      /\ new.verdict # "refused" => Bad(M) = B
  BY <1>1 DEF Bad
<1>3. old \in Bad(L) <=> old.verdict = "refused"
  BY DEF Bad
<1>4. old.verdict # "refused" => StillOpen(L)
  <2>1. CASE old.verdict = "none"
    BY <2>1, WaitingOpen DEF StageOK, Waiting
  <2>2. CASE old.verdict = "accepted"
    <3>1. \A f \in L : f.at <= old.at
      BY <2>2 DEF Due
    <3>2. \A f \in Bad(L) : f \in L /\ f # old /\ f.at \in Nat /\ old.at \in Nat
      BY <2>2 DEF Bad, Entry
    <3>3. \A f \in Bad(L) : f.at # old.at
      BY <3>2 DEF StageOK, Ordered
    <3>4. \A f \in Bad(L) : f.at < old.at
      BY <3>1, <3>2, <3>3
    <3> QED BY <2>2, <3>4 DEF StillOpen
  <2>3. old.verdict \in Verdict
    BY DEF Entry
  <2> QED BY <2>1, <2>2, <2>3 DEF Verdict
<1>5. /\ IsFiniteSet(Bad(L)) /\ Cardinality(Bad(L)) \in Nat
      /\ Cardinality(Bad(L)) < RoundCap + SilentCap
      /\ old.verdict # "refused" => Cardinality(Bad(L)) < RoundCap + SilentCap - 1
  BY <1>4, BadFinite DEF StageOK, Fewer
<1>6. /\ IsFiniteSet(B)
      /\ Cardinality(B) = IF old \in Bad(L) THEN Cardinality(Bad(L)) - 1 ELSE Cardinality(Bad(L))
  BY <1>5, FS_RemoveElement
<1>7. Cardinality(B) \in Nat
  BY <1>6, FS_CardinalityType
<1> HIDE DEF B
<1>8. Cardinality(B) < RoundCap + SilentCap - 1
  BY <1>3, <1>5, <1>6, <1>7, CapsAssumption
<1>9. Cardinality(B \cup {new}) \in {Cardinality(B), Cardinality(B) + 1}
  BY <1>6, FS_AddElement
<1>10. new.verdict \in {"accepted", "refused"}
  BY DEF Entry, Verdict
<1>11. LET n == Cardinality(Bad(M))
       IN  /\ n \in Nat /\ n < RoundCap + SilentCap
           /\ new.verdict = "accepted" => n < RoundCap + SilentCap - 1
  <2>1. CASE new.verdict = "accepted"
    BY <1>2, <1>7, <1>8, <2>1, CapsAssumption
  <2>2. CASE new.verdict = "refused"
    <3>1. Cardinality(Bad(M)) \in {Cardinality(B), Cardinality(B) + 1}
      BY <1>2, <1>9, <2>2
    <3> QED BY <1>7, <1>8, <2>2, <3>1, CapsAssumption
  <2> QED BY <1>10, <2>1, <2>2
<1> QED BY <1>11 DEF M

LEMMA JudgedStage ==
  ASSUME NEW L \in SUBSET Entry, IsFiniteSet(L), StageOK(L), NEW old \in L, Due(L, old),
         NEW new \in Entry, new.at = old.at, new.verdict # "none"
  PROVE  LET M == Replace(L, old, new)
         IN  /\ new.verdict = "accepted" => StageOK(M) /\ Accepts(M)
             /\ new.verdict = "refused" => StageOK(M \ Waiting(M))
             /\ old.verdict = "none" => Keeps(L, M)
             /\ old.stood \subseteq new.stood /\ new.verdict = old.verdict => Keeps(L, M)
<1> DEFINE M == Replace(L, old, new)
           n == Cardinality(Bad(M))
<1>1. M = (L \ {old}) \cup {new} /\ new \in M
  BY DEF Replace
<1>2. Ordered(M) /\ Blank(M) /\ Newest(M, new)
  BY JudgedOrdered
<1>3. /\ n \in Nat /\ n < RoundCap + SilentCap
      /\ new.verdict = "accepted" => n < RoundCap + SilentCap - 1
  BY JudgedFewer
<1> HIDE DEF M
<1>4. new.verdict = "accepted" => StageOK(M) /\ Accepts(M)
  BY <1>1, <1>2, <1>3 DEF StageOK, Accepts, Fewer
<1>5. ASSUME new.verdict = "refused"
      PROVE  StageOK(M \ Waiting(M))
  <2> DEFINE N == M \ Waiting(M)
  <2>1. Bad(N) = Bad(M) /\ Waiting(N) = {} /\ new \in Bad(N)
    BY <1>1, <1>5 DEF Bad, Waiting
  <2>2. Ordered(N) /\ Blank(N)
    BY <1>2, <2>1 DEF Ordered, Blank
  <2>3. ~StillOpen(N)
    <3> SUFFICES ASSUME NEW e \in N, e.verdict # "refused", new.at < e.at
                 PROVE  FALSE
      BY <2>1 DEF StillOpen
    <3>1. e \in Finished(M) /\ e # new
      BY <1>5 DEF Finished, Waiting
    <3>2. e.at < new.at /\ e.at \in Nat /\ new.at \in Nat
      BY <1>1, <1>2, <3>1 DEF Newest, Finished, Entry
    <3> QED BY <3>2
  <2> QED BY <1>3, <2>1, <2>2, <2>3 DEF StageOK, Fewer
<1>6. old.verdict = "none" => Keeps(L, M)
  BY <1>1 DEF StageOK, Blank, Waiting, Keeps, Accepts, Proved
<1>7. old.stood \subseteq new.stood /\ new.verdict = old.verdict => Keeps(L, M)
  BY <1>1 DEF Keeps, Accepts, Proved
<1> QED BY <1>4, <1>5, <1>6, <1>7 DEF M

----------------------------------------------------------------------------
(* The operators of the flow file. *)

LEMMA OfGood ==
  ASSUME NEW S, Good(S), NEW s
  PROVE  /\ Of(S, s) \in SUBSET Entry /\ IsFiniteSet(Of(S, s)) /\ Bounded(Of(S, s))
         /\ Pending(S, s) = Waiting(Of(S, s))
<1>1. Of(S, s) \in SUBSET S
  BY DEF Of
<1>2. Pending(S, s) = Waiting(Of(S, s))
  BY DEF Pending, InFlight, Waiting, Of
<1> QED BY <1>1, <1>2, FS_Subset, BoundedPart DEF Good

LEMMA QuietAll ==
  ASSUME NEW S, NEW T, AllOK(S), \A s \in Stage : Quiet(Of(S, s), Of(T, s))
  PROVE  AllOK(T) /\ AllFirm(S, T)
BY QuietKeeps DEF AllOK, AllFirm

\* Dropping launches in flight.
LEMMA DropQuiet ==
  ASSUME NEW S, NEW T \in SUBSET S, AllOK(S), \A e \in S : e \notin T => e.verdict = "none"
  PROVE  AllOK(T) /\ AllFirm(S, T)
<1>1. ASSUME NEW s \in Stage
      PROVE  Quiet(Of(S, s), Of(T, s))
  <2>1. StageOK(Of(S, s))
    BY DEF AllOK
  <2>2. Finished(Of(T, s)) = Finished(Of(S, s))
    BY DEF Finished, Of
  <2>3. Waiting(Of(T, s)) \in SUBSET Waiting(Of(S, s))
    BY DEF Waiting, Of
  <2>4. \A m, n \in Waiting(Of(T, s)) : m.at = n.at => m = n
    BY <2>1, <2>3 DEF StageOK, Ordered, Waiting
  <2> QED BY <2>1, <2>2, <2>3, <2>4 DEF Quiet, StageOK, Blank
<1> QED BY <1>1, QuietAll

\* Rewriting launches in flight, each in place.
LEMMA MapQuiet ==
  ASSUME NEW S \in SUBSET Entry, AllOK(S), NEW T, NEW f \in [S -> Entry],
         T = {f[e] : e \in S},
         \A e \in S : /\ f[e].at = e.at /\ f[e].stage = e.stage
                      /\ f[e].verdict = e.verdict /\ f[e].stood = e.stood
                      /\ e.verdict # "none" => f[e] = e
  PROVE  AllOK(T) /\ AllFirm(S, T)
<1>1. ASSUME NEW s \in Stage
      PROVE  Quiet(Of(S, s), Of(T, s))
  <2>1. StageOK(Of(S, s))
    BY DEF AllOK
  <2>2. Finished(Of(T, s)) = Finished(Of(S, s))
    BY DEF Finished, Of
  <2>3. \A m \in Waiting(Of(T, s)) : \E e \in Waiting(Of(S, s)) : m = f[e] /\ e.at = m.at
    BY DEF Waiting, Of
  <2>4. \A m \in Waiting(Of(T, s)) : m.stood = {}
    BY <2>1, <2>3 DEF StageOK, Blank, Waiting, Of
  <2>5. \A m, n \in Waiting(Of(T, s)) : m.at = n.at => m = n
    <3> SUFFICES ASSUME NEW m \in Waiting(Of(T, s)), NEW n \in Waiting(Of(T, s)), m.at = n.at
                 PROVE  m = n
      OBVIOUS
    <3>1. PICK d \in Waiting(Of(S, s)) : m = f[d] /\ d.at = m.at
      BY <2>3
    <3>2. PICK e \in Waiting(Of(S, s)) : n = f[e] /\ e.at = n.at
      BY <2>3
    <3>3. d = e
      BY <2>1, <3>1, <3>2 DEF StageOK, Ordered, Waiting
    <3> QED BY <3>1, <3>2, <3>3
  <2> QED BY <2>2, <2>3, <2>4, <2>5 DEF Quiet
<1> QED BY <1>1, QuietAll

LEMMA ReplaceQuiet ==
  ASSUME NEW S \in SUBSET Entry, AllOK(S), NEW old \in S, old.verdict = "none",
         NEW new \in Entry, new.at = old.at, new.stage = old.stage,
         new.verdict = "none", new.stood = old.stood
  PROVE  AllOK(Replace(S, old, new)) /\ AllFirm(S, Replace(S, old, new))
<1> DEFINE f == [e \in S |-> IF e = old THEN new ELSE e]
<1>1. f \in [S -> Entry]
  OBVIOUS
<1>2. Replace(S, old, new) = {f[e] : e \in S}
  BY DEF Replace
<1>3. \A e \in S : /\ f[e].at = e.at /\ f[e].stage = e.stage
                   /\ f[e].verdict = e.verdict /\ f[e].stood = e.stood
                   /\ e.verdict # "none" => f[e] = e
  OBVIOUS
<1> HIDE DEF f
<1> QED BY <1>1, <1>2, <1>3, MapQuiet

LEMMA ForgetKeeps ==
  ASSUME NEW S, AllOK(S), NEW every
  PROVE  AllOK(forget_running(S, every)) /\ AllFirm(S, forget_running(S, every))
BY DropQuiet DEF forget_running

LEMMA OlderKeeps ==
  ASSUME NEW S, Good(S), AllOK(S)
  PROVE  AllOK(Older(S)) /\ AllFirm(S, Older(S))
<1> DEFINE older(e) == IF e.verdict = "none" /\ e.age < 2
                       THEN [e EXCEPT !.age = @ + 1] ELSE e
           f == [e \in S |-> older(e)]
<1>1. ASSUME NEW e \in S
      PROVE  /\ older(e) \in Entry /\ older(e).at = e.at /\ older(e).stage = e.stage
             /\ older(e).verdict = e.verdict /\ older(e).stood = e.stood
             /\ e.verdict # "none" => older(e) = e
  <2>1. e \in Entry
    BY DEF Good
  <2> QED BY <2>1 DEF Entry
<1>2. Older(S) = {older(e) : e \in S}
  BY DEF Older
<1> HIDE DEF older
<1>3. /\ f \in [S -> Entry] /\ Older(S) = {f[e] : e \in S}
      /\ \A e \in S : /\ f[e].at = e.at /\ f[e].stage = e.stage
                      /\ f[e].verdict = e.verdict /\ f[e].stood = e.stood
                      /\ e.verdict # "none" => f[e] = e
  BY <1>1, <1>2
<1> HIDE DEF f
<1> QED BY <1>3, MapQuiet DEF Good

LEMMA CountKeeps ==
  ASSUME NEW S, Good(S), AllOK(S)
  PROVE  AllOK(_counts_against_the_stage(S)) /\ AllFirm(S, _counts_against_the_stage(S))
<1> DEFINE k(s) == Cardinality(Pending(S, s))
           more(e) == IF e.denied + k(e.stage) > DeafAfter THEN DeafAfter + 1
                      ELSE e.denied + k(e.stage)
           counted(e) == IF e.verdict = "none" /\ e = Charged(S, e.stage)
                         THEN [e EXCEPT !.denied = more(e)] ELSE e
           f == [e \in S |-> counted(e)]
<1>1. \A s : k(s) \in Nat
  <2> TAKE s
  <2>1. IsFiniteSet(Pending(S, s))
    BY FS_Subset DEF Good, Pending, InFlight
  <2> QED BY <2>1, FS_CardinalityType
<1>2. _counts_against_the_stage(S) = {counted(e) : e \in S}
  BY Zenon DEF _counts_against_the_stage
<1> HIDE DEF k
<1>3. ASSUME NEW e \in S
      PROVE  /\ counted(e) \in Entry /\ counted(e).at = e.at
             /\ counted(e).stage = e.stage /\ counted(e).verdict = e.verdict
             /\ counted(e).stood = e.stood /\ (e.verdict # "none" => counted(e) = e)
  <2>1. e \in Entry /\ DeafAfter \in Nat
    BY CapsAssumption DEF Good
  <2>2. more(e) \in Nat
    BY <1>1, <2>1 DEF Entry
  <2> HIDE DEF more
  <2> QED BY <2>1, <2>2 DEF Entry
<1> HIDE DEF counted
<1>4. /\ f \in [S -> Entry] /\ _counts_against_the_stage(S) = {f[e] : e \in S}
      /\ \A e \in S : /\ f[e].at = e.at /\ f[e].stage = e.stage
                      /\ f[e].verdict = e.verdict /\ f[e].stood = e.stood
                      /\ e.verdict # "none" => f[e] = e
  BY <1>2, <1>3
<1> HIDE DEF f
<1> QED BY <1>4, MapQuiet DEF Good

\* Charging a launch, binding it and counting a refusal.
LEMMA ChargeKeeps ==
  ASSUME NEW S, Good(S), AllOK(S), NEW s \in Stage, Pending(S, s) # {}, NEW a \in Agents
  PROVE  /\ AllOK(spend(S, s)) /\ AllFirm(S, spend(S, s))
         /\ AllOK(bind(S, s, a)) /\ AllFirm(S, bind(S, s, a))
         /\ AllOK(refused_once_more(S, s)) /\ AllFirm(S, refused_once_more(S, s))
<1> DEFINE e == Charged(S, s)
<1>1. e \in S /\ e.verdict = "none" /\ e \in Entry /\ S \in SUBSET Entry
  BY ChargedIn DEF Good
<1> DEFINE n == IF e.calls > Budget[s] THEN e.calls ELSE e.calls + 1
           g == [e EXCEPT !.calls = n]
           f == [g EXCEPT !.age = 0]
           b == [e EXCEPT !.agent = IF @ = NoAgent THEN a ELSE @]
           d == [e EXCEPT !.denied = IF @ > DeafAfter THEN @ ELSE @ + 1]
           Like(x) == /\ x \in Entry /\ x.at = e.at /\ x.stage = e.stage
                      /\ x.verdict = "none" /\ x.stood = e.stood
<1>2. spend(S, s) = Replace(S, e, f)
  BY Zenon DEF spend
<1>3. bind(S, s, a) = Replace(S, e, b)
  BY DEF bind
<1>4. refused_once_more(S, s) = Replace(S, e, d)
  BY DEF refused_once_more
<1> HIDE DEF e
<1>5. n \in Nat
  BY <1>1 DEF Entry
<1> HIDE DEF n
<1>6. Like(g)
  BY <1>1, <1>5 DEF Entry
<1> HIDE DEF g
<1>7. Like(f)
  BY <1>6 DEF Entry
<1>8. Like(b) /\ Like(d)
  BY <1>1 DEF Entry
<1> HIDE DEF f, b, d
<1> QED BY <1>1, <1>2, <1>3, <1>4, <1>7, <1>8, ReplaceQuiet

\* A subagent's call.
LEMMA SpentKeeps ==
  ASSUME NEW S, Good(S), AllOK(S), InFlight(S) # {}, NEW a \in Agents, NEW tool
  PROVE  AllOK(Spent(S, a, tool)) /\ AllFirm(S, Spent(S, a, tool))
<1> DEFINE s == FirstRunning(S)
<1>1. Oldest(InFlight(S)) \in InFlight(S)
  BY OldestIn DEF Good, InFlight
<1>2. s \in Stage /\ Pending(S, s) # {}
  BY <1>1 DEF FirstRunning, Good, InFlight, Pending, Entry
<1> HIDE DEF s
<1> DEFINE paid == spend(S, s)
           bound == bind(paid, s, a)
           turned == refused_once_more(bound, s)
<1>3. Good(paid) /\ Pending(paid, s) # {} /\ AllOK(paid) /\ AllFirm(S, paid)
  BY <1>2, ChargeGood, ChargeKeeps
<1> HIDE DEF paid
<1>4. Good(bound) /\ Pending(bound, s) # {} /\ AllOK(bound) /\ AllFirm(S, bound)
  BY <1>2, <1>3, ChargeGood, ChargeKeeps, FirmTrans
<1> HIDE DEF bound
<1>5. AllOK(turned) /\ AllFirm(S, turned)
  BY <1>2, <1>4, ChargeKeeps, FirmTrans
<1>6. Spent(S, a, tool) \in {bound, turned}
  BY DEF Spent, bound, paid, s
<1> HIDE DEF turned
<1> QED BY <1>4, <1>5, <1>6

AllKeep(S, T) == \A s \in Stage : Keeps(Of(S, s), Of(T, s))

LEMMA NewEntryIs ==
  ASSUME NEW S \in SUBSET Entry, Bounded(S), NEW s \in Stage, NEW a \in Agents \cup {NoAgent},
         NEW again \in BOOLEAN
  PROVE  /\ NewEntry(S, s, a, again) \in Entry
         /\ NewEntry(S, s, a, again).stage = s
         /\ NewEntry(S, s, a, again).verdict = "none"
         /\ NewEntry(S, s, a, again).stood = {}
         /\ ~NewEntry(S, s, a, again).summary
         /\ \A e \in S : e.at < NewEntry(S, s, a, again).at
<1>1. NextAt(S) \in Nat \ {0} /\ \A e \in S : e.at < NextAt(S)
  BY NextAtLast
<1> QED BY <1>1 DEF NewEntry, Entry, Verdict

\* A launch appended while its stage has rounds left.
LEMMA LaunchKeeps ==
  ASSUME NEW S, Good(S), AllOK(S), NEW s \in Stage, NEW a \in Agents \cup {NoAgent},
         ~exhausted(S, s)
  PROVE  AllOK(record_launch(S, s, a)) /\ AllKeep(S, record_launch(S, s, a))
<1> DEFINE new == NewEntry(S, s, a, FALSE)
           T == record_launch(S, s, a)
<1>1. /\ new \in Entry /\ new.stage = s /\ new.verdict = "none" /\ new.stood = {}
      /\ \A e \in S : e.at < new.at
  <2>1. S \in SUBSET Entry /\ Bounded(S)
    BY DEF Good
  <2>2. \A again \in BOOLEAN : NewEntry(S, s, a, again) \in Entry
    BY <2>1, NewEntryIs, Zenon
  <2>3. \A e \in S : e.at < NewEntry(S, s, a, FALSE).at
    BY <2>1, NewEntryIs, Zenon
  <2>4. NewEntry(S, s, a, FALSE).stage = s /\ NewEntry(S, s, a, FALSE).verdict = "none"
        /\ NewEntry(S, s, a, FALSE).stood = {}
    BY DEF NewEntry
  <2> QED BY <2>2, <2>3, <2>4, Zenon
<1>2. T = S \cup {new}
  BY DEF record_launch
<1> HIDE DEF new, T
<1>3. Of(T, s) = Of(S, s) \cup {new} /\ \A r \in Stage : r # s => Of(T, r) = Of(S, r)
  BY <1>1, <1>2 DEF Of
<1>4. StageOK(Of(T, s)) /\ Keeps(Of(S, s), Of(T, s))
  <2>1. Of(S, s) \in SUBSET Entry /\ IsFiniteSet(Of(S, s)) /\ StageOK(Of(S, s))
    BY OfGood DEF AllOK
  <2>2. \A e \in Of(S, s) : e.at < new.at
    BY <1>1 DEF Of
  <2>3. ~RoundsSpent(Of(S, s))
    BY ExhaustedIs
  <2> QED BY <1>1, <1>3, <2>1, <2>2, <2>3, AppendKeeps DEF StageOK
<1>5. \A L : Keeps(L, L)
  BY DEF Keeps
<1> QED BY <1>3, <1>4, <1>5 DEF AllOK, AllKeep, T

\* The stage that is due has rounds left.
LEMMA DueUnspent ==
  ASSUME NEW S, next_stage(S) # NoStage
  PROVE  ~exhausted(S, next_stage(S))
BY Zenon DEF next_stage

LEMMA AdmittedKeeps ==
  ASSUME NEW S, Good(S), AllOK(S), NEW s, admits(S, s)
  PROVE  /\ AllOK(record_launch(AfterAdmission(S, s), s, NoAgent))
         /\ AllKeep(S, record_launch(AfterAdmission(S, s), s, NoAgent))
<1> DEFINE T == AfterAdmission(S, s)
           U == record_launch(T, s, NoAgent)
<1>1. s \in Stage /\ next_stage(S) = s /\ s # NoStage
  BY StagesAssumption DEF admits, Stage, NoStage
<1>2. T \in SUBSET S /\ \A e \in S : e \notin T => e.verdict = "none"
  BY DEF AfterAdmission, LiveEntries, Pending, InFlight
<1>3. Good(T)
  BY <1>2, DropShrinks, ShrinksGood DEF Good
<1>4. AllOK(T) /\ AllFirm(S, T)
  BY <1>2, DropQuiet
<1>5. refused(T) = refused(S)
  BY <1>2 DEF refused
<1>6. ~exhausted(T, s)
  BY <1>1, <1>5, DueUnspent DEF exhausted
<1> HIDE DEF T
<1>7. AllOK(U) /\ AllKeep(T, U)
  BY <1>1, <1>3, <1>4, <1>6, LaunchKeeps
<1>8. AllKeep(S, U)
  BY <1>4, <1>7, KeepsTrans DEF AllFirm, Firm, AllKeep
<1> QED BY <1>7, <1>8 DEF T

LEMMA RestoredKeeps ==
  ASSUME NEW S, Good(S), AllOK(S), NEW a \in Agents,
         InFlight(S) # {} \/ next_stage(S) # NoStage
  PROVE  AllOK(Restored(S, a)) /\ AllKeep(S, Restored(S, a))
<1>1. CASE InFlight(S) # {}
  BY <1>1 DEF Restored, AllKeep, Keeps
<1>2. CASE InFlight(S) = {}
  BY <1>2, NextStageDue, DueUnspent, LaunchKeeps DEF Restored
<1> QED BY <1>1, <1>2

----------------------------------------------------------------------------
(* Verdicts. *)

LEMMA WithVerdictIs ==
  ASSUME NEW e \in Entry, NEW rep \in Report, NEW a \in Agents \cup {NoAgent}
  PROVE  /\ WithVerdict(e, rep, a).verdict = IF rep.gaps THEN "refused" ELSE "accepted"
         /\ rep.stood = {} => WithVerdict(e, rep, a).stood = e.stood
<1> DEFINE v == IF rep.gaps THEN "refused" ELSE "accepted"
           e1 == [e EXCEPT !.verdict = v]
           e2 == [e1 EXCEPT !.agent = IF a = NoAgent THEN @ ELSE a]
           answer == IF rep.gaps /\ rep.text # "empty" THEN Claims(rep)
                     ELSE e2.answer
           e3 == [e2 EXCEPT !.answer = answer]
           e4 == [e3 EXCEPT !.stood = IF rep.stood = {} THEN @ ELSE rep.stood]
           e5 == [e4 EXCEPT !.calls = 0]
           e6 == [e5 EXCEPT !.denied = 0]
           e7 == [e6 EXCEPT !.age = 0]
           Rec(f) == DOMAIN f = DOMAIN e /\ f.verdict = v
                     /\ (rep.stood = {} => f.stood = e.stood)
<1>1. WithVerdict(e, rep, a) = e7
  BY DEF WithVerdict
<1>2. /\ DOMAIN e = {"at", "stage", "agent", "verdict", "reopened", "calls", "denied",
                     "age", "answer", "summary", "stood"}
      /\ e = [x \in DOMAIN e |-> e[x]]
  BY DEF Entry
<1> HIDE DEF v
<1>3. Rec(e1)
  BY <1>2
<1> HIDE DEF e1
<1>4. Rec(e2)
  BY <1>2, <1>3
<1> HIDE DEF e2, answer
<1>5. Rec(e3)
  BY <1>2, <1>4
<1> HIDE DEF e3
<1>6. Rec(e4)
  BY <1>2, <1>5
<1> HIDE DEF e4
<1>7. Rec(e5)
  BY <1>2, <1>6
<1> HIDE DEF e5
<1>8. Rec(e6)
  BY <1>2, <1>7
<1> HIDE DEF e6
<1>9. Rec(e7)
  BY <1>2, <1>8
<1> HIDE DEF e7
<1> QED BY <1>1, <1>9 DEF v

\* Killing what was killed already changes nothing.
LEMMA KilledTwice ==
  ASSUME NEW e \in Entry, e.verdict = "refused", e.calls = 0, e.denied = 0, e.age = 0
  PROVE  WithVerdict(e, DeafReport, NoAgent) = e
BY DEF WithVerdict, DeafReport, Entry

LEMMA KilledIs ==
  ASSUME NEW e \in Entry
  PROVE  LET k == WithVerdict(e, DeafReport, NoAgent)
         IN  k.calls = 0 /\ k.denied = 0 /\ k.age = 0
BY DEF WithVerdict, DeafReport, Entry

\* The digest of a report goes to a launch that may have it: the stage is
\* accepted, or has nothing in flight, or its last round has just been opened.
Settled(L) ==
  \/ Accepts(L) \/ Waiting(L) = {}
  \/ \E n \in Waiting(L) : ~n.summary /\ \A e \in L : e # n => e.at < n.at

LEMMA ReportedDue ==
  ASSUME NEW S \in SUBSET Entry, Bounded(S), NEW s, NEW a, ~Nobody(S, s, a),
         a = NoAgent \/ Pending(S, s) # {}
  PROVE  /\ Reported(S, s, a) \in Of(S, s) /\ Due(Of(S, s), Reported(S, s, a))
         /\ Pending(S, s) # {} => Reported(S, s, a).verdict = "none"
<1>1. CASE Pending(S, s) # {}
  <2> DEFINE P == Pending(S, s)
  <2>1. P \in SUBSET Entry /\ P = Waiting(Of(S, s))
    BY DEF Pending, InFlight, Waiting, Of
  <2>2. Oldest(P) \in P /\ \A f \in P : Oldest(P).at <= f.at
    <3> HIDE DEF P
    <3> QED BY <1>1, <2>1, OldestIn DEF P
  <2>3. Reported(S, s, a) = Oldest(P)
    BY <1>1 DEF Reported
  <2>4. Oldest(P).verdict = "none" /\ Oldest(P) \in Of(S, s)
    BY <2>1, <2>2 DEF Waiting
  <2> HIDE DEF P
  <2> QED BY <2>1, <2>2, <2>3, <2>4 DEF Due
<1>2. CASE Pending(S, s) = {}
  <2> DEFINE L == Of(S, s)
  <2>1. L \in SUBSET S /\ L \in SUBSET Entry /\ L = Candidates(S, s, a) /\ L # {}
    BY <1>2 DEF Of, Candidates, Nobody
  <2>2. Reported(S, s, a) = Latest(L)
    BY <1>2, <2>1 DEF Reported, Candidates
  <2>3. Latest(L) \in L /\ \A f \in L : f.at <= Latest(L).at
    <3> HIDE DEF L
    <3> QED BY <2>1, BoundedPart, LatestIn
  <2>4. \A f \in L : f.verdict # "none"
    BY <1>2 DEF Pending, InFlight, Of
  <2> HIDE DEF L
  <2> QED BY <1>2, <2>2, <2>3, <2>4 DEF Due, L
<1> QED BY <1>1, <1>2

\* What a verdict on stage s may make of the list.
VerdictKept(S, s, U) ==
  /\ StageOK(Of(U, s)) /\ Settled(Of(U, s))
  /\ \A r : r # s => Of(U, r) = Of(S, r)
  /\ Pending(S, s) # {} => Keeps(Of(S, s), Of(U, s))

\* record_verdict, of a report that comes from a launch in flight or, at the
\* end of a turn, from the parent itself.
LEMMA VerdictKeeps ==
  ASSUME NEW S \in SUBSET Entry, IsFiniteSet(S), Bounded(S), NEW s \in Stage,
         StageOK(Of(S, s)), NEW rep \in Report, NEW a \in Agents \cup {NoAgent}, NEW reopen,
         a = NoAgent \/ Pending(S, s) # {}
  PROVE  VerdictKept(S, s, record_verdict(S, s, rep, a, reopen))
<1> DEFINE U == record_verdict(S, s, rep, a, reopen)
           L == Of(S, s)
           old == Reported(S, s, a)
           new == WithVerdict(old, rep, a)
           T == JudgedList(S, s, rep, a)
           M == Replace(L, old, new)
           n == NewEntry(T, s, new.agent, TRUE)
<1>1. CASE Nobody(S, s, a)
  <2>1. U = S
    BY <1>1, Zenon DEF record_verdict, Nobody, Candidates
  <2>2. Pending(S, s) = {} /\ Of(S, s) = {}
    BY <1>1 DEF Nobody, Candidates
  <2> HIDE DEF U
  <2> QED BY <2>1, <2>2 DEF Settled, Waiting, VerdictKept, U
<1>2. CASE ~Nobody(S, s, a)
  <2>1. U = IF ~rep.gaps THEN T
            ELSE IF reopen /\ ~exhausted(T, s) THEN T \cup {n} ELSE DropPending(T, s)
    BY <1>2, Zenon DEF record_verdict, Nobody, Candidates, JudgedList
  <2>2. /\ old \in L /\ old.stage = s /\ Due(L, old)
        /\ Pending(S, s) # {} => old.verdict = "none"
    <3>1. /\ old \in L /\ Due(L, old)
          /\ Pending(S, s) # {} => old.verdict = "none"
      BY <1>2, ReportedDue
    <3> HIDE DEF old
    <3> QED BY <3>1 DEF Of
  <2>3. L \in SUBSET S /\ L \in SUBSET Entry /\ IsFiniteSet(L)
    <3>1. L \in SUBSET S
      BY DEF Of
    <3> QED BY <3>1, FS_Subset
  <2>4. /\ new \in Entry /\ new.at = old.at /\ new.stage = s
        /\ new.verdict = IF rep.gaps THEN "refused" ELSE "accepted"
    BY <2>2, <2>3, WithVerdictEntry, WithVerdictIs
  <2>5. T = Replace(S, old, new)
    BY DEF JudgedList
  <2>6. T \in SUBSET Entry /\ Shrinks(S, T)
    BY <1>2, JudgedShrinks
  <2>7. Bounded(T) /\ IsFiniteSet(T)
    BY <2>6, ShrinksBounded DEF Shrinks
  <2>8. /\ n \in Entry /\ n.stage = s /\ n.verdict = "none" /\ n.stood = {} /\ ~n.summary
        /\ \A e \in T : e.at < n.at
    <3>1. new.agent \in Agents \cup {NoAgent} /\ TRUE \in BOOLEAN
      BY <2>4 DEF Entry
    <3> HIDE DEF T, new
    <3>2. \A again \in BOOLEAN : NewEntry(T, s, new.agent, again) \in Entry
      BY <2>6, <2>7, <3>1, NewEntryIs, Zenon
    <3>3. \A e \in T : e.at < NewEntry(T, s, new.agent, TRUE).at
      BY <2>6, <2>7, <3>1, NewEntryIs, Zenon
    <3>4. /\ n.stage = s /\ n.verdict = "none" /\ n.stood = {} /\ n.summary = FALSE
      BY DEF NewEntry
    <3> QED BY <3>1, <3>2, <3>3, <3>4, Zenon
  <2> HIDE DEF L, old, new, T, n
  <2>9. /\ Of(T, s) = M /\ \A r : r # s => Of(T, r) = Of(S, r)
    BY <2>2, <2>4, <2>5 DEF Of, Replace, L
  <2>10. StageOK(L)
    BY DEF L
  <2>11. Ordered(M) /\ Blank(M)
    BY <2>2, <2>3, <2>4, <2>10, JudgedOrdered
  <2>12. /\ ~rep.gaps => StageOK(M) /\ Accepts(M)
         /\ rep.gaps => StageOK(M \ Waiting(M))
         /\ Pending(S, s) # {} => Keeps(L, M)
    BY <2>2, <2>3, <2>4, <2>10, JudgedStage
  <2>13. M \in SUBSET Entry /\ IsFiniteSet(M)
    <3>1. Of(T, s) \in SUBSET T
      BY DEF Of
    <3> QED BY <2>6, <2>7, <2>9, <3>1, FS_Subset
  <2> HIDE DEF U, M
  <2>14. CASE ~rep.gaps
    BY <2>1, <2>9, <2>12, <2>14 DEF Settled, VerdictKept, L, U
  <2>15. CASE rep.gaps /\ reopen /\ ~exhausted(T, s)
    <3>1. U = T \cup {n}
      BY <2>1, <2>15
    <3>2. Of(U, s) = M \cup {n} /\ \A r : r # s => Of(U, r) = Of(S, r)
      BY <2>8, <2>9, <3>1 DEF Of
    <3>3. ~RoundsSpent(M)
      BY <2>9, <2>15, ExhaustedIs
    <3>4. \A e \in M : e.at < n.at
      BY <2>8, <2>9 DEF Of
    <3>5. StageOK(M \cup {n}) /\ Keeps(M, M \cup {n})
      BY <2>8, <2>11, <2>13, <3>3, <3>4, AppendKeeps
    <3>6. Settled(M \cup {n})
      BY <2>8, <3>4 DEF Settled, Waiting
    <3>7. Pending(S, s) # {} => Keeps(L, M \cup {n})
      BY <2>12, <3>5, KeepsTrans
    <3> QED BY <3>2, <3>5, <3>6, <3>7 DEF VerdictKept, L, U
  <2>16. CASE rep.gaps /\ ~(reopen /\ ~exhausted(T, s))
    <3>1. U = DropPending(T, s)
      BY <2>1, <2>16
    <3>2. Of(U, s) = M \ Waiting(M) /\ \A r : r # s => Of(U, r) = Of(S, r)
      BY <2>9, <3>1 DEF Of, DropPending, Pending, InFlight, Waiting
    <3>3. Settled(M \ Waiting(M))
      BY DEF Settled, Waiting
    <3>4. Keeps(M, M \ Waiting(M))
      BY <2>11 DEF Keeps, Accepts, Proved, Blank, Waiting
    <3>5. Pending(S, s) # {} => Keeps(L, M \ Waiting(M))
      BY <2>12, <3>4, KeepsTrans
    <3> QED BY <2>12, <2>16, <3>2, <3>3, <3>5 DEF VerdictKept, L, U
  <2> QED BY <2>14, <2>15, <2>16 DEF U
<1> QED BY <1>1, <1>2

\* The digest.
LEMMA SummariseKeeps ==
  ASSUME NEW S, Good(S), NEW s \in Stage, StageOK(Of(S, s)), Settled(Of(S, s))
  PROVE  /\ StageOK(Of(Summarise(S, s), s))
         /\ \A r : r # s => Of(Summarise(S, s), r) = Of(S, r)
         /\ Keeps(Of(S, s), Of(Summarise(S, s), s))
<1> DEFINE U == Summarise(S, s)
           L == Of(S, s)
           bare == {e \in L : ~e.summary}
           e == Latest(bare)
           f == [e EXCEPT !.summary = TRUE]
           M == Replace(L, e, f)
<1>1. CASE bare = {}
  <2>1. U = S
    BY <1>1 DEF Summarise
  <2> QED BY <2>1 DEF Keeps
<1>2. CASE bare # {}
  <2>1. L \in SUBSET Entry /\ IsFiniteSet(L) /\ Bounded(L) /\ L \in SUBSET S
    BY OfGood DEF Of
  <2>2. bare \in SUBSET L
    OBVIOUS
  <2>3. bare \in SUBSET Entry /\ Bounded(bare)
    BY <2>1, <2>2, BoundedPart
  <2>4. e \in bare /\ \A x \in bare : x.at <= e.at
    <3> HIDE DEF bare
    <3> QED BY <1>2, <2>3, LatestIn
  <2>5. U = Replace(S, e, f)
    BY <1>2, Zenon DEF Summarise
  <2>6. e \in L /\ e \in Entry /\ e.stage = s
    BY <2>1, <2>4 DEF Of
  <2>7. \A x \in L : ~x.summary => x.at <= e.at
    BY <2>4
  <2> HIDE DEF e, bare
  <2>8. /\ f \in Entry /\ f.at = e.at /\ f.stage = s /\ f.verdict = e.verdict
        /\ f.stood = e.stood
    BY <2>6 DEF Entry
  <2> HIDE DEF f, L
  <2>9. M = (L \ {e}) \cup {f}
    BY DEF Replace
  <2>10. Of(U, s) = M /\ \A r : r # s => Of(U, r) = Of(S, r)
    BY <2>1, <2>5, <2>6, <2>8, <2>9 DEF Of, Replace, L
  <2> HIDE DEF M, U
  <2>11. StageOK(L) /\ Settled(L)
    BY DEF L
  <2>12. Keeps(L, M)
    BY <2>6, <2>8, <2>9 DEF Keeps, Accepts, Proved
  <2>13. Ordered(M) /\ Blank(M)
    BY <2>6, <2>8, <2>9, <2>11 DEF StageOK, Ordered, Blank, Waiting
  <2>14. Cardinality(Bad(M)) \in Nat /\ Cardinality(Bad(M)) <= Cardinality(Bad(L))
         /\ Cardinality(Bad(L)) \in Nat
    <3>1. IsFiniteSet(Bad(L)) /\ Cardinality(Bad(L)) \in Nat
      BY <2>1, BadFinite
    <3>2. CASE e.verdict # "refused"
      <4>1. Bad(M) = Bad(L)
        BY <2>8, <2>9, <3>2 DEF Bad
      <4> QED BY <3>1, <4>1
    <3>3. CASE e.verdict = "refused"
      <4> DEFINE B == Bad(L) \ {e}
      <4>1. Bad(M) = B \cup {f} /\ e \in Bad(L)
        BY <2>6, <2>8, <2>9, <3>3 DEF Bad
      <4>2. IsFiniteSet(B) /\ Cardinality(B) = Cardinality(Bad(L)) - 1
        BY <3>1, <4>1, FS_RemoveElement
      <4> HIDE DEF B
      <4>3. Cardinality(B) \in Nat
        BY <4>2, FS_CardinalityType
      <4>4. Cardinality(B \cup {f}) \in {Cardinality(B), Cardinality(B) + 1}
        BY <4>2, FS_AddElement
      <4> QED BY <3>1, <4>1, <4>2, <4>3, <4>4
    <3> QED BY <3>2, <3>3
  <2>15. StillOpen(M) => StillOpen(L)
    BY <2>6, <2>8, <2>9 DEF StillOpen, Bad
  <2>16. Fewer(M)
    BY <2>11, <2>14, <2>15, CapsAssumption DEF StageOK, Fewer
  <2>17. RoundsSpent(M) /\ ~Accepts(M) => Waiting(M) = {}
    <3>1. CASE Accepts(L)
      BY <2>12, <3>1 DEF Keeps
    <3>2. CASE Waiting(L) = {}
      BY <2>6, <2>8, <2>9, <3>2 DEF Waiting
    <3>3. CASE \E n \in Waiting(L) : ~n.summary /\ \A x \in L : x # n => x.at < n.at
      <4>1. PICK n \in Waiting(L) : ~n.summary /\ \A x \in L : x # n => x.at < n.at
        BY <3>3
      <4>2. n \in L /\ n.verdict = "none" /\ n.at \in Nat /\ e.at \in Nat
        BY <2>1, <2>6 DEF Waiting, Entry
      <4>3. e = n
        BY <2>6, <2>7, <4>1, <4>2
      <4>4. Bad(M) = Bad(L) /\ (Accepts(M) <=> Accepts(L))
        BY <2>8, <2>9, <4>2, <4>3 DEF Bad, Accepts
      <4>5. RoundsSpent(M) <=> RoundsSpent(L)
        BY <4>4 DEF RoundsSpent, Answered
      <4> QED BY <2>11, <4>1, <4>4, <4>5 DEF StageOK
    <3> QED BY <2>11, <3>1, <3>2, <3>3 DEF Settled
  <2>18. StageOK(M)
    BY <2>13, <2>16, <2>17 DEF StageOK
  <2> QED BY <2>10, <2>12, <2>18 DEF U, L
<1> QED BY <1>1, <1>2

\* A report as the gate files it: it keeps every stage, and one that comes from
\* a launch in flight is firm.
LEMMA JudgedFileKeeps ==
  ASSUME NEW S, Good(S), AllOK(S), NEW s \in Stage, NEW rep \in Report,
         NEW a \in Agents \cup {NoAgent}, a = NoAgent \/ Pending(S, s) # {}
  PROVE  /\ AllOK(JudgedFile(S, s, rep, a))
         /\ Pending(S, s) # {} => AllFirm(S, JudgedFile(S, s, rep, a))
<1> DEFINE T == record_verdict(S, s, rep, a, a = NoAgent \/ s \notin Judged \/ ~rep.gaps)
           V == Summarise(T, s)
           U == JudgedFile(S, s, rep, a)
<1>1. Good(T)
  BY VerdictGood
<1>2. VerdictKept(S, s, T)
  BY VerdictKeeps DEF Good, AllOK
<1>3. U \in {T, V}
  BY DEF JudgedFile
<1> HIDE DEF T
<1>4. /\ StageOK(Of(V, s)) /\ Keeps(Of(T, s), Of(V, s))
      /\ \A r : r # s => Of(V, r) = Of(T, r)
  BY <1>1, <1>2, SummariseKeeps DEF VerdictKept
<1> HIDE DEF V, U
<1>5. /\ StageOK(Of(U, s))
      /\ \A r : r # s => Of(U, r) = Of(S, r)
      /\ Pending(S, s) # {} => Keeps(Of(S, s), Of(U, s))
  BY <1>2, <1>3, <1>4, KeepsTrans DEF VerdictKept
<1>6. AllOK(U)
  BY <1>5 DEF AllOK
<1>7. Pending(S, s) # {} => AllFirm(S, U)
  BY <1>5, OfGood, FirmRefl DEF AllFirm, Firm
<1> QED BY <1>6, <1>7 DEF U

\* TaskStop: the first verdict on a deaf stage ends what is in flight of it, and
\* a second finds the stage as the first left it.
LEMMA KilledOnce ==
  ASSUME NEW L \in SUBSET Entry, IsFiniteSet(L), Bounded(L), NEW s \in Stage,
         Of(L, s) = L, StageOK(L), Pending(L, s) # {}
  PROVE  LET once == record_verdict(L, s, DeafReport, NoAgent, FALSE)
         IN  /\ Of(once, s) = once /\ StageOK(once) /\ Keeps(L, once)
             /\ record_verdict(once, s, DeafReport, NoAgent, FALSE) = once
<1> DEFINE once == record_verdict(L, s, DeafReport, NoAgent, FALSE)
           old == Reported(L, s, NoAgent)
           new == WithVerdict(old, DeafReport, NoAgent)
           T == JudgedList(L, s, DeafReport, NoAgent)
<1>1. DeafReport \in Report /\ DeafReport.gaps = TRUE
  BY TextsAssumption DEF DeafReport, Report
<1>2. VerdictKept(L, s, once)
  BY <1>1, VerdictKeeps
<1>3. ~Nobody(L, s, NoAgent)
  BY DEF Nobody
<1>4. once = DropPending(T, s)
  BY <1>1, <1>3, Zenon DEF record_verdict, Nobody, Candidates, JudgedList
<1>5. old \in L /\ old.stage = s /\ Due(L, old)
  <2>1. old \in Of(L, s) /\ Due(Of(L, s), old)
    BY <1>3, ReportedDue
  <2> HIDE DEF old
  <2> QED BY <2>1 DEF Of
<1>6. /\ new \in Entry /\ new.at = old.at /\ new.stage = s /\ new.verdict = "refused"
      /\ new.calls = 0 /\ new.denied = 0 /\ new.age = 0
  BY <1>1, <1>5, WithVerdictEntry, WithVerdictIs, KilledIs
<1>7. T = Replace(L, old, new)
  BY DEF JudgedList
<1> HIDE DEF once, old, new, T
<1>8. Newest(T, new)
  BY <1>5, <1>6, <1>7, JudgedOrdered
<1>9. once = {e \in T : e.verdict # "none"} /\ new \in once
  <2>1. \A e \in T : e.stage = s
    BY <1>6, <1>7 DEF Replace, Of
  <2>2. once = {e \in T : e.verdict # "none"}
    BY <1>4, <2>1 DEF DropPending, Pending, InFlight
  <2> QED BY <1>6, <1>7, <2>2 DEF Replace
<1>10. Of(once, s) = once
  BY <1>6, <1>7, <1>9 DEF Of, Replace
<1>11. once \in SUBSET Entry
  BY <1>6, <1>7, <1>9 DEF Replace
<1>12. Pending(once, s) = {} /\ Candidates(once, s, NoAgent) = once
  BY <1>9, <1>10 DEF Pending, InFlight, Candidates
<1>13. \A e \in once : e # new => e.at < new.at
  BY <1>8, <1>9 DEF Newest, Finished
<1>14. Latest(once) = new
  <2>1. \A e \in once : e.at \in Nat
    BY <1>11 DEF Entry
  <2>2. \A e \in once : e.at <= new.at
    BY <1>9, <1>13, <2>1
  <2>3. ASSUME NEW x \in once, \A e \in once : e.at <= x.at
        PROVE  x = new
    BY <1>9, <1>13, <2>1, <2>3
  <2> QED BY <1>9, <2>2, <2>3 DEF Latest
<1>15. Reported(once, s, NoAgent) = new
  BY <1>12, <1>14 DEF Reported, Candidates
<1>16. WithVerdict(new, DeafReport, NoAgent) = new
  BY <1>6, KilledTwice
<1>17. JudgedList(once, s, DeafReport, NoAgent) = once
  BY <1>9, <1>15, <1>16 DEF JudgedList, Replace
<1>18. ~Nobody(once, s, NoAgent)
  BY <1>9, <1>12 DEF Nobody
<1>19. record_verdict(once, s, DeafReport, NoAgent, FALSE) = DropPending(once, s)
  <2>1. record_verdict(once, s, DeafReport, NoAgent, FALSE)
          = DropPending(JudgedList(once, s, DeafReport, NoAgent), s)
    BY <1>1, <1>18, Zenon DEF record_verdict, Nobody, Candidates, JudgedList
  <2> QED BY <1>17, <2>1
<1>20. DropPending(once, s) = once
  BY <1>12 DEF DropPending
<1>21. StageOK(once) /\ Keeps(L, once)
  BY <1>2, <1>10 DEF VerdictKept
<1> QED BY <1>10, <1>19, <1>20, <1>21 DEF once

LEMMA EndDeafKeeps ==
  ASSUME NEW S, Good(S), AllOK(S)
  PROVE  AllOK(EndDeaf(S)) /\ AllFirm(S, EndDeaf(S))
<1> DEFINE once(s) == record_verdict(Of(S, s), s, DeafReport, NoAgent, FALSE)
           twice(s) == record_verdict(once(s), s, DeafReport, NoAgent, FALSE)
           ended(s) == IF s \notin deaf(S) THEN Of(S, s)
                       ELSE IF \E e, f \in DeafEntries(S) :
                                 e # f /\ e.stage = s /\ f.stage = s
                            THEN twice(s) ELSE once(s)
<1>1. ASSUME NEW s \in Stage
      PROVE  Of(ended(s), s) = ended(s) /\ StageOK(ended(s)) /\ Firm(Of(S, s), ended(s))
  <2>1. Of(S, s) \in SUBSET Entry /\ IsFiniteSet(Of(S, s)) /\ Bounded(Of(S, s))
        /\ Pending(S, s) = Waiting(Of(S, s))
    BY OfGood
  <2>2. Of(Of(S, s), s) = Of(S, s) /\ StageOK(Of(S, s))
    BY DEF Of, AllOK
  <2>3. CASE s \notin deaf(S)
    BY <2>2, <2>3, FirmRefl
  <2>4. CASE s \in deaf(S)
    <3>1. Waiting(Of(S, s)) # {} /\ Pending(Of(S, s), s) # {}
      BY <2>4 DEF deaf, DeafEntries, InFlight, Waiting, Pending, Of
    <3>2. Of(once(s), s) = once(s) /\ StageOK(once(s)) /\ Keeps(Of(S, s), once(s))
          /\ twice(s) = once(s)
      BY <2>1, <2>2, <3>1, KilledOnce
    <3> HIDE DEF once, twice
    <3>3. ended(s) = once(s)
      BY <2>4, <3>2
    <3> QED BY <3>1, <3>2, <3>3 DEF Firm
  <2> QED BY <2>3, <2>4
<1>2. EndDeaf(S) = UNION {ended(s) : s \in Stage}
  BY Zenon DEF EndDeaf, DeafReport
<1> HIDE DEF ended
<1>3. ASSUME NEW s \in Stage
      PROVE  Of(EndDeaf(S), s) = ended(s)
  <2>1. \A r \in Stage : \A e \in ended(r) : e.stage = r
    BY <1>1 DEF Of
  <2> QED BY <1>2, <2>1 DEF Of
<1> QED BY <1>1, <1>3 DEF AllOK, AllFirm

----------------------------------------------------------------------------
(* What a flow keeps. *)

LEMMA DoneIs ==
  ASSUME NEW S, NEW s
  PROVE  s \in done(S) <=> Accepts(Of(S, s))
BY DEF done, Accepts, Of

LEMMA KeepFacts ==
  ASSUME NEW S, Good(S), NEW T, AllKeep(S, T)
  PROVE  done(S) \subseteq done(T) /\ Proved(S) \subseteq Proved(T)
<1>1. \A e \in S : e.stage \in Stage
  BY DEF Good, Entry
<1>2. done(S) \subseteq done(T)
  <2> SUFFICES ASSUME NEW s \in done(S)
               PROVE  s \in done(T)
    OBVIOUS
  <2>1. s \in Stage
    BY <1>1 DEF done
  <2> QED BY <2>1, DoneIs DEF AllKeep, Keeps
<1>3. Proved(S) \subseteq Proved(T)
  <2> SUFFICES ASSUME NEW e \in S, NEW x \in e.stood
               PROVE  x \in Proved(T)
    BY DEF Proved
  <2>1. x \in Proved(Of(S, e.stage))
    BY DEF Proved, Of
  <2>2. x \in Proved(Of(T, e.stage))
    BY <1>1, <2>1 DEF AllKeep, Keeps
  <2> QED BY <2>2 DEF Proved, Of
<1> QED BY <1>2, <1>3

LEMMA FirmKeeps ==
  ASSUME NEW S, NEW T, AllFirm(S, T)
  PROVE  AllKeep(S, T)
BY DEF AllFirm, AllKeep, Firm

\* A stage given up on stays so, and a flow that is over stays over.
LEMMA OverStays ==
  ASSUME NEW S, Good(S), AllOK(S), NEW T, AllFirm(S, T), Over(S)
  PROVE  Over(T)
<1>1. \A s \in Stage : s \in done(S) => s \in done(T)
  BY KeepFacts, FirmKeeps
<1>2. ASSUME NEW s \in Stage, s \notin done(S), exhausted(S, s)
      PROVE  s \notin done(T) /\ exhausted(T, s)
  <2>1. RoundsSpent(Of(S, s)) /\ ~Accepts(Of(S, s))
    BY <1>2, ExhaustedIs, DoneIs
  <2>2. Waiting(Of(S, s)) = {}
    BY <2>1 DEF AllOK, StageOK
  <2>3. Of(T, s) = Of(S, s)
    BY <2>2 DEF AllFirm, Firm
  <2> QED BY <2>1, <2>3, ExhaustedIs, DoneIs
<1>3. Unpassed(T) \subseteq Unpassed(S)
  BY <1>1, <1>2 DEF Unpassed
<1>4. CASE Unpassed(S) = {}
  BY <1>3, <1>4 DEF Over, next_stage
<1>5. CASE Unpassed(S) # {}
  <2> DEFINE s == CHOOSE x \in Unpassed(S) : \A y \in Unpassed(S) : x <= y
             t == CHOOSE x \in Unpassed(T) : \A y \in Unpassed(T) : x <= y
  <2>1. \A R : Unpassed(R) \in SUBSET Nat /\ Unpassed(R) \subseteq Stage
    BY StagesAssumption DEF Unpassed, Stage
  <2>2. s \in Unpassed(S) /\ \A y \in Unpassed(S) : s <= y
    BY <1>5, <2>1, LeastNat
  <2>3. next_stage(S) = IF exhausted(S, s) THEN NoStage ELSE s
    BY <1>5, Zenon DEF next_stage
  <2>4. next_stage(T) = IF Unpassed(T) = {} THEN NoStage
                        ELSE IF exhausted(T, t) THEN NoStage ELSE t
    BY Zenon DEF next_stage
  <2> HIDE DEF s
  <2>5. s \in Stage /\ s # NoStage
    BY <2>1, <2>2, StagesAssumption DEF Stage, NoStage
  <2>6. exhausted(S, s) /\ s \notin done(S)
    BY <2>2, <2>3, <2>5 DEF Over, Unpassed
  <2>7. s \notin done(T) /\ exhausted(T, s) /\ s \in Blocking
    BY <1>2, <2>2, <2>5, <2>6 DEF Unpassed
  <2>8. s \in Unpassed(T)
    BY <2>5, <2>7 DEF Unpassed
  <2>9. t \in Unpassed(T) /\ \A y \in Unpassed(T) : t <= y
    <3> HIDE DEF t
    <3> QED BY <2>1, <2>8, LeastNat DEF t
  <2> HIDE DEF t
  <2>10. t = s
    BY <1>3, <2>1, <2>2, <2>8, <2>9
  <2> QED BY <2>4, <2>7, <2>8, <2>10 DEF Over
<1> QED BY <1>4, <1>5

----------------------------------------------------------------------------
(* The steps. *)

\* A closing answer is out only when the flow is over, and is backed.
Closing ==
  /\ final.proved \subseteq Proved(stages)
  /\ final.proved # {} => Over(stages)

FInv == IInv /\ AllOK(stages) /\ Closing

AcceptedStep ==
  nudges < NudgeLimit => done(stages) \subseteq done(stages') \/ stages' = {}

LEMMA FirmStep ==
  ASSUME FInv, AllOK(stages'), AllFirm(stages, stages'),
         final' = final \/ final'.proved = {}
  PROVE  AllOK(stages') /\ Closing' /\ AcceptedStep
<1>1. done(stages) \subseteq done(stages') /\ Proved(stages) \subseteq Proved(stages')
  BY KeepFacts, FirmKeeps DEF FInv, IInv
<1>2. Over(stages) => Over(stages')
  BY OverStays DEF FInv, IInv
<1>3. final' = final => Closing'
  BY <1>1, <1>2 DEF FInv, Closing
<1>4. final'.proved = {} => Closing'
  BY DEF Closing
<1> QED BY <1>1, <1>3, <1>4 DEF AcceptedStep

\* A launch is appended to a flow that is not over.
LEMMA LaunchStep ==
  ASSUME FInv, ~Over(stages), AllOK(stages'), AllKeep(stages, stages'), final' = final
  PROVE  AllOK(stages') /\ Closing' /\ AcceptedStep
<1>1. done(stages) \subseteq done(stages')
  BY KeepFacts DEF FInv, IInv
<1>2. final.proved = {}
  BY DEF FInv, Closing
<1> QED BY <1>1, <1>2 DEF Closing, AcceptedStep

\* What the Stop hook makes of a list S that is the file's, less the launches
\* it forgot.
LEMMA StopDecidesKeeps ==
  ASSUME FInv, NEW S, Good(S), AllOK(S), AllFirm(stages, S), NEW s \in Stage \cup {NoStage},
         NEW flight, StopDecides(S, s, flight)
  PROVE  AllOK(stages') /\ Closing' /\ AcceptedStep
<1>1. CASE stages' = S /\ final' = final
  BY <1>1, FirmStep
<1>2. CASE Close(S, flight)
  <2>1. stages' = S /\ Over(S)
    BY <1>2 DEF Close
  <2>2. AcceptedStep
    BY <2>1, KeepFacts, FirmKeeps DEF AcceptedStep, FInv, IInv
  <2>3. \A X : UNION {salvage(S, x) : x \in X} \subseteq Proved(S)
    BY DEF salvage, Of, Proved
  <2>4. final'.proved \subseteq Proved(S)
    BY <1>2, <2>3 DEF Close, Result
  <2> QED BY <2>1, <2>2, <2>4 DEF Closing
<1>3. CASE /\ ~Over(S) /\ nudges >= NudgeLimit /\ final' = final /\ s # NoStage
           /\ \E rep \in Reports(s) : stages' = JudgedFile(S, s, rep, NoAgent)
  <2>1. PICK rep \in Reports(s) : stages' = JudgedFile(S, s, rep, NoAgent)
    BY <1>3
  <2>2. rep \in Report /\ s \in Stage
    BY <1>3 DEF Reports
  <2>3. AllOK(stages')
    BY <2>1, <2>2, JudgedFileKeeps
  <2>4. ~Over(stages)
    BY <1>3, OverStays DEF FInv, IInv
  <2>5. final'.proved = {}
    BY <1>3, <2>4 DEF FInv, Closing
  <2>6. ~(nudges < NudgeLimit)
    BY <1>3, LimitsAssumption DEF FInv, IInv, TypeOK
  <2> QED BY <2>3, <2>5, <2>6 DEF Closing, AcceptedStep
<1>4. CASE Nudge(S, flight) \/ Echo(S, flight)
  BY <1>1, <1>4 DEF Nudge, Echo
<1>5. CASE FallThrough(S, s)
  BY <1>1, <1>3, <1>5 DEF FallThrough
<1> QED BY <1>2, <1>4, <1>5 DEF StopDecides

LEMMA StepKeeps ==
  ASSUME FInv, [Next]_vars
  PROVE  AllOK(stages') /\ Closing' /\ AcceptedStep
<1>0. Good(stages) /\ AllOK(stages) /\ TypeOK
  BY DEF FInv, IInv
<1>1. CASE Begin
  <2>1. stages' = {} /\ final'.proved = {}
    BY <1>1 DEF Begin, NoAnswer
  <2>2. \A s : Of({}, s) = {}
    BY DEF Of
  <2>3. Bad({}) = {} /\ ~StillOpen({}) /\ Ordered({}) /\ Blank({}) /\ Waiting({}) = {}
    BY DEF Bad, StillOpen, Ordered, Blank, Waiting
  <2>4. StageOK({})
    BY <2>3, FS_EmptySet, CapsAssumption DEF StageOK, Fewer
  <2> QED BY <2>1, <2>2, <2>4 DEF AllOK, Closing, AcceptedStep
<1>2. ASSUME NEW s \in Stage, LaunchAdmitted(s)
      PROVE  AllOK(stages') /\ Closing' /\ AcceptedStep
  <2>1. AllOK(stages') /\ AllKeep(stages, stages') /\ final' = final
    BY <1>0, <1>2, AdmittedKeeps DEF LaunchAdmitted
  <2>2. ~Over(stages)
    BY <1>2, StagesAssumption DEF LaunchAdmitted, admits, Over, Stage, NoStage
  <2> QED BY <2>1, <2>2, LaunchStep
<1>3. CASE ClientFails \/ ClientHasNoTasks
  BY <1>0, <1>3, ForgetKeeps, FirmStep DEF ClientFails, ClientHasNoTasks
<1>4. CASE ParentDetour
  <2>1. AllOK(stages') /\ AllFirm(stages, stages')
    BY <1>0, <1>4, CountKeeps, FirmRefl DEF ParentDetour, AllFirm
  <2>2. final' = final \/ final'.proved = {}
    BY <1>4 DEF ParentDetour, refuse_parent, AbortAnswer
  <2> QED BY <2>1, <2>2, FirmStep
<1>5. CASE ParentStopsDeafStage
  BY <1>0, <1>5, EndDeafKeeps, FirmStep DEF ParentStopsDeafStage
<1>6. ASSUME NEW a \in Agents, NEW tool \in {"read", "edit", "shell"},
             WorkerCalls(a, tool)
      PROVE  AllOK(stages') /\ Closing' /\ AcceptedStep
  <2> DEFINE T == Restored(stages, a)
  <2>1. /\ Good(T) /\ InFlight(T) # {} /\ AllOK(T) /\ AllKeep(stages, T)
    BY <1>0, <1>6, RestoredGood, RestoredKeeps DEF WorkerCalls
  <2>2. stages' = Spent(T, a, tool) /\ final' = final
    BY <1>6 DEF WorkerCalls
  <2>3. InFlight(stages) # {} => T = stages
    BY DEF Restored
  <2>4. InFlight(stages) = {} => ~Over(stages)
    BY <1>6 DEF WorkerCalls, Over
  <2> HIDE DEF T
  <2>5. AllOK(stages') /\ AllFirm(T, stages')
    BY <2>1, <2>2, SpentKeeps
  <2>6. AllKeep(stages, stages')
    BY <2>1, <2>5, FirmKeeps, KeepsTrans DEF AllKeep
  <2> QED BY <2>2, <2>3, <2>4, <2>5, <2>6, FirmStep, LaunchStep
<1>7. ASSUME NEW a \in Agents, ContextGuardRefuses(a)
      PROVE  AllOK(stages') /\ Closing' /\ AcceptedStep
  BY <1>0, <1>7, CountKeeps, FirmStep DEF ContextGuardRefuses
<1>8. ASSUME NEW a \in Agents, NEW rep \in Report, WorkerReports(a, rep)
      PROVE  AllOK(stages') /\ Closing' /\ AcceptedStep
  <2> DEFINE s == StageOf(stages, a)
             mine == {e \in InFlight(stages) : a = NoAgent \/ e.agent \in {NoAgent, a}}
  <2>1. s \in Stage
    BY <1>0, <1>8, StageOfIn DEF WorkerReports
  <2>2. mine # {} /\ s = Latest(mine).stage
    BY <1>8 DEF WorkerReports, StageOf
  <2>3. mine \in SUBSET Entry /\ Bounded(mine)
    BY <1>0, BoundedPart DEF Good, InFlight
  <2>4. Latest(mine) \in mine
    <3> HIDE DEF mine
    <3> QED BY <2>2, <2>3, LatestIn
  <2>5. Pending(stages, s) # {}
    <3>1. Latest(mine) \in InFlight(stages)
      BY <2>4
    <3> HIDE DEF mine, s
    <3> QED BY <2>2, <3>1 DEF Pending
  <2> HIDE DEF s
  <2>6. stages' = JudgedFile(stages, s, rep, a) /\ final' = final
    BY <1>8 DEF WorkerReports, s
  <2>7. AllOK(stages') /\ AllFirm(stages, stages')
    BY <1>0, <2>1, <2>5, <2>6, JudgedFileKeeps
  <2> QED BY <2>6, <2>7, FirmStep
<1>9. CASE ClockPasses
  BY <1>0, <1>9, OlderKeeps, FirmStep DEF ClockPasses
<1>10. /\ Good(forget_running(stages, FALSE)) /\ AllOK(forget_running(stages, FALSE))
       /\ AllFirm(stages, forget_running(stages, FALSE))
  BY <1>0, ForgetGood, ForgetKeeps
<1>11. CASE ParentStops
  <2>1. StageOf(stages, NoAgent) \in Stage \cup {NoStage}
    BY <1>0, StageOfIn
  <2> QED BY <1>10, <1>11, <2>1, StopDecidesKeeps DEF ParentStops
<1>12. CASE ParentStopWaits
  BY <1>10, <1>12, FirmStep DEF ParentStopWaits
<1>13. CASE ParentStopResumes
  <2>1. stopStage \in Stage \cup {NoStage} /\ AllFirm(stages, stages)
    BY <1>0, FirmRefl DEF TypeOK, AllFirm
  <2> QED BY <1>0, <1>13, <2>1, StopDecidesKeeps DEF ParentStopResumes
<1>14. ASSUME \/ Resume \/ ParentStopsAborted \/ UNCHANGED vars
              \/ \E a \in Agents : ClientStarts(a)
              \/ \E a \in Agents : WorkerVanishes(a)
       PROVE  AllOK(stages') /\ Closing' /\ AcceptedStep
  <2>1. stages' = stages /\ final' = final
    BY <1>14 DEF Resume, ParentStopsAborted, ClientStarts, WorkerVanishes, vars, fileVars
  <2> QED BY <1>0, <2>1, FirmRefl, FirmStep DEF AllFirm
<1> QED BY <1>1, <1>2, <1>3, <1>4, <1>5, <1>6, <1>7, <1>8, <1>9, <1>11, <1>12,
           <1>13, <1>14 DEF Next

LEMMA InitFInv == Init => FInv
<1> SUFFICES ASSUME Init
             PROVE  FInv
  OBVIOUS
<1>1. stages = {} /\ final.proved = {}
  BY DEF Init, NoAnswer
<1>2. \A s : Of({}, s) = {}
  BY DEF Of
<1>3. Bad({}) = {} /\ ~StillOpen({}) /\ Ordered({}) /\ Blank({}) /\ Waiting({}) = {}
  BY DEF Bad, StillOpen, Ordered, Blank, Waiting
<1>4. StageOK({})
  BY <1>3, FS_EmptySet, CapsAssumption DEF StageOK, Fewer
<1> QED BY <1>1, <1>2, <1>4, InitIInv DEF FInv, AllOK, Closing

LEMMA StepFInv == FInv /\ [Next]_vars => FInv' /\ [AcceptedStep]_vars
BY StepIInv, StepKeeps DEF FInv

----------------------------------------------------------------------------
(* What follows from it. *)

\* However launches, verdicts, kills and restores interleave, nothing of a
\* stage the flow has given up on is in flight.
THEOREM GivenUpStaysFinal == Spec => []GivenUpIsFinal
<1>1. FInv => GivenUpIsFinal
  <2> SUFFICES ASSUME FInv, NEW s \in given_up(stages)
               PROVE  Pending(stages, s) = {}
    BY DEF GivenUpIsFinal
  <2>1. s \in Stage /\ RoundsSpent(Of(stages, s)) /\ ~Accepts(Of(stages, s))
    BY ExhaustedIs, DoneIs DEF given_up
  <2> QED BY <2>1, OfGood DEF FInv, IInv, AllOK, StageOK
<1> QED BY <1>1, InitFInv, StepFInv, PTL DEF Spec

\* For any caps, a stage is refused fewer times than the two add up to.
THEOREM RefusalsBounded == Spec => []BoundedRefusals
<1>1. FInv => BoundedRefusals
  <2> SUFFICES ASSUME FInv, NEW s \in Stage
               PROVE  Cardinality({e \in refused(stages) : e.stage = s}) < RoundCap + SilentCap
    BY DEF BoundedRefusals
  <2>1. {e \in refused(stages) : e.stage = s} = Bad(Of(stages, s))
    BY DEF refused, Bad, Of
  <2> QED BY <2>1 DEF FInv, AllOK, StageOK, Fewer
<1> QED BY <1>1, InitFInv, StepFInv, PTL DEF Spec

\* Whoever reports, is killed or is dropped, a stage once accepted stays
\* accepted until the pushes are spent or another flow begins.
THEOREM AcceptanceStands == Spec => AcceptedSurvives
<1>1. FInv /\ [Next]_vars => FInv' /\ [AcceptedStep]_vars
  BY StepFInv
<1> QED BY <1>1, InitFInv, PTL DEF Spec, AcceptedSurvives, AcceptedStep

\* Whatever happens after the closing answer was rendered, each finding in it
\* is on record in a round of the flow.
THEOREM ClosingStaysProved == Spec => []ClosingIsProved
<1>1. FInv => ClosingIsProved
  BY DEF FInv, Closing, Proved, ClosingIsProved
<1> QED BY <1>1, InitFInv, StepFInv, PTL DEF Spec

=============================================================================
