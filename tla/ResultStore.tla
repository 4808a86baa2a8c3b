---------------------------- MODULE ResultStore ----------------------------
(* What the queue promises of the results of one model: in a pass it clears *)
(* them at most once, with the first row it enters, and from then on it only *)
(* enters rows of tasks that have none.                                      *)
CONSTANTS Models, Tasks, Kinds, Absent

VARIABLES
  rows,    \* rows[m][t]: what the latest file of model m says of task t
  cleared  \* the models whose results this pass may no longer clear

Init ==
  /\ rows \in [Models -> [Tasks -> Kinds \cup {Absent}]]
  /\ cleared = {}

Begin(m, t, k) ==
  /\ m \notin cleared
  /\ cleared' = cleared \cup {m}
  /\ rows' = [rows EXCEPT ![m] = [u \in Tasks |-> IF u = t THEN k ELSE Absent]]

Enter(m, t, k) ==
  /\ rows[m][t] = Absent
  /\ rows' = [rows EXCEPT ![m][t] = k]
  /\ cleared' = cleared \cup {m}

\* The queue is started again after a crash.
NewPass == cleared' = {} /\ UNCHANGED rows

Next ==
  \/ \E m \in Models, t \in Tasks, k \in Kinds : Begin(m, t, k) \/ Enter(m, t, k)
  \/ NewPass

Spec == Init /\ [][Next]_<<rows, cleared>>

=============================================================================
