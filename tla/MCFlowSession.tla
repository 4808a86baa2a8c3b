--------------------------- MODULE MCFlowSession ---------------------------
(* Instances of FlowSession for TLC. *)
EXTENDS FlowSession, TLC

\* One call is within the budget of any stage here, two are not.
SmallBudget == [s \in Stage |-> 1]

AgentSymmetry == Permutations(Agents)

\* States that differ only in how the places of the list are numbered, or in
\* who reported a finished round that is not its stage's latest entry, behave
\* alike.
Seen(S) ==
  {[e EXCEPT !.at = Cardinality({f \in S : f.at <= e.at}),
             !.agent = IF e.verdict = "none" \/ e = Latest(Of(S, e.stage))
                       THEN @ ELSE NoAgent] : e \in S}
View == <<Seen(stages), nudges, balked, aborted, disclosed, handed, final, clientVars>>

=============================================================================
