------------------------------ MODULE MCProxy ------------------------------
(* Instances of Proxy for TLC. *)
EXTENDS Proxy, TLC

AgentSymmetry == Permutations(Agents)

\* What was sent matters up to the last event and the number of blocks, and not
\* at all once nothing more is sent of the message; nor do the locals then.
View == <<at, prompt, fails, due, chunks, log, alone,
          [a \in Agents |-> IF at[a] = "streaming" THEN said[a] ELSE Unsaid],
          [a \in Agents |-> IF Going(a) /\ heard[a] # <<>>
                            THEN <<Last(heard[a]), Client!Events(heard[a], "content_block_start")>>
                            ELSE <<>>]>>
=============================================================================
