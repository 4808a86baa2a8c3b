-------------------------- MODULE MCDepthPipeline --------------------------
(***************************************************************************)
(* DepthPipeline over one file and the flows of cc_flow.                   *)
(***************************************************************************)
EXTENDS DepthPipeline

Ask(adapter, stages) == [adapter |-> adapter, stages |-> stages, other |-> FALSE]
MCRequests ==
  {Ask("review", <<"claims", "adversary">>), Ask("implement", <<"plan", "implement", "verify">>),
   Ask("implement", <<"plan", "verify">>), Ask("review", <<"claims", "verdict">>)}
   \cup {[Ask("review", <<"survey">>) EXCEPT !.other = TRUE]}
   \cup {Ask(a, <<"claims">>) : a \in {"refactor_proposal", "ops_perf", "debug"}}

\* The file as it was, mended, with a line put in before the others, and with
\* the same lines in another order.
MCText ==
  [old |-> <<"short", "long">>, new |-> <<"short", "mended">>,
   wired |-> <<"wired", "short", "long">>, turned |-> <<"long", "short">>]
MCTelling == [v \in DOMAIN MCText |-> ToSet(MCText[v]) \ {"short"}]

Quote(line, at) == [kind |-> "quote", file |-> "f", says |-> line, at |-> at]
Command(said) == [kind |-> "command", cmd |-> "test", says |-> said]
Claim(ps) == [pieces |-> ps, opinion |-> FALSE, high |-> FALSE, disproof |-> None]
Claims ==
  {Claim(ps) : ps \in {{}, {Quote("long", 2)}, {Quote("long", 1)}, {Quote("mended", 0)},
                       {Command("passed")}, {[kind |-> "log", says |-> "slow"], [kind |-> "log", says |-> "fast"]},
                       {[kind |-> "absence", says |-> "wired"], Quote(None, 2)}}}
  \cup {[Claim({Quote("long", 2)}) EXCEPT !.opinion = TRUE],
        [Claim({Command("blocked")}) EXCEPT !.high = TRUE, !.disproof = "test"]}
Answer(cs, u, ps) == [claims |-> cs, unknown |-> u, predicts |-> ps]
MCAnswers ==
  {Answer(<<c>>, FALSE, {}) : c \in Claims} \cup {Answer(<<>>, u, {}) : u \in BOOLEAN}
  \cup {Answer(<<Claim({Quote("long", 2)})>>, TRUE, {"value"})}
  \cup {Answer(<<Claim({}), Claim({Quote("long", 2)}), Claim({})>>, TRUE, {})}
=============================================================================
