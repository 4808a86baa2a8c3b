---------------------------- MODULE MCBenchQueue ----------------------------
(* Instances of BenchQueue for TLC. *)
EXTENDS BenchQueue

\* Only the models themselves are told apart, and Shared is one of them: no
\* symmetry.
=============================================================================
