----------------------------- MODULE MCFlowLock -----------------------------
(* Instances of FlowLock for TLC. *)
EXTENDS FlowLock, TLC

HookSymmetry == Permutations(Hooks) \cup Permutations(Files \ {Opened})

=============================================================================
