---------------------------- MODULE MCAgentTask ----------------------------
(* The loops, arch's being repohard's; blocks of two lines and the repeated line. *)
EXTENDS AgentTask

MCLoops == Benches \ {Arch}
MCSizes == {2}

=============================================================================
