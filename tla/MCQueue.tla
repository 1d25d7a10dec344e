------------------------------ MODULE MCQueue -------------------------------
(* CommandQueue on small sets of commands. *)
EXTENDS CommandQueue, TLC

CONSTANTS p1, p2, s1, s2, o1, o2
MCPulses == {p1, p2}
MCSelections == {s1, s2}
MCOthers == {o1, o2}
=============================================================================
