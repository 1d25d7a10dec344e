------------------------------ MODULE MCBridge ------------------------------
(* BridgeServer with three commands: a pulse, a selection and another.       *)
EXTENDS BridgeServer, TLC

CONSTANTS p1, s1, o1
MCPulses == {p1}
MCSelections == {s1}
MCOthers == {o1}
=============================================================================
