------------------------------- MODULE Mirror -------------------------------
(***************************************************************************)
(* What a copy of a project on a second computer promises of the things    *)
(* both computers hold all along: the copy follows the original, may skip  *)
(* states of it, and never goes back.                                      *)
(***************************************************************************)
EXTENDS Naturals

CONSTANT Things

VARIABLES
    source,     \* the age of each thing in the original: its last change
    copy        \* the age of the state the copy shows

vars == <<source, copy>>

Init ==
    /\ source = [x \in Things |-> 0]
    /\ copy = source

\* The original changes.
Edit(x) ==
    /\ source[x] < source'[x]
    /\ source' = [source EXCEPT ![x] = source'[x]]
    /\ UNCHANGED copy

\* The copy takes over a state the original has or had, newer than its own.
Follow(x) ==
    /\ copy[x] < copy'[x]
    /\ copy'[x] <= source[x]
    /\ copy' = [copy EXCEPT ![x] = copy'[x]]
    /\ UNCHANGED source

Next == \E x \in Things : Edit(x) \/ Follow(x)

Spec == Init /\ [][Next]_vars
=============================================================================
