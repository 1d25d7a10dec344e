------------------------------ MODULE MCStage -------------------------------
(***************************************************************************)
(* A small song with two Multiloops, and the commands of the run.  One     *)
(* track is chosen for the fade-out of a Stop and muted by both stretches, *)
(* the other is faded by both.                                             *)
(***************************************************************************)
EXTENDS Stage, TLC

CONSTANTS voice, band

TwoTracks == {voice, band}
TwoPairs  == {1, 2}
PairFrom  == (1 :> 2) @@ (2 :> 6) @@ (3 :> 0) @@ (4 :> 0)
PairTo    == (1 :> 4) @@ (2 :> 8) @@ (3 :> 0) @@ (4 :> 0)
PairLead  == [k \in 1..4 |-> 2]
FadeBand  == [k \in 1..4 |-> {band}]
MuteVoice == [k \in 1..4 |-> {voice}]
FadeVoice == {voice}

PairMarks == {2, 4, 6, 8}
Starts    == {0, 3}
Clicks    == {0, 3, 7}
Half      == {1}
HalfFull  == {1, 2}

StageCommands == {"stop", "stopbreak", "hookstop", "reaperstop", "play", "hookplay",
                  "pause", "seek", "loop", "slot", "ms", "limit", "bypass", "queue",
                  "part", "release", "mix"}
=============================================================================
