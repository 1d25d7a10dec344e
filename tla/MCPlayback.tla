---------------------------- MODULE MCPlayback ----------------------------
(***************************************************************************)
(* Small projects for PlaybackAutomation, and the settings, markers and    *)
(* command kinds of its runs.                                              *)
(***************************************************************************)
EXTENDS PlaybackAutomation, TLC

CONSTANTS sa, sb, sc, sd  \* songs

\* A show: sa and sb are glued; a gap and a block lie before sc.
ShowSongs    == {sa, sb, sc}
ShowStart    == (sa :> 0) @@ (sb :> 3) @@ (sc :> 8)
ShowEnd      == (sa :> 3) @@ (sb :> 6) @@ (sc :> 10)
ShowParent   == [s \in ShowSongs |-> None]
ShowPlaylist == <<sa, sb, Block, sc>>

\* A family: sb and sc are the children that fill a; sd follows after a gap.
FamilySongs    == {sa, sb, sc, sd}
FamilyStart    == (sa :> 0) @@ (sb :> 0) @@ (sc :> 3) @@ (sd :> 8)
FamilyEnd      == (sa :> 6) @@ (sb :> 3) @@ (sc :> 6) @@ (sd :> 10)
FamilyParent   == (sa :> None) @@ (sb :> sa) @@ (sc :> sa) @@ (sd :> None)
FamilyPlaylist == <<sa, sb, sc, sd>>

TwoMarkers == {1, 9}

AllSettings == [mode : {"off", "auto1", "auto2"}, atbl : BOOLEAN, autoStop : BOOLEAN]
Auto1Only   == {s \in AllSettings : s.mode = "auto1" /\ ~s.atbl}
Auto2Only   == {s \in AllSettings : s.mode = "auto2" /\ ~s.atbl}
BlockAuto   == {s \in AllSettings : s.mode = "auto1" /\ s.atbl}
Stopping    == {s \in AllSettings : ~s.atbl /\ s.autoStop}
NoBlocks    == {s \in AllSettings : ~s.atbl}

QueueCommands  == {"queue", "clear", "auto", "atbl", "play", "stop", "hookstop", "reaperstop"}
PlayCommands   == {"play", "select", "unselect", "stop", "esc", "hookplay", "pause", "autostop", "queue", "part", "hold"}
PartsCommands  == {"hookplay", "hookstop", "queue", "clear", "part", "loop", "hold"}
PlayOnly       == {"play"}
StopTwice      == {"play", "stop", "reaperstop"}
=============================================================================
