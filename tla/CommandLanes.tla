---------------------------- MODULE CommandLanes ----------------------------
(* What the bridge promises the apps about the commands they post: two lanes *)
(* served independently of one another.  The selections form one lane, in    *)
(* which only the last one posted is sure to be delivered; everything else   *)
(* waits in the other, first come first served, except that a transport      *)
(* pulse may take the place of older pulses.  A call is taken whole or       *)
(* refused without a trace.                                                  *)
EXTENDS Sublists

CONSTANTS Pulses,       \* timecode_transport_sync commands
          Selections,   \* select_playlist_song, select_region, clear_selection...
          Others,       \* everything else: play, queue, playlist, mixer...
          MaxBatch      \* bound: commands of one call

VARIABLES picks,        \* the selections accepted and not yet applied, in order
          rest,         \* the other commands accepted and not yet applied
          answer        \* what the last call was told
lanes == <<picks, rest, answer>>

Commands == Pulses \cup Selections \cup Others

\* What is out of date once c is accepted: all of it sets the same absolute state.
Superseded(c) == IF c \in Pulses THEN Pulses ELSE IF c \in Selections THEN Selections ELSE {}

\* The lane after c joins it, when its first `kept' commands are already being served.
Joined(lane, kept, c) ==
  SubSeq(lane, 1, kept)
    \o Only(SubSeq(lane, kept + 1, Len(lane)), Commands \ Superseded(c))
    \o <<c>>

\* The lane after the commands cs joined it, one after the other.
Join(lane, kept, cs) ==
  LET after[i \in 0 .. Len(cs)] ==
        IF i = 0 THEN lane ELSE Joined(after[i - 1], kept, cs[i])
  IN after[Len(cs)]

Init == picks = <<>> /\ rest = <<>> /\ answer = "none"

Accept(cs) ==
  /\ \E kept \in 0 .. Len(picks) :
       picks' = Join(picks, kept, Only(cs, Selections))
  /\ \E kept \in 0 .. Len(rest) :
       rest' = Join(rest, kept, Only(cs, Commands \ Selections))
  /\ answer' = "queued"

Refuse == answer' = "busy" /\ UNCHANGED <<picks, rest>>

ApplySelection == picks # <<>> /\ picks' = Tail(picks) /\ UNCHANGED <<rest, answer>>
ApplyOther == rest # <<>> /\ rest' = Tail(rest) /\ UNCHANGED <<picks, answer>>

\* Entering bypass discards what waits.
Discard == picks' = <<>> /\ rest' = <<>> /\ UNCHANGED answer

\* One posted batch holds each command once.
Calls == {cs \in SeqOf(Commands, MaxBatch) : cs # <<>> /\ IsInjective(cs)}

Next ==
  \/ \E cs \in Calls : Accept(cs)
  \/ Refuse
  \/ ApplySelection
  \/ ApplyOther
  \/ Discard

Order == Init /\ [][Next]_lanes
Service == WF_lanes(ApplySelection) /\ WF_lanes(ApplyOther)
Spec == Order /\ Service
=============================================================================
