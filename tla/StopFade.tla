------------------------------ MODULE StopFade ------------------------------
(***************************************************************************)
(* The Stop with a fade-out: chosen tracks go down to silence over some    *)
(* seconds, then the Stop that was asked for happens, and 400 ms later the *)
(* volumes are given back.  A Stop during the fade cancels it, a Stop      *)
(* Break breaks it.  Functions of a record s, as in MultiLoops.            *)
(***************************************************************************)
EXTENDS MultiLoops

CONSTANTS
  Fading,        \* the tracks chosen for the fade-out ({}: it is off)
  FadeLen,       \* how long a fade-out takes (1 to 5 s)
  RestoreDelay,  \* from the Stop to the volumes (400 ms)
  CancelWindow   \* a second Stop this soon after a cancel is the same key (120 ms)

ASSUME StopFadeAssumption ==
  /\ Fading \subseteq Tracks
  /\ FadeLen \in Nat \ {0} /\ RestoreDelay \in Nat /\ CancelWindow \in Nat

NoFade == [state |-> "idle", age |-> 0, before |-> [t \in Fading |-> 0]]

\* nativeRestoreManualStopFadeoutTracks
RestoreFade(s) ==
  [s EXCEPT !.vol = [t \in Tracks |-> IF t \in Fading THEN s.fade.before[t] ELSE s.vol[t]],
            !.fade = NoFade]

\* nativeBreakManualStopFadeout
BreakFade(s) == IF s.fade.state = "idle" THEN s ELSE RestoreFade(s)

StartFade(s) ==
  [s EXCEPT !.fade = [state |-> "active", age |-> 0,
                      before |-> [t \in Fading |-> s.vol[t]]]]

\* The Stop itself, with its nativeClearAllLoopStateAfterStop.
HardStop(s) == [ClearLoops(s) EXCEPT !.play = "stopped", !.queued = FALSE]

\* nativeTryStartManualStopFadeout: does it take the Stop over?
TakesStop(s) == s.play = "playing" /\ Fading # {}

\* What it then does: a repeated key and a Stop while volumes return do nothing.
FadeStop(s) ==
  IF s.sinceCancel < CancelWindow \/ s.fade.state = "restoring" THEN s
  ELSE IF s.fade.state = "active" THEN [RestoreFade(s) EXCEPT !.sinceCancel = 0]
  ELSE StartFade(s)

\* Stop in nativeApplyTransportCommand.
StopCommand(s) == LET r == [s EXCEPT !.fresh = 0]
                  IN  IF TakesStop(r) THEN FadeStop(r) ELSE HardStop(r)

StopBreak(s) == IF s.play = "stopped" THEN [s EXCEPT !.fresh = 0]
                ELSE HardStop(BreakFade([s EXCEPT !.fresh = 0]))

\* The volumes a fade of this age gives.
RampTo(s, age) ==
  [t \in Tracks |-> IF t \in Fading
                    THEN (s.fade.before[t] * (FadeLen - age)) \div FadeLen
                    ELSE s.vol[t]]

Returning(s) == [s EXCEPT !.fade.state = "restoring", !.fade.age = 0]

\* Mutant: the Stop at the end is a Stop like any other.
RampNoBypass(s) ==
  LET age == Least(s.fade.age, FadeLen)
      r   == [s EXCEPT !.vol = RampTo(s, age)]
  IN  IF age < FadeLen THEN r ELSE StopCommand(Returning(r))

\* nativeUpdateManualStopFadeoutOnMainThread.  The Stop at the end of the ramp
\* goes past the fade-out (g_nativeManualStopFadeoutBypass).
Ramp(s) ==
  LET age == Least(s.fade.age, FadeLen)
      r   == [s EXCEPT !.vol = RampTo(s, age)]
  IN  IF age < FadeLen THEN r ELSE HardStop([Returning(r) EXCEPT !.fresh = 0])

\* Mutant: a pause does not end the ramp.
UpdateFadeInPause(s) ==
  CASE s.fade.state = "restoring" -> IF s.fade.age >= RestoreDelay THEN RestoreFade(s) ELSE s
    [] s.fade.state = "active" -> IF s.play # "playing" THEN s ELSE Ramp(s)
    [] OTHER -> s
UpdateFade(s) ==
  CASE s.fade.state = "restoring" -> IF s.fade.age >= RestoreDelay THEN RestoreFade(s) ELSE s
    [] s.fade.state = "active" -> IF s.play # "playing" THEN Returning(s) ELSE Ramp(s)
    [] OTHER -> s
=============================================================================
