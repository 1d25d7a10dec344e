------------------------------- MODULE Stage --------------------------------
(***************************************************************************)
(* What the extension does to the mixer while a song plays: the fade-out   *)
(* of a Stop and the Multiloops, composed as the timer of REAPER's main    *)
(* thread calls them, with the commands and the playback they run against. *)
(* Both take volumes from the operator and must give them back.            *)
(***************************************************************************)
EXTENDS StopFade

CONSTANTS
  Marks,        \* the markers of the song, those of the stretches included
  PlayFrom,     \* where the operator may start playback
  SeekTo,       \* where the operator may click while it plays
  Levels,       \* volumes and limits the operator may set
  Commands,     \* the kinds of command a run has
  FreshLife,    \* a Play is unconfirmed at most this long (500 ms)
  PartReach,    \* a jump back is seen within this distance (1 s)
  MaxPos,       \* the end of the project
  MaxLag,       \* the time that may pass between two calls of the timer
  MaxCommands   \* bound on the commands of the operator

ASSUME StageNumbers ==
  /\ FreshLife \in Nat /\ PartReach \in Nat /\ MaxLag \in Nat /\ MaxCommands \in Nat
  /\ MaxPos \in Nat /\ SongEnd <= MaxPos
ASSUME StagePlaces ==
  /\ Marks \subseteq 0..MaxPos /\ PlayFrom \subseteq 0..MaxPos /\ SeekTo \subseteq 0..MaxPos
  /\ Levels \subseteq 0..Full

VARIABLES
  st,     \* the extension and what it commands in REAPER, see StateOf
  mix,    \* what the operator set: the volume and the mute of every track
  letGo,  \* the stretch the operator let go of and playback has not left
  crossed, \* did a pre-fade meet what a stretch let go of had not given back?
  lag, cmds

vars == <<st, mix, letGo, crossed, lag, cmds>>

Volumes   == 0..Full
Positions == 0..MaxPos
SlotOrNone == Paired \cup {None}
Rows   == [vol : Volumes, target : Volumes]
Ranges == [from : Positions, to : Positions]
MaxAge == FadeLen + RestoreDelay

\* REAPER's transport, loop and mixer (play .. ms), the settings of the slots
\* (limit .. bypass), the fade-out (fade, sinceCancel), the Multiloop runtime
\* (rows .. paused), and from the engine: the armed part, a queue that waits,
\* an unconfirmed Play, the playback last published.
StateOf(levels, mutes) ==
  [play |-> "stopped", pos |-> 0, repeat |-> FALSE, range |-> None,
   vol |-> levels, ms |-> mutes,
   limit |-> [k \in Slots |-> [t \in Tracks |-> 0]],
   enabled |-> [k \in Slots |-> k \in Paired], msOn |-> [k \in Slots |-> k \in Paired],
   bypass |-> FALSE, request |-> "none", fade |-> NoFade, sinceCancel |-> CancelWindow,
   rows |-> NoRows, mutes |-> NoRows, out |-> FALSE, in |-> FALSE, from |-> 0, to |-> 1,
   active |-> None, released |-> None,
   paused |-> [on |-> FALSE, moved |-> FALSE, at |-> 0],
   armed |-> None, origin |-> 0, queued |-> FALSE, fresh |-> 0, seen |-> FALSE]

Init ==
  /\ mix = [vol |-> [t \in Tracks |-> Full], ms |-> [t \in Tracks |-> FALSE]]
  /\ st = StateOf(mix.vol, mix.ms)
  /\ letGo = None /\ crossed = FALSE /\ lag = 0 /\ cmds = 0

-----------------------------------------------------------------------------
(* The timer                                                                 *)

\* Bypass takes back the loop of the Multiloops too.
Silenced(s) ==
  [Dropped(IF s.active # None THEN NoLoop(s) ELSE s) EXCEPT !.released = None]

\* The request a command left, if it changes anything.
TakeRequest(s) ==
  LET on == CASE s.request = "toggle" -> ~s.bypass
              [] s.request = "none"   -> s.bypass
              [] OTHER                -> s.request = "on"
      r  == [s EXCEPT !.request = "none", !.bypass = on]
  IN  IF on /\ ~s.bypass THEN Silenced(r) ELSE r

\* nativeProcessMultiLoops
ProcessLoops(s) ==
  LET r == TakeRequest(s)
  IN  IF r.play # "playing" \/ r.pos >= SongEnd
      THEN [Dropped(r) EXCEPT !.released = None]
      ELSE IF r.bypass THEN Silenced(r)
      ELSE Follow(FadeIn(FadeOut(VisitAll(r))))

Apart(a, b) == a - b > ResumeTol \/ b - a > ResumeTol

\* A pause freezes the Multiloops, with the position it began at.
SeePause(s) ==
  [s EXCEPT !.paused = [on |-> TRUE,
                        moved |-> s.paused.on /\ (s.paused.moved \/ s.pos # s.paused.at),
                        at |-> IF s.paused.on THEN s.paused.at ELSE s.pos]]

\* Playback goes on; somewhere else, and the Multiloops start from nothing.
SeeResume(s) ==
  LET elsewhere == s.paused.on /\ \/ s.paused.moved
                                  \/ s.play = "playing" /\ Apart(s.pos, s.paused.at)
      r == [s EXCEPT !.paused = [on |-> FALSE, moved |-> FALSE, at |-> 0]]
  IN  IF elsewhere
      THEN [RestoreTracks(IF s.active # None \/ Holds(s) THEN NoLoop(r) ELSE r)
              EXCEPT !.active = None, !.released = None]
      ELSE r

\* nativeProcessMultiLoopsOnMainThread; late: the Play is still unconfirmed.
\* Mutant: a pause is a stop.
LoopTickInPause(s, late) ==
  LET r == SeeResume(s) IN IF late THEN r ELSE ProcessLoops([r EXCEPT !.fresh = 0])
LoopTick(s, late) ==
  IF s.play = "paused" THEN SeePause(s)
  ELSE LET r == SeeResume(s) IN IF late THEN r ELSE ProcessLoops([r EXCEPT !.fresh = 0])

\* A stop seen with a queue waiting is prepared, and drops all loops
\* (nativePrepareStopSelectionFromQueueOrCurrent).  A pause is not playing.
\* hushed: the extension stopped playback less than 1.8 s ago.
PrepareStop(s, hushed) ==
  IF s.seen /\ s.play # "playing" /\ s.queued /\ ~hushed
  THEN [ClearLoops(s) EXCEPT !.queued = FALSE] ELSE s

\* Has playback reached the armed part?
PartReached(s) ==
  /\ s.armed # None /\ s.play = "playing"
  /\ IF s.origin <= s.armed THEN s.pos >= s.armed
     ELSE s.pos < s.origin /\ s.armed <= s.pos /\ s.pos <= s.armed + PartReach

InRange(range, pos) == range # None /\ range.from <= pos /\ pos < range.to

\* nativeReleaseLoopAfterPartsArrival
ReleaseLoop(s, target) ==
  IF ~s.repeat \/ InRange(s.range, target) \/ InRange(s.range, s.pos) THEN s
  ELSE IF s.active # None /\ ~Within(s.active, s.pos) THEN Dropped(NoLoop(s))
  ELSE NoLoop(s)

ArriveAtPart(s) ==
  IF PartReached(s) THEN ReleaseLoop([s EXCEPT !.armed = None], s.armed) ELSE s

\* What nativeRebuildState does to loops and mixer.
Engine(s, hushed) ==
  [ArriveAtPart(PrepareStop(s, hushed)) EXCEPT !.seen = (s.play = "playing")]

\* One call of the timer: the fade-out, then the Multiloops, then, less often,
\* the engine.
Timer(s, late, engine, hushed) ==
  LET r == LoopTick(UpdateFade(s), late) IN IF engine THEN Engine(r, hushed) ELSE r

\* Is playback still in the stretch that was let go of?
Stays(s) == IF letGo # None /\ s.play # "stopped" /\ Within(letGo, s.pos) THEN letGo ELSE None

\* The mutes of a stretch that was let go of and then turned off: no timer call
\* gives them back, for only the stretches turned on are looked at, though the comment
\* at 70874-70876 says that they end where the stretch does.
Stranded(s) == s.released # None /\ HoldsMutes(s) /\ ~s.enabled[s.released]

\* Playback is in the lead of a stretch while an Auto Fader still comes back, or
\* mutes are stranded.
Crosses(s) == (s.in \/ Stranded(s)) /\ \E k \in Paired : s.enabled[k] /\ InLead(k, s.pos)

Cycle ==
  \E late \in IF st.fresh > 0 THEN BOOLEAN ELSE {FALSE}, engine \in BOOLEAN, hushed \in BOOLEAN :
    /\ st' = Timer(st, late, engine, hushed)
    /\ letGo' = IF st.queued /\ ~st'.queued THEN None ELSE Stays(st')
    /\ crossed' = (crossed \/ Crosses(st))
    /\ lag' = 0
    /\ UNCHANGED <<mix, cmds>>

-----------------------------------------------------------------------------
(* Playback and its time                                                     *)

\* REAPER plays on: to the next unit, back to the start of its loop, or to an
\* armed part, whose seek it performs at a moment of its own.
NextPositions(s) ==
  IF s.play # "playing" THEN {s.pos}
  ELSE {IF s.repeat /\ s.range # None /\ s.pos + 1 = s.range.to THEN s.range.from
        ELSE Least(s.pos + 1, MaxPos)}
       \cup (IF s.armed = None THEN {} ELSE {s.armed})

Tick ==
  /\ lag < MaxLag
  /\ \E p \in NextPositions(st) :
       st' = [st EXCEPT !.pos = p,
                        !.fade.age = IF st.fade.state = "idle" THEN 0
                                     ELSE Least(@ + 1, MaxAge),
                        !.sinceCancel = Least(@ + 1, CancelWindow),
                        !.fresh = IF @ > 0 THEN @ - 1 ELSE 0]
  /\ letGo' = Stays(st')
  /\ lag' = lag + 1
  /\ UNCHANGED <<mix, crossed, cmds>>

\* REAPER stops at the end of the project.
ProjectEnds ==
  /\ st.play = "playing" /\ st.pos = MaxPos
  /\ st' = [st EXCEPT !.play = "stopped"] /\ letGo' = None
  /\ UNCHANGED <<mix, crossed, lag, cmds>>

-----------------------------------------------------------------------------
(* Commands                                                                  *)

Command(kind) == kind \in Commands /\ cmds < MaxCommands /\ cmds' = cmds + 1

\* A command of the kind makes the state s and leaves the operator's mix.
Makes(kind, s) == Command(kind) /\ st' = s /\ UNCHANGED <<mix, crossed, lag>>

Stop == Makes("stop", StopCommand(st)) /\ letGo' = Stays(st')
BreakStop == Makes("stopbreak", StopBreak(st)) /\ letGo' = Stays(st')

\* A Stop of REAPER the extension intercepts, and one it does not see.
HookedStop == Makes("hookstop", HardStop(st)) /\ letGo' = None
ReaperStops ==
  st.play # "stopped" /\ Makes("reaperstop", [st EXCEPT !.play = "stopped"]) /\ letGo' = None

\* Play of the extension, and REAPER's own.
Play ==
  \E p \in PlayFrom :
    /\ Makes("play", [ClearLoops(st) EXCEPT !.play = "playing", !.pos = p,
                        !.fresh = IF st.play = "stopped" THEN FreshLife ELSE 0])
    /\ letGo' = None
HookedPlay ==
  \E p \in PlayFrom :
    /\ st.play = "stopped"
    /\ Makes("hookplay", [st EXCEPT !.play = "playing", !.pos = p]) /\ letGo' = None

\* The key, and the command of the Director, which gives up an unconfirmed Play.
\* A pause begun before the timer saw the last one end counts as part of that one,
\* and what was played in between as a jump.
Pause ==
  \E fresh \in {st.fresh, 0} :
    /\ st.play # "stopped"
    /\ Makes("pause", [st EXCEPT !.play = IF @ = "playing" THEN "paused" ELSE "playing",
                                 !.fresh = fresh])
    /\ letGo' = IF st.play = "playing" /\ st.paused.on THEN None ELSE letGo

Seek ==
  \E p \in SeekTo :
    /\ st.play # "stopped"
    /\ Makes("seek", [st EXCEPT !.pos = p]) /\ letGo' = None

\* nativeFindTransitionLoopRange: the markers around playback.
Segment(pos) ==
  LET bounds == {m \in Marks \cup {0, SongEnd} : m <= SongEnd}
  IN  [from |-> CHOOSE m \in bounds : m <= pos /\ \A o \in bounds : o <= pos => o <= m,
       to   |-> CHOOSE m \in bounds : m > pos /\ \A o \in bounds : o > pos => m <= o]

\* The stretch that repeats, when the operator is in it and no pause may still
\* turn out to be a jump.
InActive == IF /\ st.active # None /\ st.armed = None /\ st.play # "stopped"
               /\ ~st.paused.on /\ Within(st.active, st.pos)
            THEN st.active ELSE None

\* nativeApplyLoopCommand
LoopOn  == /\ Makes("loop", IF st.pos < SongEnd THEN LoopOver(st, Segment(st.pos))
                            ELSE NoLoop(st))
           /\ letGo' = None
LoopOff == Makes("loop", NoLoop(st)) /\ letGo' = InActive

\* nativeApplyMultiLoopCommand: a slot that is turned off while it repeats is
\* let go of; its mutes end at once, its Auto Fader comes back.
SlotOn == \E k \in Paired :
  Makes("slot", [st EXCEPT !.enabled[k] = TRUE]) /\ UNCHANGED letGo
SlotOff == \E k \in Paired :
  LET r == [st EXCEPT !.enabled[k] = FALSE, !.msOn[k] = FALSE]
      quiet == [NoLoop(r) EXCEPT !.ms = Unmuted(st), !.mutes = NoRows]
      end   == IF st.pos < To[k] THEN To[k] ELSE st.pos + 1
  IN  /\ Makes("slot", IF st.active = k THEN LetGo(quiet, k, end) ELSE r)
      /\ letGo' = IF st.active = k THEN InActive ELSE letGo

ToggleMs == \E k \in Paired :
  /\ st.enabled[k]
  /\ Makes("ms", [st EXCEPT !.msOn[k] = ~@]) /\ UNCHANGED letGo

\* The limit of the stretch that repeats is heard at once.
SetLimit == \E k \in Paired, t \in Tracks, v \in Levels :
  LET r == [st EXCEPT !.limit[k][t] = v]
      target == FadeTarget(st.rows[t][1].vol, v)
      heard  == t \in AutoTracks[k] /\ st.active = k /\ st.rows[t] # <<>>
  IN  /\ Makes("limit", IF heard THEN [r EXCEPT !.rows[t][1].target = target, !.vol[t] = target]
                        ELSE r)
      /\ UNCHANGED letGo

\* Bypass of the Multiloops: a request the next cycle takes.
RequestBypass == \E request \in {"on", "off", "toggle"} :
  Makes("bypass", [st EXCEPT !.request = request]) /\ letGo' = None

Queue == Makes("queue", [st EXCEPT !.queued = ~@]) /\ UNCHANGED letGo

\* nativeApplyMarkerCommand: while playback is halted the seek is done at once;
\* another part keeps the origin of the first.
GoToPart == \E m \in Marks :
  /\ Makes("part", IF st.play # "playing" THEN [st EXCEPT !.armed = None, !.pos = m]
                   ELSE IF st.armed # None THEN [st EXCEPT !.armed = m]
                   ELSE [st EXCEPT !.armed = m, !.origin = st.pos])
  /\ letGo' = None
\* Esc that only clears; the seek of the other Esc is a Seek of its own.
DisarmPart == Makes("part", [st EXCEPT !.armed = None]) /\ UNCHANGED letGo

\* nativeReleaseRuntimeControlOnMainThread
ReleaseControl ==
  LET r == BreakFade(st)
  IN  /\ Makes("release", [Dropped(IF st.active # None THEN NoLoop(r) ELSE r)
                             EXCEPT !.released = None])
      /\ letGo' = None

\* The operator sets a volume or a mute that nobody else holds.
Mix ==
  /\ Command("mix")
  /\ \E t \in Tracks :
       \/ \E v \in Levels :
            /\ st.rows[t] = <<>> /\ (t \in Fading => st.fade.state = "idle")
            /\ mix' = [mix EXCEPT !.vol[t] = v] /\ st' = [st EXCEPT !.vol[t] = v]
       \/ /\ st.mutes[t] = <<>>
          /\ mix' = [mix EXCEPT !.ms[t] = ~@] /\ st' = [st EXCEPT !.ms[t] = ~@]
  /\ UNCHANGED <<letGo, crossed, lag>>

Next ==
  \/ Cycle \/ Tick \/ ProjectEnds
  \/ Stop \/ BreakStop \/ HookedStop \/ ReaperStops
  \/ Play \/ HookedPlay \/ Pause \/ Seek
  \/ LoopOn \/ LoopOff \/ SlotOn \/ SlotOff \/ ToggleMs \/ SetLimit
  \/ RequestBypass \/ Queue \/ GoToPart \/ DisarmPart \/ ReleaseControl \/ Mix

Spec == Init /\ [][Next]_vars
\* REAPER goes on calling the timer, and time passes: only Cycle takes lag back
\* to 0, and only Tick away from it.
FairSpec == Spec /\ []<>(lag = 0) /\ []<>(lag > 0)

-----------------------------------------------------------------------------
(* Properties                                                                *)

Fades == [state : {"idle", "active", "restoring"}, age : 0..MaxAge,
          before : [Fading -> Volumes]]
States ==
  [play : {"stopped", "playing", "paused"}, pos : Positions,
   repeat : BOOLEAN, range : Ranges \cup {None},
   vol : [Tracks -> Volumes], ms : [Tracks -> BOOLEAN],
   limit : [Slots -> [Tracks -> Volumes]],
   enabled : [Slots -> BOOLEAN], msOn : [Slots -> BOOLEAN],
   bypass : BOOLEAN, request : {"none", "on", "off", "toggle"},
   fade : Fades, sinceCancel : 0..CancelWindow,
   rows : [Tracks -> Seq(Rows)], mutes : [Tracks -> Seq(BOOLEAN)],
   out : BOOLEAN, in : BOOLEAN, from : Int, to : Nat,
   active : SlotOrNone, released : SlotOrNone,
   paused : [on : BOOLEAN, moved : BOOLEAN, at : Positions],
   armed : Positions \cup {None}, origin : Positions,
   queued : BOOLEAN, fresh : 0..FreshLife, seen : BOOLEAN]

\* Every variable has its type.
StageTypeOK ==
  /\ st \in States
  /\ mix \in [vol : [Tracks -> Volumes], ms : [Tracks -> BOOLEAN]]
  /\ letGo \in SlotOrNone /\ crossed \in BOOLEAN /\ lag \in 0..MaxLag /\ cmds \in 0..MaxCommands

\* Neither fade-out nor Multiloops ever make a track louder than the operator
\* set it, whatever limits and volumes meet (comment at 70588).
NeverLouder == \A t \in Tracks : st.vol[t] <= mix.vol[t]

\* What will be given back, and what is on the desk when nothing is held, is
\* what the operator set: a volume or a mute taken for a while is never taken
\* for the operator's own, unless a pre-fade met one that was not given back.
MixKept == ~crossed => \A t \in Tracks :
  /\ mix.vol[t] = IF st.rows[t] # <<>> THEN Newest(st.rows[t]).vol
                  ELSE IF t \in Fading /\ st.fade.state # "idle" THEN st.fade.before[t]
                  ELSE st.vol[t]
  /\ mix.ms[t] = IF st.mutes[t] # <<>> THEN Newest(st.mutes[t]) ELSE st.ms[t]

\* A stretch the operator let go of does not begin to repeat again while
\* playback stays in it (70915-70945).
LetOut == letGo # None => ~st.repeat

\* A fade-out that has run ends in a Stop: the volumes never come back while
\* the song that was faded plays on (76844-76847, 76885-76890).
FadeOutStops ==
  [][st.fade.state = "active" /\ st'.fade.state = "restoring" => st'.play # "playing"]_vars

\* A pause freezes the Multiloops: no call of the timer gives back a track or
\* lets go of a loop, unless a queued song waits (comment at 71001-71002; 71409-71415).
PauseFreezes ==
  [][Cycle /\ st.play = "paused" /\ ~st.queued =>
       /\ st'.active = st.active /\ st'.released = st.released /\ st'.repeat = st.repeat
       /\ st'.rows = st.rows /\ st'.mutes = st.mutes /\ st'.ms = st.ms
       /\ \A t \in Tracks \ Fading : st'.vol[t] = st.vol[t]]_vars

\* Every fade-out comes to its end, also when playback is paused or stops by
\* itself meanwhile.
FadeEnds == st.fade.state # "idle" ~> st.fade.state = "idle"

\* After playback has stopped, however it stopped, the desk comes back to what
\* the operator set, with the same exception.
MixReturns == st.play = "stopped" ~>
  (st.play # "stopped" \/ crossed \/ (st.vol = mix.vol /\ st.ms = mix.ms))
=============================================================================
