------------------------ MODULE PlaybackAutomation ------------------------
(***************************************************************************)
(* The live-show playback engine: the queue, Auto 1 / Auto 2 / AT-BL, Auto *)
(* Stop, Parts and the protection of a Play that has just been requested.  *)
(* Every handler runs on REAPER's main thread, so each is one action.      *)
(* Between two of them REAPER plays on by itself (Elapse), and commands of *)
(* the panel, the Director app and the keyboard arrive in any order.       *)
(*                                                                         *)
(* One unit of time is the window Auto Stop has to see the end of a song   *)
(* (250 ms).  A cycle of the engine (nativeRebuildState) runs every 220 ms *)
(* while the transport is not stopped; MaxLag is how many units may pass   *)
(* without it.  Stopped, the engine may idle (IdleLag); and there is no    *)
(* cycle at all, for as long as that takes, while the user holds an arrow  *)
(* key in the panel (held).                                                *)
(***************************************************************************)
EXTENDS SongLayout

CONSTANTS
  Markers,       \* positions of the Parts markers
  MaxPos,        \* the end of the project, where REAPER stops by itself
  Settings,      \* the saved settings the engine may start with
  Commands,      \* the kinds of command the environment gives
  MaxCommands,   \* bound: how many of them
  SeekLead,      \* Auto 1 asks for the seek this long before the end (2 s)
  StopWindow,    \* how late the end may still be seen (250 ms)
  PendingLife,   \* life of an unconfirmed play target (500 ms)
  StaleTol,      \* reading before a glued target taken for the target (75 ms)
  PartsGrace,    \* an armed part shows at least this long (150 ms)
  SuppressLife,  \* after a stop, no second preparation for this long (1.8 s)
  MaxStale,      \* REAPER: how long a started Play reports the old position
  MaxLag,        \* the engine: units of time between two cycles
  IdleLag,       \* the same while the transport is stopped (1 s)
  MaxLate        \* bound: units counted since the last cycle

ASSUME MarkerAssumption == Markers \subseteq 0..MaxPos
ASSUME SettingsAssumption ==
  Settings \subseteq [mode : {"off", "auto1", "auto2"}, atbl : BOOLEAN, autoStop : BOOLEAN]
ASSUME TimeAssumption ==
  /\ {MaxPos, SeekLead, StopWindow, PendingLife, StaleTol, PartsGrace,
      SuppressLife, MaxStale, MaxLag, IdleLag, MaxLate, MaxCommands} \subseteq Nat
  /\ \A s \in Songs : End[s] <= MaxPos

NoPos == -1
Pos   == 0..MaxPos
PosOrNone == Pos \cup {NoPos}

VARIABLES
  \* REAPER's transport, as the engine reads and commands it
  transport, \* "stopped", "playing" or "paused"
  pos,       \* GetPlayPositionEx: where playback is (or last was)
  cursor,    \* the edit cursor, where the next Play starts
  seek,      \* REAPER's one pending seek; kind "start" is a Play on its way
  loop,      \* the song whose range is the active loop (Repeat), or None
  \* settings
  mode, atbl, autoStop,
  preview,   \* g_nativeBpmScanPreviewPlaybackActive
  \* what plays or is selected next
  queue,     \* [song, manual, source, sought]: sought is the source whose end
             \* the queue already asked REAPER to leave (seek signature)
  boundary,  \* g_nativeAutoBlocoTarget: first song after the block
  selected,  \* [song, nav]: the selection and whether navigation made it
  click,     \* g_nativePendingSelection: a selection not applied yet
  \* the engine's memory of playback
  pending,   \* [song, age]: g_nativePendingPlayTarget
  armed,     \* the armed Parts marker, with its origin and age
  cur,       \* what the last cycle published: [playing, song, pos]
  last,      \* g_nativeAutoStopLastPlaying: song and the bounds it ends with
  suppress,  \* units left in which a seen stop prepares nothing
  \* the engine's timer
  held,      \* g_nativeUiHeldNavigationKey: an arrow key is held in the panel
  lag,       \* units since the last cycle, counted up to MaxLate
  \* bound
  cmds

reaperVars   == <<transport, pos, cursor, seek, loop>>
settingVars  == <<mode, atbl, autoStop>>
targetVars   == <<queue, boundary, selected>>
memoryVars   == <<pending, armed, cur, last, suppress, preview>>
timerVars    == <<held, lag>>
vars == <<reaperVars, settingVars, targetVars, memoryVars, timerVars, click, cmds>>

NoSeek      == [to |-> NoPos, kind |-> "none", song |-> None, age |-> 0]
NoQueue     == [song |-> None, manual |-> FALSE, source |-> None, sought |-> None]
NoSelection == [song |-> None, nav |-> FALSE]
NoPending   == [song |-> None, age |-> 0]
NoPart      == [at |-> NoPos, origin |-> NoPos, lastPos |-> NoPos, age |-> 0]
NoLast      == [id |-> None, span |-> None]

Seeks      == {NoSeek} \cup [to : Pos, kind : {"start", "queue", "part"},
                              song : SongOrNone, age : 0..MaxStale]
Queues     == [song : SongOrNone, manual : BOOLEAN,
               source : SongOrNone, sought : SongOrNone]
Selections == [song : SongOrNone, nav : BOOLEAN]
Pendings   == [song : SongOrNone, age : 0..(PendingLife + 1)]
Parts      == [at : PosOrNone, origin : PosOrNone, lastPos : PosOrNone,
               age : 0..PartsGrace]
Lasts      == [id : SongOrNone, span : SongOrNone]
Currents   == [playing : BOOLEAN, song : SongOrNone, pos : Pos]

Init ==
  /\ transport = "stopped" /\ pos = 0 /\ cursor = 0 /\ seek = NoSeek /\ loop = None
  /\ \E c \in Settings : mode = c.mode /\ atbl = c.atbl /\ autoStop = c.autoStop
  /\ preview = FALSE
  /\ queue = NoQueue /\ boundary = None /\ selected = NoSelection /\ click = None
  /\ pending = NoPending /\ armed = NoPart /\ last = NoLast /\ suppress = 0
  /\ cur = [playing |-> FALSE, song |-> None, pos |-> 0]
  /\ held = FALSE /\ lag = 0 /\ cmds = 0

-----------------------------------------------------------------------------
(***************************************************************************)
(* The routines of a cycle and of a stop call one another, each on the     *)
(* state the one before left.  They are functions of a record that holds   *)
(* every variable they may change; acted is queueSeekPerformed.            *)
(***************************************************************************)
Now == [transport |-> transport, cursor |-> cursor, seek |-> seek, loop |-> loop,
        queue |-> queue, boundary |-> boundary, selected |-> selected,
        pending |-> pending, armed |-> armed, cur |-> cur, last |-> last,
        suppress |-> suppress, preview |-> preview, acted |-> FALSE]

Becomes(s) ==
  /\ transport' = s.transport /\ cursor' = s.cursor /\ seek' = s.seek /\ loop' = s.loop
  /\ queue' = s.queue /\ boundary' = s.boundary /\ selected' = s.selected
  /\ pending' = s.pending /\ armed' = s.armed /\ cur' = s.cur /\ last' = s.last
  /\ suppress' = s.suppress /\ preview' = s.preview

\* nativeSongIsCurrentPlayingLocked: also the parent of the child that plays.
IsCurrent(s, x) ==
  LET c == s.cur.song
  IN  /\ s.cur.playing /\ c # None
      /\ \/ SameSpan(x, c)
         \/ /\ x \in Parents /\ Start[x] <= Start[c] /\ End[c] <= End[x]
            /\ Span(c) < Span(x)

\* nativeClearAllQueueStateLocked.  It also clears the signature of the last
\* automatic stop; every stop ends here, so that signature is empty whenever a
\* handler starts and the model leaves it out.
ClearAll(s) == [s EXCEPT !.queue = NoQueue, !.boundary = None]

\* nativeSetQueuedSongLocked
\* Mutant: the AT/BL target stays.
SetQueueOnly(s, x, manual) ==
  [s EXCEPT !.queue = [song |-> x, manual |-> manual, source |-> s.cur.song,
                       sought |-> None]]
SetQueue(s, x, manual) ==
  IF IsCurrent(s, x) THEN [s EXCEPT !.queue = NoQueue]
  ELSE [s EXCEPT !.queue = [song |-> x, manual |-> manual,
                            source |-> s.cur.song, sought |-> None],
                 !.boundary = None]

\* nativeClearAllLoopStateAfterStop: Repeat, the loop range and an armed part.
ClearLoops(s) == [s EXCEPT !.loop = None, !.armed = NoPart]

\* Mutant: the song the caller names wins over the queue.
StopTargetNamed(s, explicit, validated) ==
  IF explicit # None THEN explicit
  ELSE IF s.queue.song # None THEN s.queue.song
  ELSE IF s.boundary # None THEN s.boundary ELSE s.cur.song
\* The target a stop leaves selected.  Queue and AT/BL win; then the song the
\* caller names, then a navigation selection, if they are another song than the
\* one that plays (a validated one always); then the song that plays.
StopTarget(s, explicit, validated) ==
  LET c == s.cur.song
      Other(x) == x # None /\ c # None /\ Start[x] # Start[c]
  IN  IF s.queue.song # None THEN s.queue.song
      ELSE IF s.boundary # None THEN s.boundary
      ELSE IF explicit # None /\ (validated \/ Other(explicit)) THEN explicit
      ELSE IF s.selected.nav /\ Other(s.selected.song) THEN s.selected.song
      ELSE c

\* nativeStopTransportAndPrepareExplicitSelection: stop REAPER, leave the target
\* selected, move the cursor to it unless it is the song that just stopped.
StopTransport(s, explicit, validated) ==
  LET t    == StopTarget(s, explicit, validated)
      stay == t = None \/ (s.cur.song # None /\ SameSpan(t, s.cur.song))
  IN  ClearLoops(ClearAll(
        [s EXCEPT !.transport = "stopped", !.seek = NoSeek,
                  !.selected = [song |-> t, nav |-> FALSE],
                  !.suppress = SuppressLife,
                  !.cursor = IF stay THEN s.cursor ELSE Start[t]]))
-----------------------------------------------------------------------------
(***************************************************************************)
(* The cycle                                                               *)
(***************************************************************************)
Playing == transport = "playing"

\* nativeFindPlayingIdWithPendingTarget: the song at the reported position,
\* corrected while the requested one has not been reached.
View ==
  LET raw == IF Playing THEN PlayingSong(pos) ELSE None
      t   == pending.song
      Seen(p) == [song |-> raw, pos |-> pos, pending |-> p]
  IN  IF t = None \/ pending.age > PendingLife THEN Seen(NoPending)
      ELSE IF ~Playing THEN Seen(pending)
      ELSE IF Contains(t, pos) THEN Seen(NoPending)
      ELSE IF raw # None /\ End[raw] = Start[t] /\ Start[t] - pos <= StaleTol
           THEN [song |-> t, pos |-> Start[t], pending |-> pending]
      ELSE Seen(pending)

\* nativePrepareStopSelectionFromQueueOrCurrent, when a cycle is the first to
\* see that the transport stopped: the target becomes the selection.
PromoteOnStop(s) ==
  LET t == IF s.queue.song # None THEN s.queue.song ELSE s.boundary
  IN  IF ~Playing /\ s.cur.playing /\ s.suppress = 0 /\ t # None
      THEN ClearLoops(ClearAll([s EXCEPT !.selected = [song |-> t, nav |-> FALSE],
                                         !.suppress = SuppressLife,
                                         !.cursor = Start[t]]))
      ELSE s

\* A queued song that plays is consumed, except under Auto 2.  A consumed
\* automatic queue takes the old selection with it.
QueueIsPlaying(s) ==
  LET q == s.queue.song
  IN  q # None /\ (q = s.cur.song \/ (Start[q] > 0 /\ Contains(q, s.cur.pos)))
ConsumeQueue(s) ==
  IF mode # "auto2" /\ QueueIsPlaying(s)
  THEN [s EXCEPT !.queue = NoQueue,
                 !.selected = IF s.queue.manual THEN @ ELSE NoSelection]
  ELSE s

DropBoundary(s) ==
  IF mode = "off" \/ ~atbl \/ s.queue.manual THEN [s EXCEPT !.boundary = None] ELSE s

\* The automation never keeps a child in the queue.
DropChild(s) ==
  IF /\ ~s.queue.manual /\ s.queue.song # None
     /\ \E c \in Children : BoundsMatch(c, s.queue.song)
  THEN [s EXCEPT !.queue = NoQueue] ELSE s

\* Auto queues the next song; where a block lies in between, AT/BL makes the
\* song after the block the boundary target, also when it was queued already.
ArmNext(s) ==
  LET i == CurrentIndex(s.cur.song)
      n == NextAuto(i, atbl)
      b == BoundaryTarget(i, atbl)
  IN  IF mode = "off" \/ s.queue.manual THEN s
      ELSE IF s.queue.song = None
           THEN IF n # None /\ ~IsCurrent(s, n) THEN SetQueue(s, n, FALSE)
                ELSE [s EXCEPT !.boundary = b]
      ELSE IF b # None /\ b = s.queue.song
           THEN [s EXCEPT !.queue = NoQueue, !.boundary = b]
      ELSE s

\* The one seek ahead of the end; its signature keeps it from being asked twice.
\* Mutant: it yields to a part's seek but remembers its own as asked.
AskForSeekYields(s, src) ==
  [s EXCEPT !.queue.sought = src, !.cursor = Start[s.queue.song], !.acted = TRUE,
            !.seek = IF @.kind = "part" THEN @
                     ELSE [to |-> Start[s.queue.song], kind |-> "queue",
                           song |-> s.queue.song, age |-> 0]]
AskForSeek(s, src) ==
  IF s.queue.sought = src THEN s
  ELSE [s EXCEPT !.queue.sought = src, !.cursor = Start[s.queue.song], !.acted = TRUE,
                 !.seek = [to |-> Start[s.queue.song], kind |-> "queue",
                           song |-> s.queue.song, age |-> 0]]

\* The queue acts at the end of the song it waits for: Auto 2 stops there, the
\* other modes ask for a seek ahead of it.  Nothing happens under Repeat.
FireQueue(s) ==
  LET q    == s.queue.song
      here == SourceOf(s.cur.song, s.cur.pos)
      kept == IF mode = "auto2" /\ s.queue.source # None THEN s.queue.source ELSE here
      inside == mode = "auto2" /\ Contains(kept, s.cur.pos)
      src  == IF inside THEN here ELSE kept
      t    == IF inside THEN [s EXCEPT !.queue.source = here] ELSE s
      remaining == End[src] - s.cur.pos
  IN  IF q = None \/ s.loop # None THEN s
      ELSE IF SameSpan(q, src) THEN t
      ELSE IF mode = "auto2" /\ remaining \in (-StopWindow)..0
           THEN [StopTransport(t, None, FALSE) EXCEPT !.acted = TRUE]
      ELSE IF mode # "auto2" /\ remaining \in (-StopWindow)..SeekLead
           THEN AskForSeek(t, src)
      ELSE t

\* nativeMaintainQueueAutomation
\* Mutant: an armed part has no priority over the queue.
MaintainQueueAnyway(s) ==
  IF ~s.cur.playing \/ s.cur.song = None THEN ClearAll(s)
  ELSE FireQueue(ArmNext(DropChild(DropBoundary(ConsumeQueue(s)))))
MaintainQueue(s) ==
  IF s.preview THEN [ClearAll(s) EXCEPT !.preview = s.cur.playing]
  ELSE IF s.armed # NoPart THEN [s EXCEPT !.queue.sought = None]
  ELSE IF ~s.cur.playing \/ s.cur.song = None
       THEN IF mode = "auto2" /\ s.queue.song # None
            THEN [StopTransport(s, None, FALSE) EXCEPT !.acted = TRUE]
            ELSE ClearAll(s)
  ELSE FireQueue(ArmNext(DropChild(DropBoundary(ConsumeQueue(s)))))

\* Mutants: the end itself is missed; or the stop comes ahead of the end.
StopPastEnd(s) ==
  IF ~autoStop \/ (End[s.last.span] - s.cur.pos) \notin (-StopWindow)..(-1)
  THEN s ELSE StopTransport(s, None, FALSE)
StopEarly(s) ==
  IF ~autoStop \/ (End[s.last.span] - s.cur.pos) \notin (-StopWindow)..1
  THEN s ELSE StopTransport(s, None, FALSE)
\* nativeMaintainAutoStop, once the song that ends is known.  A queue or AT/BL
\* target names the stop's own target, so none is passed on.
StopAtEnd(s) ==
  LET e == s.last.span
      priority == s.queue.song # None \/ s.boundary # None
      nav == /\ ~priority /\ s.selected.nav
             /\ s.selected.song # None /\ Start[s.selected.song] # Start[e]
      glued == \E x \in Songs \ Parents : x # s.last.id /\ Start[x] = End[e]
  IN  IF \/ ~autoStop /\ s.boundary = None
         \/ s.queue.manual
         \/ glued /\ s.boundary = None
         \/ (End[e] - s.cur.pos) \notin (-StopWindow)..0
      THEN s
      ELSE StopTransport(s, IF nav THEN s.selected.song ELSE None, nav)

\* A child ends where its parent ends; in a gap the last song seen counts.
RememberSong(s) ==
  LET here  == {c \in Children : Contains(c, s.cur.pos)}
      child == AnyOf({c \in here : \A o \in here : Span(c) <= Span(o)})
  IN  IF s.cur.song = None THEN s
      ELSE [s EXCEPT !.last = [id |-> s.cur.song,
                               span |-> IF child = None THEN s.cur.song ELSE Parent[child]]]

MaintainAutoStop(s) ==
  IF ~s.cur.playing THEN [s EXCEPT !.last = NoLast]
  ELSE IF s.pending # NoPending \/ s.armed # NoPart \/ s.loop # None THEN s
  ELSE LET t == RememberSong(s)
       IN  IF t.last = NoLast THEN t ELSE StopAtEnd(t)

\* An armed part is over once playback reaches it and it has been shown long
\* enough; a loop that holds neither the part nor playback is then released.
PartReached(s) ==
  LET a == s.armed
      p == s.cur.pos
  IN  /\ s.cur.playing /\ a.age = PartsGrace
      /\ \/ p = a.at
         \/ a.origin <= a.at /\ p >= a.at
         \/ /\ a.origin > a.at /\ a.at - 1 <= p /\ p <= a.at + 4
            /\ p < a.origin \/ (a.lastPos > a.at /\ p < a.lastPos)
\* Mutant: arrival is not looked for under Repeat.
PartsArrivalNoLoop(s) ==
  IF s.armed # NoPart /\ s.loop = None /\ PartReached(s)
  THEN [s EXCEPT !.armed = NoPart] ELSE s
PartsArrival(s) ==
  IF s.armed = NoPart THEN s
  ELSE IF PartReached(s)
       THEN [s EXCEPT !.armed = NoPart,
                      !.loop = IF /\ @ # None
                                  /\ ~Contains(@, s.armed.at) /\ ~Contains(@, s.cur.pos)
                               THEN None ELSE @]
  ELSE IF s.cur.playing THEN [s EXCEPT !.armed.lastPos = s.cur.pos]
  ELSE s

\* Mutant: the queue does not wait for a requested Play to arrive.
AutomateAtOnce(s) ==
  LET t == MaintainQueue(s)
  IN  PartsArrival(IF t.acted THEN t ELSE MaintainAutoStop(t))
\* nativeRebuildState with runtime control: what one cycle does to the state.
Automate(s) ==
  LET t == IF s.pending # NoPending THEN s ELSE MaintainQueue(s)
  IN  PartsArrival(IF t.acted THEN t ELSE MaintainAutoStop(t))

CycleResult ==
  LET v == View
      s == PromoteOnStop([Now EXCEPT !.pending = v.pending])
  IN  Automate([s EXCEPT !.cur = [playing |-> Playing, song |-> v.song, pos |-> v.pos]])

\* startupTimer applies a pending selection before it runs the cycle.
\* nativeBridgeTick leaves the cycle out while an arrow key is held.
Cycle ==
  /\ ~held /\ click = None
  /\ Becomes(CycleResult)
  /\ lag' = 0
  /\ UNCHANGED <<pos, settingVars, held, click, cmds>>
-----------------------------------------------------------------------------
(***************************************************************************)
(* Commands                                                                *)
(***************************************************************************)
Given(kind) == kind \in Commands /\ cmds < MaxCommands /\ cmds' = cmds + 1

\* nativeQueuedChildConflictsWithPlayingFamilyLocked
SiblingPlays(x) ==
  LET c == FamilyChild(cur.song, cur.pos)
  IN  x \in Children /\ cur.playing /\ c # None /\ Parent[c] = Parent[x]

\* What a queue command stores: the song, and where it was queued.
\* Mutant: the signature of the queue before survives.
QueuedKeepingSeek(x, manual) ==
  [song |-> x, manual |-> manual, source |-> cur.song, sought |-> queue.sought]
QueuedBy(x, manual) ==
  [song |-> x, manual |-> manual, source |-> cur.song, sought |-> None]

\* nativeApplyQueueCommand.  drawerOpen: the family drawer of a parent is open,
\* and such a parent is never queued.  exact: the Director sent the bounds.
\* The same manual target again takes it out of the queue; without bounds of its
\* own the command is compared with those stored.
QueueSong(x, manual, exact, drawerOpen) ==
  LET same == /\ manual /\ queue.manual
              /\ IF exact THEN SameSpan(x, queue.song) ELSE BoundsMatch(x, queue.song)
      playsIt == cur.playing /\ cur.song # None /\ SameSpan(x, cur.song)
  IN  /\ Given("queue")
      /\ IF \/ x \in Parents /\ drawerOpen
            \/ SiblingPlays(x)
            \/ exact /\ playsIt
         THEN UNCHANGED <<queue, boundary>>
         ELSE IF (~exact /\ IsCurrent(Now, x)) \/ same
         THEN queue' = NoQueue /\ UNCHANGED boundary
         ELSE queue' = QueuedBy(x, manual) /\ boundary' = None
      /\ UNCHANGED <<reaperVars, settingVars, memoryVars, selected, click, timerVars>>

ClearQueue ==
  /\ Given("clear")
  /\ queue' = NoQueue /\ boundary' = None
  /\ UNCHANGED <<reaperVars, settingVars, memoryVars, selected, click, timerVars>>

\* nativeApplyAutoCommand.  Auto 1 and Auto 2 exclude each other; going from one
\* to the other keeps the queue, turning Auto off keeps only a manual one.
SetAuto(m) ==
  /\ Given("auto")
  /\ mode' = IF mode = m THEN "off" ELSE m
  /\ IF mode' = "off"
     THEN boundary' = None /\ queue' = IF queue.manual THEN queue ELSE NoQueue
     ELSE UNCHANGED <<queue, boundary>>
  /\ UNCHANGED <<reaperVars, memoryVars, atbl, autoStop, selected, click, timerVars>>

ToggleAtBl ==
  /\ Given("atbl")
  /\ atbl' = ~atbl
  /\ boundary' = IF mode = "off" \/ ~atbl' THEN None ELSE boundary
  /\ UNCHANGED <<reaperVars, memoryVars, mode, autoStop, queue, selected, click, timerVars>>

ToggleAutoStop ==
  /\ Given("autostop")
  /\ autoStop' = ~autoStop
  /\ UNCHANGED <<reaperVars, memoryVars, targetVars, mode, atbl, click, timerVars>>

\* nativeApplySelectionCommand: the last selection replaces a pending one.
Select(x) ==
  /\ Given("select")
  /\ click' = x
  /\ UNCHANGED <<reaperVars, settingVars, targetVars, memoryVars, timerVars>>

ClearSelection ==
  /\ Given("unselect")
  /\ click' = None /\ selected' = NoSelection
  /\ UNCHANGED <<reaperVars, settingVars, memoryVars, queue, boundary, timerVars>>

\* nativeProcessPendingSelectionOnMainThread: while a song plays the selection
\* changes alone, otherwise the edit cursor goes with it.
ApplyClick(s) ==
  IF click = None THEN s
  ELSE [s EXCEPT !.selected = [song |-> click, nav |-> TRUE],
                 !.cursor = IF Playing THEN @ ELSE Start[click]]
ProcessSelection ==
  /\ click # None
  /\ Becomes(ApplyClick(Now))
  /\ click' = None
  /\ UNCHANGED <<pos, settingVars, timerVars, cmds>>

\* nativeClearPendingPlayTarget and nativeArmPendingPlayTarget: both forget
\* what Auto Stop remembered of the playback before.
SetPending(s, x) == [s EXCEPT !.pending = [song |-> x, age |-> 0], !.last = NoLast]

\* Mutant: a manual queue is replaced like an automatic one.
ArmOverManual(s, x) ==
  LET i == LowestIn({j \in Entries : Playlist[j] = x})
      n == NextAuto(i, atbl)
  IN  IF i = 0 \/ mode = "off" THEN s
      ELSE IF n # None /\ ~IsCurrent(s, n) THEN SetQueue(s, n, FALSE)
      ELSE [s EXCEPT !.queue = NoQueue, !.boundary = BoundaryTarget(i, atbl)]
\* VS_Hook_Native_ArmAutoQueueFromPlaylistOrder for the song a Play names.
ArmFromPlay(s, x) ==
  LET i == LowestIn({j \in Entries : Playlist[j] = x})
      n == NextAuto(i, atbl)
  IN  IF i = 0 THEN s
      ELSE IF mode = "off"
           THEN [s EXCEPT !.queue = IF s.queue.manual THEN @ ELSE NoQueue,
                          !.boundary = None]
      ELSE IF s.queue.manual THEN s
      ELSE IF n # None /\ ~IsCurrent(s, n) THEN SetQueue(s, n, FALSE)
      ELSE [s EXCEPT !.queue = NoQueue, !.boundary = BoundaryTarget(i, atbl)]

\* REAPER's own Play: it starts at the edit cursor, whose position is reported
\* only later; a paused transport goes on where it is.
ReaperPlay(s, target) ==
  [s EXCEPT !.transport = "playing",
            !.seek = IF transport = "paused" THEN NoSeek
                     ELSE [to |-> s.cursor, kind |-> "start", song |-> target, age |-> 0]]

\* The Play of nativeApplyTransportCommand.  x: the song it names, or None.
\* seeks: it carries the position too.  audition: a BPM scan preview.
Play(x, seeks, audition) ==
  LET s0 == ApplyClick(Now)
      s1 == IF audition THEN [ClearAll(s0) EXCEPT !.preview = TRUE]
            ELSE [s0 EXCEPT !.preview = @ /\ transport # "stopped"]
      s2 == IF x = None THEN s1
            ELSE [s1 EXCEPT !.selected = [song |-> x, nav |-> FALSE]]
      expected == s2.selected.song
      from == IF x # None /\ seeks THEN Start[x] ELSE s2.cursor
      s3 == IF x = None \/ audition THEN ClearLoops(s2) ELSE ArmFromPlay(ClearLoops(s2), x)
      target == IF /\ transport = "stopped" /\ expected # None /\ Contains(expected, from)
                THEN expected ELSE None
  IN  /\ Given("play")
      /\ Becomes(ReaperPlay(SetPending([s3 EXCEPT !.cursor = from], target), target))
      /\ click' = None
      /\ UNCHANGED <<pos, settingVars, timerVars>>

\* The Stop of nativeApplyTransportCommand (fade-out off), naming x or nothing.
Stop(x) ==
  /\ Given("stop")
  /\ Becomes(StopTransport(SetPending(ApplyClick(Now), None), x, FALSE))
  /\ click' = None
  /\ UNCHANGED <<pos, settingVars, timerVars>>

Pause ==
  /\ Given("pause")
  /\ Becomes([SetPending(Now, None) EXCEPT
                 !.transport = CASE transport = "playing" -> "paused"
                                 [] transport = "paused"  -> "playing"
                                 [] OTHER -> transport,
                 !.seek = NoSeek])
  /\ pos' = IF seek.kind = "start" THEN seek.to ELSE pos
  /\ UNCHANGED <<settingVars, click, timerVars>>

\* handleTransportQueueStopCommand: REAPER's Stop (or Space) goes through the
\* stop routine first; stopped already, it only clears what is left over.
HookedStop ==
  /\ Given("hookstop")
  /\ Becomes(IF transport # "stopped" THEN StopTransport(Now, None, FALSE)
             ELSE ClearLoops(ClearAll(Now)))
  /\ UNCHANGED <<pos, settingVars, click, timerVars>>

\* REAPER's Play, which the extension lets through.
HookedPlay ==
  /\ Given("hookplay")
  /\ transport = "stopped"
  /\ Becomes(ReaperPlay(Now, None))
  /\ UNCHANGED <<pos, settingVars, click, timerVars>>

\* A stop that does not pass the extension: REAPER's end-of-project stop, a
\* script, another extension.
ReaperStops ==
  /\ Given("reaperstop")
  /\ transport # "stopped"
  /\ transport' = "stopped" /\ seek' = NoSeek
  /\ UNCHANGED <<pos, cursor, loop, settingVars, targetVars, memoryVars, click, timerVars>>

\* nativeApplyMarkerCommand, marker_go: arm the part and move REAPER's seek to
\* it.  Another part while one is armed keeps the origin and the age.
GoToPart(m) ==
  /\ Given("part")
  /\ cursor' = m
  /\ IF Playing
     THEN /\ armed' = IF armed # NoPart THEN [armed EXCEPT !.at = m]
                      ELSE [at |-> m, origin |-> pos, lastPos |-> pos, age |-> 0]
          /\ queue' = [queue EXCEPT !.sought = None]
          /\ seek' = [to |-> m, kind |-> "part", song |-> None, age |-> 0]
     ELSE armed' = NoPart /\ UNCHANGED <<queue, seek>>
  /\ UNCHANGED <<transport, pos, loop, settingVars, boundary, selected, pending,
                 cur, last, suppress, preview, click, timerVars>>

\* marker_cancel with clearOnly, or marker_select: disarm, leave REAPER alone.
DisarmPart ==
  /\ Given("part")
  /\ armed' = NoPart
  /\ UNCHANGED <<reaperVars, settingVars, targetVars, pending, cur, last, suppress,
                 preview, click, timerVars>>

\* marker_cancel (Esc): disarm and seek to the next part of the song, or to its
\* end; outside a song to the next marker.  The queue's own seek is overwritten.
EscapePart ==
  LET here  == IF PlayingSong(pos) # None THEN PlayingSong(pos) ELSE cur.song
      ahead == IF here = None THEN {m \in Markers : pos <= m}
               ELSE {m \in Markers : pos < m /\ Contains(here, m)}
      to == IF ahead # {} THEN LowestIn(ahead) ELSE IF here # None THEN End[here] ELSE NoPos
  IN  /\ Given("esc")
      /\ armed' = NoPart
      /\ cursor' = IF to = NoPos THEN cursor ELSE to
      /\ seek' = IF to = NoPos \/ ~Playing THEN seek
                 ELSE [to |-> to, kind |-> "part", song |-> None, age |-> 0]
      /\ UNCHANGED <<transport, pos, loop, settingVars, targetVars, pending, cur, last,
                     suppress, preview, click, timerVars>>

\* The user switches REAPER's Repeat around the song that plays.
ToggleLoop ==
  /\ Given("loop")
  /\ Playing
  /\ loop' = IF loop = None THEN PlayingSong(pos) ELSE None
  /\ UNCHANGED <<transport, pos, cursor, seek, settingVars, targetVars, memoryVars,
                 click, timerVars>>

\* An arrow key goes down in the panel (nativeUiPrepareNavigationKeyDown), and
\* comes up or loses the window (nativeUiResetNavigationRepeat).
HoldKey ==
  /\ Given("hold")
  /\ held' = TRUE
  /\ UNCHANGED <<reaperVars, settingVars, targetVars, memoryVars, lag, click>>
ReleaseKey ==
  /\ held /\ held' = FALSE
  /\ UNCHANGED <<reaperVars, settingVars, targetVars, memoryVars, lag, click, cmds>>
-----------------------------------------------------------------------------
(***************************************************************************)
(* REAPER and time                                                         *)
(***************************************************************************)
\* nativeBridgeStateIntervalMs: how long the next cycle may take to come.
Period == IF transport = "stopped" THEN IdleLag ELSE MaxLag

\* The song whose end bounds a smooth seek.
EndsHere(p) == \E s \in Songs : End[s] = p

\* Where playback is one unit later, and what is left of the pending seek.
Arrives == seek.kind # "none" /\ pos' = seek.to /\ seek' = NoSeek
Drifts  == /\ seek.kind = "start" /\ seek.age < MaxStale /\ pos < MaxPos
           /\ pos' = pos + 1 /\ seek' = [seek EXCEPT !.age = @ + 1]
RunsOn  == /\ seek.kind # "start" /\ pos < MaxPos
           /\ IF loop # None /\ pos + 1 = End[loop]
              THEN seek.kind = "none" /\ pos' = Start[loop]
              ELSE /\ seek.kind # "none" => ~EndsHere(pos + 1)
                   /\ pos' = pos + 1
           /\ UNCHANGED seek

Elapse ==
  /\ held \/ lag < Period
  /\ lag' = IF lag < MaxLate THEN lag + 1 ELSE lag
  /\ IF ~Playing THEN UNCHANGED <<transport, pos, seek>>
     ELSE \/ UNCHANGED transport /\ (Arrives \/ Drifts \/ RunsOn)
          \/ /\ pos = MaxPos /\ seek.kind = "none"
             /\ transport' = "stopped" /\ UNCHANGED <<pos, seek>>
  /\ pending' = IF pending = NoPending \/ pending.age > PendingLife THEN pending
                ELSE [pending EXCEPT !.age = @ + 1]
  /\ armed' = IF armed = NoPart \/ armed.age = PartsGrace THEN armed
              ELSE [armed EXCEPT !.age = @ + 1]
  /\ suppress' = IF suppress = 0 THEN 0 ELSE suppress - 1
  /\ UNCHANGED <<cursor, loop, settingVars, targetVars, cur, last, preview, held, click,
                 cmds>>

Command ==
  \/ \E x \in Songs, manual, exact, drawerOpen \in BOOLEAN :
        QueueSong(x, manual, exact, drawerOpen)
  \/ ClearQueue
  \/ \E m \in {"auto1", "auto2"} : SetAuto(m)
  \/ ToggleAtBl \/ ToggleAutoStop
  \/ \E x \in Songs : Select(x)
  \/ ClearSelection
  \/ \E x \in SongOrNone, seeks, audition \in BOOLEAN : Play(x, seeks, audition)
  \/ \E x \in SongOrNone : Stop(x)
  \/ Pause \/ HookedStop \/ HookedPlay \/ ReaperStops
  \/ \E m \in Markers : GoToPart(m)
  \/ DisarmPart \/ EscapePart \/ ToggleLoop \/ HoldKey

Next == Cycle \/ ProcessSelection \/ ReleaseKey \/ Elapse \/ Command

Spec == Init /\ [][Next]_vars

\* The timer runs on and, unless a key is held, has its cycle (only that brings
\* lag back to 0); a pending selection is applied, and REAPER plays on.  No
\* command has to come, and no key has to be let go of.
FairSpec ==
  Spec /\ []<>(held \/ lag = 0) /\ WF_vars(ProcessSelection) /\ WF_vars(Elapse)
-----------------------------------------------------------------------------
(***************************************************************************)
(* Properties                                                              *)
(***************************************************************************)
\* Every variable stays in its range.
TypeOK ==
  /\ transport \in {"stopped", "playing", "paused"}
  /\ pos \in Pos /\ cursor \in Pos /\ seek \in Seeks /\ loop \in SongOrNone
  /\ mode \in {"off", "auto1", "auto2"} /\ atbl \in BOOLEAN /\ autoStop \in BOOLEAN
  /\ preview \in BOOLEAN
  /\ queue \in Queues /\ boundary \in SongOrNone /\ selected \in Selections
  /\ click \in SongOrNone
  /\ pending \in Pendings /\ armed \in Parts /\ cur \in Currents /\ last \in Lasts
  /\ suppress \in 0..SuppressLife /\ held \in BOOLEAN /\ lag \in 0..MaxLate
  /\ cmds \in 0..MaxCommands

\* The queue and the AT/BL boundary target never both wait: a stop, which asks
\* for one target, could not honour two.
OneTarget == queue.song = None \/ boundary = None

\* REAPER keeps one pending seek.  While a part is armed it is never the
\* queue's, and a part's seek leads to the part that is armed, however often
\* parts, queue and loop were changed in between.
PartsOwnsSeek ==
  armed # NoPart /\ Playing =>
    /\ seek.kind # "queue"
    /\ seek.kind = "part" => seek.to = armed.at

\* A manual queue is the user's: a Play never changes it, and a cycle puts
\* another song in its place only after the queued song began to play.
ManualQueueHolds ==
  [][queue.manual =>
       /\ (\E x \in SongOrNone, seeks \in BOOLEAN : Play(x, seeks, FALSE)) => queue' = queue
       /\ (Cycle /\ queue'.song \notin {queue.song, None}) =>
            cur'.song = queue.song \/ Contains(queue.song, cur'.pos)]_vars

\* A stop loses no target.  When the extension stops playback, Auto 2 ends a
\* song, or a cycle is the first to see that playback stopped, what was queued
\* (or lay behind the block) is selected.  A stop seen soon after another one
\* prepares nothing.
StopKeepsTarget ==
  [][LET t == IF queue.song # None THEN queue.song ELSE boundary
     IN  /\ t # None
         /\ \/ transport # "stopped" /\ (HookedStop \/ \E x \in SongOrNone : Stop(x))
            \/ Cycle /\ cur.playing /\ ~Playing /\ suppress = 0
         => selected'.song = t]_vars

\* The same for every stop a cycle sees, also one soon after another stop.
SeenStopKeepsQueue ==
  [][Cycle /\ cur.playing /\ ~Playing /\ queue.song # None
     => selected'.song = queue.song]_vars

\* Auto 2 stops at the real end of the source: playback ran there by itself and
\* did not jump.
Auto2RunsToEnd ==
  [][/\ Cycle /\ mode = "auto2" /\ Playing /\ transport' = "stopped"
     /\ cur.playing /\ PlayingSong(pos) # None
     => pos \in cur.pos..(cur.pos + MaxLag)]_vars

\* Playback that runs from the last song before a block into a gap ends there,
\* with the song after the block selected, also when Auto Stop is off.
BlockStops ==
  [][/\ Cycle /\ Playing /\ boundary # None /\ PlayingSong(pos) = None
     /\ cur.playing /\ cur.song # None /\ pos \in cur.pos..(cur.pos + MaxLag)
     /\ boundary = BoundaryTarget(CurrentIndex(cur.song), atbl)
     /\ seek = NoSeek /\ armed = NoPart /\ loop = None /\ pending = NoPending
     => transport' = "stopped" /\ selected'.song = boundary]_vars

\* A song started by Play is left alone while REAPER still reports where the
\* playback before it was: the automation neither stops nor moves it.  (A
\* position in the song itself counts as its arrival.)
FreshPlayGoesOn ==
  [][/\ Cycle /\ seek.kind = "start" /\ seek.song # None
     /\ seek.song \notin {last.id, last.span} /\ ~Contains(seek.song, pos)
     => transport' = transport /\ seek' = seek]_vars

\* After a cycle the seek REAPER still owes the queue leads to the queued song,
\* also when the queue was changed after the seek was asked for.  (Auto 2 and
\* Repeat never ask for it again.)
SeekFollowsQueue ==
  [][/\ Cycle /\ seek'.kind = "queue" /\ queue'.song # None
     /\ mode # "auto2" /\ loop = None
     => seek'.song = queue'.song]_vars

\* What the engine believes of the seek it asked for: it is on its way, or done
\* and the queued song plays, or a part took it and the queue will ask again.
SeekKnown ==
  mode # "auto2" /\ queue.sought # None =>
    armed # NoPart \/ seek.kind = "queue" \/ Contains(queue.song, pos)

\* The engine never comes to believe in a seek REAPER does not have, however often
\* a part or another queue took REAPER's one pending seek in between.  Only a
\* queued song played to its end while a key is held is not seen to play: it
\* stays queued, and is not asked for again at the end of the same source.
SeekNotForgotten ==
  [][SeekKnown /\ ~(held /\ Elapse) => SeekKnown']_vars

\* A cycle stops playback inside a song only where the song it waited for ended.
NoStopInSong ==
  [][/\ Cycle /\ Playing /\ transport' = "stopped" /\ PlayingSong(pos) # None
     => \E s \in Songs : pos - End[s] \in 0..StopWindow]_vars

\* With Auto Stop on, playback that runs out of a song into the gap behind it is
\* stopped by the first cycle after it, when that cycle comes no later than one
\* unit more than the window.  One that waits for a key to come up may be later,
\* and then the end is missed.
AutoStopNotMissed ==
  [][/\ Cycle /\ autoStop /\ Playing /\ PlayingSong(pos) = None
     /\ cur.playing /\ last.id # None /\ last.id = cur.song /\ Contains(last.span, cur.pos)
     /\ \A x \in Songs : Start[x] # End[last.span]
     /\ lag <= StopWindow + 1 /\ pos \in cur.pos..(cur.pos + lag)
     /\ pending = NoPending /\ armed = NoPart /\ loop = None
     => transport' = "stopped"]_vars

\* A family plays through: a queue leaves a child only near its parent's end.
FamilyPlaysOn ==
  [][/\ Cycle /\ seek'.kind = "queue" /\ seek.kind # "queue"
     => \A c \in Children : Contains(c, pos) /\ pos = cur'.pos =>
          End[Parent[c]] - pos <= SeekLead]_vars

\* An armed part ends: playback reaches it, or stops, or the user disarms it.  A
\* key held while playback reaches it may hide its arrival, for good under
\* Repeat: the property is about behaviours where a key is let go of before the
\* part's seek is done.
PartsEnd ==
  [](held => armed = NoPart \/ seek.kind = "part") =>
    ((armed # NoPart /\ Playing) ~> (armed = NoPart \/ ~Playing))
=============================================================================
