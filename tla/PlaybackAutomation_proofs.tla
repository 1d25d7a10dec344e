--------------------- MODULE PlaybackAutomation_proofs ---------------------
(***************************************************************************)
(* Theorems about PlaybackAutomation for every project, playlist, timing   *)
(* constant and number of commands.                                        *)
(***************************************************************************)
EXTENDS PlaybackAutomation, TLAPS

\* The records the routines of a cycle pass on.
States == [transport : {"stopped", "playing", "paused"}, cursor : Pos, seek : Seeks,
           loop : SongOrNone, queue : Queues, boundary : SongOrNone,
           selected : Selections, pending : Pendings, armed : Parts, cur : Currents,
           last : Lasts, suppress : 0..SuppressLife, preview : BOOLEAN,
           acted : BOOLEAN]
OneTargetIn(s) == s.queue.song = None \/ s.boundary = None
Sound(s) == s \in States /\ OneTargetIn(s)

\* The empty values belong to the types of the variables they empty.
LEMMA NoneTypes ==
  /\ None \in SongOrNone /\ NoQueue \in Queues /\ NoSelection \in Selections
  /\ NoSeek \in Seeks /\ NoPending \in Pendings /\ NoPart \in Parts /\ NoLast \in Lasts
BY TimeAssumption DEF SongOrNone, NoQueue, NoSelection, NoSeek, NoPending, NoPart,
   NoLast, Queues, Selections, Seeks, Pendings, Parts, Lasts, PosOrNone, NoPos, Pos

\* Every bound and timing constant is a natural number.
LEMMA TimesAreNat ==
  /\ MaxPos \in Nat /\ SeekLead \in Nat /\ StopWindow \in Nat /\ PendingLife \in Nat
  /\ StaleTol \in Nat /\ PartsGrace \in Nat /\ SuppressLife \in Nat
  /\ MaxStale \in Nat /\ MaxLag \in Nat /\ MaxLate \in Nat /\ MaxCommands \in Nat
BY TimeAssumption

\* A song starts and ends at positions of the project.
LEMMA StartIsPos == \A s \in Songs : Start[s] \in Pos /\ End[s] \in Pos
<1> SUFFICES ASSUME NEW s \in Songs PROVE Start[s] \in Pos /\ End[s] \in Pos
  OBVIOUS
<1>1. Start[s] \in Nat /\ End[s] \in Nat /\ Start[s] < End[s]
  BY BoundAssumption
<1>2. End[s] <= MaxPos
  BY TimeAssumption
<1> QED
  BY <1>1, <1>2, TimesAreNat DEF Pos

\* Clearing the queue and the AT/BL target keeps the record sound.
LEMMA ClearAllSound ==
  ASSUME NEW s, Sound(s)
  PROVE  Sound(ClearAll(s))
BY NoneTypes DEF Sound, States, OneTargetIn, ClearAll, NoQueue

\* So does clearing Repeat, the loop range and an armed part.
LEMMA ClearLoopsSound ==
  ASSUME NEW s, Sound(s)
  PROVE  Sound(ClearLoops(s))
BY NoneTypes DEF Sound, States, OneTargetIn, ClearLoops

\* Setting the queue removes the AT/BL target: only one target waits.
LEMMA SetQueueSound ==
  ASSUME NEW s, Sound(s), NEW x \in Songs, NEW manual \in BOOLEAN
  PROVE  Sound(SetQueue(s, x, manual))
BY NoneTypes DEF Sound, States, OneTargetIn, SetQueue, NoQueue, Queues, SongOrNone, Currents

\* The target of a stop is a song of the project, or none.
LEMMA StopTargetType ==
  ASSUME NEW s, Sound(s), NEW x \in SongOrNone, NEW validated \in BOOLEAN
  PROVE  StopTarget(s, x, validated) \in SongOrNone
BY NoneTypes DEF Sound, States, StopTarget, Queues, Selections, Currents, SongOrNone

\* A stop selects its target and leaves no target waiting.
LEMMA StopTransportSound ==
  ASSUME NEW s, Sound(s), NEW x \in SongOrNone, NEW validated \in BOOLEAN
  PROVE  Sound(StopTransport(s, x, validated))
<1> DEFINE t == StopTarget(s, x, validated)
           stay == t = None \/ (s.cur.song # None /\ SameSpan(t, s.cur.song))
           u == [s EXCEPT !.transport = "stopped", !.seek = NoSeek,
                          !.selected = [song |-> t, nav |-> FALSE],
                          !.suppress = SuppressLife,
                          !.cursor = IF stay THEN s.cursor ELSE Start[t]]
<1>1. t \in SongOrNone
  BY StopTargetType
<1>2. (IF stay THEN s.cursor ELSE Start[t]) \in Pos
  BY <1>1, StartIsPos DEF Sound, States, SongOrNone
<1>3. Sound(u)
  <2> HIDE DEF t, stay
  <2>1. SuppressLife \in 0..SuppressLife
    BY TimesAreNat
  <2> QED BY <1>1, <1>2, <2>1, NoneTypes DEF Sound, States, OneTargetIn, Selections
<1> QED
  BY <1>3, ClearAllSound, ClearLoopsSound DEF StopTransport
-----------------------------------------------------------------------------
(***************************************************************************)
(* What the project's layout gives: songs, or None.                        *)
(***************************************************************************)
\* A best candidate among songs is one of them, or none.
LEMMA AnyOfType ==
  ASSUME NEW S, S \subseteq Songs
  PROVE  AnyOf(S) \in SongOrNone /\ (AnyOf(S) = None \/ AnyOf(S) \in S)
<1>1. CASE S = {}
  BY <1>1 DEF AnyOf, SongOrNone
<1>2. CASE S # {}
  <2>1. (CHOOSE s \in S : TRUE) \in S
    BY <1>2
  <2> QED BY <1>2, <2>1 DEF AnyOf, SongOrNone
<1> QED BY <1>1, <1>2

\* What plays at a position is a song, or none.
LEMMA PlayingSongType == \A p : PlayingSong(p) \in SongOrNone
BY AnyOfType DEF PlayingSong

\* The source a queue waits for is a song, or none, for a child its parent.
LEMMA SourceType ==
  ASSUME NEW song \in SongOrNone, NEW p
  PROVE  SourceOf(song, p) \in SongOrNone
<1>1. FamilyChild(song, p) \in SongOrNone
  BY AnyOfType DEF FamilyChild, Children
<1> QED BY <1>1, FamilyAssumption DEF SourceOf, SongOrNone

\* The lowest index of a set is in it, or 0.
LEMMA LowestType == \A I : LowestIn(I) = 0 \/ LowestIn(I) \in I
<1> SUFFICES ASSUME NEW I PROVE LowestIn(I) = 0 \/ LowestIn(I) \in I
  OBVIOUS
<1> DEFINE J == {i \in I : \A j \in I : i <= j}
<1>1. CASE J = {}
  BY <1>1 DEF LowestIn, AnyIndex
<1>2. CASE J # {}
  <2>1. (CHOOSE i \in J : TRUE) \in J
    BY <1>2
  <2> QED BY <1>2, <2>1 DEF LowestIn, AnyIndex
<1> QED BY <1>1, <1>2

\* A playlist entry that is no block header is a song.
LEMMA EntryType == \A i \in Entries : Playlist[i] \in Songs
BY PlaylistAssumption DEF Entries

\* The next song and the song behind the block are songs, or none.
LEMMA NextAutoType ==
  ASSUME NEW i, NEW bl
  PROVE  NextAuto(i, bl) \in SongOrNone /\ BoundaryTarget(i, bl) \in SongOrNone
<1>1. NextIndex(i) = 0 \/ NextIndex(i) \in Entries
  BY LowestType DEF NextIndex
<1> QED BY <1>1, EntryType DEF NextAuto, BoundaryTarget, SongOrNone
-----------------------------------------------------------------------------
(***************************************************************************)
(* Every routine of a cycle keeps the record sound.                        *)
(***************************************************************************)
\* Consuming a queue that plays.
LEMMA ConsumeQueueSound ==
  ASSUME NEW s, Sound(s) PROVE Sound(ConsumeQueue(s))
BY NoneTypes DEF Sound, States, OneTargetIn, ConsumeQueue, NoQueue

\* Dropping the AT/BL target when a setting or a manual queue rules it out.
LEMMA DropBoundarySound ==
  ASSUME NEW s, Sound(s) PROVE Sound(DropBoundary(s))
BY NoneTypes DEF Sound, States, OneTargetIn, DropBoundary

\* Dropping a child from the automatic queue.
LEMMA DropChildSound ==
  ASSUME NEW s, Sound(s) PROVE Sound(DropChild(s))
BY NoneTypes DEF Sound, States, OneTargetIn, DropChild, NoQueue

\* Arming the next song: as the queue or as the AT/BL target, never both.
LEMMA ArmNextSound ==
  ASSUME NEW s, Sound(s) PROVE Sound(ArmNext(s))
<1> DEFINE i == CurrentIndex(s.cur.song)
           n == NextAuto(i, atbl)
           b == BoundaryTarget(i, atbl)
<1>1. n \in SongOrNone /\ b \in SongOrNone
  BY NextAutoType
<1>2. n # None => Sound(SetQueue(s, n, FALSE))
  BY <1>1, SetQueueSound DEF SongOrNone
<1>3. s.queue.song = None => Sound([s EXCEPT !.boundary = b])
  BY <1>1 DEF Sound, States, OneTargetIn
<1>4. Sound([s EXCEPT !.queue = NoQueue, !.boundary = b])
  BY <1>1, NoneTypes DEF Sound, States, OneTargetIn, NoQueue
<1> HIDE DEF i, n, b
<1> QED BY <1>2, <1>3, <1>4 DEF ArmNext, i, n, b

\* The seek asked for a queue leads to the start of its song.
LEMMA AskForSeekSound ==
  ASSUME NEW s, Sound(s), s.queue.song # None, NEW src \in SongOrNone
  PROVE  Sound(AskForSeek(s, src))
<1>1. s.queue.song \in Songs /\ Start[s.queue.song] \in Pos
  BY StartIsPos DEF Sound, States, Queues, SongOrNone
<1>2. [to |-> Start[s.queue.song], kind |-> "queue", song |-> s.queue.song, age |-> 0]
        \in Seeks
  BY <1>1, TimesAreNat DEF Seeks, PosOrNone, SongOrNone
<1>3. [s.queue EXCEPT !.sought = src] \in Queues
  BY DEF Sound, States, Queues
<1>4. [s.queue EXCEPT !.sought = src].song = s.queue.song
  BY DEF Sound, States, Queues
<1> QED BY <1>1, <1>2, <1>3, <1>4 DEF Sound, States, OneTargetIn, AskForSeek

\* Marking that the queue acted in this cycle.
LEMMA ActedSound ==
  ASSUME NEW s, Sound(s) PROVE Sound([s EXCEPT !.acted = TRUE])
BY DEF Sound, States, OneTargetIn

\* The queue acting at the end of its source.
LEMMA FireQueueSound ==
  ASSUME NEW s, Sound(s) PROVE Sound(FireQueue(s))
<1> DEFINE here == SourceOf(s.cur.song, s.cur.pos)
           kept == IF mode = "auto2" /\ s.queue.source # None THEN s.queue.source ELSE here
           inside == mode = "auto2" /\ Contains(kept, s.cur.pos)
           src  == IF inside THEN here ELSE kept
           t    == IF inside THEN [s EXCEPT !.queue.source = here] ELSE s
<1>1. here \in SongOrNone
  BY SourceType DEF Sound, States, Currents
<1>2. kept \in SongOrNone
  BY <1>1 DEF Sound, States, Queues
<1>3. src \in SongOrNone
  BY <1>1, <1>2
<1>4. [s EXCEPT !.queue.source = here] \in States
  BY <1>1 DEF Sound, States, Queues
<1>5. [s EXCEPT !.queue.source = here].queue.song = s.queue.song
  BY DEF Sound, States, Queues
<1>6. Sound(t) /\ t.queue.song = s.queue.song
  BY <1>4, <1>5 DEF Sound, States, OneTargetIn
<1>7. Sound([StopTransport(t, None, FALSE) EXCEPT !.acted = TRUE])
  BY <1>6, StopTransportSound, NoneTypes, ActedSound
<1>8. s.queue.song # None => Sound(AskForSeek(t, src))
  BY <1>3, <1>6, AskForSeekSound
<1> HIDE DEF here, kept, inside, src, t
<1> QED BY <1>6, <1>7, <1>8 DEF FireQueue, here, kept, inside, src, t

\* nativeMaintainQueueAutomation as a whole.
LEMMA MaintainQueueSound ==
  ASSUME NEW s, Sound(s) PROVE Sound(MaintainQueue(s))
<1>1. Sound([ClearAll(s) EXCEPT !.preview = s.cur.playing])
  BY ClearAllSound DEF Sound, States, OneTargetIn, Currents
<1>2. Sound([s EXCEPT !.queue.sought = None])
  <2>1. [s EXCEPT !.queue.sought = None] \in States
    BY NoneTypes DEF Sound, States, Queues
  <2>2. [s EXCEPT !.queue.sought = None].queue.song = s.queue.song
    BY DEF Sound, States, Queues
  <2> QED BY <2>1, <2>2 DEF Sound, States, OneTargetIn
<1>3. Sound([StopTransport(s, None, FALSE) EXCEPT !.acted = TRUE])
  BY StopTransportSound, NoneTypes, ActedSound
<1>4. Sound(FireQueue(ArmNext(DropChild(DropBoundary(ConsumeQueue(s))))))
  BY ConsumeQueueSound, DropBoundarySound, DropChildSound, ArmNextSound, FireQueueSound
<1> QED BY <1>1, <1>2, <1>3, <1>4, ClearAllSound DEF MaintainQueue

\* Auto Stop at the end of the remembered song.
LEMMA StopAtEndSound ==
  ASSUME NEW s, Sound(s) PROVE Sound(StopAtEnd(s))
<1>1. s.selected.song \in SongOrNone
  BY DEF Sound, States, Selections
<1>2. \A x \in SongOrNone, v \in BOOLEAN : Sound(StopTransport(s, x, v))
  BY StopTransportSound
<1> DEFINE e == s.last.span
           priority == s.queue.song # None \/ s.boundary # None
           nav == /\ ~priority /\ s.selected.nav
                  /\ s.selected.song # None /\ Start[s.selected.song] # Start[e]
<1>3. nav \in BOOLEAN
  BY DEF Sound, States, Selections
<1>4. Sound(StopTransport(s, IF nav THEN s.selected.song ELSE None, nav))
  <2> HIDE DEF nav
  <2> QED BY <1>1, <1>2, <1>3, NoneTypes
<1> HIDE DEF nav
<1> QED BY <1>4 DEF StopAtEnd, nav

\* What Auto Stop remembers is a song and the song whose end counts.
LEMMA RememberSongSound ==
  ASSUME NEW s, Sound(s) PROVE Sound(RememberSong(s))
<1> DEFINE here == {c \in Children : Contains(c, s.cur.pos)}
           child == AnyOf({c \in here : \A o \in here : Span(c) <= Span(o)})
           span == IF child = None THEN s.cur.song ELSE Parent[child]
<1>1. child \in SongOrNone
  BY AnyOfType DEF Children
<1>2. span \in SongOrNone
  BY <1>1, FamilyAssumption DEF Sound, States, Currents, SongOrNone
<1>3. [id |-> s.cur.song, span |-> span] \in Lasts
  BY <1>2 DEF Sound, States, Currents, Lasts
<1> HIDE DEF child, span
<1>4. Sound([s EXCEPT !.last = [id |-> s.cur.song, span |-> span]])
  BY <1>3 DEF Sound, States, OneTargetIn
<1> QED BY <1>4 DEF RememberSong, child, span

\* nativeMaintainAutoStop as a whole.
LEMMA MaintainAutoStopSound ==
  ASSUME NEW s, Sound(s) PROVE Sound(MaintainAutoStop(s))
<1>1. Sound([s EXCEPT !.last = NoLast])
  BY NoneTypes DEF Sound, States, OneTargetIn
<1>2. Sound(RememberSong(s))
  BY RememberSongSound
<1> QED BY <1>1, <1>2, StopAtEndSound DEF MaintainAutoStop

\* The arrival of playback at an armed part.
LEMMA PartsArrivalSound ==
  ASSUME NEW s, Sound(s) PROVE Sound(PartsArrival(s))
<1>1. ASSUME NEW l \in SongOrNone
      PROVE  Sound([s EXCEPT !.armed = NoPart, !.loop = l])
  BY NoneTypes DEF Sound, States, OneTargetIn
<1>2. s.loop \in SongOrNone
  BY DEF Sound, States
<1>3. Sound([s EXCEPT !.armed.lastPos = s.cur.pos])
  <2>1. [s EXCEPT !.armed.lastPos = s.cur.pos] \in States
    BY DEF Sound, States, Parts, Currents, PosOrNone
  <2> QED BY <2>1 DEF Sound, States, OneTargetIn
<1> QED BY <1>1, <1>2, <1>3, NoneTypes DEF PartsArrival

\* The automation of one cycle, in the order of nativeRebuildState.
LEMMA AutomateSound ==
  ASSUME NEW s, Sound(s) PROVE Sound(Automate(s))
BY MaintainQueueSound, MaintainAutoStopSound, PartsArrivalSound DEF Automate
-----------------------------------------------------------------------------
(***************************************************************************)
(* From the record to the variables and back.                              *)
(***************************************************************************)
Inv == TypeOK /\ OneTarget

\* The record of the current variables is sound.
LEMMA NowSound == Inv => Sound(Now)
BY DEF Inv, TypeOK, OneTarget, Sound, States, OneTargetIn, Now

\* A pending seek leads to a position of the project.
LEMMA SeekTarget == Inv /\ seek.kind # "none" => seek.to \in Pos
BY DEF Inv, TypeOK, Seeks, NoSeek

\* Variables that take the values of a sound record satisfy the invariant.
LEMMA BecomesInv ==
  ASSUME NEW s, Sound(s), Becomes(s), pos' \in Pos, click' \in SongOrNone,
         mode' \in {"off", "auto1", "auto2"}, atbl' \in BOOLEAN, autoStop' \in BOOLEAN,
         held' \in BOOLEAN, lag' \in 0..MaxLate, cmds' \in 0..MaxCommands
  PROVE  Inv'
BY DEF Inv, TypeOK, OneTarget, Sound, States, OneTargetIn, Becomes

\* What a cycle sees of playback has its types.
LEMMA ViewType ==
  Inv => /\ View.song \in SongOrNone /\ View.pos \in Pos /\ View.pending \in Pendings
<1> SUFFICES ASSUME Inv
             PROVE  /\ View.song \in SongOrNone /\ View.pos \in Pos
                    /\ View.pending \in Pendings
  OBVIOUS
<1> DEFINE raw == IF Playing THEN PlayingSong(pos) ELSE None
<1>1. raw \in SongOrNone
  BY PlayingSongType, NoneTypes
<1>2. pending.song # None => pending.song \in Songs /\ Start[pending.song] \in Pos
  BY StartIsPos DEF Inv, TypeOK, Pendings, SongOrNone
<1> HIDE DEF raw
<1> QED BY <1>1, <1>2, NoneTypes DEF View, raw, Inv, TypeOK, SongOrNone

\* The promotion of the target when a cycle sees a stop.
LEMMA PromoteOnStopSound ==
  ASSUME NEW s, Sound(s) PROVE Sound(PromoteOnStop(s))
<1> DEFINE t == IF s.queue.song # None THEN s.queue.song ELSE s.boundary
           u == [s EXCEPT !.selected = [song |-> t, nav |-> FALSE],
                          !.suppress = SuppressLife, !.cursor = Start[t]]
<1>1. t \in SongOrNone
  BY DEF Sound, States, Queues
<1>2. t # None => Sound(u)
  <2>1. t # None => Start[t] \in Pos
    BY <1>1, StartIsPos DEF SongOrNone
  <2>2. SuppressLife \in 0..SuppressLife
    BY TimesAreNat
  <2> HIDE DEF t
  <2> QED BY <1>1, <2>1, <2>2 DEF Sound, States, OneTargetIn, Selections
<1>3. t # None => Sound(ClearLoops(ClearAll(u)))
  BY <1>2, ClearAllSound, ClearLoopsSound
<1> HIDE DEF t
<1> QED BY <1>3 DEF PromoteOnStop, t

\* The result of a cycle is sound.
LEMMA CycleResultSound == Inv => Sound(CycleResult)
<1> SUFFICES ASSUME Inv PROVE Sound(CycleResult)
  OBVIOUS
<1> DEFINE n == [Now EXCEPT !.pending = View.pending]
           s == PromoteOnStop(n)
           c == [playing |-> Playing, song |-> View.song, pos |-> View.pos]
           u == [s EXCEPT !.cur = c]
<1>1. Sound(n)
  <2>1. Sound(Now)
    BY NowSound
  <2> QED BY <2>1, ViewType DEF Sound, States, OneTargetIn
<1>2. Sound(s)
  BY <1>1, PromoteOnStopSound
<1>3. c \in Currents
  BY ViewType DEF Currents, Playing
<1> HIDE DEF n, s, c
<1>4. Sound(u)
  BY <1>2, <1>3 DEF Sound, States, OneTargetIn
<1>5. Sound(Automate(u))
  BY <1>4, AutomateSound
<1> QED BY <1>5 DEF CycleResult, n, s, c
-----------------------------------------------------------------------------
(***************************************************************************)
(* Every action keeps the invariant.                                       *)
(***************************************************************************)
\* The invariant holds at the start.
LEMMA InitInv == Init => Inv
<1> SUFFICES ASSUME Init PROVE Inv
  OBVIOUS
<1>1. 0 \in Pos /\ 0 \in 0..SuppressLife /\ 0 \in 0..MaxLate /\ 0 \in 0..MaxCommands
  BY TimesAreNat DEF Pos
<1>2. /\ mode \in {"off", "auto1", "auto2"} /\ atbl \in BOOLEAN /\ autoStop \in BOOLEAN
  BY SettingsAssumption DEF Init
<1> QED BY <1>1, <1>2, NoneTypes DEF Init, Inv, TypeOK, OneTarget, Currents

\* A cycle of the engine keeps the invariant.
LEMMA CycleInv == Inv /\ Cycle => Inv'
<1> SUFFICES ASSUME Inv, Cycle PROVE Inv'
  OBVIOUS
<1>1. Sound(CycleResult) /\ Becomes(CycleResult)
  BY CycleResultSound DEF Cycle
<1>2. /\ pos' \in Pos /\ click' \in SongOrNone /\ mode' \in {"off", "auto1", "auto2"}
      /\ atbl' \in BOOLEAN /\ autoStop' \in BOOLEAN
      /\ held' \in BOOLEAN /\ lag' \in 0..MaxLate /\ cmds' \in 0..MaxCommands
  BY TimesAreNat DEF Cycle, Inv, TypeOK, settingVars, timerVars
<1> QED BY <1>1, <1>2, BecomesInv

\* A command counts within its bound.
LEMMA GivenType == \A k : Inv /\ Given(k) => cmds' \in 0..MaxCommands
BY TimesAreNat DEF Inv, TypeOK, Given

\* Applying the pending selection keeps the record sound.
LEMMA ClickSound == Inv => Sound(ApplyClick(Now))
<1> SUFFICES ASSUME Inv PROVE Sound(ApplyClick(Now))
  OBVIOUS
<1>1. Sound(Now) /\ click \in SongOrNone
  BY NowSound DEF Inv, TypeOK
<1>2. click # None => Start[click] \in Pos
  BY <1>1, StartIsPos DEF SongOrNone
<1> QED BY <1>1, <1>2 DEF ApplyClick, Sound, States, OneTargetIn, Selections

\* So does setting or clearing the pending play target.
LEMMA SetPendingSound ==
  ASSUME NEW s, Sound(s), NEW x \in SongOrNone PROVE Sound(SetPending(s, x))
<1>1. [song |-> x, age |-> 0] \in Pendings
  BY TimesAreNat DEF Pendings
<1> QED BY <1>1, NoneTypes DEF SetPending, Sound, States, OneTargetIn

\* So does arming the song after the one a Play names.
LEMMA ArmFromPlaySound ==
  ASSUME NEW s, Sound(s), NEW x \in Songs PROVE Sound(ArmFromPlay(s, x))
<1> DEFINE i == LowestIn({j \in Entries : Playlist[j] = x})
           n == NextAuto(i, atbl)
<1>1. n \in SongOrNone /\ BoundaryTarget(i, atbl) \in SongOrNone
  BY NextAutoType
<1>2. n # None => Sound(SetQueue(s, n, FALSE))
  BY <1>1, SetQueueSound DEF SongOrNone
<1>3. Sound([s EXCEPT !.queue = NoQueue, !.boundary = BoundaryTarget(i, atbl)])
  BY <1>1, NoneTypes DEF Sound, States, OneTargetIn, NoQueue
<1>4. ASSUME NEW q \in {s.queue, NoQueue}
      PROVE  Sound([s EXCEPT !.queue = q, !.boundary = None])
  BY NoneTypes DEF Sound, States, OneTargetIn
<1> HIDE DEF i, n
<1> QED BY <1>2, <1>3, <1>4 DEF ArmFromPlay, i, n

\* So does a Play of REAPER, whose seek leads to the edit cursor.
LEMMA ReaperPlaySound ==
  ASSUME NEW s, Sound(s), NEW x \in SongOrNone PROVE Sound(ReaperPlay(s, x))
<1>1. [to |-> s.cursor, kind |-> "start", song |-> x, age |-> 0] \in Seeks
  BY TimesAreNat DEF Sound, States, Seeks, PosOrNone
<1> QED BY <1>1, NoneTypes DEF ReaperPlay, Sound, States, OneTargetIn

\* A Play ends in a Play of REAPER on a sound record.
LEMMA PlayRecord ==
  ASSUME Inv, NEW x \in SongOrNone, NEW seeks \in BOOLEAN, NEW audition \in BOOLEAN,
         Play(x, seeks, audition)
  PROVE  \E r, y : /\ Becomes(ReaperPlay(r, y)) /\ r \in States
                  /\ Sound(ReaperPlay(r, y))
                  /\ r.pending = [song |-> y, age |-> 0] /\ r.last = NoLast
<1> DEFINE s0 == ApplyClick(Now)
           s1 == IF audition THEN [ClearAll(s0) EXCEPT !.preview = TRUE]
                 ELSE [s0 EXCEPT !.preview = @ /\ transport # "stopped"]
           s2 == IF x = None THEN s1
                 ELSE [s1 EXCEPT !.selected = [song |-> x, nav |-> FALSE]]
           expected == s2.selected.song
           from == IF x # None /\ seeks THEN Start[x] ELSE s2.cursor
           s3 == IF x = None \/ audition THEN ClearLoops(s2)
                 ELSE ArmFromPlay(ClearLoops(s2), x)
           target == IF /\ transport = "stopped" /\ expected # None
                        /\ Contains(expected, from)
                     THEN expected ELSE None
           s4 == [s3 EXCEPT !.cursor = from]
<1>1. Sound(s0)
  BY ClickSound
<1>2. Sound(s1)
  <2> HIDE DEF s0
  <2>1. Sound([ClearAll(s0) EXCEPT !.preview = TRUE])
    BY <1>1, ClearAllSound DEF Sound, States, OneTargetIn
  <2>2. Sound([s0 EXCEPT !.preview = @ /\ transport # "stopped"])
    BY <1>1 DEF Sound, States, OneTargetIn
  <2> QED BY <2>1, <2>2
<1>3. Sound(s2)
  <2> HIDE DEF s1
  <2> QED BY <1>2 DEF Sound, States, OneTargetIn, Selections
<1>4. Sound(s3)
  <2> HIDE DEF s2
  <2> QED BY <1>3, ClearLoopsSound, ArmFromPlaySound DEF SongOrNone
<1>5. from \in Pos
  <2> HIDE DEF s2
  <2> QED BY <1>3, StartIsPos DEF Sound, States, SongOrNone
<1>6. target \in SongOrNone
  <2> HIDE DEF s2, from
  <2> QED BY <1>3, NoneTypes DEF Sound, States, Selections
<1>7. Sound(s4)
  <2> HIDE DEF s3, from
  <2> QED BY <1>4, <1>5 DEF Sound, States, OneTargetIn
<1>8. Sound(SetPending(s4, target)) /\ Sound(ReaperPlay(SetPending(s4, target), target))
  <2> HIDE DEF s4, target
  <2> QED BY <1>6, <1>7, SetPendingSound, ReaperPlaySound
<1>9. Becomes(ReaperPlay(SetPending(s4, target), target))
  BY DEF Play
<1> HIDE DEF s4, target
<1>10. /\ SetPending(s4, target).pending = [song |-> target, age |-> 0]
       /\ SetPending(s4, target).last = NoLast
  BY <1>7 DEF SetPending, Sound, States
<1> QED BY <1>8, <1>9, <1>10 DEF Sound

\* A Play keeps the invariant.
LEMMA PlayInv ==
  ASSUME Inv, NEW x \in SongOrNone, NEW seeks \in BOOLEAN, NEW audition \in BOOLEAN,
         Play(x, seeks, audition)
  PROVE  Inv'
<1>1. PICK r, y : Becomes(ReaperPlay(r, y)) /\ Sound(ReaperPlay(r, y))
  BY PlayRecord
<1>2. cmds' \in 0..MaxCommands
  BY GivenType DEF Play
<1>3. /\ pos' \in Pos /\ click' \in SongOrNone /\ mode' \in {"off", "auto1", "auto2"}
      /\ atbl' \in BOOLEAN /\ autoStop' \in BOOLEAN
      /\ held' \in BOOLEAN /\ lag' \in 0..MaxLate
  BY NoneTypes DEF Play, Inv, TypeOK, settingVars, timerVars
<1> QED BY <1>1, <1>2, <1>3, BecomesInv

\* A Stop keeps the invariant: it goes through the record.
LEMMA StopInv ==
  ASSUME Inv, NEW x \in SongOrNone, Stop(x)
  PROVE  Inv'
<1> DEFINE s == StopTransport(SetPending(ApplyClick(Now), None), x, FALSE)
<1>1. Sound(s)
  BY ClickSound, SetPendingSound, StopTransportSound, NoneTypes
<1>2. /\ Becomes(s) /\ cmds' \in 0..MaxCommands /\ pos' \in Pos /\ click' \in SongOrNone
      /\ mode' \in {"off", "auto1", "auto2"} /\ atbl' \in BOOLEAN
      /\ autoStop' \in BOOLEAN
      /\ held' \in BOOLEAN /\ lag' \in 0..MaxLate
  BY GivenType, NoneTypes DEF Stop, Inv, TypeOK, settingVars, timerVars
<1> HIDE DEF s
<1> QED BY <1>1, <1>2, BecomesInv

\* A Pause keeps the invariant.
LEMMA PauseInv == Inv /\ Pause => Inv'
<1> SUFFICES ASSUME Inv, Pause PROVE Inv'
  OBVIOUS
<1> DEFINE p == SetPending(Now, None)
           r == CASE transport = "playing" -> "paused"
                  [] transport = "paused"  -> "playing"
                  [] OTHER -> transport
           s == [p EXCEPT !.transport = r, !.seek = NoSeek]
<1>1. Sound(p)
  BY NowSound, SetPendingSound, NoneTypes
<1>2. r \in {"stopped", "playing", "paused"}
  BY DEF Inv, TypeOK
<1>3. Sound(s)
  <2> HIDE DEF p, r
  <2> QED BY <1>1, <1>2, NoneTypes DEF Sound, States, OneTargetIn
<1>4. pos' \in Pos
  <2>1. pos' = IF seek.kind = "start" THEN seek.to ELSE pos
    BY DEF Pause
  <2> QED BY <2>1, SeekTarget DEF Inv, TypeOK
<1>5. /\ Becomes(s) /\ cmds' \in 0..MaxCommands /\ click' \in SongOrNone
      /\ mode' \in {"off", "auto1", "auto2"} /\ atbl' \in BOOLEAN
      /\ autoStop' \in BOOLEAN
      /\ held' \in BOOLEAN /\ lag' \in 0..MaxLate
  BY GivenType DEF Pause, Inv, TypeOK, settingVars, timerVars
<1> HIDE DEF s
<1> QED BY <1>3, <1>4, <1>5, BecomesInv

\* REAPER's Stop, handled first by the extension, keeps the invariant.
LEMMA HookedStopInv == Inv /\ HookedStop => Inv'
<1> SUFFICES ASSUME Inv, HookedStop PROVE Inv'
  OBVIOUS
<1> DEFINE s == IF transport # "stopped" THEN StopTransport(Now, None, FALSE)
                ELSE ClearLoops(ClearAll(Now))
<1>1. Sound(s)
  BY NowSound, StopTransportSound, ClearAllSound, ClearLoopsSound, NoneTypes
<1>2. /\ Becomes(s) /\ cmds' \in 0..MaxCommands /\ pos' \in Pos /\ click' \in SongOrNone
      /\ mode' \in {"off", "auto1", "auto2"} /\ atbl' \in BOOLEAN
      /\ autoStop' \in BOOLEAN
      /\ held' \in BOOLEAN /\ lag' \in 0..MaxLate
  BY GivenType DEF HookedStop, Inv, TypeOK, settingVars, timerVars
<1> HIDE DEF s
<1> QED BY <1>1, <1>2, BecomesInv

\* REAPER's Play keeps the invariant.
LEMMA HookedPlayInv == Inv /\ HookedPlay => Inv'
<1> SUFFICES ASSUME Inv, HookedPlay PROVE Inv'
  OBVIOUS
<1>1. Sound(ReaperPlay(Now, None))
  BY NowSound, ReaperPlaySound, NoneTypes
<1>2. /\ Becomes(ReaperPlay(Now, None)) /\ cmds' \in 0..MaxCommands /\ pos' \in Pos
      /\ click' \in SongOrNone /\ mode' \in {"off", "auto1", "auto2"}
      /\ atbl' \in BOOLEAN /\ autoStop' \in BOOLEAN
      /\ held' \in BOOLEAN /\ lag' \in 0..MaxLate
  BY GivenType DEF HookedPlay, Inv, TypeOK, settingVars, timerVars
<1> QED BY <1>1, <1>2, BecomesInv

\* Applying the pending selection keeps the invariant.
LEMMA ProcessSelectionInv == Inv /\ ProcessSelection => Inv'
<1> SUFFICES ASSUME Inv, ProcessSelection PROVE Inv'
  OBVIOUS
<1>1. /\ Becomes(ApplyClick(Now)) /\ cmds' \in 0..MaxCommands /\ pos' \in Pos
      /\ click' \in SongOrNone /\ mode' \in {"off", "auto1", "auto2"}
      /\ atbl' \in BOOLEAN /\ autoStop' \in BOOLEAN
      /\ held' \in BOOLEAN /\ lag' \in 0..MaxLate
  BY NoneTypes DEF ProcessSelection, Inv, TypeOK, settingVars, timerVars
<1> QED BY <1>1, ClickSound, BecomesInv

\* Queueing a song keeps the invariant: at most one target is left.
LEMMA QueueSongInv ==
  ASSUME Inv, NEW x \in Songs, NEW manual \in BOOLEAN, NEW exact \in BOOLEAN,
         NEW drawerOpen \in BOOLEAN, QueueSong(x, manual, exact, drawerOpen)
  PROVE  Inv'
<1>1. cmds' \in 0..MaxCommands
  BY GivenType DEF QueueSong
<1>2. QueuedBy(x, manual) \in Queues
  BY NoneTypes DEF Inv, TypeOK, Currents, Queues, QueuedBy, SongOrNone
<1>3. /\ queue' \in Queues /\ boundary' \in SongOrNone
      /\ queue'.song = None \/ boundary' = None
  <2>1. \/ UNCHANGED <<queue, boundary>>
        \/ queue' = NoQueue /\ UNCHANGED boundary
        \/ queue' = QueuedBy(x, manual) /\ boundary' = None
    BY DEF QueueSong
  <2>2. CASE UNCHANGED <<queue, boundary>>
    BY <2>2 DEF Inv, TypeOK, OneTarget
  <2>3. CASE queue' = NoQueue /\ UNCHANGED boundary
    BY <2>3, NoneTypes DEF Inv, TypeOK, NoQueue
  <2>4. CASE queue' = QueuedBy(x, manual) /\ boundary' = None
    BY <2>4, <1>2, NoneTypes
  <2> QED BY <2>1, <2>2, <2>3, <2>4
<1> QED BY <1>1, <1>3 DEF QueueSong, Inv, TypeOK, OneTarget, reaperVars, settingVars,
   timerVars, memoryVars

\* Switching Auto 1 or Auto 2 keeps the invariant.
LEMMA SetAutoInv ==
  ASSUME Inv, NEW m \in {"auto1", "auto2"}, SetAuto(m)
  PROVE  Inv'
<1>1. cmds' \in 0..MaxCommands
  BY GivenType DEF SetAuto
<1>2. /\ queue' \in Queues /\ boundary' \in SongOrNone
      /\ queue'.song = None \/ boundary' = None
      /\ mode' \in {"off", "auto1", "auto2"}
  BY NoneTypes DEF SetAuto, Inv, TypeOK, OneTarget, NoQueue
<1> QED BY <1>1, <1>2 DEF SetAuto, Inv, TypeOK, OneTarget, reaperVars, memoryVars,
   timerVars

\* The other settings, clearing the queue or the selection, and a stop from
\* outside keep it too.
LEMMA SettingInv ==
  Inv /\ (ClearQueue \/ ToggleAtBl \/ ToggleAutoStop \/ ClearSelection \/ ReaperStops
          \/ ToggleLoop \/ DisarmPart) => Inv'
<1> SUFFICES ASSUME Inv PROVE (ClearQueue \/ ToggleAtBl \/ ToggleAutoStop
               \/ ClearSelection \/ ReaperStops \/ ToggleLoop \/ DisarmPart) => Inv'
  OBVIOUS
<1>1. ASSUME ClearQueue PROVE Inv'
  BY <1>1, GivenType, NoneTypes DEF ClearQueue, Inv, TypeOK, OneTarget, NoQueue,
     reaperVars, settingVars, memoryVars, timerVars
<1>2. ASSUME ToggleAtBl PROVE Inv'
  <2>1. boundary' \in {None, boundary} /\ atbl' \in BOOLEAN
    BY <1>2 DEF ToggleAtBl
  <2> QED BY <1>2, <2>1, GivenType, NoneTypes DEF ToggleAtBl, Inv, TypeOK, OneTarget,
       reaperVars, memoryVars, timerVars
<1>3. ASSUME ToggleAutoStop PROVE Inv'
  BY <1>3, GivenType DEF ToggleAutoStop, Inv, TypeOK, OneTarget,
     reaperVars, memoryVars, targetVars, timerVars
<1>4. ASSUME ClearSelection PROVE Inv'
  BY <1>4, GivenType, NoneTypes DEF ClearSelection, Inv, TypeOK, OneTarget,
     reaperVars, settingVars, memoryVars, timerVars
<1>5. ASSUME ReaperStops PROVE Inv'
  BY <1>5, GivenType, NoneTypes DEF ReaperStops, Inv, TypeOK, OneTarget,
     settingVars, memoryVars, targetVars, timerVars
<1>6. ASSUME ToggleLoop PROVE Inv'
  BY <1>6, GivenType, NoneTypes, PlayingSongType DEF ToggleLoop, Inv, TypeOK, OneTarget,
     settingVars, memoryVars, targetVars, timerVars
<1>7. ASSUME DisarmPart PROVE Inv'
  BY <1>7, GivenType, NoneTypes DEF DisarmPart, Inv, TypeOK, OneTarget,
     settingVars, reaperVars, targetVars, timerVars
<1> QED BY <1>1, <1>2, <1>3, <1>4, <1>5, <1>6, <1>7

\* A selection that is not applied yet changes nothing else.
LEMMA SelectInv ==
  ASSUME Inv, NEW x \in Songs, Select(x)
  PROVE  Inv'
BY GivenType DEF Select, Inv, TypeOK, OneTarget, SongOrNone,
   reaperVars, settingVars, memoryVars, targetVars, timerVars

\* Holding an arrow key, or letting go of it, keeps the invariant.
LEMMA KeyInv == Inv /\ (HoldKey \/ ReleaseKey) => Inv'
BY GivenType DEF HoldKey, ReleaseKey, Inv, TypeOK, OneTarget,
   reaperVars, settingVars, targetVars, memoryVars

\* Going to a part, or disarming it, keeps the invariant.
LEMMA GoToPartInv ==
  ASSUME Inv, NEW m \in Markers, GoToPart(m)
  PROVE  Inv'
<1>1. cmds' \in 0..MaxCommands /\ m \in Pos
  BY GivenType, MarkerAssumption DEF GoToPart, Pos
<1>2. armed' \in Parts
  <2>1. CASE Playing
    <3>1. armed' = IF armed # NoPart THEN [armed EXCEPT !.at = m]
                   ELSE [at |-> m, origin |-> pos, lastPos |-> pos, age |-> 0]
      BY <2>1 DEF GoToPart
    <3> QED BY <3>1, <1>1, TimesAreNat DEF Inv, TypeOK, Parts, PosOrNone
  <2>2. CASE ~Playing
    BY <2>2, NoneTypes DEF GoToPart
  <2> QED BY <2>1, <2>2
<1>3. queue' \in Queues /\ queue'.song = queue.song
  <2>1. queue' = [queue EXCEPT !.sought = None] \/ queue' = queue
    BY DEF GoToPart
  <2> QED BY <2>1, NoneTypes DEF Inv, TypeOK, Queues
<1>4. seek' \in Seeks
  <2>1. seek' = [to |-> m, kind |-> "part", song |-> None, age |-> 0] \/ seek' = seek
    BY DEF GoToPart
  <2>2. [to |-> m, kind |-> "part", song |-> None, age |-> 0] \in Seeks
    BY <1>1, NoneTypes, TimesAreNat DEF Seeks
  <2> QED BY <2>1, <2>2 DEF Inv, TypeOK
<1>5. cursor' \in Pos
  BY <1>1 DEF GoToPart
<1> QED BY <1>1, <1>2, <1>3, <1>4, <1>5 DEF GoToPart, Inv, TypeOK, OneTarget, settingVars, timerVars

\* Esc keeps the invariant.
LEMMA EscapePartInv == Inv /\ EscapePart => Inv'
<1> SUFFICES ASSUME Inv, EscapePart PROVE Inv'
  OBVIOUS
<1> DEFINE here  == IF PlayingSong(pos) # None THEN PlayingSong(pos) ELSE cur.song
           ahead == IF here = None THEN {m \in Markers : pos <= m}
                    ELSE {m \in Markers : pos < m /\ Contains(here, m)}
           to == IF ahead # {} THEN LowestIn(ahead)
                 ELSE IF here # None THEN End[here] ELSE NoPos
           asked == [to |-> to, kind |-> "part", song |-> None, age |-> 0]
<1>1. cmds' \in 0..MaxCommands
  BY GivenType DEF EscapePart
<1>2. here \in SongOrNone
  BY PlayingSongType DEF Inv, TypeOK, Currents
<1>3. to = NoPos \/ to \in Pos
  <2>1. 0 \in Pos /\ ahead \subseteq Pos
    <3>1. ahead \subseteq Markers
      <4> HIDE DEF here
      <4> QED BY DEF ahead
    <3>2. 0 \in Pos
      BY TimesAreNat DEF Pos
    <3> HIDE DEF ahead
    <3> QED BY <3>1, <3>2, MarkerAssumption DEF Pos
  <2>2. LowestIn(ahead) \in Pos
    <3> HIDE DEF ahead
    <3> QED BY <2>1, LowestType
  <2>3. here # None => End[here] \in Pos
    <3> HIDE DEF here
    <3> QED BY <1>2, StartIsPos DEF SongOrNone
  <2> HIDE DEF here, ahead
  <2> QED BY <2>2, <2>3
<1>4. to \in Pos => asked \in Seeks
  <2> HIDE DEF to
  <2> QED BY NoneTypes, TimesAreNat DEF Seeks
<1>5. /\ cursor' = IF to = NoPos THEN cursor ELSE to
      /\ seek' = IF to = NoPos \/ ~Playing THEN seek ELSE asked
      /\ armed' = NoPart
  BY DEF EscapePart
<1>6. cursor' \in Pos /\ seek' \in Seeks /\ armed' \in Parts
  <2> HIDE DEF to, asked
  <2> QED BY <1>3, <1>4, <1>5, NoneTypes DEF Inv, TypeOK
<1>7. UNCHANGED <<transport, pos, loop, settingVars, targetVars, pending, cur, last,
                  suppress, preview, click, timerVars>>
  BY DEF EscapePart
<1> QED BY <1>1, <1>6, <1>7 DEF Inv, TypeOK, OneTarget, settingVars, timerVars, targetVars

\* Time keeps the invariant: REAPER plays on to a position of the project.
LEMMA ElapseInv == Inv /\ Elapse => Inv'
<1> SUFFICES ASSUME Inv, Elapse PROVE Inv'
  OBVIOUS
<1>1. transport' \in {"stopped", "playing", "paused"} /\ pos' \in Pos /\ seek' \in Seeks
  <2>1. CASE UNCHANGED <<pos, seek>>
    BY <2>1 DEF Elapse, Inv, TypeOK
  <2>2. CASE Arrives
    BY <2>2, SeekTarget, NoneTypes DEF Arrives, Elapse, Inv, TypeOK
  <2>3. CASE Drifts
    <3>1. seek \in [to : Pos, kind : {"start", "queue", "part"}, song : SongOrNone,
                    age : 0..MaxStale]
      BY <2>3 DEF Drifts, Inv, TypeOK, Seeks, NoSeek
    <3>2. seek.age + 1 \in 0..MaxStale
      BY <2>3, <3>1, TimesAreNat DEF Drifts
    <3>3. seek' \in Seeks
      BY <2>3, <3>1, <3>2 DEF Drifts, Seeks
    <3>4. pos' \in Pos
      BY <2>3, TimesAreNat DEF Drifts, Inv, TypeOK, Pos
    <3> QED BY <3>3, <3>4 DEF Elapse, Inv, TypeOK
  <2>4. CASE RunsOn
    <3>1. loop # None => Start[loop] \in Pos
      BY StartIsPos DEF Inv, TypeOK, SongOrNone
    <3>2. pos + 1 \in Pos
      BY <2>4, TimesAreNat DEF RunsOn, Inv, TypeOK, Pos
    <3>3. pos' = pos + 1 \/ (loop # None /\ pos' = Start[loop])
      BY <2>4 DEF RunsOn
    <3>4. pos' \in Pos
      BY <3>1, <3>2, <3>3
    <3> QED BY <2>4, <3>4 DEF RunsOn, Elapse, Inv, TypeOK
  <2> QED BY <2>1, <2>2, <2>3, <2>4 DEF Elapse
<1>2. pending' \in Pendings
  BY TimesAreNat DEF Elapse, Inv, TypeOK, Pendings
<1>3. armed' \in Parts
  BY TimesAreNat DEF Elapse, Inv, TypeOK, Parts
<1>4. suppress' \in 0..SuppressLife /\ lag' \in 0..MaxLate
  BY TimesAreNat DEF Elapse, Inv, TypeOK
<1> QED BY <1>1, <1>2, <1>3, <1>4 DEF Elapse, Inv, TypeOK, OneTarget, settingVars, targetVars

\* A step that changes nothing keeps the invariant.
LEMMA StutterInv == Inv /\ UNCHANGED vars => Inv'
BY DEF Inv, TypeOK, OneTarget, vars, reaperVars, settingVars, timerVars, targetVars, memoryVars

\* The types hold, and never do the queue and the AT/BL target both wait: Init
\* establishes both, and every handler, however it is interleaved with REAPER's
\* playback, keeps them.
THEOREM InvHolds == Spec => []Inv
<1>1. Inv /\ [Next]_vars => Inv'
  <2> SUFFICES ASSUME Inv, [Next]_vars PROVE Inv'
    OBVIOUS
  <2>1. ASSUME Command PROVE Inv'
    BY <2>1, QueueSongInv, SetAutoInv, SettingInv, SelectInv, PlayInv, StopInv, PauseInv,
       HookedStopInv, HookedPlayInv, GoToPartInv, EscapePartInv, KeyInv DEF Command
  <2>2. ASSUME Next PROVE Inv'
    BY <2>1, <2>2, CycleInv, ProcessSelectionInv, KeyInv, ElapseInv DEF Next
  <2> QED BY <2>2, StutterInv
<1> QED BY InitInv, <1>1, PTL DEF Spec

\* Every variable stays in its range, whatever the project and the commands.
THEOREM TypeCorrect == Spec => []TypeOK
<1>1. Inv => TypeOK
  BY DEF Inv
<1> QED BY <1>1, InvHolds, PTL

\* The queue and the AT/BL boundary target never both wait.
THEOREM OneTargetHolds == Spec => []OneTarget
<1>1. Inv => OneTarget
  BY DEF Inv
<1> QED BY <1>1, InvHolds, PTL
-----------------------------------------------------------------------------
(***************************************************************************)
(* REAPER's one pending seek while a part is armed.  A routine that leaves *)
(* a part armed found it armed, and left the seek and the transport alone. *)
(***************************************************************************)
LeavesPart(s, t) ==
  t.armed # NoPart => /\ s.armed # NoPart /\ t.armed.at = s.armed.at
                      /\ t.seek = s.seek /\ t.transport = s.transport

\* A stop disarms the part, with every loop.
LEMMA StopDisarms ==
  ASSUME NEW s, Sound(s), NEW x \in SongOrNone, NEW validated \in BOOLEAN
  PROVE  StopTransport(s, x, validated).armed = NoPart
<1> DEFINE t == StopTarget(s, x, validated)
           u == [s EXCEPT !.transport = "stopped", !.seek = NoSeek,
                          !.selected = [song |-> t, nav |-> FALSE],
                          !.suppress = SuppressLife,
                          !.cursor = IF t = None \/ (s.cur.song # None /\ SameSpan(t, s.cur.song))
                                     THEN s.cursor ELSE Start[t]]
<1>1. DOMAIN u = DOMAIN s /\ "armed" \in DOMAIN s
  BY DEF Sound, States
<1> HIDE DEF u
<1> QED BY <1>1 DEF StopTransport, ClearLoops, ClearAll, u

\* Without an armed part the steps of the queue arm none.
LEMMA QueueArmsNoPart ==
  ASSUME NEW s, Sound(s), s.armed = NoPart
  PROVE  FireQueue(ArmNext(DropChild(DropBoundary(ConsumeQueue(s))))).armed = NoPart
<1>1. ASSUME NEW r, Sound(r), r.armed = NoPart
      PROVE  /\ ConsumeQueue(r).armed = NoPart /\ DropBoundary(r).armed = NoPart
             /\ DropChild(r).armed = NoPart /\ ArmNext(r).armed = NoPart
  BY <1>1 DEF ConsumeQueue, DropBoundary, DropChild, ArmNext, SetQueue, Sound, States
<1>2. ASSUME NEW r, Sound(r), r.armed = NoPart
      PROVE  FireQueue(r).armed = NoPart
  <2> DEFINE here == SourceOf(r.cur.song, r.cur.pos)
             kept == IF mode = "auto2" /\ r.queue.source # None THEN r.queue.source ELSE here
             inside == mode = "auto2" /\ Contains(kept, r.cur.pos)
             src  == IF inside THEN here ELSE kept
             t    == IF inside THEN [r EXCEPT !.queue.source = here] ELSE r
  <2>1. here \in SongOrNone
    BY <1>2, SourceType DEF Sound, States, Currents
  <2>2. Sound([r EXCEPT !.queue.source = here])
    <3>1. [r EXCEPT !.queue.source = here] \in States
      BY <1>2, <2>1 DEF Sound, States, Queues
    <3>2. [r EXCEPT !.queue.source = here].queue.song = r.queue.song
      BY <1>2 DEF Sound, States, Queues
    <3> QED BY <1>2, <3>1, <3>2 DEF Sound, States, OneTargetIn
  <2>3. Sound(t) /\ t.armed = NoPart
    BY <1>2, <2>2 DEF Sound, States
  <2>4. StopTransport(t, None, FALSE).armed = NoPart
    BY <2>3, StopDisarms, NoneTypes
  <2>5. Sound(StopTransport(t, None, FALSE))
    BY <2>3, StopTransportSound, NoneTypes
  <2>6. [StopTransport(t, None, FALSE) EXCEPT !.acted = TRUE].armed = NoPart
    BY <2>4, <2>5 DEF Sound, States
  <2>7. AskForSeek(t, src).armed = NoPart
    BY <2>3 DEF AskForSeek, Sound, States
  <2> HIDE DEF here, kept, inside, src, t
  <2> QED BY <1>2, <2>3, <2>6, <2>7 DEF FireQueue, here, kept, inside, src, t
<1> QED
  BY <1>1, <1>2, ConsumeQueueSound, DropBoundarySound, DropChildSound, ArmNextSound

\* The queue's turn leaves an armed part and its seek alone.
LEMMA QueueLeavesPart ==
  ASSUME NEW s, Sound(s) PROVE LeavesPart(s, MaintainQueue(s))
<1>1. LeavesPart(s, [ClearAll(s) EXCEPT !.preview = s.cur.playing])
  BY DEF LeavesPart, ClearAll, Sound, States
<1>2. LeavesPart(s, [s EXCEPT !.queue.sought = None])
  BY DEF LeavesPart, Sound, States
<1>3. s.armed = NoPart => LeavesPart(s, ClearAll(s))
  BY DEF LeavesPart, ClearAll, Sound, States
<1>4. [StopTransport(s, None, FALSE) EXCEPT !.acted = TRUE].armed = NoPart
  BY StopDisarms, StopTransportSound, NoneTypes DEF Sound, States
<1> QED BY <1>1, <1>2, <1>3, <1>4, QueueArmsNoPart DEF MaintainQueue, LeavesPart

\* So does Auto Stop's turn: it stops, which disarms, or it changes only memory.
LEMMA AutoStopLeavesPart ==
  ASSUME NEW s, Sound(s) PROVE LeavesPart(s, MaintainAutoStop(s))
<1>1. ASSUME NEW r, Sound(r)
      PROVE  LeavesPart(r, StopAtEnd(r))
  <2>1. \A x \in SongOrNone, v \in BOOLEAN : StopTransport(r, x, v).armed = NoPart
    BY <1>1, StopDisarms
  <2> DEFINE nav == /\ ~(r.queue.song # None \/ r.boundary # None) /\ r.selected.nav
                    /\ r.selected.song # None
                    /\ Start[r.selected.song] # Start[r.last.span]
  <2>2. nav \in BOOLEAN /\ r.selected.song \in SongOrNone
    BY <1>1 DEF Sound, States, Selections
  <2> HIDE DEF nav
  <2>3. StopTransport(r, IF nav THEN r.selected.song ELSE None, nav).armed = NoPart
    BY <2>1, <2>2, NoneTypes
  <2> QED BY <2>3 DEF StopAtEnd, LeavesPart, nav
<1>2. LeavesPart(s, [s EXCEPT !.last = NoLast])
  BY DEF LeavesPart, Sound, States
<1>3. s.armed = NoPart => RememberSong(s).armed = NoPart
  BY DEF RememberSong, Sound, States
<1>4. Sound(RememberSong(s))
  BY RememberSongSound
<1>5. LeavesPart(s, s)
  BY DEF LeavesPart
<1> QED BY <1>1, <1>2, <1>3, <1>4, <1>5 DEF MaintainAutoStop, LeavesPart

\* A cycle that leaves a part armed leaves REAPER's seek and transport alone.
LEMMA CycleLeavesPart == Inv => LeavesPart(Now, CycleResult)
<1> SUFFICES ASSUME Inv PROVE LeavesPart(Now, CycleResult)
  OBVIOUS
<1> DEFINE n == [Now EXCEPT !.pending = View.pending]
           s == PromoteOnStop(n)
           c == [playing |-> Playing, song |-> View.song, pos |-> View.pos]
           u == [s EXCEPT !.cur = c]
           q == IF u.pending # NoPending THEN u ELSE MaintainQueue(u)
           a == IF q.acted THEN q ELSE MaintainAutoStop(q)
<1>1. Sound(n) /\ LeavesPart(Now, n)
  <2>1. Sound(Now)
    BY NowSound
  <2> QED BY <2>1, ViewType DEF LeavesPart, Sound, States, OneTargetIn
<1>2. Sound(s) /\ LeavesPart(n, s)
  <2>1. Sound(s)
    BY <1>1, PromoteOnStopSound
  <2> DEFINE t == IF n.queue.song # None THEN n.queue.song ELSE n.boundary
             w == [n EXCEPT !.selected = [song |-> t, nav |-> FALSE],
                            !.suppress = SuppressLife, !.cursor = Start[t]]
  <2>2. "armed" \in DOMAIN w
    BY <1>1 DEF Sound, States
  <2> HIDE DEF n, w
  <2>3. ClearLoops(ClearAll(w)).armed = NoPart
    BY <2>2 DEF ClearLoops, ClearAll
  <2> QED BY <2>1, <2>3 DEF LeavesPart, PromoteOnStop, w
<1>3. Sound(u) /\ LeavesPart(s, u)
  <2>1. c \in Currents
    BY ViewType DEF Currents, Playing
  <2> HIDE DEF n, s, c
  <2> QED BY <1>2, <2>1 DEF LeavesPart, Sound, States, OneTargetIn
<1>4. Sound(q) /\ LeavesPart(u, q)
  <2> HIDE DEF u
  <2> QED BY <1>3, QueueLeavesPart, MaintainQueueSound DEF LeavesPart
<1>5. Sound(a) /\ LeavesPart(q, a)
  <2> HIDE DEF q
  <2> QED BY <1>4, AutoStopLeavesPart, MaintainAutoStopSound DEF LeavesPart
<1>6. LeavesPart(a, PartsArrival(a))
  <2> HIDE DEF a
  <2> QED BY <1>5 DEF LeavesPart, PartsArrival, Sound, States, Parts
<1>7. CycleResult = PartsArrival(a)
  BY DEF CycleResult, Automate
<1> HIDE DEF n, s, u, q, a
<1> QED BY <1>1, <1>2, <1>3, <1>4, <1>5, <1>6, <1>7 DEF LeavesPart

\* A command that keeps an armed part keeps its seek and playback with it; only
\* arming a part sets both, and an armed part's seek is never taken by a Play
\* that a paused or stopped transport needs first.
LEMMA PartsStep ==
  ASSUME Inv, PartsOwnsSeek, [Next]_vars
  PROVE  PartsOwnsSeek'
<1>1. CASE UNCHANGED vars
  BY <1>1 DEF PartsOwnsSeek, vars, reaperVars, memoryVars, Playing
<1>2. CASE Cycle
  <2>1. LeavesPart(Now, CycleResult)
    BY CycleLeavesPart
  <2>2. /\ armed' = CycleResult.armed /\ seek' = CycleResult.seek
        /\ transport' = CycleResult.transport
    BY <1>2 DEF Cycle, Becomes
  <2>3. Now.armed = armed /\ Now.seek = seek /\ Now.transport = transport
    BY DEF Now
  <2> QED BY <2>1, <2>2, <2>3 DEF PartsOwnsSeek, LeavesPart, Playing
<1>3. CASE ProcessSelection
  <2>1. armed' = armed /\ seek' = seek /\ transport' = transport
    BY <1>3 DEF ProcessSelection, Becomes, ApplyClick, Now
  <2> QED BY <2>1 DEF PartsOwnsSeek, Playing
<1>4. CASE Elapse
  <2>1. /\ armed' = armed \/ (armed # NoPart /\ armed'.at = armed.at)
    BY <1>4 DEF Elapse, Inv, TypeOK, Parts
  <2>2. /\ transport' = transport \/ transport' = "stopped"
        /\ seek' = seek \/ seek' = NoSeek \/ (seek'.kind = "start")
    <3>1. Drifts => seek'.kind = "start"
      BY DEF Drifts, Inv, TypeOK, Seeks, NoSeek
    <3> QED BY <1>4, <3>1 DEF Elapse, Arrives, RunsOn
  <2> QED BY <2>1, <2>2 DEF PartsOwnsSeek, Playing, NoSeek
<1>5. CASE Command
  <2>1. CASE \E x \in Songs, manual, exact, drawerOpen \in BOOLEAN :
                QueueSong(x, manual, exact, drawerOpen)
    BY <2>1 DEF QueueSong, PartsOwnsSeek, Playing, reaperVars, memoryVars
  <2>2. CASE \/ ClearQueue \/ \E m \in {"auto1", "auto2"} : SetAuto(m)
             \/ ToggleAtBl \/ ToggleAutoStop \/ ClearSelection \/ \E x \in Songs : Select(x)
    BY <2>2 DEF ClearQueue, SetAuto, ToggleAtBl, ToggleAutoStop, Select, ClearSelection,
       PartsOwnsSeek, Playing, reaperVars, memoryVars
  <2>3. CASE \E x \in SongOrNone, seeks, audition \in BOOLEAN : Play(x, seeks, audition)
    <3>1. PICK r, y : Becomes(ReaperPlay(r, y)) /\ r \in States
      BY <2>3, PlayRecord
    <3>2. seek' = NoSeek \/ seek'.kind = "start"
      BY <3>1 DEF Becomes, ReaperPlay, States
    <3> QED BY <3>2 DEF PartsOwnsSeek, NoSeek
  <2>4. CASE \E x \in SongOrNone : Stop(x)
    <3>1. Sound(SetPending(ApplyClick(Now), None))
      BY ClickSound, SetPendingSound, NoneTypes
    <3>2. armed' = NoPart
      BY <2>4, <3>1, StopDisarms DEF Stop, Becomes
    <3> QED BY <3>2 DEF PartsOwnsSeek
  <2>5. CASE Pause
    <3>1. seek' = NoSeek
      BY <2>5 DEF Pause, Becomes, SetPending, Now
    <3> QED BY <3>1 DEF PartsOwnsSeek, NoSeek
  <2>6. CASE HookedStop
    <3>1. armed' = NoPart
      BY <2>6, NowSound, StopDisarms, NoneTypes
         DEF HookedStop, Becomes, ClearLoops, ClearAll, Now
    <3> QED BY <3>1 DEF PartsOwnsSeek
  <2>7. CASE HookedPlay
    <3>1. seek' = NoSeek \/ seek'.kind = "start"
      BY <2>7 DEF HookedPlay, Becomes, ReaperPlay, Now
    <3> QED BY <3>1 DEF PartsOwnsSeek, NoSeek
  <2>8. CASE ReaperStops
    BY <2>8 DEF ReaperStops, PartsOwnsSeek, Playing
  <2>9. CASE \E m \in Markers : GoToPart(m)
    BY <2>9 DEF GoToPart, PartsOwnsSeek, Playing, Inv, TypeOK, Parts
  <2>10. CASE DisarmPart \/ EscapePart
    BY <2>10 DEF DisarmPart, EscapePart, PartsOwnsSeek
  <2>11. CASE ToggleLoop
    BY <2>11 DEF ToggleLoop, PartsOwnsSeek, Playing, memoryVars
  <2>12. CASE HoldKey
    BY <2>12 DEF HoldKey, PartsOwnsSeek, Playing, reaperVars, memoryVars
  <2> QED BY <1>5, <2>1, <2>2, <2>3, <2>4, <2>5, <2>6, <2>7, <2>8, <2>9, <2>10, <2>11, <2>12
          DEF Command
<1>6. CASE ReleaseKey
  BY <1>6 DEF ReleaseKey, PartsOwnsSeek, Playing, reaperVars, memoryVars
<1> QED BY <1>1, <1>2, <1>3, <1>4, <1>5, <1>6 DEF Next

\* While a part is armed and playback runs, REAPER's pending seek is never the
\* queue's, and a part's seek leads to the armed part: whatever the project, the
\* settings, the commands and their order.
THEOREM PartsOwnsSeekHolds == Spec => []PartsOwnsSeek
<1>1. Init => PartsOwnsSeek
  BY DEF Init, PartsOwnsSeek
<1>2. Inv /\ PartsOwnsSeek /\ [Next]_vars => PartsOwnsSeek'
  BY PartsStep
<1> QED BY <1>1, <1>2, InvHolds, PTL DEF Spec

-----------------------------------------------------------------------------
(***************************************************************************)
(* A manual queue.  No routine of a cycle puts another song in its place   *)
(* unless the queued song plays, and none changes what the cycle published.*)
(***************************************************************************)
Holds(s, t) == t.queue.song \in {s.queue.song, None} /\ t.cur = s.cur

\* A stop empties the queue and leaves the published song.
LEMMA StopHolds ==
  ASSUME NEW s, Sound(s), NEW x \in SongOrNone, NEW validated \in BOOLEAN
  PROVE  Holds(s, StopTransport(s, x, validated))
<1> DEFINE t == StopTarget(s, x, validated)
           u == [s EXCEPT !.transport = "stopped", !.seek = NoSeek,
                          !.selected = [song |-> t, nav |-> FALSE],
                          !.suppress = SuppressLife,
                          !.cursor = IF t = None \/ (s.cur.song # None /\ SameSpan(t, s.cur.song))
                                     THEN s.cursor ELSE Start[t]]
<1>1. DOMAIN u = DOMAIN s /\ {"queue", "cur"} \subseteq DOMAIN s /\ u.cur = s.cur
  BY DEF Sound, States
<1> HIDE DEF u
<1> QED BY <1>1 DEF Holds, StopTransport, ClearLoops, ClearAll, NoQueue, u

\* The end of the queue's source changes the source or the signature of the
\* queue, or stops.
LEMMA FireHolds ==
  ASSUME NEW s, Sound(s) PROVE Holds(s, FireQueue(s))
<1> DEFINE here == SourceOf(s.cur.song, s.cur.pos)
           kept == IF mode = "auto2" /\ s.queue.source # None THEN s.queue.source ELSE here
           inside == mode = "auto2" /\ Contains(kept, s.cur.pos)
           src  == IF inside THEN here ELSE kept
           t    == IF inside THEN [s EXCEPT !.queue.source = here] ELSE s
<1>1. here \in SongOrNone
  BY SourceType DEF Sound, States, Currents
<1>2. [s EXCEPT !.queue.source = here] \in States
  BY <1>1 DEF Sound, States, Queues
<1>3. /\ [s EXCEPT !.queue.source = here].queue.song = s.queue.song
      /\ [s EXCEPT !.queue.source = here].cur = s.cur
  BY DEF Sound, States, Queues
<1>4. Sound(t) /\ Holds(s, t)
  BY <1>2, <1>3 DEF Sound, OneTargetIn, Holds, States
<1>5. Holds(s, [StopTransport(t, None, FALSE) EXCEPT !.acted = TRUE])
  <2> HIDE DEF t
  <2>1. Holds(t, StopTransport(t, None, FALSE)) /\ Sound(StopTransport(t, None, FALSE))
    BY <1>4, StopHolds, StopTransportSound, NoneTypes
  <2> QED BY <1>4, <2>1 DEF Holds, Sound, States
<1>6. Holds(s, AskForSeek(t, src))
  <2> HIDE DEF t, src
  <2> QED BY <1>4 DEF Holds, AskForSeek, Sound, States, Queues
<1> HIDE DEF here, kept, inside, src, t
<1> QED BY <1>4, <1>5, <1>6 DEF FireQueue, Holds, here, kept, inside, src, t

\* The queue's turn holds a manual queue whose song does not play yet.
LEMMA QueueHolds ==
  ASSUME NEW s, Sound(s), ~s.cur.playing \/ (s.queue.manual /\ ~QueueIsPlaying(s))
  PROVE  Holds(s, MaintainQueue(s))
<1>1. Holds(s, ClearAll(s)) /\ Holds(s, [ClearAll(s) EXCEPT !.preview = s.cur.playing])
  BY DEF Holds, ClearAll, NoQueue, Sound, States
<1>2. Holds(s, [s EXCEPT !.queue.sought = None])
  BY DEF Holds, Sound, States, Queues
<1>3. Holds(s, [StopTransport(s, None, FALSE) EXCEPT !.acted = TRUE])
  <2>1. Holds(s, StopTransport(s, None, FALSE)) /\ Sound(StopTransport(s, None, FALSE))
    BY StopHolds, StopTransportSound, NoneTypes
  <2> QED BY <2>1 DEF Holds, Sound, States
<1>4. ASSUME s.queue.manual, ~QueueIsPlaying(s)
      PROVE  Holds(s, FireQueue(ArmNext(DropChild(DropBoundary(ConsumeQueue(s))))))
  <2>1. ConsumeQueue(s) = s
    BY <1>4 DEF ConsumeQueue
  <2>2. /\ DropBoundary(s) = [s EXCEPT !.boundary = None]
        /\ DropBoundary(s).queue = s.queue /\ DropBoundary(s).cur = s.cur
    BY <1>4 DEF DropBoundary, Sound, States
  <2>3. ArmNext(DropChild(DropBoundary(s))) = DropBoundary(s)
    BY <1>4, <2>2 DEF DropChild, ArmNext
  <2>4. Holds(DropBoundary(s), FireQueue(DropBoundary(s)))
    BY DropBoundarySound, FireHolds
  <2> QED BY <2>1, <2>2, <2>3, <2>4 DEF Holds
<1> QED BY <1>1, <1>2, <1>3, <1>4 DEF MaintainQueue

\* No routine changes what the cycle published.
LEMMA CurKept ==
  ASSUME NEW s, Sound(s)
  PROVE  MaintainQueue(s).cur = s.cur
<1>1. /\ ClearAll(s).cur = s.cur
      /\ [ClearAll(s) EXCEPT !.preview = s.cur.playing].cur = s.cur
      /\ [s EXCEPT !.queue.sought = None].cur = s.cur
  BY DEF ClearAll, Sound, States
<1>2. [StopTransport(s, None, FALSE) EXCEPT !.acted = TRUE].cur = s.cur
  BY StopHolds, StopTransportSound, NoneTypes DEF Holds, Sound, States
<1>3. ASSUME NEW r, Sound(r)
      PROVE  /\ ConsumeQueue(r).cur = r.cur /\ DropBoundary(r).cur = r.cur
             /\ DropChild(r).cur = r.cur /\ ArmNext(r).cur = r.cur
  BY <1>3 DEF ConsumeQueue, DropBoundary, DropChild, ArmNext, SetQueue, Sound, States
<1>4. FireQueue(ArmNext(DropChild(DropBoundary(ConsumeQueue(s))))).cur = s.cur
  BY <1>3, FireHolds, ConsumeQueueSound, DropBoundarySound, DropChildSound, ArmNextSound
     DEF Holds
<1> QED BY <1>1, <1>2, <1>4 DEF MaintainQueue

\* Auto Stop's turn holds every queue.
LEMMA AutoStopHolds ==
  ASSUME NEW s, Sound(s) PROVE Holds(s, MaintainAutoStop(s))
<1>1. ASSUME NEW r, Sound(r)
      PROVE  Holds(r, StopAtEnd(r))
  <2> DEFINE nav == /\ ~(r.queue.song # None \/ r.boundary # None) /\ r.selected.nav
                    /\ r.selected.song # None
                    /\ Start[r.selected.song] # Start[r.last.span]
  <2>1. nav \in BOOLEAN /\ r.selected.song \in SongOrNone
    BY <1>1 DEF Sound, States, Selections
  <2> HIDE DEF nav
  <2>2. Holds(r, StopTransport(r, IF nav THEN r.selected.song ELSE None, nav))
    BY <1>1, <2>1, StopHolds, NoneTypes
  <2> QED BY <2>2 DEF StopAtEnd, Holds, nav
<1>2. Holds(s, [s EXCEPT !.last = NoLast]) /\ Holds(s, s)
  BY DEF Holds, Sound, States
<1>3. Sound(RememberSong(s)) /\ Holds(s, RememberSong(s))
  BY RememberSongSound DEF RememberSong, Holds, Sound, States
<1> QED BY <1>1, <1>2, <1>3 DEF MaintainAutoStop, Holds

\* The arrival of a part holds every queue.
LEMMA ArrivalHolds ==
  ASSUME NEW s, Sound(s) PROVE Holds(s, PartsArrival(s))
BY DEF PartsArrival, Holds, Sound, States

\* A cycle keeps a manual queue, empties it, or found its song playing.
LEMMA CycleHoldsManual ==
  ASSUME Inv, queue.manual
  PROVE  \/ CycleResult.queue.song \in {queue.song, None}
         \/ CycleResult.cur.song = queue.song
         \/ Contains(queue.song, CycleResult.cur.pos)
<1> DEFINE n == [Now EXCEPT !.pending = View.pending]
           s == PromoteOnStop(n)
           c == [playing |-> Playing, song |-> View.song, pos |-> View.pos]
           u == [s EXCEPT !.cur = c]
           q == IF u.pending # NoPending THEN u ELSE MaintainQueue(u)
           a == IF q.acted THEN q ELSE MaintainAutoStop(q)
<1>1. Sound(n) /\ n.queue = queue
  <2>1. Sound(Now) /\ Now.queue = queue
    BY NowSound DEF Now
  <2> QED BY <2>1, ViewType DEF Sound, States, OneTargetIn
<1>2. Sound(s) /\ (s.queue = queue \/ (~Playing /\ s.queue.song = None))
  <2>1. Sound(s)
    BY <1>1, PromoteOnStopSound
  <2> DEFINE t == IF n.queue.song # None THEN n.queue.song ELSE n.boundary
             w == [n EXCEPT !.selected = [song |-> t, nav |-> FALSE],
                            !.suppress = SuppressLife, !.cursor = Start[t]]
  <2>2. "queue" \in DOMAIN w
    BY <1>1 DEF Sound, States
  <2> HIDE DEF n, w
  <2>3. ClearLoops(ClearAll(w)).queue = NoQueue
    BY <2>2 DEF ClearLoops, ClearAll
  <2> QED BY <1>1, <2>1, <2>3 DEF PromoteOnStop, NoQueue, w
<1>3. Sound(u) /\ u.queue = s.queue /\ u.cur.playing = Playing
  <2>1. c \in Currents
    BY ViewType DEF Currents, Playing
  <2>2. c.playing = Playing
    OBVIOUS
  <2> HIDE DEF n, s, c
  <2> QED BY <1>2, <2>1, <2>2 DEF Sound, States, OneTargetIn
<1>4. Sound(q) /\ q.cur = u.cur
  <2> HIDE DEF u
  <2> QED BY <1>3, CurKept, MaintainQueueSound
<1>5. \/ q.queue.song \in {u.queue.song, None}
      \/ u.queue = queue /\ QueueIsPlaying(u)
  <2> HIDE DEF u, s
  <2>1. Holds(u, u)
    BY DEF Holds
  <2> QED BY <1>2, <1>3, <2>1, QueueHolds DEF Holds
<1>6. Sound(a) /\ Holds(q, a)
  <2> HIDE DEF q
  <2> QED BY <1>4, AutoStopHolds, MaintainAutoStopSound DEF Holds
<1>7. Holds(a, PartsArrival(a)) /\ CycleResult = PartsArrival(a)
  BY <1>6, ArrivalHolds DEF CycleResult, Automate
<1> HIDE DEF n, s, u, q, a
<1>8. CycleResult.cur = u.cur /\ CycleResult.queue.song \in {q.queue.song, None}
  BY <1>4, <1>6, <1>7 DEF Holds
<1>9. CASE u.queue = queue /\ QueueIsPlaying(u)
  BY <1>8, <1>9 DEF QueueIsPlaying
<1>10. CASE q.queue.song \in {u.queue.song, None}
  BY <1>2, <1>3, <1>8, <1>10
<1> QED BY <1>5, <1>9, <1>10

\* A Play that is not an audition leaves a manual queue alone.
LEMMA PlayHoldsManual ==
  ASSUME Inv, queue.manual, NEW x \in SongOrNone, NEW seeks \in BOOLEAN,
         Play(x, seeks, FALSE)
  PROVE  queue' = queue
<1> DEFINE s0 == ApplyClick(Now)
           s1 == [s0 EXCEPT !.preview = @ /\ transport # "stopped"]
           s2 == IF x = None THEN s1
                 ELSE [s1 EXCEPT !.selected = [song |-> x, nav |-> FALSE]]
           from == IF x # None /\ seeks THEN Start[x] ELSE s2.cursor
           s3 == IF x = None THEN ClearLoops(s2) ELSE ArmFromPlay(ClearLoops(s2), x)
           target == IF /\ transport = "stopped" /\ s2.selected.song # None
                        /\ Contains(s2.selected.song, from)
                     THEN s2.selected.song ELSE None
           s4 == [s3 EXCEPT !.cursor = from]
<1>1. Sound(s0) /\ s0.queue = queue
  BY ClickSound DEF ApplyClick, Now
<1>2. s1.queue = queue /\ DOMAIN s1 = DOMAIN s0
  BY <1>1 DEF Sound, States
<1>3. "queue" \in DOMAIN s0
  BY <1>1 DEF Sound, States
<1> HIDE DEF s0, s1
<1>4. s2.queue = queue /\ DOMAIN s2 = DOMAIN s0
  BY <1>2, <1>3
<1> HIDE DEF s2
<1>5. ClearLoops(s2).queue = queue /\ DOMAIN ClearLoops(s2) = DOMAIN s0
  BY <1>3, <1>4 DEF ClearLoops
<1>6. s3.queue = queue /\ DOMAIN s3 = DOMAIN s0
  BY <1>3, <1>5 DEF ArmFromPlay
<1> HIDE DEF s3, from
<1>7. s4.queue = queue /\ DOMAIN s4 = DOMAIN s0
  BY <1>3, <1>6
<1>8. Becomes(ReaperPlay(SetPending(s4, target), target))
  BY DEF Play, s0, s1, s2, s3, from
<1> HIDE DEF s4, target
<1>9. ReaperPlay(SetPending(s4, target), target).queue = queue
  BY <1>3, <1>7 DEF ReaperPlay, SetPending
<1> QED BY <1>8, <1>9 DEF Becomes

\* A manual queue is the user's: no Play changes it, and no cycle replaces it
\* by another song before its own song began to play.
THEOREM ManualQueueHeld == Spec => ManualQueueHolds
<1> DEFINE Held ==
      queue.manual =>
       /\ (\E x \in SongOrNone, seeks \in BOOLEAN : Play(x, seeks, FALSE)) => queue' = queue
       /\ (Cycle /\ queue'.song \notin {queue.song, None}) =>
            cur'.song = queue.song \/ Contains(queue.song, cur'.pos)
<1>1. Inv => Held
  <2> SUFFICES ASSUME Inv, queue.manual
               PROVE  /\ (\E x \in SongOrNone, seeks \in BOOLEAN : Play(x, seeks, FALSE))
                            => queue' = queue
                      /\ (Cycle /\ queue'.song \notin {queue.song, None}) =>
                           cur'.song = queue.song \/ Contains(queue.song, cur'.pos)
    OBVIOUS
  <2>1. Cycle => queue' = CycleResult.queue /\ cur' = CycleResult.cur
    BY DEF Cycle, Becomes
  <2> QED BY <2>1, PlayHoldsManual, CycleHoldsManual
<1> QED BY <1>1, InvHolds, PTL DEF ManualQueueHolds
=============================================================================
