------------------------ MODULE PlaybackCycle_proofs ------------------------
(***************************************************************************)
(* What a cycle of the engine may do to REAPER's transport and to its      *)
(* pending seek: theorems for every project, playlist, timing constant and *)
(* number of commands; the few conditions on the project are named.        *)
(***************************************************************************)
EXTENDS PlaybackAutomation_proofs, Induction

\* A stop selects its target and leaves nothing of the playback before, except
\* what is published and what Auto Stop remembers.
LEMMA StopFields ==
  ASSUME NEW s, Sound(s), NEW x \in SongOrNone, NEW validated \in BOOLEAN
  PROVE  LET t == StopTransport(s, x, validated)
         IN  /\ t.selected.song = StopTarget(s, x, validated)
             /\ t.transport = "stopped" /\ t.seek = NoSeek
             /\ t.queue = NoQueue /\ t.boundary = None
             /\ t.armed = NoPart /\ t.loop = None
<1> DEFINE t == StopTarget(s, x, validated)
           c == IF t = None \/ (s.cur.song # None /\ SameSpan(t, s.cur.song))
                THEN s.cursor ELSE Start[t]
           u == [s EXCEPT !.transport = "stopped", !.seek = NoSeek,
                          !.selected = [song |-> t, nav |-> FALSE],
                          !.suppress = SuppressLife, !.cursor = c]
           r == ClearLoops(ClearAll(u))
<1> HIDE DEF t, c
<1>1. /\ DOMAIN u = DOMAIN s
      /\ {"selected", "transport", "seek", "queue", "boundary", "armed", "loop"} \subseteq DOMAIN s
      /\ u.selected.song = t /\ u.transport = "stopped" /\ u.seek = NoSeek
  BY DEF Sound, States
<1> HIDE DEF u
<1>2. /\ r.selected.song = t /\ r.transport = "stopped" /\ r.seek = NoSeek
      /\ r.queue = NoQueue /\ r.boundary = None /\ r.armed = NoPart /\ r.loop = None
  BY <1>1 DEF ClearLoops, ClearAll
<1>3. r = StopTransport(s, x, validated)
  BY DEF u, t, c, StopTransport
<1> QED BY <1>2, <1>3 DEF t

\* The record a cycle starts its automation with.
Seen == [PromoteOnStop([Now EXCEPT !.pending = View.pending])
           EXCEPT !.cur = [playing |-> Playing, song |-> View.song, pos |-> View.pos]]

\* While playback runs, what was waiting is waiting still; once it stopped, the
\* target is selected.
LEMMA SeenFields ==
  ASSUME Inv
  PROVE  /\ Sound(Seen) /\ CycleResult = Automate(Seen)
         /\ Seen.cur = [playing |-> Playing, song |-> View.song, pos |-> View.pos]
         /\ Seen.pending = View.pending /\ Seen.transport = transport
         /\ Seen.seek = seek /\ Seen.last = last /\ Seen.acted = FALSE
         /\ Playing => /\ Seen.loop = loop /\ Seen.armed = armed
                       /\ Seen.queue = queue /\ Seen.boundary = boundary
                       /\ Seen.selected = selected /\ Seen.preview = preview
<1> DEFINE n == [Now EXCEPT !.pending = View.pending]
           t == IF n.queue.song # None THEN n.queue.song ELSE n.boundary
           u == [n EXCEPT !.selected = [song |-> t, nav |-> FALSE],
                          !.suppress = SuppressLife, !.cursor = Start[t]]
           s == PromoteOnStop(n)
           c == [playing |-> Playing, song |-> View.song, pos |-> View.pos]
<1>1. Sound(n) /\ n.pending = View.pending /\ n.transport = transport /\ n.acted = FALSE
      /\ n.seek = seek /\ n.last = last
  <2>1. Sound(Now)
    BY NowSound
  <2>2. /\ Now.transport = transport /\ Now.acted = FALSE /\ Now.seek = seek
        /\ Now.last = last
    BY DEF Now
  <2> QED BY <2>1, <2>2, ViewType DEF Sound, States, OneTargetIn
<1>2. /\ n.loop = loop /\ n.armed = armed /\ n.queue = queue
      /\ n.boundary = boundary /\ n.selected = selected /\ n.preview = preview
  BY DEF Now
<1> HIDE DEF n
<1>3. Sound(s)
  BY <1>1, PromoteOnStopSound
<1>4. s.pending = View.pending /\ s.transport = transport /\ s.acted = FALSE
      /\ s.seek = seek /\ s.last = last
  <2>1. DOMAIN u = DOMAIN n
        /\ {"pending", "transport", "seek", "last", "acted"} \subseteq DOMAIN n
        /\ u.pending = n.pending /\ u.transport = n.transport /\ u.acted = n.acted
        /\ u.seek = n.seek /\ u.last = n.last
    BY <1>1 DEF Sound, States
  <2> HIDE DEF u
  <2>2. /\ ClearLoops(ClearAll(u)).pending = n.pending
        /\ ClearLoops(ClearAll(u)).transport = n.transport
        /\ ClearLoops(ClearAll(u)).acted = n.acted /\ ClearLoops(ClearAll(u)).seek = n.seek
        /\ ClearLoops(ClearAll(u)).last = n.last
    BY <2>1 DEF ClearLoops, ClearAll
  <2>3. s = n \/ s = ClearLoops(ClearAll(u))
    BY DEF PromoteOnStop, u
  <2> QED BY <1>1, <2>2, <2>3
<1>5. Playing => s = n
  BY DEF PromoteOnStop
<1>6. c \in Currents
  BY ViewType DEF Currents, Playing
<1>7. Seen = [s EXCEPT !.cur = c] /\ CycleResult = Automate(Seen)
  BY DEF Seen, CycleResult, n
<1> HIDE DEF s, c
<1>8. /\ Sound(Seen) /\ Seen.cur = c /\ Seen.pending = s.pending
      /\ Seen.transport = s.transport /\ Seen.acted = s.acted
      /\ Seen.seek = s.seek /\ Seen.loop = s.loop /\ Seen.armed = s.armed
      /\ Seen.queue = s.queue /\ Seen.boundary = s.boundary
      /\ Seen.last = s.last /\ Seen.selected = s.selected /\ Seen.preview = s.preview
  BY <1>3, <1>6, <1>7 DEF Sound, States, OneTargetIn
<1> QED BY <1>2, <1>4, <1>5, <1>7, <1>8 DEF c
-----------------------------------------------------------------------------
(***************************************************************************)
(* A stop loses no target.                                                 *)
(***************************************************************************)
Target == IF queue.song # None THEN queue.song ELSE boundary

\* The stop routine, called on what is waiting, selects it.
LEMMA StopSelects ==
  ASSUME Inv, Target # None, NEW s, Sound(s), s.queue = queue, s.boundary = boundary,
         NEW x \in SongOrNone, NEW validated \in BOOLEAN
  PROVE  StopTransport(s, x, validated).selected.song = Target
BY StopFields DEF StopTarget, Target

\* A cycle that is the first to see a stop promotes what is waiting.
LEMMA SeenStopSelects ==
  ASSUME Inv, Target # None, cur.playing, ~Playing, suppress = 0
  PROVE  /\ Seen.selected.song = Target /\ Seen.queue = NoQueue /\ Seen.boundary = None
         /\ Seen.armed = NoPart /\ ~Seen.cur.playing
<1> DEFINE n == [Now EXCEPT !.pending = View.pending]
           u == [n EXCEPT !.selected = [song |-> Target, nav |-> FALSE],
                          !.suppress = SuppressLife, !.cursor = Start[Target]]
           s == ClearLoops(ClearAll(u))
           c == [playing |-> Playing, song |-> View.song, pos |-> View.pos]
<1>1. /\ n.queue = queue /\ n.boundary = boundary /\ n.cur = cur /\ n.suppress = 0
      /\ {"selected", "queue", "boundary", "armed", "loop", "cur"} \subseteq DOMAIN n
  BY DEF Now
<1> HIDE DEF n
<1>2. PromoteOnStop(n) = s
  BY <1>1 DEF PromoteOnStop, Target
<1>3. DOMAIN u = DOMAIN n /\ u.selected.song = Target
  BY <1>1
<1> HIDE DEF u
<1>4. /\ s.selected.song = Target /\ s.queue = NoQueue /\ s.boundary = None
      /\ s.armed = NoPart /\ DOMAIN s = DOMAIN n
  BY <1>1, <1>3 DEF ClearLoops, ClearAll
<1>5. Seen = [s EXCEPT !.cur = c]
  BY <1>2 DEF Seen, n
<1> HIDE DEF s
<1> QED BY <1>1, <1>4, <1>5

\* Once playback is over the automation empties what is left and keeps the selection.
LEMMA OverKeepsSelection ==
  ASSUME NEW s, Sound(s), ~s.cur.playing, s.queue = NoQueue, s.armed = NoPart
  PROVE  Automate(s).selected = s.selected
<1> DEFINE q == IF s.pending # NoPending THEN s ELSE MaintainQueue(s)
           a == IF q.acted THEN q ELSE MaintainAutoStop(q)
<1>1. /\ ClearAll(s).selected = s.selected /\ ClearAll(s).armed = NoPart
      /\ ClearAll(s).cur = s.cur
      /\ [ClearAll(s) EXCEPT !.preview = s.cur.playing].selected = s.selected
      /\ [ClearAll(s) EXCEPT !.preview = s.cur.playing].armed = NoPart
      /\ [ClearAll(s) EXCEPT !.preview = s.cur.playing].cur = s.cur
  BY DEF ClearAll, Sound, States
<1>2. s.queue.song = None
  BY DEF NoQueue
<1>3. MaintainQueue(s) \in {ClearAll(s), [ClearAll(s) EXCEPT !.preview = s.cur.playing]}
  BY <1>2 DEF MaintainQueue
<1>4. Sound(q) /\ q.selected = s.selected /\ q.armed = NoPart /\ ~q.cur.playing
  <2>1. Sound(q)
    BY MaintainQueueSound
  <2> QED BY <1>1, <1>3, <2>1
<1> HIDE DEF q
<1>5. MaintainAutoStop(q) = [q EXCEPT !.last = NoLast]
  BY <1>4 DEF MaintainAutoStop
<1>6. a.selected = s.selected /\ a.armed = NoPart
  BY <1>4, <1>5 DEF Sound, States
<1> HIDE DEF a
<1>7. Automate(s) = PartsArrival(a)
  BY DEF Automate, q, a
<1> QED BY <1>6, <1>7 DEF PartsArrival

\* When the extension stops playback, or a cycle is the first to see that it
\* stopped, the song that was queued or lay behind the block is selected.
THEOREM StopKeepsTargetHolds == Spec => StopKeepsTarget
<1> DEFINE Kept ==
      LET t == IF queue.song # None THEN queue.song ELSE boundary
      IN  /\ t # None
          /\ \/ transport # "stopped" /\ (HookedStop \/ \E x \in SongOrNone : Stop(x))
             \/ Cycle /\ cur.playing /\ ~Playing /\ suppress = 0
          => selected'.song = t
<1>1. Inv => Kept
  <2> SUFFICES ASSUME Inv, Target # None,
                      \/ transport # "stopped" /\ (HookedStop \/ \E x \in SongOrNone : Stop(x))
                      \/ Cycle /\ cur.playing /\ ~Playing /\ suppress = 0
               PROVE  selected'.song = Target
    BY DEF Target
  <2>1. CASE transport # "stopped" /\ HookedStop
    <3>1. Sound(Now) /\ Now.queue = queue /\ Now.boundary = boundary
      BY NowSound DEF Now
    <3>2. selected' = StopTransport(Now, None, FALSE).selected
      BY <2>1 DEF HookedStop, Becomes
    <3> QED BY <3>1, <3>2, StopSelects, NoneTypes
  <2>2. ASSUME NEW x \in SongOrNone, Stop(x) PROVE selected'.song = Target
    <3> DEFINE s == SetPending(ApplyClick(Now), None)
    <3>1. Sound(s)
      BY ClickSound, SetPendingSound, NoneTypes
    <3>2. s.queue = queue /\ s.boundary = boundary
      BY DEF SetPending, ApplyClick, Now
    <3>3. selected' = StopTransport(s, x, FALSE).selected
      BY <2>2 DEF Stop, Becomes
    <3> HIDE DEF s
    <3> QED BY <3>1, <3>2, <3>3, StopSelects
  <2>3. CASE Cycle /\ cur.playing /\ ~Playing /\ suppress = 0
    <3>1. selected' = CycleResult.selected
      BY <2>3 DEF Cycle, Becomes
    <3>2. Sound(Seen) /\ CycleResult = Automate(Seen)
      BY SeenFields
    <3>3. Automate(Seen).selected = Seen.selected /\ Seen.selected.song = Target
      BY <2>3, <3>2, SeenStopSelects, OverKeepsSelection
    <3> QED BY <3>1, <3>2, <3>3
  <2> QED BY <2>1, <2>2, <2>3
<1> QED BY <1>1, InvHolds, PTL DEF StopKeepsTarget
-----------------------------------------------------------------------------
(***************************************************************************)
(* Where a cycle stops playback, or asks for the seek of the queue.        *)
(***************************************************************************)
\* A song ended at p, or at most the stop window before.
EndedAt(p) == \E x \in Songs : p - End[x] \in 0..StopWindow

\* r goes on as s does; it stopped where a song ended; or it asked for the seek
\* of the queue close to the end of the source.
GoesOn(s, r) == r.transport = s.transport /\ r.seek = s.seek
StopsAtEnd(s, r) == r.transport = "stopped" /\ r.seek = NoSeek /\ EndedAt(s.cur.pos)
SeeksAhead(s, r) ==
  /\ r.transport = s.transport /\ r.seek.kind = "queue"
  /\ SourceOf(s.cur.song, s.cur.pos) \in Songs
  /\ End[SourceOf(s.cur.song, s.cur.pos)] - s.cur.pos <= SeekLead
Steered(s, r) == GoesOn(s, r) \/ StopsAtEnd(s, r) \/ SeeksAhead(s, r)

\* The source of a song is a song: the parent of a child has bounds of its own.
LEMMA SourceIsSong ==
  ASSUME NEW song \in Songs, NEW p
  PROVE  SourceOf(song, p) \in Songs
<1>1. FamilyChild(song, p) = None \/ FamilyChild(song, p) \in Children
  <2> DEFINE named == {c \in Children : c = song \/ (song # None /\ SameSpan(c, song))}
             here == {c \in Children : Contains(c, p)}
             least == {c \in here : \A o \in here : Span(c) <= Span(o)}
  <2>1. named \subseteq Children /\ least \subseteq Children /\ Children \subseteq Songs
    BY DEF Children
  <2> HIDE DEF named, least
  <2>2. /\ AnyOf(named) = None \/ AnyOf(named) \in Children
        /\ AnyOf(least) = None \/ AnyOf(least) \in Children
    BY <2>1, AnyOfType
  <2> QED BY <2>2 DEF FamilyChild, named, least
<1>2. \A c \in Children : Parent[c] \in Songs
  BY FamilyAssumption DEF Children
<1> QED BY <1>1, <1>2 DEF SourceOf

\* The end of the queue's source.
LEMMA FireSteers ==
  ASSUME NEW s, Sound(s), s.cur.song # None
  PROVE  Steered(s, FireQueue(s))
<1> DEFINE here == SourceOf(s.cur.song, s.cur.pos)
           kept == IF mode = "auto2" /\ s.queue.source # None THEN s.queue.source ELSE here
           inside == mode = "auto2" /\ Contains(kept, s.cur.pos)
           src  == IF inside THEN here ELSE kept
           t    == IF inside THEN [s EXCEPT !.queue.source = here] ELSE s
           remaining == End[src] - s.cur.pos
           stopped == [StopTransport(t, None, FALSE) EXCEPT !.acted = TRUE]
<1>1. here \in Songs /\ s.cur.pos \in Pos
  BY SourceIsSong DEF Sound, States, Currents, SongOrNone
<1>2. kept \in Songs /\ (mode # "auto2" => kept = here)
  BY <1>1 DEF Sound, States, Queues, SongOrNone
<1>3. src \in Songs /\ (mode # "auto2" => src = here)
  BY <1>1, <1>2
<1>4. [s EXCEPT !.queue.source = here] \in States
  BY <1>1 DEF Sound, States, Queues, SongOrNone
<1>5. [s EXCEPT !.queue.source = here].queue.song = s.queue.song
  BY DEF Sound, States, Queues
<1>6. Sound(t) /\ t.transport = s.transport /\ t.seek = s.seek
  BY <1>4, <1>5 DEF Sound, States, OneTargetIn
<1>7. stopped.transport = "stopped" /\ stopped.seek = NoSeek
  <2> HIDE DEF t
  <2>1. Sound(StopTransport(t, None, FALSE))
    BY <1>6, StopTransportSound, NoneTypes
  <2>2. StopTransport(t, None, FALSE).transport = "stopped"
        /\ StopTransport(t, None, FALSE).seek = NoSeek
    BY <1>6, StopFields, NoneTypes
  <2> QED BY <2>1, <2>2 DEF Sound, States
<1>8. AskForSeek(t, src) = t \/ /\ AskForSeek(t, src).transport = t.transport
                                /\ AskForSeek(t, src).seek.kind = "queue"
  <2> HIDE DEF t, src
  <2> QED BY <1>6 DEF AskForSeek, Sound, States
<1>9. End[src] \in Nat /\ s.cur.pos \in Nat
  BY <1>1, <1>3, BoundAssumption, TimesAreNat DEF Pos
<1> HIDE DEF here, kept, inside, src, t, stopped
<1>10. remaining \in (-StopWindow)..0 => EndedAt(s.cur.pos)
  <2> SUFFICES ASSUME remaining \in (-StopWindow)..0 PROVE EndedAt(s.cur.pos)
    OBVIOUS
  <2>1. s.cur.pos - End[src] \in 0..StopWindow
    BY <1>9, TimesAreNat
  <2> QED BY <1>3, <2>1 DEF EndedAt
<1>11. remaining \in (-StopWindow)..SeekLead /\ mode # "auto2" =>
         /\ SourceOf(s.cur.song, s.cur.pos) \in Songs
         /\ End[SourceOf(s.cur.song, s.cur.pos)] - s.cur.pos <= SeekLead
  BY <1>1, <1>3, <1>9, TimesAreNat DEF here
<1>12. FireQueue(s) \in {s, t, stopped}
       \/ /\ FireQueue(s) = AskForSeek(t, src) /\ mode # "auto2"
          /\ remaining \in (-StopWindow)..SeekLead
  BY DEF FireQueue, here, kept, inside, src, t, stopped
<1>13. FireQueue(s) = stopped => \/ FireQueue(s) \in {s, t}
                                \/ remaining \in (-StopWindow)..0
                                \/ /\ FireQueue(s) = AskForSeek(t, src) /\ mode # "auto2"
                                   /\ remaining \in (-StopWindow)..SeekLead
  BY DEF FireQueue, here, kept, inside, src, t, stopped
<1>14. CASE FireQueue(s) \in {s, t}
  BY <1>6, <1>14 DEF Steered, GoesOn
<1>15. CASE FireQueue(s) = stopped /\ remaining \in (-StopWindow)..0
  BY <1>7, <1>10, <1>15 DEF Steered, StopsAtEnd
<1>16. CASE FireQueue(s) = AskForSeek(t, src) /\ mode # "auto2"
            /\ remaining \in (-StopWindow)..SeekLead
  BY <1>6, <1>8, <1>11, <1>16 DEF Steered, GoesOn, SeeksAhead
<1> QED BY <1>12, <1>13, <1>14, <1>15, <1>16

\* The queue's turn while a song plays.
LEMMA QueueSteers ==
  ASSUME NEW s, Sound(s), s.cur.playing, s.cur.song # None
  PROVE  Steered(s, MaintainQueue(s))
<1>1. ASSUME NEW r, Sound(r)
      PROVE  /\ ConsumeQueue(r).cur = r.cur /\ GoesOn(r, ConsumeQueue(r))
             /\ DropBoundary(r).cur = r.cur /\ GoesOn(r, DropBoundary(r))
             /\ DropChild(r).cur = r.cur /\ GoesOn(r, DropChild(r))
             /\ ArmNext(r).cur = r.cur /\ GoesOn(r, ArmNext(r))
  BY <1>1 DEF ConsumeQueue, DropBoundary, DropChild, ArmNext, SetQueue, GoesOn, Sound, States
<1> DEFINE r == ArmNext(DropChild(DropBoundary(ConsumeQueue(s))))
<1>2. Sound(r) /\ r.cur = s.cur /\ GoesOn(s, r)
  BY <1>1, ConsumeQueueSound, DropBoundarySound, DropChildSound, ArmNextSound DEF GoesOn
<1> HIDE DEF r
<1>3. Steered(r, FireQueue(r))
  BY <1>2, FireSteers
<1>4. Steered(s, FireQueue(r))
  BY <1>2, <1>3 DEF Steered, GoesOn, StopsAtEnd, SeeksAhead
<1>5. GoesOn(s, ClearAll(s)) /\ GoesOn(s, [ClearAll(s) EXCEPT !.preview = s.cur.playing])
      /\ GoesOn(s, [s EXCEPT !.queue.sought = None])
  BY DEF GoesOn, ClearAll, Sound, States
<1> QED BY <1>4, <1>5 DEF MaintainQueue, r, Steered

\* Auto Stop's turn while a song plays.
LEMMA AutoStopSteers ==
  ASSUME NEW s, Sound(s), s.cur.playing, s.cur.song # None
  PROVE  GoesOn(s, MaintainAutoStop(s)) \/ StopsAtEnd(s, MaintainAutoStop(s))
<1> DEFINE r == RememberSong(s)
           here == {c \in Children : Contains(c, s.cur.pos)}
           child == AnyOf({c \in here : \A o \in here : Span(c) <= Span(o)})
           span == IF child = None THEN s.cur.song ELSE Parent[child]
           nav == /\ ~(r.queue.song # None \/ r.boundary # None) /\ r.selected.nav
                  /\ r.selected.song # None
                  /\ Start[r.selected.song] # Start[r.last.span]
           x == IF nav THEN r.selected.song ELSE None
<1>1. child = None \/ child \in Children
  BY AnyOfType DEF Children
<1>2. span \in Songs
  BY <1>1, FamilyAssumption DEF Children, Sound, States, Currents, SongOrNone
<1>3. Sound(r) /\ r.last = [id |-> s.cur.song, span |-> span] /\ GoesOn(s, r) /\ r.cur = s.cur
  <2>1. Sound(r)
    BY RememberSongSound
  <2>2. r = [s EXCEPT !.last = [id |-> s.cur.song, span |-> span]]
    BY DEF RememberSong
  <2> HIDE DEF span, child, r
  <2> QED BY <2>1, <2>2 DEF GoesOn, Sound, States
<1>4. nav \in BOOLEAN /\ x \in SongOrNone
  BY <1>3, NoneTypes DEF Sound, States, Selections
<1> HIDE DEF r, span
<1>5. End[r.last.span] \in Nat /\ s.cur.pos \in Nat /\ r.last.span \in Songs
  BY <1>2, <1>3, BoundAssumption, TimesAreNat DEF Sound, States, Currents, Pos
<1>6. (End[r.last.span] - r.cur.pos) \in (-StopWindow)..0 => EndedAt(s.cur.pos)
  <2> SUFFICES ASSUME (End[r.last.span] - r.cur.pos) \in (-StopWindow)..0
               PROVE  EndedAt(s.cur.pos)
    OBVIOUS
  <2>1. s.cur.pos - End[r.last.span] \in 0..StopWindow
    BY <1>3, <1>5, TimesAreNat
  <2> QED BY <1>5, <2>1 DEF EndedAt
<1>7. \/ StopAtEnd(r) = r
      \/ /\ StopAtEnd(r) = StopTransport(r, x, nav)
         /\ (End[r.last.span] - r.cur.pos) \in (-StopWindow)..0
  BY DEF StopAtEnd
<1> HIDE DEF nav, x
<1>8. /\ StopTransport(r, x, nav).transport = "stopped"
      /\ StopTransport(r, x, nav).seek = NoSeek
  BY <1>3, <1>4, StopFields
<1>9. GoesOn(s, StopAtEnd(r)) \/ StopsAtEnd(s, StopAtEnd(r))
  BY <1>3, <1>6, <1>7, <1>8 DEF GoesOn, StopsAtEnd
<1> QED BY <1>3, <1>9 DEF MaintainAutoStop, GoesOn, r

\* A part that is reached stops nothing.
LEMMA ArrivalGoesOn ==
  ASSUME NEW s, Sound(s)
  PROVE  GoesOn(s, PartsArrival(s))
BY DEF PartsArrival, GoesOn, Sound, States

\* No routine changes what the cycle published.
LEMMA AutomateCur ==
  ASSUME NEW s, Sound(s)
  PROVE  Automate(s).cur = s.cur
<1> DEFINE q == IF s.pending # NoPending THEN s ELSE MaintainQueue(s)
           a == IF q.acted THEN q ELSE MaintainAutoStop(q)
<1>1. Sound(q) /\ q.cur = s.cur
  BY CurKept, MaintainQueueSound
<1> HIDE DEF q
<1>2. Sound(a) /\ a.cur = q.cur
  BY <1>1, AutoStopHolds, MaintainAutoStopSound DEF Holds
<1> HIDE DEF a
<1>3. PartsArrival(a).cur = a.cur
  BY <1>2, ArrivalHolds DEF Holds
<1> QED BY <1>1, <1>2, <1>3 DEF Automate, q, a

\* The automation while a song plays, from the queue's turn to the part's.
LEMMA AutomateSteers ==
  ASSUME NEW s, Sound(s), s.cur.playing, s.cur.song # None
  PROVE  Steered(s, Automate(s))
<1> DEFINE q == IF s.pending # NoPending THEN s ELSE MaintainQueue(s)
           a == IF q.acted THEN q ELSE MaintainAutoStop(q)
<1>1. Sound(q) /\ q.cur = s.cur /\ Steered(s, q)
  <2>1. Steered(s, s)
    BY DEF Steered, GoesOn
  <2> QED BY <2>1, CurKept, MaintainQueueSound, QueueSteers
<1> HIDE DEF q
<1>2. Sound(a) /\ (GoesOn(q, a) \/ StopsAtEnd(q, a))
  <2>1. GoesOn(q, q)
    BY DEF GoesOn
  <2> QED BY <1>1, <2>1, MaintainAutoStopSound, AutoStopSteers
<1> HIDE DEF a
<1>3. GoesOn(a, PartsArrival(a))
  BY <1>2, ArrivalGoesOn
<1>4. Automate(s) = PartsArrival(a)
  BY DEF Automate, q, a
<1> QED BY <1>1, <1>2, <1>3, <1>4 DEF Steered, GoesOn, StopsAtEnd, SeeksAhead

\* While a target is pending the automation leaves playback alone.
LEMMA PendingGoesOn ==
  ASSUME NEW s, Sound(s), s.cur.playing, s.pending # NoPending
  PROVE  GoesOn(s, Automate(s))
<1>1. MaintainAutoStop(s) = s
  BY DEF MaintainAutoStop
<1>2. Automate(s) = PartsArrival(s)
  BY <1>1 DEF Automate
<1> QED BY <1>2, ArrivalGoesOn

\* What a cycle sees: the reported position, unless the target is pending.
LEMMA ViewFields ==
  ASSUME Inv, Playing
  PROVE  /\ View.pending = NoPending => View.pos = pos /\ View.song = PlayingSong(pos)
         /\ PlayingSong(pos) # None => View.song # None
         /\ pending = NoPending => View.pending = NoPending
<1> DEFINE raw == PlayingSong(pos)
<1>1. pending.song # None => pending # NoPending
  BY DEF NoPending
<1>2. pending = NoPending => pending.song = None
  BY DEF NoPending
<1> HIDE DEF raw
<1> QED BY <1>1, <1>2 DEF View, raw

\* A cycle steers what plays: from the position where playback is.
LEMMA CycleSteers ==
  ASSUME Inv, Cycle, Playing, PlayingSong(pos) # None
  PROVE  /\ cur'.playing /\ cur'.song # None
         /\ \/ transport' = transport /\ seek' = seek
            \/ transport' = "stopped" /\ seek' = NoSeek /\ EndedAt(pos)
            \/ /\ transport' = transport /\ seek'.kind = "queue"
               /\ cur'.pos = pos /\ cur'.song = PlayingSong(pos)
               /\ SourceOf(cur'.song, pos) \in Songs
               /\ End[SourceOf(cur'.song, pos)] - pos <= SeekLead
<1>1. /\ transport' = CycleResult.transport /\ seek' = CycleResult.seek
      /\ cur' = CycleResult.cur
  BY DEF Cycle, Becomes
<1>2. /\ Sound(Seen) /\ CycleResult = Automate(Seen)
      /\ Seen.cur = [playing |-> Playing, song |-> View.song, pos |-> View.pos]
      /\ Seen.pending = View.pending /\ Seen.transport = transport /\ Seen.seek = seek
  BY SeenFields
<1>3. Seen.cur.playing /\ Seen.cur.song = View.song /\ Seen.cur.pos = View.pos
  BY <1>2
<1>4. View.song # None
  BY ViewFields
<1>5. Automate(Seen).cur = Seen.cur
  BY <1>2, AutomateCur
<1>6. CASE View.pending # NoPending
  <2>1. GoesOn(Seen, Automate(Seen))
    BY <1>2, <1>3, <1>6, PendingGoesOn
  <2> QED BY <1>1, <1>2, <1>3, <1>4, <1>5, <2>1 DEF GoesOn
<1>7. CASE View.pending = NoPending
  <2>1. Steered(Seen, Automate(Seen))
    BY <1>2, <1>3, <1>4, AutomateSteers
  <2>2. View.pos = pos /\ View.song = PlayingSong(pos)
    BY <1>7, ViewFields
  <2> QED BY <1>1, <1>2, <1>3, <1>4, <1>5, <2>1, <2>2
          DEF Steered, GoesOn, StopsAtEnd, SeeksAhead
<1> QED BY <1>6, <1>7

\* A cycle stops playback inside a song only where a song ended: no order of
\* commands, jumps and old positions makes it cut a song short.
THEOREM NoStopInSongHolds == Spec => NoStopInSong
<1> DEFINE Cut ==
      /\ Cycle /\ Playing /\ transport' = "stopped" /\ PlayingSong(pos) # None
      => \E s \in Songs : pos - End[s] \in 0..StopWindow
<1>1. Inv => Cut
  <2> SUFFICES ASSUME Inv, Cycle, Playing, transport' = "stopped", PlayingSong(pos) # None
               PROVE  EndedAt(pos)
    BY DEF EndedAt
  <2> QED BY CycleSteers DEF Playing
<1> QED BY <1>1, InvHolds, PTL DEF NoStopInSong
-----------------------------------------------------------------------------
(***************************************************************************)
(* Songs that lie over one another.                                        *)
(***************************************************************************)
\* A song has a length.
LEMMA SpanNat == \A s \in Songs : Span(s) \in Nat /\ Span(s) > 0
<1> SUFFICES ASSUME NEW s \in Songs PROVE Span(s) \in Nat /\ Span(s) > 0
  OBVIOUS
<1>1. Start[s] \in Nat /\ End[s] \in Nat /\ Start[s] < End[s]
  BY BoundAssumption
<1> QED BY <1>1 DEF Span

\* Among songs one is the shortest.
LEMMA ShortestSong ==
  ASSUME NEW S, S \subseteq Songs, S # {}
  PROVE  \E s \in S : \A o \in S : Span(s) <= Span(o)
<1> DEFINE Spans == {Span(s) : s \in S}
<1>1. \A s \in S : Span(s) \in Nat
  BY SpanNat
<1>2. Spans \subseteq Nat /\ Spans # {}
  BY <1>1
<1> HIDE DEF Spans
<1>3. PICK m \in Spans : \A n \in Spans : m <= n
  BY <1>2, LeastNatural
<1> QED BY <1>3 DEF Spans

\* A position inside a song has a song that plays there.
LEMMA SomethingPlays ==
  ASSUME NEW x \in Songs, NEW p, Contains(x, p)
  PROVE  PlayingSong(p) \in Songs /\ Contains(PlayingSong(p), p)
<1> DEFINE here == {s \in Songs : Contains(s, p)}
           Wins(s, o) == \/ Span(s) < Span(o)
                         \/ Span(s) = Span(o) /\ (o \in Children => s \in Children)
           best == {s \in here : \A o \in here : Wins(s, o)}
<1>1. here \subseteq Songs /\ x \in here
  OBVIOUS
<1>2. \A s \in here : Span(s) \in Nat
  BY SpanNat
<1>3. PICK s \in here : \A o \in here : Span(s) <= Span(o)
  <2> HIDE DEF here
  <2> QED BY <1>1, ShortestSong
<1>4. best # {}
  <2>1. CASE \E c \in here : c \in Children /\ Span(c) = Span(s)
    <3>1. PICK c \in here : c \in Children /\ Span(c) = Span(s)
      BY <2>1
    <3>2. \A o \in here : Wins(c, o)
      <4> HIDE DEF here
      <4> QED BY <1>2, <1>3, <3>1
    <3> QED BY <3>2
  <2>2. CASE ~\E c \in here : c \in Children /\ Span(c) = Span(s)
    <3>1. \A o \in here : Wins(s, o)
      <4> HIDE DEF here
      <4> QED BY <1>2, <1>3, <2>2
    <3> QED BY <3>1
  <2> QED BY <2>1, <2>2
<1>5. PlayingSong(p) = AnyOf(best)
  BY DEF PlayingSong
<1>6. best \subseteq here
  OBVIOUS
<1> HIDE DEF best
<1>7. AnyOf(best) \in best
  BY <1>4 DEF AnyOf
<1> QED BY <1>5, <1>6, <1>7

\* What plays at a position contains it.
LEMMA PlayingContains ==
  ASSUME NEW p, PlayingSong(p) # None
  PROVE  PlayingSong(p) \in Songs /\ Contains(PlayingSong(p), p)
<1> DEFINE best == {s \in {x \in Songs : Contains(x, p)} :
                      \A o \in {x \in Songs : Contains(x, p)} :
                        \/ Span(s) < Span(o)
                        \/ Span(s) = Span(o) /\ (o \in Children => s \in Children)}
<1>1. PlayingSong(p) = AnyOf(best) /\ best \subseteq Songs
      /\ \A s \in best : Contains(s, p)
  BY DEF PlayingSong
<1> HIDE DEF best
<1>2. AnyOf(best) \in best
  BY <1>1, AnyOfType
<1> QED BY <1>1, <1>2
-----------------------------------------------------------------------------
(***************************************************************************)
(* A family plays through.                                                 *)
(***************************************************************************)
\* Two children of a position belong to families that end together.
FamiliesApart ==
  \A c, d \in Children, p \in Pos :
    Contains(c, p) /\ Contains(d, p) => End[Parent[c]] = End[Parent[d]]

\* The source of what plays at a position inside a child is a parent of a child there.
LEMMA SourceInFamily ==
  ASSUME NEW p, NEW c \in Children, Contains(c, p)
  PROVE  \E d \in Children : Contains(d, p) /\ SourceOf(PlayingSong(p), p) = Parent[d]
<1> DEFINE song == PlayingSong(p)
           named == {x \in Children : x = song \/ (song # None /\ SameSpan(x, song))}
           here == {x \in Children : Contains(x, p)}
           best == {x \in here : \A o \in here : Span(x) <= Span(o)}
           child == FamilyChild(song, p)
<1>1. song \in Songs /\ Contains(song, p)
  BY SomethingPlays DEF Children
<1>2. \A x \in named : x \in Children /\ Contains(x, p)
  <2> HIDE DEF song
  <2> QED BY <1>1 DEF SameSpan, Contains
<1>3. here \subseteq Songs /\ c \in here
  BY DEF Children
<1>4. best # {}
  <2> HIDE DEF here
  <2>1. \E s \in here : \A o \in here : Span(s) <= Span(o)
    BY <1>3, ShortestSong
  <2> QED BY <2>1
<1>5. \A x \in best : x \in Children /\ Contains(x, p)
  OBVIOUS
<1>6. child = IF named # {} THEN AnyOf(named) ELSE AnyOf(best)
  BY DEF FamilyChild
<1> HIDE DEF named, best, child, song
<1>7. child \in Children /\ Contains(child, p)
  <2>1. named # {} => AnyOf(named) \in named
    BY DEF AnyOf
  <2>2. AnyOf(best) \in best
    BY <1>4 DEF AnyOf
  <2> QED BY <1>2, <1>5, <1>6, <2>1, <2>2
<1>8. child # None
  BY <1>7, NoneAssumption DEF Children
<1>9. SourceOf(song, p) = Parent[child]
  BY <1>8 DEF SourceOf, child
<1> QED BY <1>7, <1>9 DEF song

\* r kept the seek and the queue of s, or dropped the seek.
Rests(s, r) == r.seek = NoSeek \/ (r.seek = s.seek /\ r.queue = s.queue)

\* After the queue's turn a stop may drop the seek; nothing else touches it.
LEMMA TailRests ==
  ASSUME NEW s, Sound(s)
  PROVE  Rests(s, PartsArrival(IF s.acted THEN s ELSE MaintainAutoStop(s)))
<1> DEFINE r == RememberSong(s)
           nav == /\ ~(r.queue.song # None \/ r.boundary # None) /\ r.selected.nav
                  /\ r.selected.song # None
                  /\ Start[r.selected.song] # Start[r.last.span]
           x == IF nav THEN r.selected.song ELSE None
           a == IF s.acted THEN s ELSE MaintainAutoStop(s)
<1>1. Sound(r) /\ r.seek = s.seek /\ r.queue = s.queue
  <2>1. Sound(r)
    BY RememberSongSound
  <2> QED BY <2>1 DEF RememberSong, Sound, States
<1>2. nav \in BOOLEAN /\ x \in SongOrNone
  BY <1>1, NoneTypes DEF Sound, States, Selections
<1> HIDE DEF r
<1>3. StopAtEnd(r) = r \/ StopAtEnd(r) = StopTransport(r, x, nav)
  BY DEF StopAtEnd
<1> HIDE DEF nav, x
<1>4. Rests(s, StopAtEnd(r))
  BY <1>1, <1>2, <1>3, StopFields DEF Rests
<1>5. Rests(s, s) /\ Rests(s, r) /\ Rests(s, [s EXCEPT !.last = NoLast])
  BY <1>1 DEF Rests, Sound, States
<1>6. Sound(a) /\ Rests(s, a)
  BY <1>4, <1>5, MaintainAutoStopSound DEF MaintainAutoStop, r
<1> HIDE DEF a
<1>7. PartsArrival(a).seek = a.seek /\ PartsArrival(a).queue = a.queue
  BY <1>6 DEF PartsArrival, Sound, States
<1> QED BY <1>6, <1>7 DEF Rests, a

\* Nothing is asked of REAPER while nothing plays, or between songs.
LEMMA GapSeeksNothing ==
  ASSUME NEW s, Sound(s), ~s.cur.playing \/ s.cur.song = None
  PROVE  Automate(s).seek \in {s.seek, NoSeek}
<1> DEFINE q == IF s.pending # NoPending THEN s ELSE MaintainQueue(s)
           stopped == [StopTransport(s, None, FALSE) EXCEPT !.acted = TRUE]
<1>1. stopped.seek = NoSeek
  <2>1. Sound(StopTransport(s, None, FALSE)) /\ StopTransport(s, None, FALSE).seek = NoSeek
    BY StopTransportSound, StopFields, NoneTypes
  <2> QED BY <2>1 DEF Sound, States
<1>2. /\ ClearAll(s).seek = s.seek /\ [s EXCEPT !.queue.sought = None].seek = s.seek
      /\ [ClearAll(s) EXCEPT !.preview = s.cur.playing].seek = s.seek
  BY DEF ClearAll, Sound, States
<1>3. MaintainQueue(s) \in {ClearAll(s), [s EXCEPT !.queue.sought = None], stopped,
                            [ClearAll(s) EXCEPT !.preview = s.cur.playing]}
  BY DEF MaintainQueue
<1> HIDE DEF stopped
<1>4. Sound(q) /\ q.seek \in {s.seek, NoSeek}
  BY <1>1, <1>2, <1>3, MaintainQueueSound
<1> HIDE DEF q
<1>5. Rests(q, Automate(s))
  <2>1. Automate(s) = PartsArrival(IF q.acted THEN q ELSE MaintainAutoStop(q))
    BY DEF Automate, q
  <2> QED BY <1>4, <2>1, TailRests
<1> QED BY <1>4, <1>5 DEF Rests

\* The queue leaves a child only near the end of its parent, in a project where
\* families lie apart: whatever was queued, and whatever plays inside the family.
THEOREM FamilyPlaysOnHolds ==
  ASSUME FamiliesApart
  PROVE  Spec => FamilyPlaysOn
<1> DEFINE Leaves ==
      Cycle /\ seek'.kind = "queue" /\ seek.kind # "queue"
      => \A c \in Children : Contains(c, pos) /\ pos = cur'.pos =>
           End[Parent[c]] - pos <= SeekLead
<1>1. Inv => Leaves
  <2> SUFFICES ASSUME Inv, Cycle, seek'.kind = "queue", seek.kind # "queue",
                      NEW c \in Children, Contains(c, pos)
               PROVE  End[Parent[c]] - pos <= SeekLead
    OBVIOUS
  <2>1. PlayingSong(pos) # None
    BY SomethingPlays, NoneAssumption DEF Children
  <2>2. CASE Playing
    <3>1. /\ cur'.song = PlayingSong(pos)
          /\ End[SourceOf(cur'.song, pos)] - pos <= SeekLead
      BY <2>1, <2>2, CycleSteers DEF NoSeek
    <3>2. PICK d \in Children : Contains(d, pos) /\ SourceOf(PlayingSong(pos), pos) = Parent[d]
      BY SourceInFamily
    <3>3. End[Parent[c]] = End[Parent[d]]
      BY <3>2 DEF FamiliesApart, Inv, TypeOK
    <3> QED BY <3>1, <3>2, <3>3
  <2>3. CASE ~Playing
    <3>1. /\ Sound(Seen) /\ CycleResult = Automate(Seen) /\ Seen.seek = seek
          /\ ~Seen.cur.playing
      BY <2>3, SeenFields
    <3>2. seek' = Automate(Seen).seek
      BY <3>1 DEF Cycle, Becomes
    <3> QED BY <3>1, <3>2, GapSeeksNothing DEF NoSeek
  <2> QED BY <2>2, <2>3
<1> QED BY <1>1, InvHolds, PTL DEF FamilyPlaysOn
-----------------------------------------------------------------------------
(***************************************************************************)
(* What a cycle carries on: the pending target, a Play on its way, and a   *)
(* memory of the song Auto Stop waits for.                                 *)
(***************************************************************************)
\* What Auto Stop remembers is nothing, or a song whose end counts.
Known(l) == l = NoLast \/ l.span \in Songs

Carries(s, r) ==
  /\ r.pending = s.pending
  /\ Known(s.last) => Known(r.last)
  /\ r.seek.kind = "start" => GoesOn(s, r)

\* Carrying on is transitive.
LEMMA CarriesOn ==
  \A s, r, t : Carries(s, r) /\ Carries(r, t) => Carries(s, t)
BY DEF Carries, GoesOn

\* A stop leaves the pending target and the memory of the playback.
LEMMA StopLast ==
  ASSUME NEW s, Sound(s), NEW x \in SongOrNone, NEW validated \in BOOLEAN
  PROVE  /\ StopTransport(s, x, validated).pending = s.pending
         /\ StopTransport(s, x, validated).last = s.last
<1> DEFINE t == StopTarget(s, x, validated)
           c == IF t = None \/ (s.cur.song # None /\ SameSpan(t, s.cur.song))
                THEN s.cursor ELSE Start[t]
           u == [s EXCEPT !.transport = "stopped", !.seek = NoSeek,
                          !.selected = [song |-> t, nav |-> FALSE],
                          !.suppress = SuppressLife, !.cursor = c]
           r == ClearLoops(ClearAll(u))
<1> HIDE DEF t, c
<1>1. /\ DOMAIN u = DOMAIN s /\ {"pending", "last"} \subseteq DOMAIN s
      /\ u.pending = s.pending /\ u.last = s.last
  BY DEF Sound, States
<1> HIDE DEF u
<1>2. r.pending = s.pending /\ r.last = s.last
  BY <1>1 DEF ClearLoops, ClearAll
<1>3. r = StopTransport(s, x, validated)
  BY DEF u, t, c, StopTransport
<1> QED BY <1>2, <1>3

\* So it drops the seek and carries on the rest.
LEMMA StopCarries ==
  ASSUME NEW s, Sound(s), NEW x \in SongOrNone, NEW validated \in BOOLEAN
  PROVE  Carries(s, StopTransport(s, x, validated))
BY StopLast, StopFields DEF Carries, NoSeek

\* The end of the queue's source.
LEMMA FireCarries ==
  ASSUME NEW s, Sound(s)
  PROVE  Carries(s, FireQueue(s))
<1> DEFINE here == SourceOf(s.cur.song, s.cur.pos)
           kept == IF mode = "auto2" /\ s.queue.source # None THEN s.queue.source ELSE here
           inside == mode = "auto2" /\ Contains(kept, s.cur.pos)
           src  == IF inside THEN here ELSE kept
           t    == IF inside THEN [s EXCEPT !.queue.source = here] ELSE s
           stopped == [StopTransport(t, None, FALSE) EXCEPT !.acted = TRUE]
<1>1. here \in SongOrNone
  BY SourceType DEF Sound, States, Currents
<1>2. [s EXCEPT !.queue.source = here] \in States
  BY <1>1 DEF Sound, States, Queues
<1>3. [s EXCEPT !.queue.source = here].queue.song = s.queue.song
  BY DEF Sound, States, Queues
<1>4. Sound(t) /\ Carries(s, t)
  BY <1>2, <1>3 DEF Sound, States, OneTargetIn, Carries, GoesOn
<1>5. Carries(s, stopped)
  <2> HIDE DEF t
  <2>1. Sound(StopTransport(t, None, FALSE)) /\ Carries(t, StopTransport(t, None, FALSE))
    BY <1>4, StopTransportSound, StopCarries, NoneTypes
  <2>2. Carries(t, stopped)
    BY <2>1 DEF Carries, GoesOn, Sound, States
  <2> QED BY <1>4, <2>2 DEF Carries, GoesOn
<1>6. Carries(s, AskForSeek(t, src))
  <2> HIDE DEF t, src
  <2>1. Carries(t, AskForSeek(t, src))
    BY <1>4 DEF AskForSeek, Carries, GoesOn, Sound, States
  <2> QED BY <1>4, <2>1 DEF Carries, GoesOn
<1>7. Carries(s, s)
  BY DEF Carries, GoesOn
<1> HIDE DEF here, kept, inside, src, t, stopped
<1> QED BY <1>4, <1>5, <1>6, <1>7 DEF FireQueue, here, kept, inside, src, t, stopped

\* The queue's turn.
LEMMA QueueCarries ==
  ASSUME NEW s, Sound(s)
  PROVE  Carries(s, MaintainQueue(s))
<1>1. ASSUME NEW r, Sound(r)
      PROVE  /\ Carries(r, ConsumeQueue(r)) /\ Carries(r, DropBoundary(r))
             /\ Carries(r, DropChild(r)) /\ Carries(r, ArmNext(r))
  BY <1>1 DEF ConsumeQueue, DropBoundary, DropChild, ArmNext, SetQueue, Carries, GoesOn,
     Sound, States
<1> DEFINE r == ArmNext(DropChild(DropBoundary(ConsumeQueue(s))))
<1>2. Sound(r) /\ Carries(s, r)
  BY <1>1, ConsumeQueueSound, DropBoundarySound, DropChildSound, ArmNextSound, CarriesOn
<1> HIDE DEF r
<1>3. Carries(s, FireQueue(r))
  BY <1>2, FireCarries DEF Carries, GoesOn
<1>4. /\ Carries(s, ClearAll(s)) /\ Carries(s, [s EXCEPT !.queue.sought = None])
      /\ Carries(s, [ClearAll(s) EXCEPT !.preview = s.cur.playing])
  BY DEF Carries, GoesOn, ClearAll, Sound, States
<1>5. Carries(s, [StopTransport(s, None, FALSE) EXCEPT !.acted = TRUE])
  <2>1. Sound(StopTransport(s, None, FALSE)) /\ Carries(s, StopTransport(s, None, FALSE))
    BY StopTransportSound, StopCarries, NoneTypes
  <2> QED BY <2>1 DEF Carries, GoesOn, Sound, States
<1> QED BY <1>3, <1>4, <1>5 DEF MaintainQueue, r

\* Auto Stop's turn.
LEMMA AutoStopCarries ==
  ASSUME NEW s, Sound(s)
  PROVE  Carries(s, MaintainAutoStop(s))
<1> DEFINE r == RememberSong(s)
           here == {c \in Children : Contains(c, s.cur.pos)}
           child == AnyOf({c \in here : \A o \in here : Span(c) <= Span(o)})
           span == IF child = None THEN s.cur.song ELSE Parent[child]
           nav == /\ ~(r.queue.song # None \/ r.boundary # None) /\ r.selected.nav
                  /\ r.selected.song # None
                  /\ Start[r.selected.song] # Start[r.last.span]
           x == IF nav THEN r.selected.song ELSE None
<1>1. child = None \/ child \in Children
  BY AnyOfType DEF Children
<1>2. s.cur.song # None => span \in Songs
  BY <1>1, FamilyAssumption DEF Children, Sound, States, Currents, SongOrNone
<1>3. Sound(r)
  BY RememberSongSound
<1>4. Carries(s, r)
  <2>1. r = s \/ (s.cur.song # None /\ r = [s EXCEPT !.last = [id |-> s.cur.song, span |-> span]])
    BY DEF RememberSong
  <2> HIDE DEF span, child, r
  <2> QED BY <1>2, <2>1 DEF Carries, GoesOn, Known, Sound, States
<1>5. nav \in BOOLEAN /\ x \in SongOrNone
  BY <1>3, NoneTypes DEF Sound, States, Selections
<1> HIDE DEF r
<1>6. StopAtEnd(r) = r \/ StopAtEnd(r) = StopTransport(r, x, nav)
  BY DEF StopAtEnd
<1> HIDE DEF nav, x
<1>7. Carries(s, StopAtEnd(r))
  BY <1>3, <1>4, <1>5, <1>6, StopCarries DEF Carries, GoesOn
<1>8. Carries(s, s) /\ Carries(s, [s EXCEPT !.last = NoLast])
  BY DEF Carries, GoesOn, Known, Sound, States
<1> QED BY <1>4, <1>7, <1>8 DEF MaintainAutoStop, r

\* The automation of one cycle.
LEMMA AutomateCarries ==
  ASSUME NEW s, Sound(s)
  PROVE  Carries(s, Automate(s))
<1> DEFINE q == IF s.pending # NoPending THEN s ELSE MaintainQueue(s)
           a == IF q.acted THEN q ELSE MaintainAutoStop(q)
<1>1. Sound(q) /\ Carries(s, q)
  <2>1. Carries(s, s)
    BY DEF Carries, GoesOn
  <2> QED BY <2>1, MaintainQueueSound, QueueCarries
<1> HIDE DEF q
<1>2. Sound(a) /\ Carries(q, a)
  <2>1. Carries(q, q)
    BY DEF Carries, GoesOn
  <2> QED BY <1>1, <2>1, MaintainAutoStopSound, AutoStopCarries
<1> HIDE DEF a
<1>3. Carries(a, PartsArrival(a))
  BY <1>2 DEF PartsArrival, Carries, GoesOn, Sound, States
<1> QED BY <1>1, <1>2, <1>3 DEF Automate, q, a, Carries, GoesOn
\* A cycle carries on what it sees.
LEMMA CycleCarries ==
  ASSUME Inv, Cycle
  PROVE  /\ pending' = View.pending
         /\ Known(last) => Known(last')
         /\ seek'.kind = "start" => seek' = seek /\ transport' = transport
<1>1. /\ pending' = CycleResult.pending /\ last' = CycleResult.last
      /\ seek' = CycleResult.seek /\ transport' = CycleResult.transport
  BY DEF Cycle, Becomes
<1> QED BY <1>1, SeenFields, AutomateCarries DEF Carries, GoesOn

\* Commands that leave the playback alone, and time, leave the memory of it alone.
LEMMA LastKept ==
  ASSUME Inv, Next, last' # last
  PROVE  \/ Cycle
         \/ \E x \in SongOrNone, seeks, audition \in BOOLEAN : Play(x, seeks, audition)
         \/ last' = NoLast
<1>1. CASE ProcessSelection \/ HookedPlay
  BY <1>1 DEF ProcessSelection, HookedPlay, ApplyClick, ReaperPlay, Becomes, Now
<1>2. CASE HookedStop
  <2>1. Sound(Now) /\ Now.last = last
    BY NowSound DEF Now
  <2>2. StopTransport(Now, None, FALSE).last = last
    BY <2>1, StopLast, NoneTypes
  <2>3. ClearLoops(ClearAll(Now)).last = last
    BY DEF ClearLoops, ClearAll, Now
  <2> QED BY <1>2, <2>2, <2>3 DEF HookedStop, Becomes
<1>3. CASE \E x \in SongOrNone : Stop(x)
  <2> DEFINE s == SetPending(ApplyClick(Now), None)
  <2>1. Sound(s) /\ s.last = NoLast
    <3>1. Sound(s)
      BY ClickSound, SetPendingSound, NoneTypes
    <3>2. s.last = NoLast
      BY DEF SetPending, ApplyClick, Now
    <3> QED BY <3>1, <3>2
  <2> HIDE DEF s
  <2>2. \A x \in SongOrNone : StopTransport(s, x, FALSE).last = NoLast
    BY <2>1, StopLast
  <2> QED BY <1>3, <2>2 DEF Stop, Becomes, s
<1>4. CASE Pause
  BY <1>4 DEF Pause, SetPending, Becomes, Now
<1>5. CASE \E x \in Songs, manual, exact, drawerOpen \in BOOLEAN :
             QueueSong(x, manual, exact, drawerOpen)
  BY <1>5 DEF QueueSong, memoryVars
<1>6. CASE \/ ClearQueue \/ \E m \in {"auto1", "auto2"} : SetAuto(m)
           \/ ToggleAtBl \/ ToggleAutoStop \/ ClearSelection \/ \E x \in Songs : Select(x)
           \/ ReaperStops \/ ToggleLoop \/ HoldKey \/ ReleaseKey
  BY <1>6 DEF ClearQueue, SetAuto, ToggleAtBl, ToggleAutoStop, Select, ClearSelection,
     ReaperStops, ToggleLoop, HoldKey, ReleaseKey, memoryVars
<1>7. CASE (\E m \in Markers : GoToPart(m)) \/ DisarmPart \/ EscapePart
  BY <1>7 DEF GoToPart, DisarmPart, EscapePart
<1>8. CASE Elapse
  BY <1>8 DEF Elapse
<1> QED BY <1>1, <1>2, <1>3, <1>4, <1>5, <1>6, <1>7, <1>8 DEF Next, Command

\* What Auto Stop remembers is always a song, or nothing.
LEMMA AlwaysKnown == Spec => []Known(last)
<1>1. Init => Known(last)
  BY DEF Init, Known
<1>2. Inv /\ Known(last) /\ [Next]_vars => Known(last)'
  <2> SUFFICES ASSUME Inv, Known(last), [Next]_vars, last' # last
               PROVE  Known(last')
    BY DEF Known
  <2>1. CASE Next
    <3>1. CASE Cycle
      BY <3>1, CycleCarries
    <3>2. CASE \E x \in SongOrNone, seeks, audition \in BOOLEAN : Play(x, seeks, audition)
      <4>1. PICK r, y : Becomes(ReaperPlay(r, y)) /\ r \in States /\ r.last = NoLast
        BY <3>2, PlayRecord
      <4>2. last' = NoLast
        BY <4>1 DEF Becomes, ReaperPlay, States
      <4> QED BY <4>2 DEF Known
    <3>3. CASE last' = NoLast
      BY <3>3 DEF Known
    <3> QED BY <2>1, <3>1, <3>2, <3>3, LastKept
  <2>2. CASE UNCHANGED vars
    BY <2>2 DEF vars, memoryVars
  <2> QED BY <2>1, <2>2
<1> QED BY <1>1, <1>2, InvHolds, PTL DEF Spec
-----------------------------------------------------------------------------
(***************************************************************************)
(* Auto Stop.                                                              *)
(***************************************************************************)
\* Where no song plays, and the cycle is late by no more than the window, the end
\* of the song Auto Stop remembers is in the window.
LEMMA EndIsSeen ==
  ASSUME NEW e \in Songs, NEW from \in Pos, NEW to \in Pos, NEW late \in Nat,
         Contains(e, from), to \in from..(from + late), late <= StopWindow + 1,
         PlayingSong(to) = None
  PROVE  (End[e] - to) \in (-StopWindow)..0
<1>1. /\ Start[e] \in Nat /\ End[e] \in Nat /\ from \in Nat /\ to \in Nat
      /\ StopWindow \in Nat
  BY BoundAssumption, TimesAreNat DEF Pos
<1>2. Start[e] <= from /\ from < End[e] /\ from <= to /\ to <= from + late
  BY <1>1 DEF Contains
<1>3. ~Contains(e, to)
  BY SomethingPlays, NoneAssumption
<1>4. End[e] <= to
  BY <1>1, <1>2, <1>3 DEF Contains
<1> QED BY <1>1, <1>2, <1>4

\* Auto Stop, in a gap behind the song it remembers.
LEMMA AutoStopStops ==
  ASSUME NEW s, Sound(s), s.cur.playing, s.cur.song = None, s.last # NoLast,
         s.pending = NoPending, s.armed = NoPart, s.loop = None,
         autoStop, s.queue = NoQueue, s.boundary = None,
         (End[s.last.span] - s.cur.pos) \in (-StopWindow)..0,
         \A x \in Songs : Start[x] # End[s.last.span]
  PROVE  MaintainAutoStop(s).transport = "stopped"
<1> DEFINE nav == /\ ~(s.queue.song # None \/ s.boundary # None) /\ s.selected.nav
                  /\ s.selected.song # None
                  /\ Start[s.selected.song] # Start[s.last.span]
           x == IF nav THEN s.selected.song ELSE None
<1>1. nav \in BOOLEAN /\ x \in SongOrNone
  BY NoneTypes DEF Sound, States, Selections
<1>2. RememberSong(s) = s
  BY DEF RememberSong
<1>3. MaintainAutoStop(s) = StopAtEnd(s)
  BY <1>2 DEF MaintainAutoStop
<1>4. StopAtEnd(s) = StopTransport(s, x, nav)
  <2>1. ~s.queue.manual
    BY DEF NoQueue
  <2>2. ~\E y \in Songs \ Parents : y # s.last.id /\ Start[y] = End[s.last.span]
    OBVIOUS
  <2> QED BY <2>1, <2>2 DEF StopAtEnd
<1> HIDE DEF nav, x
<1> QED BY <1>1, <1>3, <1>4, StopFields

\* The queue's turn in a gap: Auto 2 stops, otherwise nothing is queued any more.
LEMMA GapTurn ==
  ASSUME NEW s, Sound(s), s.cur.song = None, s.armed = NoPart, ~s.acted
  PROVE  \/ MaintainQueue(s).transport = "stopped" /\ MaintainQueue(s).acted
         \/ /\ MaintainQueue(s).queue = NoQueue /\ MaintainQueue(s).boundary = None
            /\ ~MaintainQueue(s).acted
            /\ MaintainQueue(s).last = s.last /\ MaintainQueue(s).pending = s.pending
            /\ MaintainQueue(s).armed = NoPart /\ MaintainQueue(s).loop = s.loop
<1> DEFINE stopped == [StopTransport(s, None, FALSE) EXCEPT !.acted = TRUE]
           over == [ClearAll(s) EXCEPT !.preview = s.cur.playing]
<1>1. stopped.transport = "stopped" /\ stopped.acted
  <2>1. /\ Sound(StopTransport(s, None, FALSE))
        /\ StopTransport(s, None, FALSE).transport = "stopped"
    BY StopTransportSound, StopFields, NoneTypes
  <2> QED BY <2>1 DEF Sound, States
<1>2. \A r \in {ClearAll(s), over} :
         /\ r.queue = NoQueue /\ r.boundary = None /\ ~r.acted /\ r.last = s.last
         /\ r.pending = s.pending /\ r.armed = NoPart /\ r.loop = s.loop
  BY DEF ClearAll, Sound, States
<1>3. MaintainQueue(s) \in {ClearAll(s), over, stopped}
  BY DEF MaintainQueue
<1> HIDE DEF stopped, over
<1> QED BY <1>1, <1>2, <1>3

\* With Auto Stop on, playback that runs out of a song into the gap behind it is
\* stopped by the first cycle after it, when that cycle comes no later than the
\* window allows; how often cycles come is left open, and a held key delays them.
THEOREM AutoStopNotMissedHolds == Spec => AutoStopNotMissed
<1> DEFINE RunsOut ==
      /\ Cycle /\ autoStop /\ Playing /\ PlayingSong(pos) = None
      /\ cur.playing /\ last.id # None /\ last.id = cur.song /\ Contains(last.span, cur.pos)
      /\ \A x \in Songs : Start[x] # End[last.span]
      /\ lag <= StopWindow + 1 /\ pos \in cur.pos..(cur.pos + lag)
      /\ pending = NoPending /\ armed = NoPart /\ loop = None
<1>1. Inv /\ Known(last) => (RunsOut => transport' = "stopped")
  <2> SUFFICES ASSUME Inv, Known(last), RunsOut PROVE transport' = "stopped"
    OBVIOUS
  <2>1. last # NoLast /\ last.span \in Songs
    BY DEF Known, NoLast
  <2>2. View.pending = NoPending /\ View.song = None /\ View.pos = pos
    BY ViewFields
  <2>3. /\ (End[last.span] - pos) \in (-StopWindow)..0
        /\ \A x \in Songs : Start[x] # End[last.span]
    <3>1. cur.pos \in Pos /\ pos \in Pos /\ lag \in Nat
      BY TimesAreNat DEF Inv, TypeOK, Currents
    <3> QED BY <2>1, <3>1, EndIsSeen
  <2>4. /\ Sound(Seen) /\ CycleResult = Automate(Seen) /\ ~Seen.acted
        /\ Seen.cur.playing /\ Seen.cur.song = None /\ Seen.cur.pos = pos
        /\ Seen.pending = NoPending /\ Seen.last = last /\ Seen.armed = NoPart
        /\ Seen.loop = None
    <3>1. /\ Sound(Seen) /\ CycleResult = Automate(Seen) /\ ~Seen.acted
          /\ Seen.cur = [playing |-> Playing, song |-> View.song, pos |-> View.pos]
          /\ Seen.pending = View.pending /\ Seen.last = last
          /\ Seen.armed = armed /\ Seen.loop = loop
      BY SeenFields
    <3> HIDE DEF Seen
    <3> QED BY <2>2, <3>1
  <2>5. transport' = Automate(Seen).transport
    BY <2>4 DEF Cycle, Becomes
  <2> DEFINE q == MaintainQueue(Seen)
             a == IF q.acted THEN q ELSE MaintainAutoStop(q)
  <2>6. Sound(q) /\ q.cur = Seen.cur
    BY <2>4, MaintainQueueSound, CurKept
  <2>7. Sound(a) /\ a.transport = "stopped"
    <3>1. CASE q.acted
      BY <2>4, <2>6, <3>1, GapTurn
    <3>2. CASE ~q.acted
      <4>1. /\ q.queue = NoQueue /\ q.boundary = None /\ q.last = last
            /\ q.pending = NoPending /\ q.armed = NoPart /\ q.loop = None
        BY <2>4, <3>2, GapTurn
      <4>2. q.cur.playing /\ q.cur.song = None /\ q.cur.pos = pos
        BY <2>4, <2>6
      <4> HIDE DEF q
      <4>3. MaintainAutoStop(q).transport = "stopped" /\ Sound(MaintainAutoStop(q))
        BY <2>1, <2>3, <2>6, <4>1, <4>2, AutoStopStops, MaintainAutoStopSound
      <4> QED BY <3>2, <4>3
    <3> QED BY <3>1, <3>2
  <2>8. Automate(Seen) = PartsArrival(a)
    BY <2>4 DEF Automate
  <2> HIDE DEF a
  <2> QED BY <2>5, <2>7, <2>8, ArrivalGoesOn DEF GoesOn
<1> QED BY <1>1, InvHolds, AlwaysKnown, PTL DEF AutoStopNotMissed
-----------------------------------------------------------------------------
(***************************************************************************)
(* A Play on its way.                                                      *)
(***************************************************************************)
\* A Play of a song that REAPER has not reported yet.
Starting == seek.kind = "start" /\ seek.song # None

\* Its song is the pending target, as old as the seek, until it is seen.
Awaited ==
  Starting => /\ Playing
              /\ pending = NoPending \/ (pending.song = seek.song /\ pending.age = seek.age)

\* While the target of a Play is pending no cycle touches transport or seek, and
\* the target stays pending until a cycle finds a position inside its song.
FreshPlayProtected ==
  Starting /\ pending # NoPending =>
    /\ Cycle /\ ~Contains(seek.song, pos) => transport' = transport /\ seek' = seek
    /\ Starting' /\ seek'.song = seek.song /\ pending' = NoPending =>
         Cycle /\ Contains(seek.song, pos)

\* What a cycle makes of the pending target of a Play on its way.
LEMMA ViewOfStart ==
  ASSUME Inv, Starting, Awaited, pending # NoPending, MaxStale <= PendingLife
  PROVE  View.pending = IF Contains(seek.song, pos) THEN NoPending ELSE pending
<1>1. pending.song = seek.song /\ pending.age = seek.age /\ Playing /\ seek.song # None
  BY DEF Awaited, Starting
<1>2. seek.age \in 0..MaxStale
  <2>1. seek # NoSeek
    BY DEF Starting, NoSeek
  <2> QED BY <2>1 DEF Inv, TypeOK, Seeks
<1>3. ~(pending.age > PendingLife)
  BY <1>1, <1>2, TimesAreNat
<1> QED BY <1>1, <1>3 DEF View

\* Awaited is kept: by the commands, which replace the seek or leave both alone,
\* and by time, which ages both alike.
LEMMA AwaitedStep ==
  ASSUME Inv, Awaited, [Next]_vars, MaxStale <= PendingLife
  PROVE  Awaited' /\ FreshPlayProtected
<1> DEFINE Replaced == ~Starting' \/ (pending' # NoPending /\ Awaited')
           Left == seek' = seek /\ transport' = transport /\ pending' = pending
<1>1. Left => Awaited'
  BY DEF Awaited, Starting, Playing
<1>2. ASSUME ~Cycle, Left \/ Replaced PROVE Awaited' /\ FreshPlayProtected
  BY <1>1, <1>2 DEF FreshPlayProtected, Awaited
<1>3. CASE UNCHANGED vars
  <2>1. Left
    BY <1>3 DEF vars, reaperVars, memoryVars
  <2> QED BY <1>1, <2>1 DEF FreshPlayProtected
<1>4. CASE Cycle
  <2>1. /\ pending' = View.pending
        /\ seek'.kind = "start" => seek' = seek /\ transport' = transport
    BY <1>4, CycleCarries
  <2>2. CASE ~Starting'
    <3>1. Awaited'
      BY <2>2 DEF Awaited
    <3>2. ASSUME Starting, pending # NoPending, ~Contains(seek.song, pos)
          PROVE  transport' = transport /\ seek' = seek
      <4>1. View.pending # NoPending /\ Playing
        BY <3>2, ViewOfStart DEF Awaited
      <4>2. /\ Sound(Seen) /\ CycleResult = Automate(Seen) /\ Seen.cur.playing
            /\ Seen.pending = View.pending /\ Seen.transport = transport /\ Seen.seek = seek
        BY <4>1, SeenFields
      <4>3. GoesOn(Seen, Automate(Seen))
        BY <4>1, <4>2, PendingGoesOn
      <4> QED BY <1>4, <4>2, <4>3 DEF Cycle, Becomes, GoesOn
    <3> QED BY <2>2, <3>1, <3>2 DEF FreshPlayProtected
  <2>3. CASE Starting'
    <3>1. seek' = seek /\ transport' = transport /\ Starting
      BY <2>1, <2>3 DEF Starting
    <3>2. Playing /\ Playing'
      BY <3>1 DEF Awaited, Playing
    <3>3. pending = NoPending => pending' = NoPending
      BY <2>1, <3>2, ViewFields
    <3>4. pending # NoPending =>
            pending' = IF Contains(seek.song, pos) THEN NoPending ELSE pending
      BY <2>1, <3>1, ViewOfStart
    <3> QED BY <1>4, <3>1, <3>2, <3>3, <3>4 DEF Awaited, FreshPlayProtected
  <2> QED BY <2>2, <2>3
<1>5. ASSUME Elapse, ~Cycle PROVE Awaited' /\ FreshPlayProtected
  <2>1. SUFFICES ASSUME Starting' PROVE Awaited' /\ (pending # NoPending => pending' # NoPending)
    BY <1>5 DEF Awaited, FreshPlayProtected
  <2>2. CASE UNCHANGED <<transport, seek>> /\ ~Playing
    BY <2>1, <2>2 DEF Awaited, Starting
  <2>3. CASE Playing /\ Drifts /\ UNCHANGED transport
    <3>1. /\ seek # NoSeek /\ seek.kind = "start" /\ seek.age < MaxStale
          /\ seek' = [seek EXCEPT !.age = @ + 1]
      BY <2>3 DEF Drifts, NoSeek
    <3>2. seek \in [to : Pos, kind : {"start", "queue", "part"}, song : SongOrNone,
                    age : 0..MaxStale]
      BY <3>1 DEF Inv, TypeOK, Seeks
    <3>3. seek'.song = seek.song /\ seek'.age = seek.age + 1 /\ seek.age \in Nat /\ Starting
      BY <2>1, <3>1, <3>2 DEF Starting
    <3>4. pending = NoPending => pending' = NoPending
      BY <1>5 DEF Elapse
    <3>5. ASSUME pending # NoPending
          PROVE  /\ pending'.song = seek'.song /\ pending'.age = seek'.age
                 /\ pending' # NoPending
      <4>1. pending.song = seek.song /\ pending.age = seek.age /\ seek.song # None
        BY <3>3, <3>5 DEF Awaited, Starting
      <4>2. ~(pending.age > PendingLife)
        BY <3>1, <3>3, <4>1, TimesAreNat
      <4>3. pending' = [pending EXCEPT !.age = @ + 1] /\ pending \in Pendings
        BY <1>5, <3>5, <4>2 DEF Elapse, Inv, TypeOK
      <4>4. pending'.song = pending.song /\ pending'.age = pending.age + 1
        BY <4>3 DEF Pendings
      <4> QED BY <3>3, <4>1, <4>4 DEF NoPending
    <3> QED BY <2>1, <2>3, <3>4, <3>5 DEF Awaited, Playing
  <2>4. CASE seek' = NoSeek \/ (seek' = seek /\ seek.kind # "start")
    BY <2>1, <2>4 DEF Starting, NoSeek
  <2> QED BY <1>5, <2>2, <2>3, <2>4 DEF Elapse, Arrives, RunsOn
<1>6. ASSUME ProcessSelection, ~Cycle PROVE Awaited' /\ FreshPlayProtected
  <2>1. Left
    BY <1>6 DEF ProcessSelection, Becomes, ApplyClick, Now
  <2> QED BY <1>2, <1>6, <2>1
<1>7. ASSUME Command, ~Cycle PROVE Awaited' /\ FreshPlayProtected
  <2> SUFFICES Left \/ Replaced
    BY <1>2, <1>7
  <2>1. CASE \E x \in SongOrNone, seeks, audition \in BOOLEAN : Play(x, seeks, audition)
    <3>1. PICK r, y : /\ Becomes(ReaperPlay(r, y)) /\ r \in States
                      /\ r.pending = [song |-> y, age |-> 0]
      BY <2>1, PlayRecord
    <3>2. /\ seek' = NoSeek \/ (seek'.song = y /\ seek'.age = 0)
          /\ transport' = "playing" /\ pending' = [song |-> y, age |-> 0]
      BY <3>1 DEF Becomes, ReaperPlay, States
    <3>3. Starting' => seek'.song = y /\ seek'.age = 0 /\ y # None
      BY <3>2 DEF Starting, NoSeek
    <3> QED BY <3>2, <3>3 DEF Awaited, Starting, Playing, NoPending
  <2>2. CASE HookedPlay
    <3>1. seek' = NoSeek \/ seek'.song = None
      BY <2>2 DEF HookedPlay, Becomes, ReaperPlay, Now
    <3> QED BY <3>1 DEF Starting, NoSeek
  <2>3. CASE \E x \in SongOrNone : Stop(x)
    <3>1. Sound(SetPending(ApplyClick(Now), None))
      BY ClickSound, SetPendingSound, NoneTypes
    <3>2. seek' = NoSeek
      BY <2>3, <3>1, StopFields DEF Stop, Becomes
    <3> QED BY <3>2 DEF Starting, NoSeek
  <2>4. CASE Pause
    <3>1. seek' = NoSeek
      BY <2>4 DEF Pause, SetPending, Becomes, Now
    <3> QED BY <3>1 DEF Starting, NoSeek
  <2>5. CASE HookedStop
    <3>1. CASE transport # "stopped"
      <4>1. seek' = NoSeek
        BY <2>5, <3>1, NowSound, StopFields, NoneTypes DEF HookedStop, Becomes
      <4> QED BY <4>1 DEF Starting, NoSeek
    <3>2. CASE transport = "stopped"
      BY <2>5, <3>2 DEF HookedStop, Becomes, ClearLoops, ClearAll, Now
    <3> QED BY <3>1, <3>2
  <2>6. CASE ReaperStops
    BY <2>6 DEF ReaperStops, Starting, NoSeek
  <2>7. CASE (\E m \in Markers : GoToPart(m)) \/ EscapePart \/ DisarmPart
    <3>1. /\ seek' = seek \/ seek'.kind = "part"
          /\ transport' = transport /\ pending' = pending
      BY <2>7 DEF GoToPart, EscapePart, DisarmPart, reaperVars
    <3> QED BY <3>1 DEF Starting
  <2>8. CASE \E x \in Songs, manual, exact, drawerOpen \in BOOLEAN :
               QueueSong(x, manual, exact, drawerOpen)
    BY <2>8 DEF QueueSong, reaperVars, memoryVars
  <2>9. CASE \/ ClearQueue \/ \E m \in {"auto1", "auto2"} : SetAuto(m)
             \/ ToggleAtBl \/ ToggleAutoStop \/ ClearSelection \/ \E x \in Songs : Select(x)
             \/ ToggleLoop \/ HoldKey
    BY <2>9 DEF ClearQueue, SetAuto, ToggleAtBl, ToggleAutoStop, Select, ClearSelection,
       ToggleLoop, HoldKey, reaperVars, memoryVars
  <2> QED BY <1>7, <2>1, <2>2, <2>3, <2>4, <2>5, <2>6, <2>7, <2>8, <2>9 DEF Command
<1>8. ASSUME ReleaseKey, ~Cycle PROVE Awaited' /\ FreshPlayProtected
  <2>1. Left
    BY <1>8 DEF ReleaseKey, reaperVars, memoryVars
  <2> QED BY <1>2, <1>8, <2>1
<1> QED BY <1>3, <1>4, <1>5, <1>6, <1>7, <1>8 DEF Next

\* A song started by Play is left alone until playback is seen inside it: its
\* protection outlives the old positions REAPER still reports.
THEOREM FreshPlayHolds ==
  ASSUME MaxStale <= PendingLife
  PROVE  Spec => [][FreshPlayProtected]_vars
<1>1. Init => Awaited
  BY DEF Init, Awaited, Starting, NoSeek
<1>2. Inv /\ Awaited /\ [Next]_vars => Awaited' /\ FreshPlayProtected
  BY AwaitedStep
<1> QED BY <1>1, <1>2, InvHolds, PTL DEF Spec
-----------------------------------------------------------------------------
(***************************************************************************)
(* The seek of the queue.                                                  *)
(***************************************************************************)
\* The song whose end is the end of x: the parent of a child.
Root(x) == IF x \in Children THEN Parent[x] ELSE x

\* Two songs at one position are of one family, and a child lies inside its parent.
SongsApart ==
  /\ \A c \in Children : /\ Parent[c] \notin Children
                         /\ Start[Parent[c]] <= Start[c] /\ End[c] <= End[Parent[c]]
  /\ \A x, y \in Songs, p \in Pos : Contains(x, p) /\ Contains(y, p) => Root(x) = Root(y)

\* The queue takes a song at 0 that plays for one that has not begun; no parent is there.
NoParentAtZero == \A x \in Parents : Start[x] > 0

\* What was asked for on behalf of the queue leads to the song that waits now.
Follows(s) == s.seek.kind = "queue" /\ s.queue.sought # None => s.seek.song = s.queue.song
Leads(s)   == s.seek.kind = "queue" /\ s.queue.song # None => s.seek.song = s.queue.song

\* The source of what plays is the root of every song there, and lies there itself.
LEMMA SourceIsRoot ==
  ASSUME SongsApart, NEW p \in Pos, PlayingSong(p) # None
  PROVE  /\ SourceOf(PlayingSong(p), p) \in Songs \ Children
         /\ SourceOf(PlayingSong(p), p) = Root(PlayingSong(p))
         /\ Contains(SourceOf(PlayingSong(p), p), p)
         /\ \A y \in Songs : Contains(y, p) => Root(y) = SourceOf(PlayingSong(p), p)
<1> DEFINE song == PlayingSong(p)
           named == {x \in Children : x = song \/ (song # None /\ SameSpan(x, song))}
           here == {x \in Children : Contains(x, p)}
           best == {x \in here : \A o \in here : Span(x) <= Span(o)}
           child == FamilyChild(song, p)
<1>1. song \in Songs /\ Contains(song, p) /\ song # None
  BY PlayingContains
<1>2. \A x \in named \cup best : x \in Children /\ Contains(x, p)
  <2> HIDE DEF song
  <2> QED BY <1>1 DEF SameSpan, Contains
<1>3. named \subseteq Songs /\ best \subseteq Songs
  BY DEF Children
<1>4. child = IF named # {} THEN AnyOf(named) ELSE AnyOf(best)
  BY DEF FamilyChild
<1>5. named = {} => song \notin Children
  OBVIOUS
<1> HIDE DEF named, best, child, song
<1>6. child = None \/ (child \in Children /\ Contains(child, p))
  <2>1. AnyOf(named) = None \/ AnyOf(named) \in named
    BY <1>3, AnyOfType
  <2>2. AnyOf(best) = None \/ AnyOf(best) \in best
    BY <1>3, AnyOfType
  <2> QED BY <1>2, <1>4, <2>1, <2>2
<1>7. \A y \in Songs : Contains(y, p) => Root(y) = Root(song)
  BY <1>1 DEF SongsApart
<1>8. SourceOf(song, p) = Root(song)
  <2>1. CASE child = None
    <3>1. named = {}
      <4> SUFFICES ASSUME named # {} PROVE FALSE
        OBVIOUS
      <4>1. child \in named
        BY <1>4 DEF AnyOf
      <4>2. child \in Songs
        BY <1>3, <4>1
      <4> QED BY <2>1, <4>2, NoneAssumption
    <3> QED BY <1>5, <2>1, <3>1 DEF SourceOf, Root, child
  <2>2. CASE child # None
    <3>1. child \in Songs /\ Root(child) = Parent[child]
      BY <1>6, <2>2 DEF Root, Children
    <3>2. Root(child) = Root(song)
      BY <1>6, <1>7, <2>2, <3>1
    <3> QED BY <2>2, <3>1, <3>2 DEF SourceOf, child
  <2> QED BY <2>1, <2>2
<1>9. Root(song) \in Songs \ Children /\ Contains(Root(song), p)
  <2>1. CASE song \notin Children
    BY <1>1, <2>1 DEF Root
  <2>2. CASE song \in Children
    <3>1. Parent[song] \in Songs
      BY <2>2, FamilyAssumption DEF Children
    <3>2. /\ Parent[song] \notin Children
          /\ Start[Parent[song]] <= Start[song] /\ End[song] <= End[Parent[song]]
      BY <2>2 DEF SongsApart
    <3>3. /\ Start[song] \in Nat /\ End[song] \in Nat /\ p \in Nat
          /\ Start[Parent[song]] \in Nat /\ End[Parent[song]] \in Nat
      BY <1>1, <3>1, BoundAssumption, TimesAreNat DEF Pos
    <3>4. Contains(Parent[song], p)
      BY <1>1, <3>2, <3>3 DEF Contains
    <3> QED BY <2>2, <3>1, <3>2, <3>4 DEF Root
  <2> QED BY <2>1, <2>2
<1> QED BY <1>7, <1>8, <1>9 DEF song

\* A song with the bounds of the source is the source, or a child that fills it.
LEMMA SameAsSource ==
  ASSUME SongsApart, NEW p \in Pos, PlayingSong(p) # None,
         NEW q \in Songs, SameSpan(q, SourceOf(PlayingSong(p), p))
  PROVE  Contains(q, p) /\ Root(q) = SourceOf(PlayingSong(p), p)
<1>1. Contains(SourceOf(PlayingSong(p), p), p)
  BY SourceIsRoot
<1>2. Contains(q, p)
  BY <1>1 DEF SameSpan, Contains
<1> QED BY <1>2, SourceIsRoot

\* What is queued and has the bounds of the source plays: so it is consumed.
LEMMA QueuedSourcePlays ==
  ASSUME SongsApart, NoParentAtZero, NEW s, Sound(s), s.cur.song # None,
         s.cur.song = PlayingSong(s.cur.pos), s.queue.song # None,
         SameSpan(s.queue.song, SourceOf(s.cur.song, s.cur.pos))
  PROVE  QueueIsPlaying(s)
<1> DEFINE p == s.cur.pos
           q == s.queue.song
           src == SourceOf(s.cur.song, p)
<1>1. p \in Pos /\ q \in Songs /\ s.cur.song \in Songs
  BY DEF Sound, States, Currents, Queues, SongOrNone
<1>2. Contains(q, p) /\ Root(q) = src /\ src \in Songs \ Children /\ src = Root(s.cur.song)
  BY <1>1, SameAsSource, SourceIsRoot
<1>3. Start[q] \in Nat /\ Start[q] = Start[src]
  BY <1>1, BoundAssumption DEF SameSpan
<1>4. Start[q] > 0 \/ Start[q] = 0
  BY <1>3
<1>5. CASE Start[q] > 0
  BY <1>2, <1>5 DEF QueueIsPlaying
<1>6. CASE Start[q] = 0
  <2>1. src \notin Parents
    <3> HIDE DEF src, q
    <3>1. ~(Start[src] > 0)
      BY <1>3, <1>6
    <3> QED BY <3>1 DEF NoParentAtZero
  <2>2. q = src /\ s.cur.song = src
    BY <1>2, <2>1 DEF Root, Parents
  <2> QED BY <2>2 DEF QueueIsPlaying
<1> QED BY <1>4, <1>5, <1>6

\* The next song of Auto has the bounds of the source only when it is current.
LEMMA NextIsElsewhere ==
  ASSUME SongsApart, NEW s, Sound(s), s.cur.playing, s.cur.song # None,
         s.cur.song = PlayingSong(s.cur.pos), NEW n \in Songs \ Children, ~IsCurrent(s, n)
  PROVE  ~SameSpan(n, SourceOf(s.cur.song, s.cur.pos))
<1> DEFINE p == s.cur.pos
           c == s.cur.song
           src == SourceOf(c, p)
<1>1. p \in Pos /\ c \in Songs
  BY DEF Sound, States, Currents, SongOrNone
<1> SUFFICES ASSUME SameSpan(n, src) PROVE IsCurrent(s, n)
  OBVIOUS
<1>2. Root(n) = src /\ src = Root(c)
  BY <1>1, SameAsSource, SourceIsRoot
<1>3. n = src
  BY <1>2 DEF Root
<1>4. CASE c \notin Children
  <2>1. n = c
    BY <1>2, <1>3, <1>4 DEF Root
  <2> QED BY <2>1 DEF IsCurrent, SameSpan
<1>5. CASE c \in Children
  <2>1. n = Parent[c] /\ n \in Parents
    BY <1>2, <1>3, <1>5 DEF Root, Parents
  <2>2. Start[n] <= Start[c] /\ End[c] <= End[n]
    BY <1>5, <2>1 DEF SongsApart
  <2>3. /\ Start[n] \in Nat /\ End[n] \in Nat /\ Start[c] \in Nat /\ End[c] \in Nat
    BY <1>1, BoundAssumption
  <2>4. SameSpan(n, c) \/ Span(c) < Span(n)
    BY <2>2, <2>3 DEF SameSpan, Span
  <2> QED BY <2>1, <2>2, <2>4 DEF IsCurrent
<1> QED BY <1>4, <1>5

\* Auto plays no child.
LEMMA NextNoChild ==
  ASSUME NEW i, NEW bl
  PROVE  NextAuto(i, bl) = None \/ NextAuto(i, bl) \in Songs \ Children
<1> DEFINE J == {j \in Entries : j > i /\ Playlist[j] \notin Children}
<1>1. LowestIn(J) = 0 \/ LowestIn(J) \in J
  BY LowestType
<1>2. NextIndex(i) = 0 \/ NextIndex(i) = LowestIn(J)
  BY DEF NextIndex
<1> QED BY <1>1, <1>2, EntryType DEF NextAuto

\* What the queue's turn decides before it looks at the end of the source: the
\* signature of a queue that was changed is gone, and unless Auto 2 is on nothing
\* with the bounds of the source waits.
LEMMA BeforeFiring ==
  ASSUME NEW s, Sound(s)
  PROVE  LET r == ArmNext(DropChild(DropBoundary(ConsumeQueue(s))))
         IN  /\ Sound(r) /\ r.cur = s.cur /\ r.seek = s.seek /\ r.loop = s.loop
             /\ r.queue = s.queue \/ r.queue.sought = None
             /\ SongsApart /\ NoParentAtZero /\ mode # "auto2" /\ s.cur.playing
                /\ s.cur.song # None /\ s.cur.song = PlayingSong(s.cur.pos)
                /\ r.queue.song # None
                => ~SameSpan(r.queue.song, SourceOf(s.cur.song, s.cur.pos))
<1> DEFINE c == ConsumeQueue(s)
           b == DropBoundary(c)
           d == DropChild(b)
           i == CurrentIndex(d.cur.song)
           n == NextAuto(i, atbl)
           r == ArmNext(d)
           src == SourceOf(s.cur.song, s.cur.pos)
           Same(t, u) == Sound(u) /\ u.cur = t.cur /\ u.seek = t.seek /\ u.loop = t.loop
<1>1. Same(s, c) /\ c.queue \in {s.queue, NoQueue}
      /\ (mode # "auto2" /\ c.queue.song # None => ~QueueIsPlaying(s) /\ c.queue = s.queue)
  <2>1. Sound(c)
    BY ConsumeQueueSound
  <2> QED BY <2>1 DEF ConsumeQueue, Sound, States, NoQueue
<1> HIDE DEF c
<1>2. Same(c, b) /\ b.queue = c.queue
  <2>1. Sound(b)
    BY <1>1, DropBoundarySound
  <2> QED BY <1>1, <2>1 DEF DropBoundary, Sound, States
<1> HIDE DEF b
<1>3. Same(b, d) /\ d.queue \in {b.queue, NoQueue}
  <2>1. Sound(d)
    BY <1>2, DropChildSound
  <2> QED BY <1>2, <2>1 DEF DropChild, Sound, States
<1> HIDE DEF d
<1>4. n = None \/ n \in Songs \ Children
  BY NextNoChild
<1> HIDE DEF n
<1>5. /\ Same(d, r)
      /\ \/ r.queue \in {d.queue, NoQueue}
         \/ /\ n # None /\ ~IsCurrent(d, n)
            /\ r.queue.song = n /\ r.queue.sought = None
  <2>1. Sound(r)
    BY <1>3, ArmNextSound
  <2>2. r = IF mode = "off" \/ d.queue.manual THEN d
            ELSE IF d.queue.song = None
                 THEN IF n # None /\ ~IsCurrent(d, n) THEN SetQueue(d, n, FALSE)
                      ELSE [d EXCEPT !.boundary = BoundaryTarget(i, atbl)]
            ELSE IF BoundaryTarget(i, atbl) # None /\ BoundaryTarget(i, atbl) = d.queue.song
                 THEN [d EXCEPT !.queue = NoQueue, !.boundary = BoundaryTarget(i, atbl)]
            ELSE d
    BY DEF ArmNext, n, i
  <2> HIDE DEF r, i
  <2> QED BY <1>3, <2>1, <2>2 DEF SetQueue, Sound, States
<1>6. Same(s, r)
  BY <1>1, <1>2, <1>3, <1>5
<1>7. r.queue = s.queue \/ r.queue.sought = None
  BY <1>1, <1>2, <1>3, <1>5 DEF NoQueue
<1>8. ASSUME SongsApart, NoParentAtZero, mode # "auto2", s.cur.playing, s.cur.song # None,
             s.cur.song = PlayingSong(s.cur.pos), r.queue.song # None
      PROVE  ~SameSpan(r.queue.song, src)
  <2>1. CASE r.queue \in {d.queue, NoQueue}
    <3>1. c.queue.song # None /\ r.queue = c.queue
      BY <1>2, <1>3, <1>8, <2>1 DEF NoQueue
    <3>2. ~QueueIsPlaying(s) /\ r.queue = s.queue
      BY <1>1, <1>8, <3>1
    <3> QED BY <1>8, <3>2, QueuedSourcePlays
  <2>2. CASE n # None /\ ~IsCurrent(d, n) /\ r.queue.song = n
    <3>1. ~IsCurrent(s, n)
      BY <1>1, <1>2, <1>3, <2>2 DEF IsCurrent
    <3>2. n \in Songs \ Children
      BY <1>4, <2>2
    <3> HIDE DEF r, src
    <3>3. ~SameSpan(n, src)
      BY <1>8, <3>1, <3>2, NextIsElsewhere DEF src
    <3> QED BY <2>2, <3>3
  <2> QED BY <1>5, <2>1, <2>2
<1> QED BY <1>6, <1>7, <1>8 DEF r, d, b, c, src

\* The end of the source: the queue keeps its seek, stops, or sends its song off.
LEMMA FireAnswers ==
  ASSUME NEW s, Sound(s), s.cur.song # None, Follows(s)
  PROVE  /\ Follows(FireQueue(s))
         /\ s.seek.kind # "queue" => Leads(FireQueue(s))
         /\ /\ mode # "auto2" /\ s.loop = None
            /\ s.queue.song # None => ~SameSpan(s.queue.song, SourceOf(s.cur.song, s.cur.pos))
            /\ (End[SourceOf(s.cur.song, s.cur.pos)] - s.cur.pos) \in 0..SeekLead
            => Leads(FireQueue(s))
<1> DEFINE here == SourceOf(s.cur.song, s.cur.pos)
           kept == IF mode = "auto2" /\ s.queue.source # None THEN s.queue.source ELSE here
           inside == mode = "auto2" /\ Contains(kept, s.cur.pos)
           src  == IF inside THEN here ELSE kept
           t    == IF inside THEN [s EXCEPT !.queue.source = here] ELSE s
           stopped == [StopTransport(t, None, FALSE) EXCEPT !.acted = TRUE]
<1>1. here \in Songs /\ s.cur.pos \in Nat /\ End[here] \in Nat
  <2>1. here \in Songs
    BY SourceIsSong DEF Sound, States, Currents, SongOrNone
  <2>2. s.cur.pos \in Pos
    BY DEF Sound, States, Currents
  <2> QED BY <2>1, <2>2, BoundAssumption, TimesAreNat DEF Pos
<1>2. /\ mode # "auto2" => src = here /\ t = s
      /\ src \in Songs
  BY <1>1 DEF Sound, States, Queues, SongOrNone
<1>3. /\ Sound(t) /\ t.seek = s.seek
      /\ t.queue.song = s.queue.song /\ t.queue.sought = s.queue.sought
  <2>1. [s EXCEPT !.queue.source = here] \in States
    BY <1>1 DEF Sound, States, Queues, SongOrNone
  <2>2. /\ [s EXCEPT !.queue.source = here].queue.song = s.queue.song
        /\ [s EXCEPT !.queue.source = here].queue.sought = s.queue.sought
        /\ [s EXCEPT !.queue.source = here].seek = s.seek
    BY DEF Sound, States, Queues
  <2> QED BY <2>1, <2>2 DEF Sound, States, OneTargetIn
<1>4. FireQueue(s) = IF s.queue.song = None \/ s.loop # None THEN s
                     ELSE IF SameSpan(s.queue.song, src) THEN t
                     ELSE IF mode = "auto2" /\ (End[src] - s.cur.pos) \in (-StopWindow)..0
                          THEN stopped
                     ELSE IF mode # "auto2" /\ (End[src] - s.cur.pos) \in (-StopWindow)..SeekLead
                          THEN AskForSeek(t, src)
                     ELSE t
  BY DEF FireQueue, here, kept, inside, src, t, stopped
<1>5. stopped.seek = NoSeek
  <2> HIDE DEF t
  <2>1. Sound(StopTransport(t, None, FALSE)) /\ StopTransport(t, None, FALSE).seek = NoSeek
    BY <1>3, StopTransportSound, StopFields, NoneTypes
  <2> QED BY <2>1 DEF Sound, States
<1> HIDE DEF kept, inside, src, t, stopped, here
<1>6. LET u == AskForSeek(t, src) IN Follows(u) /\ Leads(u)
  <2>1. CASE t.queue.sought = src
    <3>1. t.queue.sought # None
      BY <1>2, <2>1, NoneAssumption
    <3> QED BY <1>3, <2>1, <3>1 DEF AskForSeek, Follows, Leads
  <2>2. CASE t.queue.sought # src
    <3>1. AskForSeek(t, src).seek.song = t.queue.song
          /\ AskForSeek(t, src).queue.song = t.queue.song
      BY <1>3, <2>2 DEF AskForSeek, Sound, States, Queues
    <3> QED BY <3>1 DEF Follows, Leads
  <2> QED BY <2>1, <2>2
<1>7. Follows(s) /\ Follows(t) /\ Follows(stopped) /\ Leads(stopped)
  BY <1>3, <1>5 DEF Follows, Leads, NoSeek
<1>8. s.seek.kind # "queue" => Leads(s) /\ Leads(t)
  BY <1>3 DEF Leads
<1>9. ASSUME mode # "auto2", s.loop = None,
             s.queue.song # None => ~SameSpan(s.queue.song, here),
             (End[here] - s.cur.pos) \in 0..SeekLead
      PROVE  Leads(FireQueue(s))
  <2>1. (End[src] - s.cur.pos) \in (-StopWindow)..SeekLead
    BY <1>1, <1>2, <1>9, TimesAreNat
  <2>2. s.queue.song = None => Leads(s)
    BY DEF Leads
  <2> QED BY <1>2, <1>4, <1>6, <1>9, <2>1, <2>2
<1> QED BY <1>4, <1>6, <1>7, <1>8, <1>9 DEF here

\* The queue's turn.
LEMMA QueueAnswers ==
  ASSUME NEW s, Sound(s), Follows(s)
  PROVE  /\ Follows(MaintainQueue(s))
         /\ s.seek.kind # "queue" => Leads(MaintainQueue(s))
         /\ /\ SongsApart /\ NoParentAtZero /\ mode # "auto2" /\ s.loop = None
            /\ s.armed = NoPart /\ s.cur.playing /\ s.cur.song # None
            /\ s.cur.song = PlayingSong(s.cur.pos)
            /\ (End[SourceOf(s.cur.song, s.cur.pos)] - s.cur.pos) \in 0..SeekLead
            => Leads(MaintainQueue(s))
<1> DEFINE r == ArmNext(DropChild(DropBoundary(ConsumeQueue(s))))
           over == [ClearAll(s) EXCEPT !.preview = s.cur.playing]
           parted == [s EXCEPT !.queue.sought = None]
           stopped == [StopTransport(s, None, FALSE) EXCEPT !.acted = TRUE]
<1>1. \A u \in {ClearAll(s), over, stopped} : Follows(u) /\ Leads(u)
  <2>1. /\ ClearAll(s).queue = NoQueue /\ over.queue = NoQueue
    BY DEF ClearAll, Sound, States
  <2>2. stopped.seek = NoSeek
    <3>1. Sound(StopTransport(s, None, FALSE)) /\ StopTransport(s, None, FALSE).seek = NoSeek
      BY StopTransportSound, StopFields, NoneTypes
    <3> QED BY <3>1 DEF Sound, States
  <2> HIDE DEF over, stopped
  <2> QED BY <2>1, <2>2 DEF Follows, Leads, NoQueue, NoSeek
<1>2. Follows(parted) /\ (s.seek.kind # "queue" => Leads(parted))
  BY DEF Follows, Leads, Sound, States, Queues
<1>3. /\ Sound(r) /\ r.cur = s.cur /\ r.seek = s.seek /\ r.loop = s.loop
      /\ r.queue = s.queue \/ r.queue.sought = None
      /\ SongsApart /\ NoParentAtZero /\ mode # "auto2" /\ s.cur.playing
         /\ s.cur.song # None /\ s.cur.song = PlayingSong(s.cur.pos) /\ r.queue.song # None
         => ~SameSpan(r.queue.song, SourceOf(s.cur.song, s.cur.pos))
  BY BeforeFiring
<1>4. MaintainQueue(s) = IF s.preview THEN over
                         ELSE IF s.armed # NoPart THEN parted
                         ELSE IF ~s.cur.playing \/ s.cur.song = None
                              THEN IF mode = "auto2" /\ s.queue.song # None
                                   THEN stopped ELSE ClearAll(s)
                         ELSE FireQueue(r)
  BY DEF MaintainQueue
<1> HIDE DEF r, over, parted, stopped
<1>5. Follows(r)
  BY <1>3 DEF Follows
<1>6. ASSUME s.cur.song # None
      PROVE  /\ Follows(FireQueue(r))
             /\ s.seek.kind # "queue" => Leads(FireQueue(r))
             /\ /\ SongsApart /\ NoParentAtZero /\ mode # "auto2" /\ s.loop = None
                /\ s.cur.playing /\ s.cur.song = PlayingSong(s.cur.pos)
                /\ (End[SourceOf(s.cur.song, s.cur.pos)] - s.cur.pos) \in 0..SeekLead
                => Leads(FireQueue(r))
  BY <1>3, <1>5, <1>6, FireAnswers
<1> QED BY <1>1, <1>2, <1>4, <1>6

\* The automation of one cycle.
LEMMA AutomateAnswers ==
  ASSUME NEW s, Sound(s), Follows(s), s.pending = NoPending
  PROVE  /\ Follows(Automate(s))
         /\ s.seek.kind # "queue" => Leads(Automate(s))
         /\ /\ SongsApart /\ NoParentAtZero /\ mode # "auto2" /\ s.loop = None
            /\ s.armed = NoPart /\ s.cur.playing /\ s.cur.song # None
            /\ s.cur.song = PlayingSong(s.cur.pos)
            /\ (End[SourceOf(s.cur.song, s.cur.pos)] - s.cur.pos) \in 0..SeekLead
            => Leads(Automate(s))
<1> DEFINE q == MaintainQueue(s)
<1>1. Sound(q)
  BY MaintainQueueSound
<1>2. Automate(s) = PartsArrival(IF q.acted THEN q ELSE MaintainAutoStop(q))
  BY DEF Automate
<1> HIDE DEF q
<1>3. Rests(q, Automate(s))
  BY <1>1, <1>2, TailRests
<1>4. /\ Follows(q) => Follows(Automate(s))
      /\ Leads(q) => Leads(Automate(s))
  BY <1>3 DEF Rests, Follows, Leads, NoSeek
<1> QED BY <1>4, QueueAnswers DEF q

\* The seek of the queue is on its way while playback is before the end of the
\* song it waits for, and its signature names the song it leads to.
OnItsWay ==
  seek.kind = "queue" =>
    /\ Playing /\ pending = NoPending /\ PlayingSong(pos) # None
    /\ End[SourceOf(PlayingSong(pos), pos)] - pos <= SeekLead
    /\ queue.sought # None => seek.song = queue.song

\* A cycle keeps the seek on its way, and has it lead to the song that waits.
LEMMA CycleAnswers ==
  ASSUME Inv, OnItsWay, PartsOwnsSeek, Cycle, SongsApart, NoParentAtZero
  PROVE  /\ OnItsWay'
         /\ seek'.kind = "queue" /\ queue'.song # None /\ mode # "auto2" /\ loop = None
            => seek'.song = queue'.song
<1> SUFFICES ASSUME seek'.kind = "queue"
             PROVE  /\ OnItsWay'
                    /\ queue'.song # None /\ mode # "auto2" /\ loop = None
                       => seek'.song = queue'.song
  BY DEF OnItsWay
<1> DEFINE r == Automate(Seen)
           src == SourceOf(PlayingSong(pos), pos)
<1>1. /\ Sound(Seen) /\ CycleResult = r
      /\ Seen.cur = [playing |-> Playing, song |-> View.song, pos |-> View.pos]
      /\ Seen.pending = View.pending /\ Seen.transport = transport /\ Seen.seek = seek
      /\ Playing => Seen.loop = loop /\ Seen.armed = armed /\ Seen.queue = queue
  BY SeenFields
<1>2. /\ transport' = r.transport /\ seek' = r.seek /\ queue' = r.queue
      /\ pos' = pos /\ pending' = View.pending
  BY <1>1, CycleCarries DEF Cycle, Becomes
<1> HIDE DEF r
<1>3. Playing /\ View.song # None
  <2>1. CASE ~Playing \/ View.song = None
    <3>1. r.seek \in {seek, NoSeek}
      BY <1>1, <2>1, GapSeeksNothing DEF r
    <3>2. seek.kind = "queue"
      BY <1>2, <3>1 DEF NoSeek
    <3> QED BY <2>1, <3>2, ViewFields DEF OnItsWay
  <2> QED BY <2>1
<1>4. View.pending = NoPending
  <2>1. CASE View.pending # NoPending
    <3>1. r.seek = seek
      BY <1>1, <1>3, <2>1, PendingGoesOn DEF GoesOn, r
    <3> QED BY <1>2, <1>3, <2>1, <3>1, ViewFields DEF OnItsWay
  <2> QED BY <2>1
<1>5. View.song = PlayingSong(pos) /\ View.pos = pos /\ PlayingSong(pos) # None
  BY <1>3, <1>4, ViewFields
<1>6. pos \in Pos
  BY DEF Inv, TypeOK
<1>7. transport' = transport /\ End[src] - pos <= SeekLead
  <2>1. \/ transport' = transport /\ seek' = seek
        \/ /\ transport' = transport /\ cur'.song = PlayingSong(pos)
           /\ End[SourceOf(cur'.song, pos)] - pos <= SeekLead
    BY <1>3, <1>5, CycleSteers DEF NoSeek
  <2> QED BY <2>1 DEF OnItsWay
<1>8. Follows(Seen)
  BY <1>1, <1>3 DEF Follows, OnItsWay
<1>9. Follows(r)
  BY <1>1, <1>4, <1>8, AutomateAnswers DEF r
<1>10. OnItsWay'
  <2>1. /\ Playing' /\ pending' = NoPending /\ PlayingSong(pos') # None
        /\ End[SourceOf(PlayingSong(pos'), pos')] - pos' <= SeekLead
    BY <1>2, <1>3, <1>4, <1>5, <1>7 DEF Playing
  <2>2. queue'.sought # None => seek'.song = queue'.song
    BY <1>2, <1>9 DEF Follows
  <2> QED BY <2>1, <2>2 DEF OnItsWay
<1>11. ASSUME mode # "auto2", loop = None PROVE Leads(r)
  <2>1. CASE seek.kind # "queue"
    BY <1>1, <1>4, <1>8, <2>1, AutomateAnswers DEF r
  <2>2. CASE seek.kind = "queue"
    <3>1. Seen.armed = NoPart /\ Seen.loop = None
      BY <1>1, <1>3, <1>11, <2>2 DEF PartsOwnsSeek
    <3>2. Seen.cur.playing /\ Seen.cur.song = PlayingSong(pos) /\ Seen.cur.pos = pos
      BY <1>1, <1>3, <1>5
    <3>3. (End[src] - pos) \in 0..SeekLead
      <4>1. src \in Songs /\ Contains(src, pos)
        BY <1>5, <1>6, SourceIsRoot
      <4>2. End[src] \in Nat /\ pos \in Nat /\ pos < End[src]
        BY <1>6, <4>1, BoundAssumption, TimesAreNat DEF Contains, Pos
      <4> HIDE DEF src
      <4> QED BY <1>7, <4>2, TimesAreNat
    <3> QED BY <1>1, <1>4, <1>5, <1>8, <1>11, <3>1, <3>2, <3>3, AutomateAnswers DEF r
  <2> QED BY <2>1, <2>2
<1> QED BY <1>2, <1>10, <1>11 DEF Leads

\* Time and the commands keep it on its way, or take it back.
LEMMA OnItsWayStep ==
  ASSUME Inv, OnItsWay, [Next]_vars, ~Cycle, SongsApart
  PROVE  OnItsWay'
<1> DEFINE Left == /\ seek' = seek /\ transport' = transport /\ pending' = pending /\ pos' = pos
                   /\ queue' = queue \/ queue'.sought = None
<1>1. seek'.kind # "queue" => OnItsWay'
  BY DEF OnItsWay
<1>2. Left => OnItsWay'
  BY DEF OnItsWay, Playing
<1>3. CASE UNCHANGED vars
  BY <1>2, <1>3 DEF vars, reaperVars, memoryVars, targetVars
<1>4. CASE Elapse
  <2> SUFFICES ASSUME seek'.kind = "queue" PROVE OnItsWay'
    BY <1>1
  <2>1. Playing => RunsOn /\ transport' = transport
    <3>1. ~Arrives
      BY DEF Arrives, NoSeek
    <3>2. ~Drifts
      <4> SUFFICES ASSUME Drifts PROVE FALSE
        OBVIOUS
      <4>1. seek.kind = "start" /\ seek' = [seek EXCEPT !.age = @ + 1]
        BY DEF Drifts
      <4>2. seek \in Seeks /\ seek # NoSeek
        BY <4>1 DEF Inv, TypeOK, NoSeek
      <4>3. seek'.kind = "start"
        BY <4>1, <4>2 DEF Seeks
      <4> QED BY <4>3
    <3> QED BY <1>4, <3>1, <3>2 DEF Elapse
  <2>2. seek' = seek
    BY <1>4, <2>1 DEF Elapse, RunsOn
  <2>3. Playing /\ pending = NoPending /\ PlayingSong(pos) # None
        /\ End[SourceOf(PlayingSong(pos), pos)] - pos <= SeekLead
        /\ (queue.sought # None => seek.song = queue.song)
    BY <2>2 DEF OnItsWay
  <2>4. /\ pending' = NoPending /\ queue' = queue /\ Playing' /\ pos < MaxPos
        /\ pos' = pos + 1 /\ ~EndsHere(pos + 1)
    BY <1>4, <2>1, <2>2, <2>3 DEF Elapse, RunsOn, Playing, targetVars
  <2> DEFINE song == PlayingSong(pos)
             next == PlayingSong(pos + 1)
  <2>5. pos \in Pos /\ pos + 1 \in Pos
    BY <2>4, TimesAreNat DEF Inv, TypeOK, Pos
  <2>6. song \in Songs /\ Contains(song, pos)
    BY <2>3, PlayingContains
  <2> HIDE DEF song
  <2>7. Contains(song, pos + 1)
    <3>1. Start[song] \in Nat /\ End[song] \in Nat /\ pos \in Nat
      BY <2>5, <2>6, BoundAssumption, TimesAreNat DEF Pos
    <3>2. End[song] # pos + 1
      BY <2>4, <2>6 DEF EndsHere
    <3> QED BY <2>6, <3>1, <3>2 DEF Contains
  <2>8. next # None
    BY <2>6, <2>7, SomethingPlays, NoneAssumption
  <2>9. SourceOf(next, pos + 1) = SourceOf(song, pos)
    BY <2>3, <2>5, <2>6, <2>7, <2>8, SourceIsRoot DEF song
  <2>10. End[SourceOf(next, pos + 1)] - (pos + 1) <= SeekLead
    <3>1. SourceOf(song, pos) \in Songs
      BY <2>3, <2>5, SourceIsRoot DEF song
    <3>2. End[SourceOf(song, pos)] \in Nat /\ pos \in Nat
      BY <2>5, <3>1, BoundAssumption, TimesAreNat DEF Pos
    <3> HIDE DEF next
    <3> QED BY <2>3, <2>9, <3>2, TimesAreNat DEF song
  <2> QED BY <2>2, <2>3, <2>4, <2>8, <2>10 DEF OnItsWay
<1>5. CASE ProcessSelection
  BY <1>2, <1>5 DEF ProcessSelection, Becomes, ApplyClick, Now
<1>6. CASE \E x \in SongOrNone, seeks, audition \in BOOLEAN : Play(x, seeks, audition)
  <2>1. PICK r, y : Becomes(ReaperPlay(r, y)) /\ r \in States
    BY <1>6, PlayRecord
  <2>2. seek'.kind # "queue"
    BY <2>1 DEF Becomes, ReaperPlay, States, NoSeek
  <2> QED BY <1>1, <2>2
<1>7. CASE HookedPlay
  BY <1>1, <1>7 DEF HookedPlay, Becomes, ReaperPlay, Now, NoSeek
<1>8. CASE \E x \in SongOrNone : Stop(x)
  <2>1. Sound(SetPending(ApplyClick(Now), None))
    BY ClickSound, SetPendingSound, NoneTypes
  <2>2. seek' = NoSeek
    BY <1>8, <2>1, StopFields DEF Stop, Becomes
  <2> QED BY <1>1, <2>2 DEF NoSeek
<1>9. CASE Pause \/ ReaperStops
  <2>1. seek' = NoSeek
    BY <1>9 DEF Pause, ReaperStops, SetPending, Becomes, Now
  <2> QED BY <1>1, <2>1 DEF NoSeek
<1>10. CASE HookedStop
  <2>1. CASE transport # "stopped"
    <3>1. seek' = NoSeek
      BY <1>10, <2>1, NowSound, StopFields, NoneTypes DEF HookedStop, Becomes
    <3> QED BY <1>1, <3>1 DEF NoSeek
  <2>2. CASE transport = "stopped"
    <3>1. seek' = seek
      BY <1>10, <2>2 DEF HookedStop, Becomes, ClearLoops, ClearAll, Now
    <3> QED BY <1>1, <2>2, <3>1 DEF OnItsWay, Playing
  <2> QED BY <2>1, <2>2
<1>11. CASE \E m \in Markers : GoToPart(m)
  <2>1. CASE Playing
    <3>1. seek'.kind # "queue"
      BY <1>11, <2>1 DEF GoToPart
    <3> QED BY <1>1, <3>1
  <2>2. CASE ~Playing
    <3>1. seek' = seek
      BY <1>11, <2>2 DEF GoToPart
    <3> QED BY <1>1, <2>2, <3>1 DEF OnItsWay
  <2> QED BY <2>1, <2>2
<1>12. CASE EscapePart
  <2>1. seek'.kind = "part" \/ Left
    BY <1>12 DEF EscapePart, targetVars
  <2> QED BY <1>1, <1>2, <2>1
<1>13. CASE \E x \in Songs, manual, exact, drawerOpen \in BOOLEAN :
              QueueSong(x, manual, exact, drawerOpen)
  <2>1. Left
    BY <1>13 DEF QueueSong, QueuedBy, reaperVars, memoryVars, NoQueue
  <2> QED BY <1>2, <2>1
<1>14. CASE \/ ClearQueue \/ \E m \in {"auto1", "auto2"} : SetAuto(m)
            \/ ToggleAtBl \/ ToggleAutoStop \/ ClearSelection \/ \E x \in Songs : Select(x)
            \/ ToggleLoop \/ DisarmPart \/ HoldKey \/ ReleaseKey
  <2>1. Left
    BY <1>14 DEF ClearQueue, SetAuto, ToggleAtBl, ToggleAutoStop, Select, ClearSelection,
       ToggleLoop, DisarmPart, HoldKey, ReleaseKey, reaperVars, memoryVars, targetVars, NoQueue
  <2> QED BY <1>2, <2>1
<1> QED BY <1>3, <1>4, <1>5, <1>6, <1>7, <1>8, <1>9, <1>10, <1>11, <1>12, <1>13, <1>14
        DEF Next, Command

\* The seek REAPER owes the queue leads to the song that waits, whatever was
\* queued, played, armed, looped or stopped in between, in a project whose
\* families lie apart and where no parent starts at 0.
THEOREM SeekFollowsQueueHolds ==
  ASSUME SongsApart, NoParentAtZero
  PROVE  Spec => SeekFollowsQueue
<1> DEFINE Answers ==
      /\ Cycle /\ seek'.kind = "queue" /\ queue'.song # None
      /\ mode # "auto2" /\ loop = None
      => seek'.song = queue'.song
<1>1. Init => OnItsWay
  BY DEF Init, OnItsWay, NoSeek
<1>2. Inv /\ PartsOwnsSeek /\ OnItsWay /\ [Next]_vars => OnItsWay' /\ Answers
  BY CycleAnswers, OnItsWayStep
<1> QED BY <1>1, <1>2, InvHolds, PartsOwnsSeekHolds, PTL DEF Spec, SeekFollowsQueue
=============================================================================
