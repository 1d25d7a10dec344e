----------------------------- MODULE MultiLoops -----------------------------
(***************************************************************************)
(* Multiloops: up to four stretches of a song, each between two markers,   *)
(* that repeat until the operator lets go.  Before a stretch begins its    *)
(* Auto Fader takes tracks down to a limit, while it repeats others are    *)
(* muted or soloed, and afterwards everything is given back.               *)
(*                                                                         *)
(* The handlers call one another on the state the one before left, so they *)
(* are functions of a record s of what they may change, the state of Stage.*)
(* Positions are units of time; position p is the open unit after p, so    *)
(* "after the end" of the code is pos >= To.                               *)
(***************************************************************************)
EXTENDS Integers, Sequences

CONSTANTS
  Tracks,
  None,
  Full,       \* the loudest volume of a track
  SongEnd,    \* the song with Multiloops lasts from 0 to here
  Paired,     \* the slots whose two markers exist in the song
  From, To,   \* the stretch of a slot
  Lead,       \* how long before its stretch a slot fades (1 to 5 s)
  AutoTracks, \* the tracks a slot fades
  Ms,         \* the tracks a slot mutes or solos
  ResumeTol   \* how far playback may move over a pause (150 ms)

Slots == 1..4

ASSUME MultiLoopNone == None \notin Nat
ASSUME MultiLoopNumbers == Full \in Nat /\ SongEnd \in Nat /\ ResumeTol \in Nat
ASSUME MultiLoopSlots ==
  /\ Paired \subseteq Slots
  /\ From \in [Slots -> Nat] /\ To \in [Slots -> Nat] /\ Lead \in [Slots -> Nat \ {0}]
  /\ \A k \in Paired : From[k] < To[k] /\ To[k] <= SongEnd
  /\ AutoTracks \in [Slots -> SUBSET Tracks] /\ Ms \in [Slots -> SUBSET Tracks]

Least(a, b) == IF a < b THEN a ELSE b
Newest(rows) == rows[Len(rows)]

Within(k, pos) == From[k] <= pos /\ pos < To[k]
InLead(k, pos) == From[k] - Lead[k] <= pos /\ pos < From[k]
Pair(k)        == [from |-> From[k], to |-> To[k]]
InPair(range, k) == range # None /\ From[k] <= range.from /\ range.to <= To[k]

\* The first enabled stretch playback is in: nativeProcessMultiLoops' active.
Here(s) ==
  LET in == {k \in Paired : s.enabled[k] /\ Within(k, s.pos)}
  IN  IF in = {} THEN None ELSE CHOOSE k \in in : \A o \in in : k <= o

HoldsFaders(s) == \E t \in Tracks : s.rows[t] # <<>>
HoldsMutes(s)  == \E t \in Tracks : s.mutes[t] # <<>>
Holds(s)       == HoldsFaders(s) \/ HoldsMutes(s)
NoRows         == [t \in Tracks |-> <<>>]

\* nativeSetRepeatEnabled with nativeClearLoopTimeRange, nativeSetLoopTimeRange
NoLoop(s) == [s EXCEPT !.repeat = FALSE, !.range = None]
LoopOver(s, range) == [s EXCEPT !.repeat = TRUE, !.range = range]

\* nativeMultiLoopFadeTargetVolume: never louder than the track is.
\* Mutant: the limit is taken as it is.
LimitOnly(volume, limit) == limit
FadeTarget(volume, limit) == Least(volume, limit)

\* Rows are restored in turn, so of two rows of a track the newest one stays.
Restored(s) == [t \in Tracks |-> IF s.rows[t] = <<>> THEN s.vol[t]
                                 ELSE Newest(s.rows[t]).vol]
Unmuted(s)  == [t \in Tracks |-> IF s.mutes[t] = <<>> THEN s.ms[t]
                                 ELSE Newest(s.mutes[t])]

\* nativeRestoreMultiLoopTracks
RestoreTracks(s) ==
  [s EXCEPT !.vol = Restored(s), !.ms = Unmuted(s), !.rows = NoRows,
            !.mutes = NoRows, !.out = FALSE, !.in = FALSE]

RestoreIf(condition, s) == IF condition THEN RestoreTracks(s) ELSE s

\* No stretch is active and nothing is held: the same in four branches.
\* Mutant: only an active stretch gives back.
DroppedIfActive(s) == [RestoreIf(s.active # None, s) EXCEPT !.active = None]
Dropped(s) == [RestoreIf(s.active # None \/ Holds(s), s) EXCEPT !.active = None]

\* nativeClearAllLoopStateAfterStop: every Stop and every Play.
ClearLoops(s) ==
  [RestoreIf(s.active # None \/ Holds(s) \/ s.out \/ s.in, NoLoop(s))
     EXCEPT !.active = None, !.released = None, !.armed = None]

-----------------------------------------------------------------------------
(* A stretch begins to repeat: nativeCaptureMultiLoopTracks                  *)

NewRow(s, k, t) == [vol |-> s.vol[t], target |-> FadeTarget(s.vol[t], s.limit[k][t])]

\* preservePreFade: a fade that ends where the stretch begins holds the volumes.
FadedInto(s, k) == s.out /\ HoldsFaders(s) /\ s.to = From[k]

Capture(s, k) ==
  LET kept == FadedInto(s, k)
      r == IF kept THEN [s EXCEPT !.out = FALSE, !.in = FALSE] ELSE RestoreTracks(s)
      target(t) == IF r.rows[t] # <<>> THEN FadeTarget(r.rows[t][1].vol, r.limit[k][t])
                   ELSE NewRow(r, k, t).target
      muting(t) == r.msOn[k] /\ t \in Ms[k]
  IN  [r EXCEPT
        !.vol   = [t \in Tracks |-> IF t \in AutoTracks[k] THEN target(t) ELSE r.vol[t]],
        !.rows  = [t \in Tracks |->
                     IF t \notin AutoTracks[k] THEN r.rows[t]
                     ELSE IF r.rows[t] # <<>> THEN [r.rows[t] EXCEPT ![1].target = target(t)]
                     ELSE <<NewRow(r, k, t)>>],
        !.mutes = [t \in Tracks |-> IF muting(t) THEN Append(r.mutes[t], r.ms[t])
                                    ELSE r.mutes[t]],
        !.ms    = [t \in Tracks |-> r.ms[t] \/ muting(t)]]

Repeats(s, k) == [LoopOver(Capture(s, k), Pair(k)) EXCEPT !.active = k]

-----------------------------------------------------------------------------
(* nativeProcessMultiLoops                                                   *)

\* A part armed to the start of the stretch leaves the stretch alone.
MarkArmed(s, k) ==
  IF s.armed = From[k] THEN [RestoreIf(Holds(s), s) EXCEPT !.released = k] ELSE s

\* Mutant: a fade that runs is begun again.
PreFadeAgain(s, k) ==
  s.armed = None /\ s.active = None /\ InLead(k, s.pos)
MayPreFade(s, k) ==
  s.armed = None /\ s.active = None /\ ~s.out /\ InLead(k, s.pos)

PreFade(s, k) ==
  LET r == [s EXCEPT !.rows = [t \in Tracks |-> IF t \in AutoTracks[k]
                                 THEN Append(s.rows[t], NewRow(s, k, t)) ELSE s.rows[t]]]
  IN  IF ~MayPreFade(s, k) THEN s
      ELSE IF ~HoldsFaders(r) THEN r
      ELSE [r EXCEPT !.out = TRUE, !.from = From[k] - Lead[k], !.to = From[k]]

\* A stretch let go of was left: now its mutes end too.
Passed(s, k) ==
  IF s.released # k \/ Within(k, s.pos) THEN s
  ELSE [RestoreIf(Holds(s), s) EXCEPT !.released = None]

\* The enabled stretches in turn, up to the one playback is in.
Visit(s, k) ==
  IF k \in Paired /\ s.enabled[k] /\ (Here(s) = None \/ k <= Here(s))
  THEN Passed(PreFade(MarkArmed(s, k), k), k) ELSE s
VisitAll(s) == Visit(Visit(Visit(Visit(s, 1), 2), 3), 4)

\* The level a fade gives a track after part of its span.
Level(row, part, span) == row.target + ((row.vol - row.target) * part) \div span
\* Mutant: playback before the span is not thought of.
FadePartAfter(s) == Least(s.pos - s.from, s.to - s.from)
FadePart(s) == IF s.pos < s.from THEN 0 ELSE Least(s.pos - s.from, s.to - s.from)
Faded1(s, part) ==
  [s EXCEPT !.vol = [t \in Tracks |-> IF s.rows[t] = <<>> THEN s.vol[t]
                       ELSE Level(Newest(s.rows[t]), part, s.to - s.from)]]
FadeOut(s) == IF s.out THEN Faded1(s, s.to - s.from - FadePart(s)) ELSE s
FadeIn(s)  == IF ~s.in THEN s
              ELSE RestoreIf(FadePart(s) = s.to - s.from, Faded1(s, FadePart(s)))

\* The operator let go inside the stretch: the Auto Fader comes back until its end.
\* Mutant: the stretch is not remembered as let go.
LetGoForgets(s, k, end) ==
  IF HoldsFaders(s)
  THEN [s EXCEPT !.active = None, !.out = FALSE, !.in = TRUE, !.from = s.pos, !.to = end]
  ELSE [s EXCEPT !.active = None]
LetGo(s, k, end) ==
  LET r == [s EXCEPT !.active = None, !.released = k]
  IN  IF HoldsFaders(s)
      THEN [r EXCEPT !.out = FALSE, !.in = TRUE, !.from = s.pos, !.to = end] ELSE r

\* What becomes of the stretch playback is in, or of the one it has left.
Follow(s) ==
  LET a == Here(s)
  IN  IF a = None
      THEN IF s.active # None /\ s.pos >= To[s.active] THEN Dropped(s) ELSE s
      ELSE IF s.released = a
      THEN IF s.repeat /\ s.armed = None /\ InPair(s.range, a)
           THEN Repeats([s EXCEPT !.released = None], a) ELSE s
      ELSE IF s.active = a THEN IF s.repeat THEN s ELSE LetGo(s, a, To[a])
      ELSE Repeats(s, a)
=============================================================================
