---------------------------- MODULE Stage_proofs ----------------------------
(***************************************************************************)
(* Theorems about Stage for all stretches, tracks, volumes, durations and  *)
(* numbers of commands.                                                    *)
(***************************************************************************)
EXTENDS Stage, WellFoundedInduction, SequenceTheorems, TLAPS

\* What is held is below what the operator set, m, and what a fade goes down to
\* below that; a fade that runs has a span.
RowsBelow(s, m) == \A t \in Tracks : \A i \in 1..Len(s.rows[t]) :
  s.rows[t][i].target <= s.rows[t][i].vol /\ s.rows[t][i].vol <= m[t]
VolBelow(s, m)  == \A t \in Tracks : s.vol[t] <= m[t]
FadeBelow(s, m) == s.fade.state # "idle" => \A t \in Fading : s.fade.before[t] <= m[t]
HasSpan(s) == s.out \/ s.in => s.from < s.to

Sound(s, m) ==
  s \in States /\ RowsBelow(s, m) /\ VolBelow(s, m) /\ FadeBelow(s, m) /\ HasSpan(s)
Mixes == [Tracks -> Volumes]

-----------------------------------------------------------------------------
(* Numbers                                                                   *)

\* A non-empty set of natural numbers has a smallest member.
LEMMA SmallestExists ==
  ASSUME NEW S, S \subseteq Nat, S # {}
  PROVE  \E x \in S : \A y \in S : x <= y
<1>1. PICK x \in S : \A y \in S : ~(<<y, x>> \in OpToRel(<, Nat))
  BY NatLessThanWellFounded, WFMin
<1>2. SUFFICES ASSUME NEW y \in S, y < x PROVE FALSE
  OBVIOUS
<1>3. <<y, x>> \in Nat \X Nat /\ <<y, x>>[1] < <<y, x>>[2]
  BY <1>2
<1>4. <<y, x>> \in OpToRel(<, Nat)
  BY <1>3, Zenon DEF OpToRel
<1> QED BY <1>1, <1>4

\* The part of a volume that a fade leaves lies between silence and all of it.
LEMMA PartBound ==
  ASSUME NEW a \in Nat, NEW n \in Nat \ {0}, NEW p \in 0..n
  PROVE  (a * p) \div n \in 0..a
<1> DEFINE q == (a * p) \div n
<1>1. a * p \in Nat /\ a * p <= a * n
  OBVIOUS
<1>2. q \in Int /\ n * q <= a * p /\ a * p < n * (q + 1)
  BY <1>1
<1>3. q >= 0
  BY <1>1, <1>2
<1>4. q <= a
  BY <1>1, <1>2
<1> QED BY <1>2, <1>3, <1>4

\* The constants that are numbers.
LEMMA Numbers ==
  /\ None \notin Nat /\ Full \in Nat /\ SongEnd \in Nat /\ MaxPos \in Nat /\ SongEnd <= MaxPos
  /\ FadeLen \in Nat \ {0} /\ RestoreDelay \in Nat /\ CancelWindow \in Nat
  /\ FreshLife \in Nat /\ MaxLag \in Nat /\ MaxCommands \in Nat
BY MultiLoopNone, MultiLoopNumbers, StopFadeAssumption, StageNumbers

\* A stretch lies in the project, has a length and a lead.
LEMMA StretchTypes ==
  ASSUME NEW k \in Paired
  PROVE  /\ k \in Slots /\ k \in SlotOrNone
         /\ From[k] \in Positions /\ To[k] \in Positions /\ From[k] < To[k]
         /\ Lead[k] \in Nat \ {0} /\ Pair(k) \in Ranges
         /\ AutoTracks[k] \subseteq Tracks /\ Ms[k] \subseteq Tracks
<1>1. k \in Slots /\ From[k] < To[k] /\ To[k] <= SongEnd
  BY MultiLoopSlots
<1>2. From[k] \in Nat /\ To[k] \in Nat /\ Lead[k] \in Nat \ {0}
  BY <1>1, MultiLoopSlots
<1>3. AutoTracks[k] \subseteq Tracks /\ Ms[k] \subseteq Tracks
  BY <1>1, MultiLoopSlots
<1>4. From[k] \in Positions /\ To[k] \in Positions
  BY <1>1, <1>2, Numbers DEF Positions
<1> QED BY <1>1, <1>2, <1>3, <1>4 DEF SlotOrNone, Pair, Ranges

-----------------------------------------------------------------------------
(* Multiloops                                                                *)

\* The stretch playback is in is one of the song's, and playback is in it.
LEMMA HereType ==
  ASSUME NEW s
  PROVE  Here(s) = None \/ (Here(s) \in Paired /\ Within(Here(s), s.pos))
<1> DEFINE in == {k \in Paired : s.enabled[k] /\ Within(k, s.pos)}
<1>1. CASE in = {}
  BY <1>1 DEF Here
<1>2. CASE in # {}
  <2>1. in \subseteq Nat
    <3>1. Paired \subseteq Nat
      BY MultiLoopSlots DEF Slots
    <3> QED BY <3>1
  <2>2. \E k \in in : \A o \in in : k <= o
    <3> HIDE DEF in
    <3> QED BY <1>2, <2>1, SmallestExists
  <2>3. (CHOOSE k \in in : \A o \in in : k <= o) \in in
    BY <2>2
  <2> QED BY <1>2, <2>3 DEF Here
<1> QED BY <1>1, <1>2

\* The two differ in neither mixer nor fades.
Same(s, r) == /\ r.rows = s.rows /\ r.vol = s.vol /\ r.fade = s.fade
              /\ r.out = s.out /\ r.in = s.in /\ r.from = s.from /\ r.to = s.to

\* What differs in nothing else is as sound.
LEMMA SameSound ==
  ASSUME NEW m \in Mixes, NEW s, Sound(s, m), NEW r \in States, Same(s, r)
  PROVE  Sound(r, m)
BY DEF Sound, Same, RowsBelow, VolBelow, FadeBelow, HasSpan

\* Repeat and its range do not touch the mixer.
LEMMA LoopSound ==
  ASSUME NEW m \in Mixes, NEW s, Sound(s, m)
  PROVE  /\ Sound(NoLoop(s), m)
         /\ \A range \in Ranges : Sound(LoopOver(s, range), m)
<1>1. NoLoop(s) \in States /\ \A range \in Ranges : LoopOver(s, range) \in States
  BY DEF Sound, States, NoLoop, LoopOver
<1>2. Same(s, NoLoop(s)) /\ \A range \in Ranges : Same(s, LoopOver(s, range))
  BY DEF Sound, States, NoLoop, LoopOver, Same
<1> QED BY <1>1, <1>2, SameSound

\* The newest row of a track is one of its rows.
LEMMA NewestType ==
  ASSUME NEW S, NEW q \in Seq(S), q # <<>>
  PROVE  Newest(q) \in S /\ Len(q) \in 1..Len(q) /\ Newest(q) = q[Len(q)]
BY EmptySeq, LenProperties DEF Newest

\* What a restore gives the tracks is below what the operator set.
LEMMA RestoredType ==
  ASSUME NEW m \in Mixes, NEW s, Sound(s, m)
  PROVE  /\ Restored(s) \in Mixes /\ \A t \in Tracks : Restored(s)[t] <= m[t]
         /\ Unmuted(s) \in [Tracks -> BOOLEAN]
<1>1. ASSUME NEW t \in Tracks, s.rows[t] # <<>>
      PROVE  Newest(s.rows[t]).vol \in Volumes /\ Newest(s.rows[t]).vol <= m[t]
  <2>1. s.rows[t] \in Seq(Rows)
    BY DEF Sound, States
  <2>2. Newest(s.rows[t]) \in Rows /\ Len(s.rows[t]) \in 1..Len(s.rows[t])
        /\ Newest(s.rows[t]) = s.rows[t][Len(s.rows[t])]
    BY <2>1, <1>1, NewestType
  <2>3. Newest(s.rows[t]).vol <= m[t]
    BY <2>2 DEF Sound, RowsBelow
  <2> QED BY <2>2, <2>3 DEF Rows
<1>2. ASSUME NEW t \in Tracks, s.mutes[t] # <<>>
      PROVE  Newest(s.mutes[t]) \in BOOLEAN
  <2>1. s.mutes[t] \in Seq(BOOLEAN)
    BY DEF Sound, States
  <2> QED BY <2>1, <1>2, NewestType
<1>3. \A t \in Tracks : s.vol[t] \in Volumes /\ s.vol[t] <= m[t] /\ s.ms[t] \in BOOLEAN
  BY DEF Sound, States, VolBelow
<1>4. Restored(s) \in Mixes /\ \A t \in Tracks : Restored(s)[t] <= m[t]
  BY <1>1, <1>3 DEF Restored, Mixes
<1>5. Unmuted(s) \in [Tracks -> BOOLEAN]
  BY <1>2, <1>3 DEF Unmuted
<1> QED BY <1>4, <1>5

\* No rows are rows.
LEMMA NoRowsType == NoRows \in [Tracks -> Seq(Rows)] /\ NoRows \in [Tracks -> Seq(BOOLEAN)]
                    /\ \A t \in Tracks : Len(NoRows[t]) = 0
BY EmptySeq DEF NoRows

\* A restore keeps the state sound.
LEMMA RestoreTracksSound ==
  ASSUME NEW m \in Mixes, NEW s, Sound(s, m)
  PROVE  Sound(RestoreTracks(s), m)
<1> DEFINE r == RestoreTracks(s)
<1>1. r \in States
  BY RestoredType, NoRowsType DEF Sound, States, RestoreTracks, Mixes
<1>2. r.rows = NoRows /\ r.vol = Restored(s) /\ r.fade = s.fade /\ ~r.out /\ ~r.in
  BY DEF Sound, States, RestoreTracks
<1>3. RowsBelow(r, m)
  BY <1>2, NoRowsType DEF RowsBelow
<1> QED BY <1>1, <1>2, <1>3, RestoredType DEF Sound, VolBelow, FadeBelow, HasSpan

\* A restore that may be left out.
LEMMA RestoreIfSound ==
  ASSUME NEW m \in Mixes, NEW s, Sound(s, m), NEW condition
  PROVE  Sound(RestoreIf(condition, s), m)
BY RestoreTracksSound DEF RestoreIf

\* Giving everything back and forgetting the stretch.
LEMMA DroppedSound ==
  ASSUME NEW m \in Mixes, NEW s, Sound(s, m)
  PROVE  Sound(Dropped(s), m)
<1> DEFINE r == RestoreIf(s.active # None \/ Holds(s), s)
<1>1. Sound(r, m)
  BY RestoreIfSound
<1>2. Dropped(s) = [r EXCEPT !.active = None]
  BY DEF Dropped
<1> HIDE DEF r
<1>3. Dropped(s) \in States /\ Same(r, Dropped(s))
  BY <1>1, <1>2 DEF Sound, States, Same, SlotOrNone
<1> QED BY <1>1, <1>3, SameSound

\* So does every Stop and Play.
LEMMA ClearLoopsSound ==
  ASSUME NEW m \in Mixes, NEW s, Sound(s, m)
  PROVE  Sound(ClearLoops(s), m)
<1> DEFINE c == s.active # None \/ Holds(s) \/ s.out \/ s.in
           r == RestoreIf(c, NoLoop(s))
<1>1. Sound(r, m)
  BY LoopSound, RestoreIfSound
<1>2. ClearLoops(s) = [r EXCEPT !.active = None, !.released = None, !.armed = None]
  BY DEF ClearLoops
<1> HIDE DEF r
<1>3. ClearLoops(s) \in States /\ Same(r, ClearLoops(s))
  BY <1>1, <1>2 DEF Sound, States, Same, SlotOrNone
<1> QED BY <1>1, <1>3, SameSound

\* A fade goes down to a volume, and never up.
LEMMA TargetType ==
  ASSUME NEW volume \in Volumes, NEW limit \in Volumes
  PROVE  FadeTarget(volume, limit) \in Volumes /\ FadeTarget(volume, limit) <= volume
BY Numbers DEF FadeTarget, Least, Volumes

\* A new row holds the volume the track has.
LEMMA NewRowType ==
  ASSUME NEW m \in Mixes, NEW s, Sound(s, m), NEW k \in Slots, NEW t \in Tracks
  PROVE  /\ NewRow(s, k, t) \in Rows
         /\ NewRow(s, k, t).target <= NewRow(s, k, t).vol
         /\ NewRow(s, k, t).vol <= m[t]
<1>1. s.vol[t] \in Volumes /\ s.limit[k][t] \in Volumes /\ s.vol[t] <= m[t]
  BY DEF Sound, States, VolBelow
<1> QED BY <1>1, TargetType DEF NewRow, Rows

\* The level of a fade lies between its target and the volume held.
LEMMA LevelType ==
  ASSUME NEW row \in Rows, row.target <= row.vol,
         NEW span \in Nat \ {0}, NEW part \in 0..span
  PROVE  Level(row, part, span) \in Volumes /\ Level(row, part, span) <= row.vol
<1> DEFINE d == row.vol - row.target
<1>1. row.vol \in 0..Full /\ row.target \in 0..Full /\ d \in Nat
  BY Numbers DEF Rows, Volumes
<1>2. (d * part) \div span \in 0..d
  BY <1>1, PartBound
<1>3. Level(row, part, span) = row.target + (d * part) \div span
  BY DEF Level
<1> QED
  <2> DEFINE x == (d * part) \div span
  <2>1. x \in 0..d
    BY <1>2
  <2> HIDE DEF x
  <2>2. row.target + x \in 0..Full /\ row.target + x <= row.vol
    BY <1>1, <2>1, Numbers
  <2> QED BY <1>3, <2>2 DEF Volumes, x

\* A fade that runs sets levels below what the operator set.
LEMMA Faded1Sound ==
  ASSUME NEW m \in Mixes, NEW s, Sound(s, m), s.from < s.to, NEW part \in 0..(s.to - s.from)
  PROVE  Sound(Faded1(s, part), m)
<1> DEFINE span == s.to - s.from
           level(t) == IF s.rows[t] = <<>> THEN s.vol[t] ELSE Level(Newest(s.rows[t]), part, span)
           r == Faded1(s, part)
<1>1. span \in Nat \ {0} /\ part \in 0..span
  BY DEF Sound, States
<1>2. ASSUME NEW t \in Tracks
      PROVE  level(t) \in Volumes /\ level(t) <= m[t]
  <2>1. CASE s.rows[t] = <<>>
    BY <2>1 DEF Sound, States, VolBelow
  <2>2. CASE s.rows[t] # <<>>
    <3> DEFINE row == Newest(s.rows[t])
    <3>1. s.rows[t] \in Seq(Rows)
      BY DEF Sound, States
    <3>2. row \in Rows /\ Len(s.rows[t]) \in 1..Len(s.rows[t]) /\ row = s.rows[t][Len(s.rows[t])]
      BY <2>2, <3>1, NewestType
    <3>3. row.target <= row.vol /\ row.vol <= m[t]
      BY <3>2 DEF Sound, RowsBelow
    <3> HIDE DEF row, span
    <3>4. Level(row, part, span) \in Volumes /\ Level(row, part, span) <= row.vol
      BY <1>1, <3>2, <3>3, LevelType
    <3>5. Level(row, part, span) <= m[t]
      BY <3>2, <3>3, <3>4 DEF Mixes, Volumes, Rows
    <3> QED BY <2>2, <3>4, <3>5 DEF row
  <2> QED BY <2>1, <2>2
<1>3. r = [s EXCEPT !.vol = [t \in Tracks |-> level(t)]]
  BY DEF Faded1
<1> HIDE DEF level, r
<1>4. r \in States
  BY <1>2, <1>3 DEF Sound, States
<1>5. /\ r.rows = s.rows /\ r.fade = s.fade /\ r.out = s.out /\ r.in = s.in
      /\ r.from = s.from /\ r.to = s.to /\ r.vol = [t \in Tracks |-> level(t)]
  BY <1>3 DEF Sound, States
<1>6. VolBelow(r, m)
  BY <1>2, <1>5 DEF VolBelow
<1>7. RowsBelow(r, m)
  BY <1>5 DEF Sound, RowsBelow
<1>8. FadeBelow(r, m) /\ HasSpan(r)
  BY <1>5 DEF Sound, FadeBelow, HasSpan
<1> QED BY <1>4, <1>6, <1>7, <1>8 DEF Sound, r

\* How far a fade has come is a part of its span.
LEMMA FadePartType ==
  ASSUME NEW m, NEW s, Sound(s, m), s.from < s.to
  PROVE  /\ FadePart(s) \in 0..(s.to - s.from)
         /\ s.to - s.from - FadePart(s) \in 0..(s.to - s.from)
<1>1. s.pos \in Int /\ s.from \in Int /\ s.to \in Int
  BY Numbers DEF Sound, States, Positions
<1> QED BY <1>1 DEF FadePart, Least

\* A fade that goes down, or none.
LEMMA FadeOutSound ==
  ASSUME NEW m \in Mixes, NEW s, Sound(s, m)
  PROVE  Sound(FadeOut(s), m)
BY FadePartType, Faded1Sound DEF FadeOut, Sound, HasSpan

\* A fade that comes back, and the restore at its end.
LEMMA FadeInSound ==
  ASSUME NEW m \in Mixes, NEW s, Sound(s, m)
  PROVE  Sound(FadeIn(s), m)
<1>1. CASE s.in
  <2>1. s.from < s.to
    BY <1>1 DEF Sound, HasSpan
  <2>2. Sound(Faded1(s, FadePart(s)), m)
    BY <2>1, FadePartType, Faded1Sound
  <2> QED BY <1>1, <2>2, RestoreIfSound DEF FadeIn
<1>2. CASE ~s.in
  BY <1>2 DEF FadeIn
<1> QED BY <1>1, <1>2

\* A stretch begins to repeat: its tracks are taken down from what is held.
LEMMA CaptureSound ==
  ASSUME NEW m \in Mixes, NEW s, Sound(s, m), NEW k \in Paired
  PROVE  Sound(Capture(s, k), m)
<1> DEFINE kept == FadedInto(s, k)
           r == IF kept THEN [s EXCEPT !.out = FALSE, !.in = FALSE] ELSE RestoreTracks(s)
           target(t) == IF r.rows[t] # <<>> THEN FadeTarget(r.rows[t][1].vol, r.limit[k][t])
                        ELSE NewRow(r, k, t).target
           muting(t) == r.msOn[k] /\ t \in Ms[k]
           rows(t) == IF t \notin AutoTracks[k] THEN r.rows[t]
                      ELSE IF r.rows[t] # <<>> THEN [r.rows[t] EXCEPT ![1].target = target(t)]
                      ELSE <<NewRow(r, k, t)>>
           vol == [t \in Tracks |-> IF t \in AutoTracks[k] THEN target(t) ELSE r.vol[t]]
           mutes == [t \in Tracks |-> IF muting(t) THEN Append(r.mutes[t], r.ms[t])
                                      ELSE r.mutes[t]]
           ms == [t \in Tracks |-> r.ms[t] \/ muting(t)]
           c == Capture(s, k)
<1>1. Sound(r, m) /\ ~r.out /\ ~r.in
  <2>1. CASE kept
    <3> DEFINE q == [s EXCEPT !.out = FALSE, !.in = FALSE]
    <3>1. q \in States
      BY DEF Sound, States
    <3>2. q.rows = s.rows /\ q.vol = s.vol /\ q.fade = s.fade /\ ~q.out /\ ~q.in
      BY DEF Sound, States
    <3>3. RowsBelow(q, m)
      BY <3>2 DEF Sound, RowsBelow
    <3>4. VolBelow(q, m) /\ FadeBelow(q, m) /\ HasSpan(q)
      BY <3>2 DEF Sound, VolBelow, FadeBelow, HasSpan
    <3> QED BY <2>1, <3>1, <3>2, <3>3, <3>4 DEF Sound
  <2>2. CASE ~kept
    <3>1. ~RestoreTracks(s).out /\ ~RestoreTracks(s).in
      BY DEF Sound, States, RestoreTracks
    <3> QED BY <2>2, <3>1, RestoreTracksSound
  <2> QED BY <2>1, <2>2
<1>2. c = [r EXCEPT !.vol = vol, !.rows = [t \in Tracks |-> rows(t)], !.mutes = mutes, !.ms = ms]
  BY DEF Capture
<1> HIDE DEF r, kept, c
<1>3. k \in Slots
  BY StretchTypes
<1>4. ASSUME NEW t \in Tracks
      PROVE  /\ rows(t) \in Seq(Rows)
             /\ \A i \in 1..Len(rows(t)) :
                  rows(t)[i].target <= rows(t)[i].vol /\ rows(t)[i].vol <= m[t]
             /\ target(t) \in Volumes /\ target(t) <= m[t]
  <2> DEFINE q == r.rows[t]
  <2>1. q \in Seq(Rows) /\ r.limit[k][t] \in Volumes
    BY <1>1, <1>3 DEF Sound, States
  <2>2. \A i \in 1..Len(q) : q[i].target <= q[i].vol /\ q[i].vol <= m[t]
    BY <1>1 DEF Sound, RowsBelow
  <2>3. CASE q = <<>>
    <3> DEFINE row == NewRow(r, k, t)
    <3>1. row \in Rows /\ row.target <= row.vol /\ row.vol <= m[t]
      BY <1>1, <1>3, NewRowType
    <3>2. rows(t) = q \/ rows(t) = <<row>>
      BY <2>3
    <3>3. target(t) = row.target
      BY <2>3
    <3> HIDE DEF row, target, rows, q
    <3>4. row.target \in Volumes /\ row.target <= m[t]
      BY <3>1, Numbers DEF Rows, Volumes, Mixes
    <3>5. <<row>> \in Seq(Rows) /\ Len(<<row>>) = 1 /\ <<row>>[1] = row
      BY <3>1
    <3>6. CASE rows(t) = q
      BY <2>1, <2>2, <3>3, <3>4, <3>6
    <3>7. CASE rows(t) = <<row>>
      <4>1. Len(rows(t)) = 1 /\ rows(t)[1] = row /\ rows(t) \in Seq(Rows)
        BY <3>5, <3>7
      <4>2. \A i \in 1..1 : i = 1
        OBVIOUS
      <4> QED BY <3>1, <3>3, <3>4, <4>1, <4>2
    <3> QED BY <3>2, <3>6, <3>7
  <2>4. CASE q # <<>>
    <3>1. 1 \in 1..Len(q) /\ q[1] \in Rows
      BY <2>1, <2>4, EmptySeq, LenProperties
    <3>2. q[1].vol \in Volumes /\ q[1].vol <= m[t]
      BY <2>2, <3>1 DEF Rows
    <3> DEFINE w == FadeTarget(q[1].vol, r.limit[k][t])
               e == [q[1] EXCEPT !.target = w]
    <3>3. target(t) = w
      BY <2>4
    <3>4. w \in Volumes /\ w <= q[1].vol
      BY <2>1, <3>2, TargetType
    <3>5. rows(t) = q \/ rows(t) = [q EXCEPT ![1] = e]
      BY <2>4, <3>3
    <3> HIDE DEF w, target, rows, q
    <3>6. e \in Rows /\ e.target = w /\ e.vol = q[1].vol
      BY <3>1, <3>4 DEF Rows
    <3> HIDE DEF e
    <3>7. /\ [q EXCEPT ![1] = e] \in Seq(Rows) /\ Len([q EXCEPT ![1] = e]) = Len(q)
          /\ \A j \in 1..Len(q) : [q EXCEPT ![1] = e][j] = IF j = 1 THEN e ELSE q[j]
      BY <2>1, <3>1, <3>6, ExceptSeq
    <3>8. w <= m[t]
      BY <3>2, <3>4, Numbers DEF Volumes, Mixes
    <3>9. CASE rows(t) = q
      BY <2>1, <2>2, <3>3, <3>4, <3>8, <3>9
    <3>10. CASE rows(t) = [q EXCEPT ![1] = e]
      <4>1. e.target <= e.vol /\ e.vol <= m[t]
        BY <3>2, <3>4, <3>6
      <4>2. \A j \in 1..Len(q) : rows(t)[j] = IF j = 1 THEN e ELSE q[j]
        BY <3>7, <3>10
      <4>3. Len(rows(t)) = Len(q) /\ rows(t) \in Seq(Rows)
        BY <3>7, <3>10
      <4> QED BY <2>2, <3>3, <3>4, <3>8, <4>1, <4>2, <4>3
    <3> QED BY <3>5, <3>9, <3>10
  <2> QED BY <2>3, <2>4
<1> HIDE DEF rows, target
<1>5. vol \in Mixes /\ \A t \in Tracks : vol[t] <= m[t]
  BY <1>1, <1>4 DEF Sound, States, VolBelow, Mixes
<1>6. [t \in Tracks |-> rows(t)] \in [Tracks -> Seq(Rows)]
  BY <1>4
<1>7. mutes \in [Tracks -> Seq(BOOLEAN)] /\ ms \in [Tracks -> BOOLEAN]
  <2>1. ASSUME NEW t \in Tracks
        PROVE  r.mutes[t] \in Seq(BOOLEAN) /\ r.ms[t] \in BOOLEAN
    BY <1>1 DEF Sound, States
  <2>2. ASSUME NEW t \in Tracks
        PROVE  Append(r.mutes[t], r.ms[t]) \in Seq(BOOLEAN)
    BY <2>1, AppendProperties
  <2> QED BY <2>1, <2>2
<1> HIDE DEF vol, mutes, ms
<1>8. c \in States
  BY <1>1, <1>2, <1>5, <1>6, <1>7 DEF Sound, States, Mixes
<1>9. /\ c.vol = vol /\ c.rows = [t \in Tracks |-> rows(t)] /\ c.fade = r.fade
      /\ c.out = r.out /\ c.in = r.in
  BY <1>1, <1>2 DEF Sound, States
<1>10. RowsBelow(c, m)
  BY <1>4, <1>9 DEF RowsBelow
<1>11. VolBelow(c, m) /\ FadeBelow(c, m) /\ HasSpan(c)
  BY <1>1, <1>5, <1>9 DEF Sound, VolBelow, FadeBelow, HasSpan
<1> QED BY <1>8, <1>10, <1>11 DEF Sound, c

\* The stretch repeats and is remembered.
LEMMA RepeatsSound ==
  ASSUME NEW m \in Mixes, NEW s, Sound(s, m), NEW k \in Paired
  PROVE  Sound(Repeats(s, k), m)
<1> DEFINE r == LoopOver(Capture(s, k), Pair(k))
<1>1. Sound(r, m) /\ k \in SlotOrNone
  BY CaptureSound, LoopSound, StretchTypes
<1>2. Repeats(s, k) = [r EXCEPT !.active = k]
  BY DEF Repeats
<1> HIDE DEF r
<1>3. Repeats(s, k) \in States /\ Same(r, Repeats(s, k))
  BY <1>1, <1>2 DEF Sound, States, Same
<1> QED BY <1>1, <1>3, SameSound

\* A stretch left to an armed part.
LEMMA MarkArmedSound ==
  ASSUME NEW m \in Mixes, NEW s, Sound(s, m), NEW k \in Paired
  PROVE  Sound(MarkArmed(s, k), m)
<1> DEFINE r == RestoreIf(Holds(s), s)
           q == [r EXCEPT !.released = k]
<1>1. Sound(r, m) /\ k \in SlotOrNone
  BY RestoreIfSound, StretchTypes
<1>2. MarkArmed(s, k) = q \/ MarkArmed(s, k) = s
  BY DEF MarkArmed
<1> HIDE DEF r
<1>3. q \in States /\ Same(r, q)
  BY <1>1 DEF Sound, States, Same
<1> QED BY <1>1, <1>2, <1>3, SameSound

\* A fade that begins has a beginning and an end.
LEMMA SpanType ==
  ASSUME NEW r \in States, NEW a \in Int, NEW b \in Nat
  PROVE  /\ [r EXCEPT !.out = TRUE, !.from = a, !.to = b] \in States
         /\ [r EXCEPT !.out = FALSE, !.in = TRUE, !.from = a, !.to = b] \in States
BY DEF States

\* A pre-fade holds the volumes its tracks have.
LEMMA PreFadeSound ==
  ASSUME NEW m \in Mixes, NEW s, Sound(s, m), NEW k \in Paired
  PROVE  Sound(PreFade(s, k), m)
<1> DEFINE rows(t) == IF t \in AutoTracks[k] THEN Append(s.rows[t], NewRow(s, k, t))
                      ELSE s.rows[t]
           r == [s EXCEPT !.rows = [t \in Tracks |-> rows(t)]]
           f == [r EXCEPT !.out = TRUE, !.from = From[k] - Lead[k], !.to = From[k]]
<1>1. k \in Slots /\ From[k] \in Nat /\ Lead[k] \in Nat \ {0}
  BY StretchTypes, Numbers DEF Positions
<1>2. ASSUME NEW t \in Tracks
      PROVE  /\ rows(t) \in Seq(Rows)
             /\ \A i \in 1..Len(rows(t)) :
                  rows(t)[i].target <= rows(t)[i].vol /\ rows(t)[i].vol <= m[t]
  <2> DEFINE q == s.rows[t]
             row == NewRow(s, k, t)
  <2>1. q \in Seq(Rows)
    BY DEF Sound, States
  <2>2. \A i \in 1..Len(q) : q[i].target <= q[i].vol /\ q[i].vol <= m[t]
    BY DEF Sound, RowsBelow
  <2>3. row \in Rows /\ row.target <= row.vol /\ row.vol <= m[t]
    BY <1>1, NewRowType
  <2>4. rows(t) = q \/ rows(t) = Append(q, row)
    OBVIOUS
  <2> HIDE DEF q, row, rows
  <2>5. CASE rows(t) = q
    BY <2>1, <2>2, <2>5
  <2>6. CASE rows(t) = Append(q, row)
    <3>1. /\ rows(t) \in Seq(Rows) /\ Len(rows(t)) = Len(q) + 1
          /\ \A i \in 1..Len(q) : rows(t)[i] = q[i]
          /\ rows(t)[Len(q) + 1] = row
      BY <2>1, <2>3, <2>6, AppendProperties
    <3>2. \A i \in 1..Len(rows(t)) : i \in 1..Len(q) \/ i = Len(q) + 1
      BY <2>1, <3>1, LenProperties
    <3> QED BY <2>2, <2>3, <3>1, <3>2
  <2> QED BY <2>4, <2>5, <2>6
<1>3. PreFade(s, k) = s \/ PreFade(s, k) = r \/ PreFade(s, k) = f
  BY DEF PreFade
<1> HIDE DEF rows
<1>4. Sound(r, m)
  <2>1. r \in States
    <3>1. [t \in Tracks |-> rows(t)] \in [Tracks -> Seq(Rows)]
      BY <1>2
    <3> QED BY <3>1 DEF Sound, States
  <2>2. /\ r.rows = [t \in Tracks |-> rows(t)] /\ r.vol = s.vol /\ r.fade = s.fade
        /\ r.out = s.out /\ r.in = s.in /\ r.from = s.from /\ r.to = s.to
    BY DEF Sound, States
  <2>3. RowsBelow(r, m)
    BY <1>2, <2>2 DEF RowsBelow
  <2>4. VolBelow(r, m) /\ FadeBelow(r, m) /\ HasSpan(r)
    BY <2>2 DEF Sound, VolBelow, FadeBelow, HasSpan
  <2> QED BY <2>1, <2>3, <2>4 DEF Sound
<1> HIDE DEF r
<1>5. Sound(f, m)
  <2>1. f \in States
    <3>1. From[k] - Lead[k] \in Int /\ r \in States
      BY <1>1, <1>4 DEF Sound
    <3> QED BY <1>1, <3>1, SpanType
  <2>2. /\ f.rows = r.rows /\ f.vol = r.vol /\ f.fade = r.fade
        /\ f.from = From[k] - Lead[k] /\ f.to = From[k]
    BY <1>4 DEF Sound, States
  <2>3. RowsBelow(f, m)
    BY <1>4, <2>2 DEF Sound, RowsBelow
  <2>4. VolBelow(f, m) /\ FadeBelow(f, m) /\ HasSpan(f)
    BY <1>1, <1>4, <2>2 DEF Sound, VolBelow, FadeBelow, HasSpan
  <2> QED BY <2>1, <2>3, <2>4 DEF Sound
<1> QED BY <1>3, <1>4, <1>5

\* A stretch let go of that was left.
LEMMA PassedSound ==
  ASSUME NEW m \in Mixes, NEW s, Sound(s, m), NEW k \in Paired
  PROVE  Sound(Passed(s, k), m)
<1> DEFINE r == RestoreIf(Holds(s), s)
           q == [r EXCEPT !.released = None]
<1>1. Sound(r, m)
  BY RestoreIfSound
<1>2. Passed(s, k) = q \/ Passed(s, k) = s
  BY DEF Passed
<1> HIDE DEF r
<1>3. q \in States /\ Same(r, q)
  BY <1>1 DEF Sound, States, Same, SlotOrNone
<1> QED BY <1>1, <1>2, <1>3, SameSound

\* The enabled stretches in turn.
LEMMA VisitSound ==
  ASSUME NEW m \in Mixes, NEW s, Sound(s, m), NEW k
  PROVE  Sound(Visit(s, k), m)
<1>1. CASE k \in Paired
  BY <1>1, MarkArmedSound, PreFadeSound, PassedSound DEF Visit
<1>2. CASE k \notin Paired
  BY <1>2 DEF Visit
<1> QED BY <1>1, <1>2

\* All four of them.
LEMMA VisitAllSound ==
  ASSUME NEW m \in Mixes, NEW s, Sound(s, m)
  PROVE  Sound(VisitAll(s), m)
BY VisitSound DEF VisitAll

\* A stretch let go of: the Auto Fader comes back from here to a later end.
LEMMA LetGoSound ==
  ASSUME NEW m \in Mixes, NEW s, Sound(s, m), NEW k \in Paired,
         NEW end \in Nat, s.pos < end
  PROVE  Sound(LetGo(s, k, end), m)
<1> DEFINE r == [s EXCEPT !.active = None, !.released = k]
           f == [r EXCEPT !.out = FALSE, !.in = TRUE, !.from = s.pos, !.to = end]
<1>1. r \in States /\ Same(s, r)
  BY DEF Sound, States, Same, SlotOrNone
<1>2. Sound(r, m)
  BY <1>1, SameSound
<1>3. s.pos \in Nat
  BY Numbers DEF Sound, States, Positions
<1>4. LetGo(s, k, end) = f \/ LetGo(s, k, end) = r
  BY DEF LetGo
<1> HIDE DEF r
<1>5. f \in States
  <2>1. s.pos \in Int /\ r \in States
    BY <1>2, <1>3 DEF Sound
  <2> QED BY <2>1, SpanType
<1>6. f.rows = r.rows /\ f.vol = r.vol /\ f.fade = r.fade /\ f.from = s.pos /\ f.to = end
  BY <1>2 DEF Sound, States
<1>7. RowsBelow(f, m)
  BY <1>2, <1>6 DEF Sound, RowsBelow
<1>8. VolBelow(f, m) /\ FadeBelow(f, m) /\ HasSpan(f)
  BY <1>2, <1>6 DEF Sound, VolBelow, FadeBelow, HasSpan
<1> QED BY <1>2, <1>4, <1>5, <1>7, <1>8 DEF Sound

\* What becomes of the stretch playback is in, or has left.
LEMMA FollowSound ==
  ASSUME NEW m \in Mixes, NEW s, Sound(s, m)
  PROVE  Sound(Follow(s), m)
<1> DEFINE a == Here(s)
<1>1. CASE a = None
  BY <1>1, DroppedSound DEF Follow
<1>2. CASE a # None
  <2>1. a \in Paired /\ a \in Slots /\ To[a] \in Nat /\ s.pos < To[a]
    BY <1>2, HereType, StretchTypes, Numbers DEF Within, Positions
  <2>2. Sound(LetGo(s, a, To[a]), m)
    BY <2>1, LetGoSound
  <2> DEFINE q == [s EXCEPT !.released = None]
  <2>3. q \in States /\ Same(s, q)
    BY DEF Sound, States, Same, SlotOrNone
  <2>4. Sound(Repeats(q, a), m) /\ Sound(Repeats(s, a), m)
    BY <2>1, <2>3, SameSound, RepeatsSound
  <2>5. Follow(s) \in {s, Repeats(q, a), LetGo(s, a, To[a]), Repeats(s, a)}
    BY <1>2 DEF Follow
  <2> QED BY <2>2, <2>4, <2>5
<1> QED BY <1>1, <1>2

-----------------------------------------------------------------------------
(* The fade-out of a Stop                                                    *)

\* The constants of a fade-out.
LEMMA FadeTypes ==
  /\ Fading \subseteq Tracks /\ NoFade \in Fades
  /\ 0 \in 0..MaxAge /\ FadeLen \in 0..MaxAge /\ 0 \in Volumes
  /\ MaxAge \in Nat /\ FadeLen \in Nat \ {0}
<1>1. 0 \in 0..MaxAge /\ FadeLen \in 0..MaxAge /\ 0 \in Volumes /\ MaxAge \in Nat
  BY Numbers DEF MaxAge, Volumes
<1>2. [t \in Fading |-> 0] \in [Fading -> Volumes]
  BY <1>1
<1>3. NoFade \in Fades
  BY <1>1, <1>2 DEF NoFade, Fades
<1> QED BY <1>1, <1>3, Numbers, StopFadeAssumption

\* Volumes and fade-out together, with everything else left alone.
LEMMA VolumeFadeSound ==
  ASSUME NEW m \in Mixes, NEW s, Sound(s, m),
         NEW vol \in Mixes, \A t \in Tracks : vol[t] <= m[t],
         NEW fade \in Fades,
         fade.state # "idle" => \A t \in Fading : fade.before[t] <= m[t]
  PROVE  Sound([s EXCEPT !.vol = vol, !.fade = fade], m)
<1> DEFINE r == [s EXCEPT !.vol = vol, !.fade = fade]
<1>1. r \in States
  BY DEF Sound, States, Mixes
<1>2. /\ r.rows = s.rows /\ r.vol = vol /\ r.fade = fade
      /\ r.out = s.out /\ r.in = s.in /\ r.from = s.from /\ r.to = s.to
  BY DEF Sound, States
<1> HIDE DEF r
<1>3. RowsBelow(r, m)
  BY <1>2 DEF Sound, RowsBelow
<1>4. VolBelow(r, m) /\ FadeBelow(r, m) /\ HasSpan(r)
  BY <1>2 DEF Sound, VolBelow, FadeBelow, HasSpan
<1> QED BY <1>1, <1>3, <1>4 DEF Sound, r

\* The volumes and the fade-out of a sound state.
LEMMA FadeParts ==
  ASSUME NEW m \in Mixes, NEW s, Sound(s, m)
  PROVE  /\ s.vol \in Mixes /\ \A t \in Tracks : s.vol[t] <= m[t]
         /\ s.fade \in Fades
         /\ s.fade.state # "idle" => \A t \in Fading : s.fade.before[t] <= m[t]
BY DEF Sound, States, VolBelow, FadeBelow, Mixes

\* A fade-out that runs has what it gives back.
LEMMA RestoreFadeSound ==
  ASSUME NEW m \in Mixes, NEW s, Sound(s, m), s.fade.state # "idle"
  PROVE  Sound(RestoreFade(s), m)
<1> DEFINE vol == [t \in Tracks |-> IF t \in Fading THEN s.fade.before[t] ELSE s.vol[t]]
<1>1. vol \in Mixes /\ \A t \in Tracks : vol[t] <= m[t]
  BY FadeParts DEF Fades, Mixes
<1>2. NoFade.state = "idle"
  BY DEF NoFade
<1>3. RestoreFade(s) = [s EXCEPT !.vol = vol, !.fade = NoFade]
  BY DEF RestoreFade
<1>4. NoFade \in Fades
        /\ (NoFade.state # "idle" => \A t \in Fading : NoFade.before[t] <= m[t])
  BY <1>2, FadeTypes
<1> HIDE DEF vol
<1>5. Sound([s EXCEPT !.vol = vol, !.fade = NoFade], m)
  BY <1>1, <1>4, VolumeFadeSound
<1> QED BY <1>3, <1>5

\* A Stop Break, also without a fade-out.
LEMMA BreakFadeSound ==
  ASSUME NEW m \in Mixes, NEW s, Sound(s, m)
  PROVE  Sound(BreakFade(s), m)
BY RestoreFadeSound DEF BreakFade

\* A fade-out remembers the volumes it finds.
LEMMA StartFadeSound ==
  ASSUME NEW m \in Mixes, NEW s, Sound(s, m)
  PROVE  Sound(StartFade(s), m)
<1> DEFINE before == [t \in Fading |-> s.vol[t]]
           fade == [state |-> "active", age |-> 0, before |-> before]
           vol == s.vol
           r == [s EXCEPT !.fade = fade]
<1>1. before \in [Fading -> Volumes] /\ \A t \in Fading : before[t] <= m[t]
  BY FadeParts, FadeTypes DEF Mixes
<1>2. StartFade(s) = r
  BY DEF StartFade
<1> HIDE DEF before
<1>3. fade \in Fades /\ fade.before = before
  BY <1>1, FadeTypes DEF Fades
<1> HIDE DEF fade
<1>4. r = [s EXCEPT !.vol = vol, !.fade = fade]
  BY DEF Sound, States
<1>5. vol \in Mixes /\ \A t \in Tracks : vol[t] <= m[t]
  BY FadeParts
<1>6. fade.state # "idle" => \A t \in Fading : fade.before[t] <= m[t]
  BY <1>1, <1>3
<1> HIDE DEF vol
<1>7. Sound([s EXCEPT !.vol = vol, !.fade = fade], m)
  BY <1>3, <1>5, <1>6, VolumeFadeSound
<1> QED BY <1>2, <1>4, <1>7

\* The Stop itself.
LEMMA HardStopSound ==
  ASSUME NEW m \in Mixes, NEW s, Sound(s, m)
  PROVE  Sound(HardStop(s), m)
<1> DEFINE r == ClearLoops(s)
           q == [r EXCEPT !.play = "stopped", !.queued = FALSE]
<1>1. Sound(r, m)
  BY ClearLoopsSound
<1> HIDE DEF r
<1>2. q \in States /\ Same(r, q)
  BY <1>1 DEF Sound, States, Same
<1>3. HardStop(s) = q
  BY DEF HardStop, r
<1> QED BY <1>1, <1>2, <1>3, SameSound

\* A Play that is confirmed or given up.
LEMMA FreshSound ==
  ASSUME NEW m \in Mixes, NEW s, Sound(s, m)
  PROVE  Sound([s EXCEPT !.fresh = 0], m)
<1>1. 0 \in 0..FreshLife
  BY Numbers
<1>2. [s EXCEPT !.fresh = 0] \in States /\ Same(s, [s EXCEPT !.fresh = 0])
  BY <1>1 DEF Sound, States, Same
<1> QED BY <1>2, SameSound

\* A Stop that the fade-out takes over.
LEMMA FadeStopSound ==
  ASSUME NEW m \in Mixes, NEW s, Sound(s, m)
  PROVE  Sound(FadeStop(s), m)
<1>1. CASE s.fade.state = "active"
  <2> DEFINE r == RestoreFade(s)
             q == [r EXCEPT !.sinceCancel = 0]
  <2>1. Sound(r, m) /\ 0 \in 0..CancelWindow
    BY <1>1, RestoreFadeSound, Numbers
  <2>2. FadeStop(s) = s \/ FadeStop(s) = q
    BY <1>1 DEF FadeStop
  <2> HIDE DEF r
  <2>3. q \in States /\ Same(r, q)
    BY <2>1 DEF Sound, States, Same
  <2> QED BY <2>1, <2>2, <2>3, SameSound
<1>2. CASE s.fade.state # "active"
  BY <1>2, StartFadeSound DEF FadeStop
<1> QED BY <1>1, <1>2

\* Stop and Stop Break.
LEMMA StopCommandSound ==
  ASSUME NEW m \in Mixes, NEW s, Sound(s, m)
  PROVE  Sound(StopCommand(s), m) /\ Sound(StopBreak(s), m)
BY FreshSound, FadeStopSound, HardStopSound, BreakFadeSound DEF StopCommand, StopBreak

\* The volumes of the ramp are parts of what is remembered.
LEMMA RampVolumesSound ==
  ASSUME NEW m \in Mixes, NEW s, Sound(s, m), s.fade.state = "active"
  PROVE  Sound([s EXCEPT !.vol = RampTo(s, Least(s.fade.age, FadeLen))], m)
<1> DEFINE age == Least(s.fade.age, FadeLen)
           vol == RampTo(s, age)
           r == [s EXCEPT !.vol = vol]
<1>1. age \in 0..FadeLen /\ FadeLen - age \in 0..FadeLen
  BY FadeParts, FadeTypes DEF Fades, Least
<1>2. ASSUME NEW t \in Tracks
      PROVE  vol[t] \in Volumes /\ vol[t] <= m[t]
  <2> DEFINE b == s.fade.before[t]
             x == (b * (FadeLen - age)) \div FadeLen
  <2>1. CASE t \in Fading
    <3>1. b \in Volumes /\ b <= m[t]
      BY <2>1, FadeParts DEF Fades
    <3>2. x \in 0..b
      <4>1. b \in Nat
        BY <3>1, Numbers DEF Volumes
      <4> HIDE DEF b, age
      <4> QED BY <4>1, <1>1, FadeTypes, PartBound
    <3>3. vol[t] = x
      BY <2>1 DEF RampTo
    <3> HIDE DEF x, b, vol
    <3>4. m[t] \in 0..Full /\ b \in 0..Full
      BY <3>1 DEF Mixes, Volumes
    <3> QED BY <3>1, <3>2, <3>3, <3>4, Numbers DEF Volumes
  <2>2. CASE t \notin Fading
    BY <2>2, FadeParts DEF RampTo, Mixes
  <2> QED BY <2>1, <2>2
<1>3. vol \in Mixes
  <2>1. vol = [t \in Tracks |-> vol[t]]
    BY DEF RampTo
  <2> HIDE DEF vol
  <2> QED BY <1>2, <2>1 DEF Mixes
<1> HIDE DEF vol, age
<1>4. r = [s EXCEPT !.vol = vol, !.fade = s.fade]
  BY DEF Sound, States
<1>5. Sound(r, m)
  BY <1>2, <1>3, <1>4, FadeParts, VolumeFadeSound
<1> QED BY <1>5 DEF r, vol, age

\* A step of the ramp goes down from what is remembered.
LEMMA RampSound ==
  ASSUME NEW m \in Mixes, NEW s, Sound(s, m), s.fade.state = "active"
  PROVE  Sound(Ramp(s), m)
<1> DEFINE age == Least(s.fade.age, FadeLen)
           vol == RampTo(s, age)
           back == [[s.fade EXCEPT !.state = "restoring"] EXCEPT !.age = 0]
           r == [s EXCEPT !.vol = vol]
           q == Returning(r)
<1>1. Sound(r, m)
  BY RampVolumesSound
<1> HIDE DEF vol, age
<1>2. r.fade = s.fade
  BY DEF Sound, States
<1> HIDE DEF r
<1>3. Sound(q, m)
  <2>1. s.fade.state # "idle"
    OBVIOUS
  <2>2. \A t \in Fading : r.fade.before[t] <= m[t]
    BY <1>2, <2>1, FadeParts
  <2>3. q = [r EXCEPT !.vol = r.vol, !.fade = back]
    BY <1>1, <1>2 DEF Returning, Sound, States
  <2>4. back \in Fades /\ back.before = r.fade.before
    BY <1>2, FadeParts, FadeTypes DEF Fades
  <2> HIDE DEF back, q
  <2> QED BY <1>1, <2>2, <2>3, <2>4, FadeParts, VolumeFadeSound
<1>4. Sound(HardStop([q EXCEPT !.fresh = 0]), m)
  BY <1>3, FreshSound, HardStopSound
<1>5. Ramp(s) = r \/ Ramp(s) = HardStop([q EXCEPT !.fresh = 0])
  BY DEF Ramp, r, vol, age
<1> QED BY <1>1, <1>4, <1>5

\* A call of the timer, for the fade-out.
LEMMA UpdateFadeSound ==
  ASSUME NEW m \in Mixes, NEW s, Sound(s, m)
  PROVE  Sound(UpdateFade(s), m)
<1>1. CASE s.fade.state = "restoring"
  BY <1>1, RestoreFadeSound DEF UpdateFade
<1>2. CASE s.fade.state = "active"
  <2> DEFINE back == [[s.fade EXCEPT !.state = "restoring"] EXCEPT !.age = 0]
             q == Returning(s)
  <2>1. s.fade.state # "idle"
    BY <1>2
  <2>2. \A t \in Fading : s.fade.before[t] <= m[t]
    BY <2>1, FadeParts
  <2>3. q = [s EXCEPT !.vol = s.vol, !.fade = back]
    BY DEF Returning, Sound, States
  <2>4. back \in Fades /\ back.before = s.fade.before
    BY FadeParts, FadeTypes DEF Fades
  <2>5. UpdateFade(s) = q \/ UpdateFade(s) = Ramp(s)
    BY <1>2 DEF UpdateFade
  <2> HIDE DEF back, q
  <2>6. Sound(q, m)
    BY <2>2, <2>3, <2>4, FadeParts, VolumeFadeSound
  <2> QED BY <1>2, <2>5, <2>6, RampSound
<1>3. CASE s.fade.state \notin {"restoring", "active"}
  BY <1>3 DEF UpdateFade
<1> QED BY <1>1, <1>2, <1>3

-----------------------------------------------------------------------------
(* The timer                                                                 *)

\* To forget the stretch let go of touches nothing else.
LEMMA ForgetSound ==
  ASSUME NEW m \in Mixes, NEW s, Sound(s, m)
  PROVE  Sound([s EXCEPT !.released = None], m)
<1>1. /\ [s EXCEPT !.released = None] \in States
      /\ Same(s, [s EXCEPT !.released = None])
  BY DEF Sound, States, Same, SlotOrNone
<1> QED BY <1>1, SameSound

\* Bypass drops the loop and gives everything back.
LEMMA SilencedSound ==
  ASSUME NEW m \in Mixes, NEW s, Sound(s, m)
  PROVE  Sound(Silenced(s), m)
<1> DEFINE r == IF s.active # None THEN NoLoop(s) ELSE s
<1>1. Sound(r, m)
  BY LoopSound
<1>2. Silenced(s) = [Dropped(r) EXCEPT !.released = None]
  BY DEF Silenced
<1> HIDE DEF r
<1> QED BY <1>1, <1>2, DroppedSound, ForgetSound

\* A request for bypass, or none.
LEMMA TakeRequestSound ==
  ASSUME NEW m \in Mixes, NEW s, Sound(s, m)
  PROVE  Sound(TakeRequest(s), m)
<1> DEFINE on == CASE s.request = "toggle" -> ~s.bypass
                   [] s.request = "none"   -> s.bypass
                   [] OTHER                -> s.request = "on"
           r == [s EXCEPT !.request = "none", !.bypass = on]
<1>1. on \in BOOLEAN
  BY DEF Sound, States
<1>2. TakeRequest(s) = Silenced(r) \/ TakeRequest(s) = r
  BY DEF TakeRequest
<1> HIDE DEF on
<1>3. r \in States /\ Same(s, r)
  BY <1>1 DEF Sound, States, Same
<1> QED BY <1>2, <1>3, SameSound, SilencedSound

\* A call of the timer, for the Multiloops.
LEMMA ProcessLoopsSound ==
  ASSUME NEW m \in Mixes, NEW s, Sound(s, m)
  PROVE  Sound(ProcessLoops(s), m)
<1> DEFINE r == TakeRequest(s)
<1>1. Sound(r, m)
  BY TakeRequestSound
<1>2. ProcessLoops(s) \in {[Dropped(r) EXCEPT !.released = None], Silenced(r),
                           Follow(FadeIn(FadeOut(VisitAll(r))))}
  BY DEF ProcessLoops
<1> HIDE DEF r
<1>3. Sound([Dropped(r) EXCEPT !.released = None], m) /\ Sound(Silenced(r), m)
  BY <1>1, DroppedSound, ForgetSound, SilencedSound
<1>4. Sound(Follow(FadeIn(FadeOut(VisitAll(r)))), m)
  BY <1>1, VisitAllSound, FadeOutSound, FadeInSound, FollowSound
<1> QED BY <1>2, <1>3, <1>4

\* What a pause remembers is no concern of the mixer.
LEMMA PausedSound ==
  ASSUME NEW m \in Mixes, NEW s, Sound(s, m),
         NEW p \in [on : BOOLEAN, moved : BOOLEAN, at : Positions]
  PROVE  Sound([s EXCEPT !.paused = p], m)
<1>1. [s EXCEPT !.paused = p] \in States /\ Same(s, [s EXCEPT !.paused = p])
  BY DEF Sound, States, Same
<1> QED BY <1>1, SameSound

\* A pause is noted.
LEMMA SeePauseSound ==
  ASSUME NEW m \in Mixes, NEW s, Sound(s, m)
  PROVE  Sound(SeePause(s), m)
<1> DEFINE moved == s.paused.on /\ (s.paused.moved \/ s.pos # s.paused.at)
           at == IF s.paused.on THEN s.paused.at ELSE s.pos
           p == [on |-> TRUE, moved |-> moved, at |-> at]
<1>1. moved \in BOOLEAN /\ at \in Positions
  BY DEF Sound, States
<1>2. SeePause(s) = [s EXCEPT !.paused = p]
  BY DEF SeePause
<1> HIDE DEF moved, at
<1>3. p \in [on : BOOLEAN, moved : BOOLEAN, at : Positions]
  BY <1>1
<1> HIDE DEF p
<1> QED BY <1>2, <1>3, PausedSound

\* A pause is over, and perhaps everything is given back.
LEMMA SeeResumeSound ==
  ASSUME NEW m \in Mixes, NEW s, Sound(s, m)
  PROVE  Sound(SeeResume(s), m)
<1> DEFINE p == [on |-> FALSE, moved |-> FALSE, at |-> 0]
           r == [s EXCEPT !.paused = p]
           q == RestoreTracks(IF s.active # None \/ Holds(s) THEN NoLoop(r) ELSE r)
           e == [q EXCEPT !.active = None, !.released = None]
<1>1. p \in [on : BOOLEAN, moved : BOOLEAN, at : Positions]
  BY Numbers DEF Positions
<1>2. SeeResume(s) = e \/ SeeResume(s) = r
  BY DEF SeeResume
<1> HIDE DEF p
<1>3. Sound(r, m)
  BY <1>1, PausedSound
<1> HIDE DEF r
<1>4. Sound(q, m)
  BY <1>3, LoopSound, RestoreTracksSound
<1> HIDE DEF q
<1>5. e \in States /\ Same(q, e)
  BY <1>4 DEF Sound, States, Same, SlotOrNone
<1> QED BY <1>2, <1>3, <1>4, <1>5, SameSound

\* The Multiloops under pauses and an unconfirmed Play.
LEMMA LoopTickSound ==
  ASSUME NEW m \in Mixes, NEW s, Sound(s, m), NEW late
  PROVE  Sound(LoopTick(s, late), m)
BY SeePauseSound, SeeResumeSound, FreshSound, ProcessLoopsSound DEF LoopTick

\* A stop that is seen with a queue waiting.
LEMMA PrepareStopSound ==
  ASSUME NEW m \in Mixes, NEW s, Sound(s, m), NEW hushed
  PROVE  Sound(PrepareStop(s, hushed), m)
<1> DEFINE r == ClearLoops(s)
           q == [r EXCEPT !.queued = FALSE]
<1>1. Sound(r, m)
  BY ClearLoopsSound
<1>2. PrepareStop(s, hushed) = q \/ PrepareStop(s, hushed) = s
  BY DEF PrepareStop
<1> HIDE DEF r
<1>3. q \in States /\ Same(r, q)
  BY <1>1 DEF Sound, States, Same
<1> QED BY <1>1, <1>2, <1>3, SameSound

\* Playback has reached a part.
LEMMA ArriveAtPartSound ==
  ASSUME NEW m \in Mixes, NEW s, Sound(s, m)
  PROVE  Sound(ArriveAtPart(s), m)
<1> DEFINE r == [s EXCEPT !.armed = None]
<1>1. r \in States /\ Same(s, r)
  BY DEF Sound, States, Same
<1>2. Sound(r, m)
  BY <1>1, SameSound
<1>3. ReleaseLoop(r, s.armed) \in {r, Dropped(NoLoop(r)), NoLoop(r)}
  BY DEF ReleaseLoop
<1>4. ArriveAtPart(s) \in {s, ReleaseLoop(r, s.armed)}
  BY DEF ArriveAtPart
<1> HIDE DEF r
<1> QED BY <1>2, <1>3, <1>4, LoopSound, DroppedSound

\* Whether playback was seen is no concern of the mixer.
LEMMA SeenSound ==
  ASSUME NEW m \in Mixes, NEW s, Sound(s, m), NEW b \in BOOLEAN
  PROVE  Sound([s EXCEPT !.seen = b], m)
<1>1. [s EXCEPT !.seen = b] \in States /\ Same(s, [s EXCEPT !.seen = b])
  BY DEF Sound, States, Same
<1> QED BY <1>1, SameSound

\* One call of the timer: what it does to the mixer is sound.
LEMMA TimerSound ==
  ASSUME NEW m \in Mixes, NEW s, Sound(s, m), NEW late, NEW engine, NEW hushed
  PROVE  Sound(Timer(s, late, engine, hushed), m)
<1> DEFINE r == LoopTick(UpdateFade(s), late)
           a == ArriveAtPart(PrepareStop(r, hushed))
           e == [a EXCEPT !.seen = (r.play = "playing")]
<1>1. Sound(r, m)
  BY UpdateFadeSound, LoopTickSound
<1> HIDE DEF r
<1>2. Sound(a, m)
  BY <1>1, PrepareStopSound, ArriveAtPartSound
<1>3. Timer(s, late, engine, hushed) = e \/ Timer(s, late, engine, hushed) = r
  BY DEF Timer, Engine, r
<1>4. (r.play = "playing") \in BOOLEAN
  OBVIOUS
<1> HIDE DEF a
<1>5. Sound(e, m)
  BY <1>2, <1>4, SeenSound
<1> QED BY <1>1, <1>3, <1>5

-----------------------------------------------------------------------------
(* The inductive invariant                                                   *)

\* Every variable has its type, and what is held or heard lies below what the
\* operator set.
IInv == StageTypeOK /\ Sound(st, mix.vol)

\* The stretch let go of is a slot or none.
LEMMA LetGoTypes ==
  ASSUME IInv
  PROVE  None \in SlotOrNone /\ Stays(st') \in SlotOrNone /\ InActive \in SlotOrNone
BY DEF IInv, StageTypeOK, States, SlotOrNone, Stays, InActive

\* A command that leaves the mix alone need only make a sound state.
LEMMA MakesKeeps ==
  ASSUME IInv, NEW kind, NEW s, Makes(kind, s), Sound(s, mix.vol), letGo' \in SlotOrNone
  PROVE  IInv'
<1>1. st' = s /\ mix' = mix /\ crossed' = crossed /\ lag' = lag /\ cmds' = cmds + 1
      /\ cmds < MaxCommands
  BY DEF Makes, Command
<1>2. s \in States
  BY DEF Sound
<1>3. cmds' \in 0..MaxCommands
  BY <1>1, Numbers DEF IInv, StageTypeOK
<1>4. StageTypeOK'
  BY <1>1, <1>2, <1>3 DEF IInv, StageTypeOK
<1>5. Sound(st', mix'.vol)
  BY <1>1
<1> QED BY <1>4, <1>5 DEF IInv

\* What the invariant says of the mix and of letGo.
LEMMA Ready ==
  ASSUME IInv
  PROVE  mix.vol \in Mixes /\ Sound(st, mix.vol) /\ letGo \in SlotOrNone
BY DEF IInv, StageTypeOK, Mixes

-----------------------------------------------------------------------------
(* The timer and the time                                                    *)

\* The timer keeps the invariant.
LEMMA CycleKeeps ==
  ASSUME IInv, Cycle
  PROVE  IInv'
<1>1. PICK late \in IF st.fresh > 0 THEN BOOLEAN ELSE {FALSE}, engine \in BOOLEAN,
           hushed \in BOOLEAN : st' = Timer(st, late, engine, hushed)
  BY DEF Cycle
<1>2. Sound(st', mix.vol)
  BY <1>1, Ready, TimerSound
<1>3. letGo' \in SlotOrNone
  BY LetGoTypes DEF Cycle
<1>4. Crosses(st) \in BOOLEAN
  BY Ready DEF Crosses, Stranded, Sound, States
<1>5. crossed' \in BOOLEAN /\ lag' \in 0..MaxLag /\ mix' = mix /\ cmds' = cmds
  BY <1>4, Numbers DEF Cycle, IInv, StageTypeOK
<1>6. StageTypeOK'
  BY <1>2, <1>3, <1>5 DEF IInv, StageTypeOK, Sound
<1> QED BY <1>2, <1>5, <1>6 DEF IInv

\* REAPER plays on inside the project.
LEMMA NextPositionsType ==
  ASSUME NEW s \in States
  PROVE  NextPositions(s) \subseteq Positions
<1>1. s.pos \in Positions /\ (s.armed # None => s.armed \in Positions)
      /\ (s.range # None => s.range.from \in Positions)
  BY DEF States, Ranges
<1>2. Least(s.pos + 1, MaxPos) \in Positions
  BY <1>1, Numbers DEF Least, Positions
<1> QED BY <1>1, <1>2 DEF NextPositions

\* So does time.
LEMMA TickKeeps ==
  ASSUME IInv, Tick
  PROVE  IInv'
<1> DEFINE age == IF st.fade.state = "idle" THEN 0 ELSE Least(st.fade.age + 1, MaxAge)
           fade == [st.fade EXCEPT !.age = age]
           since == Least(st.sinceCancel + 1, CancelWindow)
           fresh == IF st.fresh > 0 THEN st.fresh - 1 ELSE 0
<1>1. PICK p \in NextPositions(st) :
        st' = [st EXCEPT !.pos = p, !.fade.age = age, !.sinceCancel = since, !.fresh = fresh]
  BY DEF Tick
<1>2. p \in Positions
  BY Ready, NextPositionsType DEF Sound
<1>3. age \in 0..MaxAge /\ since \in 0..CancelWindow /\ fresh \in 0..FreshLife
  BY Ready, FadeTypes, Numbers DEF Sound, States, Fades, Least
<1>4. st' = [st EXCEPT !.pos = p, !.fade = fade, !.sinceCancel = since, !.fresh = fresh]
  BY <1>1
<1> HIDE DEF age, since, fresh
<1>5. fade \in Fades /\ fade.state = st.fade.state /\ fade.before = st.fade.before
  BY <1>3, Ready DEF Sound, States, Fades
<1> HIDE DEF fade
<1>6. st' \in States
  BY <1>2, <1>3, <1>4, <1>5, Ready DEF Sound, States
<1>7. /\ st'.rows = st.rows /\ st'.vol = st.vol /\ st'.fade = fade
      /\ st'.out = st.out /\ st'.in = st.in /\ st'.from = st.from /\ st'.to = st.to
  BY <1>4, Ready DEF Sound, States
<1>8. RowsBelow(st', mix.vol)
  BY <1>7, Ready DEF Sound, RowsBelow
<1>9. VolBelow(st', mix.vol) /\ FadeBelow(st', mix.vol) /\ HasSpan(st')
  BY <1>5, <1>7, Ready DEF Sound, VolBelow, FadeBelow, HasSpan
<1>10. letGo' \in SlotOrNone /\ mix' = mix /\ crossed' = crossed /\ cmds' = cmds
  BY LetGoTypes DEF Tick
<1>11. lag' \in 0..MaxLag
  BY Numbers DEF Tick, IInv, StageTypeOK
<1>12. StageTypeOK'
  BY <1>6, <1>10, <1>11 DEF IInv, StageTypeOK
<1> QED BY <1>6, <1>8, <1>9, <1>10, <1>12 DEF IInv, Sound

\* A state of another transport is as sound.
LEMMA PlaySound ==
  ASSUME NEW m \in Mixes, NEW s, Sound(s, m), NEW play \in {"stopped", "playing", "paused"}
  PROVE  Sound([s EXCEPT !.play = play], m)
<1>1. [s EXCEPT !.play = play] \in States /\ Same(s, [s EXCEPT !.play = play])
  BY DEF Sound, States, Same
<1> QED BY <1>1, SameSound

\* And the end of the project.
LEMMA ProjectEndsKeeps ==
  ASSUME IInv, ProjectEnds
  PROVE  IInv'
<1>1. st' = [st EXCEPT !.play = "stopped"] /\ letGo' = None
      /\ mix' = mix /\ crossed' = crossed /\ lag' = lag /\ cmds' = cmds
  BY DEF ProjectEnds
<1>2. Sound(st', mix.vol)
  BY <1>1, Ready, PlaySound
<1>3. StageTypeOK'
  BY <1>1, <1>2, LetGoTypes DEF IInv, StageTypeOK, Sound
<1> QED BY <1>1, <1>2, <1>3 DEF IInv

-----------------------------------------------------------------------------
(* Commands of the transport                                                 *)

\* Stop, Stop Break and the Stop of REAPER: what they make is sound.
LEMMA StopsKeep ==
  ASSUME IInv, Stop \/ BreakStop \/ HookedStop \/ ReaperStops
  PROVE  IInv'
<1>1. CASE Stop
  BY <1>1, Ready, StopCommandSound, LetGoTypes, MakesKeeps DEF Stop
<1>2. CASE BreakStop
  BY <1>2, Ready, StopCommandSound, LetGoTypes, MakesKeeps DEF BreakStop
<1>3. CASE HookedStop
  BY <1>3, Ready, HardStopSound, LetGoTypes, MakesKeeps DEF HookedStop
<1>4. CASE ReaperStops
  BY <1>4, Ready, PlaySound, LetGoTypes, MakesKeeps DEF ReaperStops
<1> QED BY <1>1, <1>2, <1>3, <1>4

\* Play clears all loops first.
LEMMA PlayKeeps ==
  ASSUME IInv, Play
  PROVE  IInv'
<1> DEFINE c == ClearLoops(st)
           fresh == IF st.play = "stopped" THEN FreshLife ELSE 0
<1>1. PICK p \in PlayFrom :
        /\ Makes("play", [c EXCEPT !.play = "playing", !.pos = p, !.fresh = fresh])
        /\ letGo' = None
  BY DEF Play
<1>2. Sound(c, mix.vol)
  BY Ready, ClearLoopsSound
<1>3. fresh \in 0..FreshLife /\ p \in Positions
  BY Numbers, StagePlaces DEF Positions
<1> HIDE DEF c, fresh
<1> DEFINE r == [c EXCEPT !.play = "playing", !.pos = p, !.fresh = fresh]
<1>4. r \in States /\ Same(c, r)
  BY <1>2, <1>3 DEF Sound, States, Same
<1>5. Sound(r, mix.vol)
  BY <1>2, <1>4, Ready, SameSound
<1> QED BY <1>1, <1>5, LetGoTypes, MakesKeeps

\* Commands that move playback and leave the mixer alone.
LEMMA MovesKeep ==
  ASSUME IInv, HookedPlay \/ Pause \/ Seek
  PROVE  IInv'
<1>1. CASE HookedPlay
  <2>1. PICK p \in PlayFrom :
          Makes("hookplay", [st EXCEPT !.play = "playing", !.pos = p]) /\ letGo' = None
    BY <1>1 DEF HookedPlay
  <2> DEFINE r == [st EXCEPT !.play = "playing", !.pos = p]
  <2>2. p \in Positions
    BY StagePlaces DEF Positions
  <2>3. r \in States /\ Same(st, r)
    BY <2>2, Ready DEF Sound, States, Same
  <2>4. Sound(r, mix.vol)
    BY <2>3, Ready, SameSound
  <2> QED BY <2>1, <2>4, LetGoTypes, MakesKeeps
<1>2. CASE Pause
  <2> DEFINE play == IF st.play = "playing" THEN "paused" ELSE "playing"
  <2>1. PICK fresh \in {st.fresh, 0} :
          /\ Makes("pause", [st EXCEPT !.play = play, !.fresh = fresh])
          /\ letGo' = IF st.play = "playing" /\ st.paused.on THEN None ELSE letGo
    BY <1>2 DEF Pause
  <2> DEFINE r == [st EXCEPT !.play = play, !.fresh = fresh]
  <2>2. fresh \in 0..FreshLife /\ play \in {"stopped", "playing", "paused"}
    BY Ready, Numbers DEF Sound, States
  <2> HIDE DEF play
  <2>3. r \in States /\ Same(st, r)
    BY <2>2, Ready DEF Sound, States, Same
  <2>4. Sound(r, mix.vol)
    BY <2>3, Ready, SameSound
  <2>5. letGo' \in SlotOrNone
    BY <2>1, LetGoTypes, Ready
  <2> QED BY <2>1, <2>4, <2>5, MakesKeeps
<1>3. CASE Seek
  <2>1. PICK p \in SeekTo : Makes("seek", [st EXCEPT !.pos = p]) /\ letGo' = None
    BY <1>3 DEF Seek
  <2> DEFINE r == [st EXCEPT !.pos = p]
  <2>2. p \in Positions
    BY StagePlaces DEF Positions
  <2>3. r \in States /\ Same(st, r)
    BY <2>2, Ready DEF Sound, States, Same
  <2>4. Sound(r, mix.vol)
    BY <2>3, Ready, SameSound
  <2> QED BY <2>1, <2>4, LetGoTypes, MakesKeeps
<1> QED BY <1>1, <1>2, <1>3

-----------------------------------------------------------------------------
(* Commands of the loops                                                     *)

\* There is a marker, or an end of the song, on either side of playback.
LEMMA SegmentType ==
  ASSUME NEW pos \in Positions, pos < SongEnd
  PROVE  Segment(pos) \in Ranges
<1> DEFINE bounds == {m \in Marks \cup {0, SongEnd} : m <= SongEnd}
           before == {m \in bounds : m <= pos}
           after  == {m \in bounds : m > pos}
           fromEnd == {MaxPos - m : m \in before}
<1>1. bounds \subseteq Positions /\ 0 \in bounds /\ SongEnd \in bounds
  <2>1. Marks \cup {0, SongEnd} \subseteq Positions
    BY Numbers, StagePlaces DEF Positions
  <2>2. 0 <= SongEnd /\ SongEnd <= SongEnd
    BY Numbers
  <2> QED BY <2>1, <2>2
<1>2. pos \in Nat /\ 0 \in before /\ SongEnd \in after
  BY <1>1, Numbers DEF Positions
<1>3. before \subseteq Positions /\ after \subseteq Positions /\ after \subseteq Nat
  BY <1>1, Numbers DEF Positions
<1> HIDE DEF bounds
<1>4. fromEnd \subseteq Nat /\ fromEnd # {}
  <2> HIDE DEF before
  <2> QED BY <1>2, <1>3, Numbers DEF Positions
<1>5. PICK x \in fromEnd : \A y \in fromEnd : x <= y
  <2> HIDE DEF fromEnd
  <2> QED BY <1>4, SmallestExists
<1>6. PICK a \in before : x = MaxPos - a
  BY <1>5
<1>7. \A o \in before : o <= a
  <2> SUFFICES ASSUME NEW o \in before PROVE o <= a
    OBVIOUS
  <2>1. MaxPos - a <= MaxPos - o
    BY <1>5, <1>6
  <2>2. a \in Positions /\ o \in Positions
    BY <1>3, <1>6
  <2> QED BY <2>1, <2>2, Numbers DEF Positions
<1>8. PICK b \in after : \A o \in after : b <= o
  <2> HIDE DEF after
  <2> QED BY <1>2, <1>3, SmallestExists
<1>9. a \in bounds /\ a <= pos /\ \A o \in bounds : o <= pos => o <= a
  BY <1>6, <1>7
<1>10. b \in bounds /\ b > pos /\ \A o \in bounds : o > pos => b <= o
  BY <1>8
<1>11. (CHOOSE m \in bounds : m <= pos /\ \A o \in bounds : o <= pos => o <= m) \in bounds
  BY <1>9
<1>12. (CHOOSE m \in bounds : m > pos /\ \A o \in bounds : o > pos => m <= o) \in bounds
  BY <1>10
<1> QED BY <1>1, <1>11, <1>12 DEF Segment, Ranges, bounds

\* The loop command, on and off.
LEMMA LoopKeeps ==
  ASSUME IInv, LoopOn \/ LoopOff
  PROVE  IInv'
<1>1. st.pos \in Positions
  BY Ready DEF Sound, States
<1>2. CASE LoopOn
  <2>1. CASE st.pos < SongEnd
    <3>1. Sound(LoopOver(st, Segment(st.pos)), mix.vol)
      BY <1>1, <2>1, Ready, SegmentType, LoopSound
    <3> QED BY <1>2, <2>1, <3>1, LetGoTypes, MakesKeeps DEF LoopOn
  <2>2. CASE ~(st.pos < SongEnd)
    BY <1>2, <2>2, Ready, LoopSound, LetGoTypes, MakesKeeps DEF LoopOn
  <2> QED BY <2>1, <2>2
<1>3. CASE LoopOff
  BY <1>3, Ready, LoopSound, LetGoTypes, MakesKeeps DEF LoopOff
<1> QED BY <1>2, <1>3

-----------------------------------------------------------------------------
(* Commands of the slots                                                     *)

\* What a slot is set to touches no volume.
LEMMA SlotSound ==
  ASSUME NEW m \in Mixes, NEW s, Sound(s, m), NEW k \in Slots,
         NEW enabled \in BOOLEAN, NEW msOn \in BOOLEAN
  PROVE  /\ Sound([s EXCEPT !.enabled[k] = enabled], m)
         /\ Sound([s EXCEPT !.msOn[k] = msOn], m)
         /\ Sound([s EXCEPT !.enabled[k] = enabled, !.msOn[k] = msOn], m)
<1>1. /\ [s EXCEPT !.enabled[k] = enabled] \in States
      /\ Same(s, [s EXCEPT !.enabled[k] = enabled])
  BY DEF Sound, States, Same
<1>2. [s EXCEPT !.msOn[k] = msOn] \in States /\ Same(s, [s EXCEPT !.msOn[k] = msOn])
  BY DEF Sound, States, Same
<1>3. /\ [s EXCEPT !.enabled[k] = enabled, !.msOn[k] = msOn] \in States
      /\ Same(s, [s EXCEPT !.enabled[k] = enabled, !.msOn[k] = msOn])
  BY DEF Sound, States, Same
<1> QED BY <1>1, <1>2, <1>3, SameSound

\* Mutes and solos are no volumes.
LEMMA MutesSound ==
  ASSUME NEW m \in Mixes, NEW s, Sound(s, m), NEW ms \in [Tracks -> BOOLEAN],
         NEW mutes \in [Tracks -> Seq(BOOLEAN)]
  PROVE  Sound([s EXCEPT !.ms = ms, !.mutes = mutes], m)
<1>1. /\ [s EXCEPT !.ms = ms, !.mutes = mutes] \in States
      /\ Same(s, [s EXCEPT !.ms = ms, !.mutes = mutes])
  BY DEF Sound, States, Same
<1> QED BY <1>1, SameSound

\* A slot that is turned on.
LEMMA SlotOnKeeps ==
  ASSUME IInv, SlotOn
  PROVE  IInv'
<1>1. PICK k \in Paired : Makes("slot", [st EXCEPT !.enabled[k] = TRUE]) /\ UNCHANGED letGo
  BY DEF SlotOn
<1>2. Sound([st EXCEPT !.enabled[k] = TRUE], mix.vol)
  BY Ready, StretchTypes, SlotSound
<1> QED BY <1>1, <1>2, Ready, MakesKeeps

\* A slot that is turned off while it repeats is let go of: the way back ends
\* after playback.
LEMMA SlotOffKeeps ==
  ASSUME IInv, SlotOff
  PROVE  IInv'
<1> DEFINE r(k) == [st EXCEPT !.enabled[k] = FALSE, !.msOn[k] = FALSE]
           quiet(k) == [NoLoop(r(k)) EXCEPT !.ms = Unmuted(st), !.mutes = NoRows]
           end(k) == IF st.pos < To[k] THEN To[k] ELSE st.pos + 1
<1>1. PICK k \in Paired :
        /\ Makes("slot", IF st.active = k THEN LetGo(quiet(k), k, end(k)) ELSE r(k))
        /\ letGo' = IF st.active = k THEN InActive ELSE letGo
  BY DEF SlotOff
<1>2. k \in Slots /\ To[k] \in Nat /\ st.pos \in Nat
  BY Ready, StretchTypes, Numbers DEF Sound, States, Positions
<1>3. Sound(r(k), mix.vol)
  BY <1>2, Ready, SlotSound
<1>4. r(k).pos = st.pos
  BY Ready DEF Sound, States
<1> HIDE DEF r
<1>5. Sound(NoLoop(r(k)), mix.vol) /\ NoLoop(r(k)).pos = st.pos
  <2>1. NoLoop(r(k)).pos = st.pos
    BY <1>3, <1>4 DEF Sound, States, NoLoop
  <2> QED BY <1>3, <2>1, Ready, LoopSound
<1>6. Sound(quiet(k), mix.vol)
  BY <1>5, Ready, RestoredType, NoRowsType, MutesSound
<1>7. quiet(k).pos = st.pos
  BY <1>5 DEF Sound, States
<1>8. end(k) \in Nat /\ st.pos < end(k)
  BY <1>2
<1> HIDE DEF quiet, end
<1>9. Sound(LetGo(quiet(k), k, end(k)), mix.vol)
  BY <1>2, <1>6, <1>7, <1>8, Ready, LetGoSound
<1>10. letGo' \in SlotOrNone
  BY <1>1, LetGoTypes, Ready
<1> QED BY <1>1, <1>3, <1>9, <1>10, MakesKeeps

\* The mutes of a slot, on and off.
LEMMA ToggleMsKeeps ==
  ASSUME IInv, ToggleMs
  PROVE  IInv'
<1>1. PICK k \in Paired : Makes("ms", [st EXCEPT !.msOn[k] = ~st.msOn[k]]) /\ UNCHANGED letGo
  BY DEF ToggleMs
<1>2. k \in Slots /\ (~st.msOn[k]) \in BOOLEAN
  BY StretchTypes
<1> DEFINE on == ~st.msOn[k]
<1> HIDE DEF on
<1>3. Sound([st EXCEPT !.msOn[k] = on], mix.vol)
  BY <1>2, Ready, SlotSound DEF on
<1> QED BY <1>1, <1>3, Ready, MakesKeeps DEF on

\* Commands that only set a flag of the engine.
LEMMA FlagsKeep ==
  ASSUME IInv, RequestBypass \/ Queue \/ DisarmPart
  PROVE  IInv'
<1>1. CASE RequestBypass
  <2>1. PICK request \in {"on", "off", "toggle"} :
          Makes("bypass", [st EXCEPT !.request = request]) /\ letGo' = None
    BY <1>1 DEF RequestBypass
  <2> DEFINE r == [st EXCEPT !.request = request]
  <2>2. r \in States /\ Same(st, r)
    BY Ready DEF Sound, States, Same
  <2>3. Sound(r, mix.vol)
    BY <2>2, Ready, SameSound
  <2> QED BY <2>1, <2>3, LetGoTypes, MakesKeeps
<1>2. CASE Queue
  <2> DEFINE q == ~st.queued
             r == [st EXCEPT !.queued = q]
  <2>1. q \in BOOLEAN
    OBVIOUS
  <2>2. Makes("queue", r) /\ UNCHANGED letGo
    BY <1>2 DEF Queue
  <2> HIDE DEF q
  <2>3. r \in States /\ Same(st, r)
    BY <2>1, Ready DEF Sound, States, Same
  <2>4. Sound(r, mix.vol)
    BY <2>3, Ready, SameSound
  <2> QED BY <2>2, <2>4, Ready, MakesKeeps
<1>3. CASE DisarmPart
  <2> DEFINE r == [st EXCEPT !.armed = None]
  <2>1. r \in States /\ Same(st, r)
    BY Ready DEF Sound, States, Same
  <2>2. Sound(r, mix.vol)
    BY <2>1, Ready, SameSound
  <2> QED BY <1>3, <2>2, Ready, MakesKeeps DEF DisarmPart
<1> QED BY <1>1, <1>2, <1>3

\* A part is armed, or gone to at once.
LEMMA GoToPartKeeps ==
  ASSUME IInv, GoToPart
  PROVE  IInv'
<1> DEFINE there(p) == [st EXCEPT !.armed = None, !.pos = p]
           armed(p) == [st EXCEPT !.armed = p]
           both(p)  == [st EXCEPT !.armed = p, !.origin = st.pos]
<1>1. PICK p \in Marks :
        /\ Makes("part", IF st.play # "playing" THEN there(p)
                         ELSE IF st.armed # None THEN armed(p) ELSE both(p))
        /\ letGo' = None
  BY DEF GoToPart
<1>2. p \in Positions
  BY StagePlaces DEF Positions
<1>3. /\ there(p) \in States /\ Same(st, there(p)) /\ armed(p) \in States /\ Same(st, armed(p))
      /\ both(p) \in States /\ Same(st, both(p))
  BY <1>2, Ready DEF Sound, States, Same
<1> HIDE DEF there, armed, both
<1>4. Sound(there(p), mix.vol) /\ Sound(armed(p), mix.vol) /\ Sound(both(p), mix.vol)
  BY <1>3, Ready, SameSound
<1> QED BY <1>1, <1>4, LetGoTypes, MakesKeeps

\* To give up control breaks the fade-out and drops the loops.
LEMMA ReleaseControlKeeps ==
  ASSUME IInv, ReleaseControl
  PROVE  IInv'
<1> DEFINE r == BreakFade(st)
           n == IF st.active # None THEN NoLoop(r) ELSE r
<1>1. Makes("release", [Dropped(n) EXCEPT !.released = None]) /\ letGo' = None
  BY DEF ReleaseControl
<1>2. Sound(n, mix.vol)
  BY Ready, BreakFadeSound, LoopSound
<1> HIDE DEF n
<1>3. Sound([Dropped(n) EXCEPT !.released = None], mix.vol)
  BY <1>2, Ready, DroppedSound, ForgetSound
<1> QED BY <1>1, <1>3, LetGoTypes, MakesKeeps

\* A new limit is heard at once, and never above the volume held.
LEMMA SetLimitKeeps ==
  ASSUME IInv, SetLimit
  PROVE  IInv'
<1> DEFINE r(k, t, v) == [st EXCEPT !.limit[k][t] = v]
           target(t, v) == FadeTarget(st.rows[t][1].vol, v)
           heard(k, t) == t \in AutoTracks[k] /\ st.active = k /\ st.rows[t] # <<>>
           h(k, t, v) == [r(k, t, v) EXCEPT !.rows[t][1].target = target(t, v),
                                            !.vol[t] = target(t, v)]
<1>1. PICK k \in Paired, t \in Tracks, v \in Levels :
        /\ Makes("limit", IF heard(k, t) THEN h(k, t, v) ELSE r(k, t, v))
        /\ UNCHANGED letGo
  BY DEF SetLimit
<1> DEFINE b == r(k, t, v)
           q == b.rows[t]
           w == target(t, v)
           e == [q[1] EXCEPT !.target = w]
           rows == [b.rows EXCEPT ![t] = [q EXCEPT ![1] = e]]
           vol  == [b.vol EXCEPT ![t] = w]
           g == h(k, t, v)
<1>2. k \in Slots /\ v \in Volumes
  BY StretchTypes, StagePlaces DEF Volumes
<1>3. b \in States /\ Same(st, b)
  BY <1>2, Ready DEF Sound, States, Same
<1>4. Sound(b, mix.vol)
  BY <1>3, Ready, SameSound
<1>5. CASE ~heard(k, t)
  BY <1>1, <1>4, <1>5, Ready, MakesKeeps
<1>6. CASE heard(k, t)
  <2>1. g = [b EXCEPT !.rows = rows, !.vol = vol]
    OBVIOUS
  <2>2. q # <<>> /\ q \in Seq(Rows) /\ w = FadeTarget(q[1].vol, v)
    BY <1>3, <1>6 DEF Same, States
  <2>3. \A i \in 1..Len(q) : q[i].target <= q[i].vol /\ q[i].vol <= mix.vol[t]
    BY <1>4 DEF Sound, RowsBelow
  <2> HIDE DEF b, q, w
  <2>4. 1 \in 1..Len(q) /\ q[1] \in Rows
    BY <2>2, EmptySeq, LenProperties
  <2>5. q[1].vol \in Volumes /\ q[1].vol <= mix.vol[t] /\ mix.vol[t] \in Volumes
    BY <2>3, <2>4, Ready DEF Rows, Mixes
  <2>6. w \in Volumes /\ w <= q[1].vol
    BY <1>2, <2>2, <2>5, TargetType
  <2>7. e \in Rows /\ e.target = w /\ e.vol = q[1].vol
    BY <2>4, <2>6 DEF Rows
  <2> HIDE DEF e
  <2>8. /\ [q EXCEPT ![1] = e] \in Seq(Rows) /\ Len([q EXCEPT ![1] = e]) = Len(q)
        /\ \A j \in 1..Len(q) : [q EXCEPT ![1] = e][j] = IF j = 1 THEN e ELSE q[j]
    BY <2>2, <2>4, <2>7, ExceptSeq
  <2>9. w <= mix.vol[t]
    BY <2>5, <2>6, Numbers DEF Volumes
  <2> DEFINE n == [q EXCEPT ![1] = e]
  <2>10. \A j \in 1..Len(n) : n[j].target <= n[j].vol /\ n[j].vol <= mix.vol[t]
    BY <2>3, <2>5, <2>6, <2>7, <2>8
  <2>11. b.rows \in [Tracks -> Seq(Rows)] /\ b.vol \in [Tracks -> Volumes]
    BY <1>4 DEF Sound, States
  <2>12. rows = [b.rows EXCEPT ![t] = n] /\ n \in Seq(Rows)
    BY <2>8
  <2> HIDE DEF n, rows
  <2>13. /\ rows \in [Tracks -> Seq(Rows)] /\ vol \in [Tracks -> Volumes]
         /\ \A u \in Tracks : rows[u] = IF u = t THEN n ELSE b.rows[u]
         /\ \A u \in Tracks : vol[u] = IF u = t THEN w ELSE b.vol[u]
    BY <2>6, <2>11, <2>12
  <2> HIDE DEF vol, g
  <2>14. g \in States
    BY <1>4, <2>1, <2>13 DEF Sound, States
  <2>15. /\ g.rows = rows /\ g.vol = vol /\ g.fade = b.fade
         /\ g.out = b.out /\ g.in = b.in /\ g.from = b.from /\ g.to = b.to
    BY <1>4, <2>1 DEF Sound, States
  <2>16. RowsBelow(g, mix.vol)
    BY <1>4, <2>10, <2>13, <2>15 DEF Sound, RowsBelow
  <2>17. VolBelow(g, mix.vol)
    BY <1>4, <2>9, <2>13, <2>15 DEF Sound, VolBelow
  <2>18. FadeBelow(g, mix.vol) /\ HasSpan(g)
    BY <1>4, <2>15 DEF Sound, FadeBelow, HasSpan
  <2>19. Sound(g, mix.vol)
    BY <2>14, <2>16, <2>17, <2>18 DEF Sound
  <2> QED BY <1>1, <1>6, <2>19, Ready, MakesKeeps DEF g
<1> QED BY <1>5, <1>6

-----------------------------------------------------------------------------
(* The operator                                                              *)

\* The operator sets a volume or a mute that nobody holds: what is held of the
\* other tracks stays below what was set for them.
LEMMA MixKeeps ==
  ASSUME IInv, Mix
  PROVE  IInv'
<1>1. /\ cmds' = cmds + 1 /\ cmds < MaxCommands
      /\ letGo' = letGo /\ crossed' = crossed /\ lag' = lag
  BY DEF Mix, Command
<1>2. cmds' \in 0..MaxCommands
  BY <1>1, Numbers DEF IInv, StageTypeOK
<1>3. PICK t \in Tracks :
        \/ \E v \in Levels :
             /\ st.rows[t] = <<>> /\ (t \in Fading => st.fade.state = "idle")
             /\ mix' = [mix EXCEPT !.vol[t] = v] /\ st' = [st EXCEPT !.vol[t] = v]
        \/ /\ st.mutes[t] = <<>>
           /\ mix' = [mix EXCEPT !.ms[t] = ~mix.ms[t]]
           /\ st' = [st EXCEPT !.ms[t] = ~st.ms[t]]
  BY DEF Mix
<1>4. /\ mix \in [vol : [Tracks -> Volumes], ms : [Tracks -> BOOLEAN]]
      /\ st \in States
  BY DEF IInv, StageTypeOK
<1>5. CASE \E v \in Levels :
             /\ st.rows[t] = <<>> /\ (t \in Fading => st.fade.state = "idle")
             /\ mix' = [mix EXCEPT !.vol[t] = v] /\ st' = [st EXCEPT !.vol[t] = v]
  <2>1. PICK v \in Levels :
          /\ st.rows[t] = <<>> /\ (t \in Fading => st.fade.state = "idle")
          /\ mix' = [mix EXCEPT !.vol[t] = v] /\ st' = [st EXCEPT !.vol[t] = v]
    BY <1>5
  <2>2. v \in Volumes /\ v <= v
    BY StagePlaces, Numbers DEF Volumes
  <2>3. /\ mix' \in [vol : [Tracks -> Volumes], ms : [Tracks -> BOOLEAN]]
        /\ \A u \in Tracks : mix'.vol[u] = IF u = t THEN v ELSE mix.vol[u]
    BY <1>4, <2>1, <2>2
  <2>4. st' \in States
    BY <1>4, <2>1, <2>2 DEF States
  <2>5. /\ st'.rows = st.rows /\ st'.fade = st.fade
        /\ st'.out = st.out /\ st'.in = st.in /\ st'.from = st.from /\ st'.to = st.to
        /\ \A u \in Tracks : st'.vol[u] = IF u = t THEN v ELSE st.vol[u]
    BY <1>4, <2>1 DEF States
  <2>6. RowsBelow(st', mix'.vol)
    <3>1. Len(st.rows[t]) = 0
      BY <2>1
    <3>2. 1..0 = {}
      OBVIOUS
    <3> SUFFICES ASSUME NEW u \in Tracks, NEW i \in 1..Len(st'.rows[u])
                 PROVE  /\ st'.rows[u][i].target <= st'.rows[u][i].vol
                        /\ st'.rows[u][i].vol <= mix'.vol[u]
      BY DEF RowsBelow
    <3>3. u # t
      BY <2>5, <3>1, <3>2
    <3>4. mix'.vol[u] = mix.vol[u]
      BY <2>3, <3>3
    <3> QED BY <2>5, <3>4, Ready DEF Sound, RowsBelow
  <2>7. VolBelow(st', mix'.vol)
    BY <2>2, <2>3, <2>5, Ready DEF Sound, VolBelow
  <2>8. FadeBelow(st', mix'.vol)
    BY <2>1, <2>3, <2>5, FadeTypes, Ready DEF Sound, FadeBelow
  <2>9. HasSpan(st')
    BY <2>5, Ready DEF Sound, HasSpan
  <2>10. StageTypeOK'
    BY <1>1, <1>2, <2>3, <2>4 DEF IInv, StageTypeOK
  <2> QED BY <2>4, <2>6, <2>7, <2>8, <2>9, <2>10 DEF IInv, Sound
<1>6. CASE /\ st.mutes[t] = <<>>
           /\ mix' = [mix EXCEPT !.ms[t] = ~mix.ms[t]]
           /\ st' = [st EXCEPT !.ms[t] = ~st.ms[t]]
  <2> DEFINE a == ~mix.ms[t]
             b == ~st.ms[t]
  <2>1. a \in BOOLEAN /\ b \in BOOLEAN /\ mix' = [mix EXCEPT !.ms[t] = a]
        /\ st' = [st EXCEPT !.ms[t] = b]
    BY <1>6
  <2> HIDE DEF a, b
  <2>2. /\ mix' \in [vol : [Tracks -> Volumes], ms : [Tracks -> BOOLEAN]]
        /\ mix'.vol = mix.vol
    BY <1>4, <2>1
  <2>3. st' \in States /\ Same(st, st')
    BY <1>4, <2>1 DEF States, Same
  <2>4. Sound(st', mix.vol)
    BY <2>3, Ready, SameSound
  <2>5. StageTypeOK'
    BY <1>1, <1>2, <2>2, <2>3 DEF IInv, StageTypeOK
  <2> QED BY <2>2, <2>4, <2>5 DEF IInv
<1> QED BY <1>3, <1>5, <1>6

-----------------------------------------------------------------------------
(* The theorems                                                              *)

\* Nothing is held and nothing fades when the extension starts.
LEMMA InitSound ==
  ASSUME Init
  PROVE  IInv
<1> DEFINE levels == [t \in Tracks |-> Full]
           off == [t \in Tracks |-> FALSE]
           limit == [k \in Slots |-> [t \in Tracks |-> 0]]
           enabled == [k \in Slots |-> k \in Paired]
           p == [on |-> FALSE, moved |-> FALSE, at |-> 0]
<1>1. /\ levels \in [Tracks -> Volumes] /\ off \in [Tracks -> BOOLEAN]
      /\ limit \in [Slots -> [Tracks -> Volumes]]
  BY Numbers DEF Volumes
<1>2. enabled \in [Slots -> BOOLEAN]
  OBVIOUS
<1>3. 0 \in Positions /\ 1 \in Nat /\ 0 \in Int /\ 0 \in 0..FreshLife
      /\ CancelWindow \in 0..CancelWindow /\ None \in SlotOrNone
  BY Numbers DEF Positions, SlotOrNone
<1>4. p \in [on : BOOLEAN, moved : BOOLEAN, at : Positions]
  BY <1>3
<1>5. /\ mix = [vol |-> levels, ms |-> off] /\ st = StateOf(mix.vol, mix.ms)
      /\ letGo = None /\ crossed = FALSE /\ lag = 0 /\ cmds = 0
  BY DEF Init
<1>6. \A t \in Tracks : levels[t] <= levels[t]
  BY Numbers
<1> HIDE DEF levels, off
<1>7. mix.vol = levels /\ mix.ms = off
      /\ mix \in [vol : [Tracks -> Volumes], ms : [Tracks -> BOOLEAN]]
  BY <1>1, <1>5
<1>8. st = [play |-> "stopped", pos |-> 0, repeat |-> FALSE, range |-> None,
            vol |-> levels, ms |-> off, limit |-> limit, enabled |-> enabled,
            msOn |-> enabled, bypass |-> FALSE, request |-> "none", fade |-> NoFade,
            sinceCancel |-> CancelWindow, rows |-> NoRows, mutes |-> NoRows,
            out |-> FALSE, in |-> FALSE, from |-> 0, to |-> 1,
            active |-> None, released |-> None, paused |-> p,
            armed |-> None, origin |-> 0, queued |-> FALSE, fresh |-> 0, seen |-> FALSE]
  BY <1>5, <1>7 DEF StateOf
<1> HIDE DEF limit, enabled, p
<1>9. st \in States
  BY <1>1, <1>2, <1>3, <1>4, <1>8, NoRowsType, FadeTypes DEF States
<1>10. st.rows = NoRows /\ st.vol = levels /\ st.fade = NoFade /\ ~st.out /\ ~st.in
  BY <1>8
<1>11. RowsBelow(st, mix.vol)
  BY <1>10, NoRowsType DEF RowsBelow
<1>12. VolBelow(st, mix.vol) /\ FadeBelow(st, mix.vol) /\ HasSpan(st)
  <2>1. NoFade.state = "idle"
    BY DEF NoFade
  <2> QED BY <1>6, <1>7, <1>10, <2>1 DEF VolBelow, FadeBelow, HasSpan
<1>13. StageTypeOK
  <2>1. crossed \in BOOLEAN
    BY <1>5
  <2>2. lag \in 0..MaxLag /\ cmds \in 0..MaxCommands
    BY <1>5, Numbers
  <2>3. letGo \in SlotOrNone
    BY <1>3, <1>5
  <2> HIDE DEF levels, off
  <2> QED BY <1>7, <1>9, <2>1, <2>2, <2>3, Zenon DEF StageTypeOK
<1> QED BY <1>9, <1>11, <1>12, <1>13 DEF IInv, Sound

\* A step that changes nothing.
LEMMA StutterKeeps ==
  ASSUME IInv, UNCHANGED vars
  PROVE  IInv'
<1>1. st' = st /\ mix' = mix /\ letGo' = letGo /\ crossed' = crossed /\ lag' = lag
      /\ cmds' = cmds
  BY DEF vars
<1> QED BY <1>1 DEF IInv, StageTypeOK

\* Every action keeps the invariant.
LEMMA StepKeeps ==
  ASSUME IInv, [Next]_vars
  PROVE  IInv'
<1>1. CASE Cycle
  BY <1>1, CycleKeeps
<1>2. CASE Tick
  BY <1>2, TickKeeps
<1>3. CASE ProjectEnds
  BY <1>3, ProjectEndsKeeps
<1>4. CASE Stop \/ BreakStop \/ HookedStop \/ ReaperStops
  BY <1>4, StopsKeep
<1>5. CASE Play
  BY <1>5, PlayKeeps
<1>6. CASE HookedPlay \/ Pause \/ Seek
  BY <1>6, MovesKeep
<1>7. CASE LoopOn \/ LoopOff
  BY <1>7, LoopKeeps
<1>8. CASE SlotOn
  BY <1>8, SlotOnKeeps
<1>9. CASE SlotOff
  BY <1>9, SlotOffKeeps
<1>10. CASE ToggleMs
  BY <1>10, ToggleMsKeeps
<1>11. CASE SetLimit
  BY <1>11, SetLimitKeeps
<1>12. CASE RequestBypass \/ Queue \/ DisarmPart
  BY <1>12, FlagsKeep
<1>13. CASE GoToPart
  BY <1>13, GoToPartKeeps
<1>14. CASE ReleaseControl
  BY <1>14, ReleaseControlKeeps
<1>15. CASE Mix
  BY <1>15, MixKeeps
<1>16. CASE UNCHANGED vars
  BY <1>16, StutterKeeps
<1> QED BY <1>1, <1>2, <1>3, <1>4, <1>5, <1>6, <1>7, <1>8, <1>9, <1>10, <1>11, <1>12,
           <1>13, <1>14, <1>15, <1>16 DEF Next

\* The invariant holds of every behaviour, whatever the stretches, tracks and
\* durations.
THEOREM SoundAlways == Spec => []IInv
<1>1. Init => IInv
  BY InitSound
<1>2. IInv /\ [Next]_vars => IInv'
  BY StepKeeps
<1> QED BY <1>1, <1>2, PTL DEF Spec

\* Every variable of the fade-out, the Multiloops and the transport has its
\* type: no fade leaves the range of volumes, no row is kept for a track the
\* song has not, no loop lies outside the project.
THEOREM TypeCorrect == Spec => []StageTypeOK
<1>1. IInv => StageTypeOK
  BY DEF IInv
<1> QED BY <1>1, SoundAlways, PTL

\* Neither fade-out nor Multiloops ever make a track louder than the operator
\* set it, whatever limits and volumes meet (comment at 70588): not in a fade
\* down, not in one that comes back, not in a restore of several rows.
THEOREM NeverLouderHolds == Spec => []NeverLouder
<1>1. IInv => NeverLouder
  BY DEF IInv, Sound, VolBelow, NeverLouder
<1> QED BY <1>1, SoundAlways, PTL

-----------------------------------------------------------------------------
(* What the Multiloops leave alone                                           *)

\* Playback goes on as it did, and so does the fade-out.
Calm(s, r) == r.play = s.play /\ r.fade = s.fade

\* Giving back, the loop and its range.
LEMMA RestoresCalm ==
  ASSUME NEW m \in Mixes, NEW s, Sound(s, m)
  PROVE  /\ Calm(s, RestoreTracks(s)) /\ \A c : Calm(s, RestoreIf(c, s))
         /\ Calm(s, NoLoop(s)) /\ \A range : Calm(s, LoopOver(s, range))
         /\ Calm(s, [s EXCEPT !.released = None]) /\ Calm(s, Dropped(s))
<1>1. Calm(s, RestoreTracks(s))
  BY DEF Sound, States, RestoreTracks, Calm
<1>2. \A c : Calm(s, RestoreIf(c, s))
  BY <1>1 DEF RestoreIf, Calm
<1>3. Calm(s, NoLoop(s)) /\ \A range : Calm(s, LoopOver(s, range))
  BY DEF Sound, States, NoLoop, LoopOver, Calm
<1>4. Calm(s, [s EXCEPT !.released = None])
  BY DEF Sound, States, Calm
<1>5. Calm(s, Dropped(s))
  <2> DEFINE r == RestoreIf(s.active # None \/ Holds(s), s)
  <2>1. Sound(r, m) /\ Calm(s, r)
    BY <1>2, RestoreIfSound
  <2>2. Dropped(s) = [r EXCEPT !.active = None]
    BY DEF Dropped
  <2> HIDE DEF r
  <2> QED BY <2>1, <2>2 DEF Sound, States, Calm
<1> QED BY <1>1, <1>2, <1>3, <1>4, <1>5

\* Every Stop and Play clears the loops, and nothing else.
LEMMA ClearLoopsCalm ==
  ASSUME NEW m \in Mixes, NEW s, Sound(s, m)
  PROVE  Calm(s, ClearLoops(s))
<1> DEFINE c == s.active # None \/ Holds(s) \/ s.out \/ s.in
           n == NoLoop(s)
           r == RestoreIf(c, n)
<1>1. Sound(n, m) /\ Calm(s, n)
  BY LoopSound, RestoresCalm
<1>2. ClearLoops(s) = [r EXCEPT !.active = None, !.released = None, !.armed = None]
  BY DEF ClearLoops
<1> HIDE DEF n, c
<1>3. Sound(r, m) /\ Calm(n, r)
  BY <1>1, RestoreIfSound, RestoresCalm
<1> HIDE DEF r
<1> QED BY <1>1, <1>2, <1>3 DEF Sound, States, Calm

\* A stretch that begins to repeat.
LEMMA RepeatsCalm ==
  ASSUME NEW m \in Mixes, NEW s, Sound(s, m), NEW k \in Paired
  PROVE  Calm(s, Repeats(s, k))
<1> DEFINE kept == [s EXCEPT !.out = FALSE, !.in = FALSE]
           c == Capture(s, k)
           l == LoopOver(c, Pair(k))
<1>1. /\ kept \in States /\ Calm(s, kept)
      /\ RestoreTracks(s) \in States /\ Calm(s, RestoreTracks(s))
  BY RestoreTracksSound DEF Sound, States, Calm, RestoreTracks
<1>2. PICK r \in {kept, RestoreTracks(s)} :
        \E vol, rows, mutes, ms :
          c = [r EXCEPT !.vol = vol, !.rows = rows, !.mutes = mutes, !.ms = ms]
  BY DEF Capture
<1> HIDE DEF kept
<1>3. r \in States /\ Calm(s, r)
  BY <1>1
<1>4. Calm(r, c)
  BY <1>2, <1>3 DEF States, Calm
<1>5. Sound(c, m)
  BY CaptureSound
<1>6. Repeats(s, k) = [l EXCEPT !.active = k]
  BY DEF Repeats
<1> HIDE DEF c
<1>7. Calm(c, l) /\ Sound(l, m)
  BY <1>5, LoopSound, RestoresCalm, StretchTypes
<1> HIDE DEF l
<1> QED BY <1>3, <1>4, <1>6, <1>7 DEF Sound, States, Calm

\* The visit of one slot.
LEMMA VisitCalm ==
  ASSUME NEW m \in Mixes, NEW s, Sound(s, m), NEW k
  PROVE  Calm(s, Visit(s, k))
<1>1. CASE k \notin Paired
  BY <1>1 DEF Visit, Calm
<1>2. CASE k \in Paired
  <2> DEFINE a == MarkArmed(s, k)
             p == PreFade(a, k)
             q == Passed(p, k)
  <2>1. Sound(a, m) /\ Calm(s, a)
    <3> DEFINE r == RestoreIf(Holds(s), s)
    <3>1. Sound(r, m) /\ Calm(s, r)
      BY RestoreIfSound, RestoresCalm
    <3>2. a = [r EXCEPT !.released = k] \/ a = s
      BY DEF MarkArmed
    <3> HIDE DEF r
    <3>3. Calm(s, a)
      BY <3>1, <3>2 DEF Sound, States, Calm
    <3> QED BY <1>2, <3>3, MarkArmedSound
  <2> HIDE DEF a
  <2>2. Sound(p, m) /\ Calm(a, p)
    <3>1. PICK rows : LET r == [a EXCEPT !.rows = rows]
                      IN  p \in {a, r, [r EXCEPT !.out = TRUE, !.from = From[k] - Lead[k],
                                                 !.to = From[k]]}
      BY DEF PreFade
    <3>2. Calm(a, p)
      BY <2>1, <3>1 DEF Sound, States, Calm
    <3> QED BY <1>2, <2>1, <3>2, PreFadeSound
  <2> HIDE DEF p
  <2>3. Calm(p, q)
    <3> DEFINE r == RestoreIf(Holds(p), p)
    <3>1. Sound(r, m) /\ Calm(p, r)
      BY <2>2, RestoreIfSound, RestoresCalm
    <3>2. q = [r EXCEPT !.released = None] \/ q = p
      BY DEF Passed
    <3> HIDE DEF r
    <3> QED BY <3>1, <3>2 DEF Sound, States, Calm
  <2>4. Visit(s, k) = q \/ Visit(s, k) = s
    BY DEF Visit, a, p
  <2> HIDE DEF q
  <2> QED BY <2>1, <2>2, <2>3, <2>4 DEF Calm
<1> QED BY <1>1, <1>2

\* All four slots.
LEMMA VisitAllCalm ==
  ASSUME NEW m \in Mixes, NEW s, Sound(s, m)
  PROVE  Calm(s, VisitAll(s))
<1> DEFINE a == Visit(s, 1)
           b == Visit(a, 2)
           c == Visit(b, 3)
<1>1. Sound(a, m) /\ Calm(s, a)
  BY VisitSound, VisitCalm
<1> HIDE DEF a
<1>2. Sound(b, m) /\ Calm(a, b)
  BY <1>1, VisitSound, VisitCalm
<1> HIDE DEF b
<1>3. Sound(c, m) /\ Calm(b, c)
  BY <1>2, VisitSound, VisitCalm
<1> HIDE DEF c
<1>4. Calm(c, Visit(c, 4)) /\ VisitAll(s) = Visit(c, 4)
  BY <1>3, VisitCalm DEF VisitAll, a, b, c
<1> QED BY <1>1, <1>2, <1>3, <1>4 DEF Calm

\* An Auto Fader sets volumes and may give them back.
LEMMA FadersCalm ==
  ASSUME NEW m \in Mixes, NEW s, Sound(s, m)
  PROVE  Calm(s, FadeOut(s)) /\ Calm(s, FadeIn(s))
<1>1. \A part : Calm(s, Faded1(s, part))
  BY DEF Sound, States, Faded1, Calm
<1>2. Calm(s, FadeOut(s))
  BY <1>1 DEF FadeOut, Calm
<1>3. CASE s.in
  <2> DEFINE part == FadePart(s)
             f == Faded1(s, part)
  <2>1. Sound(f, m) /\ Calm(s, f)
    <3>1. s.from < s.to
      BY <1>3 DEF Sound, HasSpan
    <3> QED BY <1>1, <3>1, FadePartType, Faded1Sound
  <2>2. FadeIn(s) = f \/ FadeIn(s) = RestoreTracks(f)
    BY <1>3 DEF FadeIn, RestoreIf
  <2> HIDE DEF f, part
  <2>3. Calm(f, FadeIn(s))
    BY <2>1, <2>2, RestoresCalm DEF Calm
  <2> QED BY <1>2, <2>1, <2>3 DEF Calm
<1>4. CASE ~s.in
  BY <1>2, <1>4 DEF FadeIn, Calm
<1> QED BY <1>3, <1>4

\* A stretch that is let go of, left, or begins.
LEMMA FollowCalm ==
  ASSUME NEW m \in Mixes, NEW s, Sound(s, m)
  PROVE  Calm(s, Follow(s))
<1> DEFINE a == Here(s)
           q == [s EXCEPT !.released = None]
<1>1. CASE a = None
  BY <1>1, RestoresCalm DEF Follow, Calm
<1>2. CASE a # None
  <2>1. a \in Paired
    BY <1>2, HereType
  <2>2. Sound(q, m) /\ Calm(s, q)
    BY ForgetSound, RestoresCalm
  <2>3. Calm(s, LetGo(s, a, To[a]))
    BY DEF Sound, States, LetGo, Calm
  <2>4. Follow(s) \in {s, Repeats(q, a), LetGo(s, a, To[a]), Repeats(s, a)}
    BY <1>2 DEF Follow
  <2> HIDE DEF a, q
  <2>5. Calm(q, Repeats(q, a)) /\ Calm(s, Repeats(s, a))
    BY <2>1, <2>2, RepeatsCalm
  <2> QED BY <2>2, <2>3, <2>4, <2>5 DEF Calm
<1> QED BY <1>1, <1>2

\* A call of the Multiloops.
LEMMA ProcessLoopsCalm ==
  ASSUME NEW m \in Mixes, NEW s, Sound(s, m)
  PROVE  Calm(s, ProcessLoops(s))
<1>1. ASSUME NEW x, Sound(x, m)
      PROVE  Calm(x, Silenced(x)) /\ Calm(x, [Dropped(x) EXCEPT !.released = None])
  <2> DEFINE n == IF x.active # None THEN NoLoop(x) ELSE x
  <2>1. Sound(n, m) /\ Calm(x, n)
    BY <1>1, LoopSound, RestoresCalm DEF Calm
  <2>2. ASSUME NEW y, Sound(y, m)
        PROVE  Calm(y, [Dropped(y) EXCEPT !.released = None])
    <3>1. Sound(Dropped(y), m) /\ Calm(y, Dropped(y))
      BY <2>2, DroppedSound, RestoresCalm
    <3>2. Calm(Dropped(y), [Dropped(y) EXCEPT !.released = None])
      BY <3>1, RestoresCalm
    <3> QED BY <3>1, <3>2 DEF Calm
  <2>3. Silenced(x) = [Dropped(n) EXCEPT !.released = None]
    BY DEF Silenced
  <2> HIDE DEF n
  <2>4. Calm(n, Silenced(x))
    BY <2>1, <2>2, <2>3
  <2> QED BY <1>1, <2>1, <2>2, <2>4 DEF Calm
<1> DEFINE r == TakeRequest(s)
           v == VisitAll(r)
           o == FadeOut(v)
           i == FadeIn(o)
<1>2. Sound(r, m) /\ Calm(s, r)
  <2>1. PICK on : LET q == [s EXCEPT !.request = "none", !.bypass = on]
                  IN  r = q \/ (on \in BOOLEAN /\ r = Silenced(q))
    <3> DEFINE on == CASE s.request = "toggle" -> ~s.bypass
                       [] s.request = "none"   -> s.bypass
                       [] OTHER                -> s.request = "on"
               q == [s EXCEPT !.request = "none", !.bypass = on]
    <3>1. on \in BOOLEAN
      BY DEF Sound, States
    <3>2. r = q \/ r = Silenced(q)
      BY DEF TakeRequest
    <3> HIDE DEF r, on
    <3> QED BY <3>1, <3>2
  <2> DEFINE q == [s EXCEPT !.request = "none", !.bypass = on]
  <2>2. Calm(s, q)
    BY DEF Sound, States, Calm
  <2>3. CASE r = q
    BY <2>2, <2>3, TakeRequestSound
  <2>4. CASE on \in BOOLEAN /\ r = Silenced(q)
    <3>1. q \in States /\ Same(s, q)
      BY <2>4 DEF Sound, States, Same
    <3>2. Sound(q, m)
      BY <3>1, SameSound
    <3> HIDE DEF q
    <3>3. Calm(q, r)
      BY <1>1, <2>4, <3>2
    <3> QED BY <2>2, <3>3, TakeRequestSound DEF Calm
  <2> QED BY <2>1, <2>3, <2>4
<1>3. ProcessLoops(s) \in {[Dropped(r) EXCEPT !.released = None], Silenced(r), Follow(i)}
  BY DEF ProcessLoops
<1> HIDE DEF r
<1>4. Sound(v, m) /\ Calm(r, v)
  BY <1>2, VisitAllSound, VisitAllCalm
<1> HIDE DEF v
<1>5. Sound(o, m) /\ Calm(v, o)
  BY <1>4, FadeOutSound, FadersCalm
<1> HIDE DEF o
<1>6. Sound(i, m) /\ Calm(o, i)
  BY <1>5, FadeInSound, FadersCalm
<1> HIDE DEF i
<1>7. Calm(i, Follow(i))
  BY <1>6, FollowCalm
<1>8. Calm(r, [Dropped(r) EXCEPT !.released = None]) /\ Calm(r, Silenced(r))
  BY <1>1, <1>2
<1> QED BY <1>2, <1>3, <1>4, <1>5, <1>6, <1>7, <1>8 DEF Calm

\* A call of the timer after its fade-out.
LEMMA LoopTickCalm ==
  ASSUME NEW m \in Mixes, NEW s, Sound(s, m), NEW late
  PROVE  Calm(s, LoopTick(s, late))
<1>1. Calm(s, SeePause(s))
  BY DEF Sound, States, SeePause, Calm
<1> DEFINE r == SeeResume(s)
           f == [r EXCEPT !.fresh = 0]
<1>2. Sound(r, m) /\ Calm(s, r)
  <2> DEFINE b == [s EXCEPT !.paused = [on |-> FALSE, moved |-> FALSE, at |-> 0]]
             n == IF s.active # None \/ Holds(s) THEN NoLoop(b) ELSE b
             t == RestoreTracks(n)
  <2>1. r = b \/ r = [t EXCEPT !.active = None, !.released = None]
    BY DEF SeeResume
  <2>2. Sound(b, m) /\ Calm(s, b)
    <3>1. Calm(s, b)
      BY DEF Sound, States, Calm
    <3>2. [on |-> FALSE, moved |-> FALSE, at |-> 0] \in
            [on : BOOLEAN, moved : BOOLEAN, at : Positions]
      BY Numbers DEF Positions
    <3> QED BY <3>1, <3>2, PausedSound
  <2> HIDE DEF b
  <2>3. Sound(n, m) /\ Calm(b, n)
    BY <2>2, LoopSound, RestoresCalm DEF Calm
  <2> HIDE DEF n
  <2>4. Sound(t, m) /\ Calm(n, t)
    BY <2>3, RestoreTracksSound, RestoresCalm
  <2> HIDE DEF t
  <2>5. Calm(t, [t EXCEPT !.active = None, !.released = None])
    BY <2>4 DEF Sound, States, Calm
  <2> HIDE DEF r
  <2>6. Calm(s, r)
    BY <2>1, <2>2, <2>3, <2>4, <2>5 DEF Calm
  <2> QED BY <2>6, SeeResumeSound DEF r
<1>3. LoopTick(s, late) \in {SeePause(s), r, ProcessLoops(f)}
  BY DEF LoopTick
<1> HIDE DEF r
<1>4. Sound(f, m) /\ Calm(r, f)
  <2>1. Calm(r, f)
    BY <1>2 DEF Sound, States, Calm
  <2> QED BY <1>2, <2>1, FreshSound
<1> HIDE DEF f
<1>5. Calm(f, ProcessLoops(f))
  BY <1>4, ProcessLoopsCalm
<1> QED BY <1>1, <1>2, <1>3, <1>4, <1>5 DEF Calm

\* The engine's share.
LEMMA EngineCalm ==
  ASSUME NEW m \in Mixes, NEW s, Sound(s, m), NEW hushed
  PROVE  Calm(s, Engine(s, hushed))
<1> DEFINE p == PrepareStop(s, hushed)
           a == ArriveAtPart(p)
<1>1. Sound(p, m) /\ Calm(s, p)
  <2> DEFINE c == ClearLoops(s)
  <2>1. Sound(c, m) /\ Calm(s, c)
    BY ClearLoopsSound, ClearLoopsCalm
  <2>2. p = s \/ p = [c EXCEPT !.queued = FALSE]
    BY DEF PrepareStop
  <2> HIDE DEF c
  <2>3. Calm(s, p)
    BY <2>1, <2>2 DEF Sound, States, Calm
  <2> QED BY <2>3, PrepareStopSound
<1> HIDE DEF p
<1>2. Sound(a, m) /\ Calm(p, a)
  <2> DEFINE d == [p EXCEPT !.armed = None]
  <2>1. d \in States /\ Same(p, d) /\ Calm(p, d)
    BY <1>1 DEF Sound, States, Same, Calm
  <2>2. Sound(d, m)
    BY <1>1, <2>1, SameSound
  <2>3. a = p \/ a \in {d, Dropped(NoLoop(d)), NoLoop(d)}
    BY DEF ArriveAtPart, ReleaseLoop
  <2> HIDE DEF d
  <2>4. Sound(NoLoop(d), m) /\ Calm(d, NoLoop(d))
    BY <2>2, LoopSound, RestoresCalm
  <2>5. Calm(NoLoop(d), Dropped(NoLoop(d)))
    BY <2>4, RestoresCalm
  <2>6. Calm(p, a)
    BY <2>1, <2>3, <2>4, <2>5 DEF Calm
  <2> QED BY <1>1, <2>6, ArriveAtPartSound
<1> HIDE DEF a
<1>3. Engine(s, hushed) = [a EXCEPT !.seen = (s.play = "playing")]
  BY DEF Engine, a, p
<1> QED BY <1>1, <1>2, <1>3 DEF Sound, States, Calm

-----------------------------------------------------------------------------
(* A fade-out ends in a Stop                                                 *)

\* The update of a fade-out that runs on ends nothing, and one that comes to
\* its end finds playback stopped or stops it.
LEMMA UpdateFadeStops ==
  ASSUME NEW m \in Mixes, NEW s, Sound(s, m), s.fade.state = "active",
         UpdateFade(s).fade.state = "restoring"
  PROVE  UpdateFade(s).play # "playing"
<1>1. CASE s.play # "playing"
  <2>1. UpdateFade(s) = Returning(s)
    BY <1>1 DEF UpdateFade
  <2>2. Returning(s).play = s.play
    BY DEF Returning, Sound, States
  <2> QED BY <1>1, <2>1, <2>2
<1>2. CASE s.play = "playing"
  <2> DEFINE age == Least(s.fade.age, FadeLen)
             vol == RampTo(s, age)
             r == [s EXCEPT !.vol = vol]
             q == [Returning(r) EXCEPT !.fresh = 0]
             c == ClearLoops(q)
  <2>1. UpdateFade(s) \in {r, [c EXCEPT !.play = "stopped", !.queued = FALSE]}
    BY <1>2 DEF UpdateFade, Ramp, HardStop
  <2> HIDE DEF vol, c
  <2>2. r.fade.state = "active"
    BY DEF Sound, States
  <2> HIDE DEF r
  <2>3. UpdateFade(s) = [c EXCEPT !.play = "stopped", !.queued = FALSE]
    BY <2>1, <2>2
  <2>4. UpdateFade(s) \in States
    BY UpdateFadeSound DEF Sound
  <2>5. "play" \in DOMAIN UpdateFade(s)
    BY <2>4 DEF States
  <2>6. UpdateFade(s).play = "stopped"
    BY <2>3, <2>5
  <2> QED BY <2>6
<1> QED BY <1>1, <1>2


\* A Stop starts a fade-out, cancels one or does without.
LEMMA HardStopCalm ==
  ASSUME NEW m \in Mixes, NEW s, Sound(s, m)
  PROVE  HardStop(s).fade = s.fade
<1>1. Sound(ClearLoops(s), m) /\ Calm(s, ClearLoops(s))
  BY ClearLoopsSound, ClearLoopsCalm
<1> QED BY <1>1 DEF HardStop, Sound, States, Calm

\* A fade-out that runs is cancelled or broken, never made to give back.
LEMMA StopsFade ==
  ASSUME IInv, Stop \/ BreakStop \/ HookedStop \/ ReleaseControl, st.fade.state = "active"
  PROVE  st'.fade.state # "restoring"
<1> DEFINE r == [st EXCEPT !.fresh = 0]
<1>1. Sound(r, mix.vol) /\ r.fade = st.fade
  <2>1. r.fade = st.fade
    BY Ready DEF Sound, States
  <2> QED BY <2>1, Ready, FreshSound
<1>2. ASSUME NEW s, Sound(s, mix.vol), s.fade = st.fade
      PROVE  /\ Sound(RestoreFade(s), mix.vol) /\ RestoreFade(s).fade.state = "idle"
             /\ BreakFade(s) = RestoreFade(s)
  <2>1. RestoreFade(s).fade = NoFade
    BY <1>2 DEF RestoreFade, Sound, States
  <2>2. NoFade.state = "idle"
    BY DEF NoFade
  <2>3. Sound(RestoreFade(s), mix.vol)
    BY <1>2, Ready, RestoreFadeSound
  <2> QED BY <1>2, <2>1, <2>2, <2>3 DEF BreakFade
<1>3. CASE Stop
  <2>1. st' = IF TakesStop(r) THEN FadeStop(r) ELSE HardStop(r)
    BY <1>3 DEF Stop, Makes, StopCommand
  <2> HIDE DEF r
  <2> DEFINE q == RestoreFade(r)
  <2>2. st' \in {r, [q EXCEPT !.sinceCancel = 0], HardStop(r)}
    BY <1>1, <2>1 DEF FadeStop
  <2>3. Sound(q, mix.vol) /\ q.fade.state = "idle"
    BY <1>1, <1>2
  <2>4. [q EXCEPT !.sinceCancel = 0].fade = q.fade
    <3> HIDE DEF q
    <3> QED BY <2>3 DEF Sound, States
  <2>5. HardStop(r).fade = r.fade
    BY <1>1, Ready, HardStopCalm
  <2> HIDE DEF q
  <2> QED BY <1>1, <2>2, <2>3, <2>4, <2>5
<1>4. CASE BreakStop
  <2> HIDE DEF r
  <2>1. st' = r \/ st' = HardStop(BreakFade(r))
    BY <1>4 DEF BreakStop, Makes, StopBreak, r
  <2>2. Sound(RestoreFade(r), mix.vol) /\ RestoreFade(r).fade.state = "idle"
        /\ BreakFade(r) = RestoreFade(r)
    BY <1>1, <1>2
  <2>3. HardStop(RestoreFade(r)).fade = RestoreFade(r).fade
    BY <2>2, Ready, HardStopCalm
  <2> QED BY <1>1, <2>1, <2>2, <2>3
<1>5. CASE HookedStop
  BY <1>5, Ready, HardStopCalm DEF HookedStop, Makes
<1>6. CASE ReleaseControl
  <2> DEFINE b == BreakFade(st)
             n == IF st.active # None THEN NoLoop(b) ELSE b
             d == Dropped(n)
  <2>1. st' = [d EXCEPT !.released = None]
    BY <1>6 DEF ReleaseControl, Makes
  <2>2. Sound(b, mix.vol) /\ b.fade.state = "idle"
    BY <1>2, Ready
  <2> HIDE DEF b
  <2>3. Sound(n, mix.vol) /\ Calm(b, n)
    BY <2>2, Ready, LoopSound, RestoresCalm DEF Calm
  <2> HIDE DEF n
  <2>4. Sound(d, mix.vol) /\ Calm(n, d)
    BY <2>3, Ready, DroppedSound, RestoresCalm
  <2> HIDE DEF d
  <2>5. Calm(d, st')
    BY <2>1, <2>4, Ready, RestoresCalm
  <2> QED BY <2>2, <2>3, <2>4, <2>5 DEF Calm
<1> QED BY <1>3, <1>4, <1>5, <1>6

\* All other steps leave the state of a fade-out as it is.
LEMMA OthersKeepFade ==
  ASSUME IInv,
         \/ Tick \/ ProjectEnds \/ ReaperStops \/ Play \/ HookedPlay \/ Pause \/ Seek
         \/ LoopOn \/ LoopOff \/ SlotOn \/ SlotOff \/ ToggleMs \/ SetLimit
         \/ RequestBypass \/ Queue \/ GoToPart \/ DisarmPart \/ Mix
  PROVE  st'.fade.state = st.fade.state
<1>1. st \in States /\ Sound(st, mix.vol) /\ mix.vol \in Mixes
  BY Ready DEF Sound
<1>2. CASE Tick
  <2> DEFINE age == IF st.fade.state = "idle" THEN 0 ELSE Least(st.fade.age + 1, MaxAge)
             since == Least(st.sinceCancel + 1, CancelWindow)
             fresh == IF st.fresh > 0 THEN st.fresh - 1 ELSE 0
  <2>1. PICK p \in NextPositions(st) :
          st' = [st EXCEPT !.pos = p, !.fade.age = age, !.sinceCancel = since, !.fresh = fresh]
    BY <1>2 DEF Tick
  <2> HIDE DEF age, since, fresh
  <2>2. st.fade \in Fades
    BY <1>1 DEF States
  <2>3. st'.fade = [st.fade EXCEPT !.age = age]
    BY <1>1, <2>1 DEF States
  <2> QED BY <2>2, <2>3 DEF Fades
<1>3. CASE ProjectEnds \/ ReaperStops \/ HookedPlay \/ Pause \/ Seek
  BY <1>1, <1>3 DEF ProjectEnds, ReaperStops, HookedPlay, Pause, Seek, Makes, States
<1>4. CASE Play
  <2> DEFINE c == ClearLoops(st)
  <2>1. Sound(c, mix.vol) /\ Calm(st, c)
    BY <1>1, ClearLoopsSound, ClearLoopsCalm
  <2>2. PICK p, fresh : st' = [c EXCEPT !.play = "playing", !.pos = p, !.fresh = fresh]
    BY <1>4 DEF Play, Makes
  <2> HIDE DEF c
  <2> QED BY <2>1, <2>2 DEF Sound, States, Calm
<1>5. CASE LoopOn \/ LoopOff
  <2>1. st' = NoLoop(st) \/ \E range : st' = LoopOver(st, range)
    BY <1>5 DEF LoopOn, LoopOff, Makes
  <2> QED BY <1>1, <2>1, RestoresCalm DEF Calm
<1>6. CASE SlotOn \/ ToggleMs \/ RequestBypass \/ Queue \/ DisarmPart
  BY <1>1, <1>6 DEF SlotOn, ToggleMs, RequestBypass, Queue, DisarmPart, Makes, States
<1>7. CASE SlotOff
  <2>1. PICK k, ms, end : LET r == [st EXCEPT !.enabled[k] = FALSE, !.msOn[k] = FALSE]
                              q == [NoLoop(r) EXCEPT !.ms = ms, !.mutes = NoRows]
                          IN  k \in Paired /\ (st' = r \/ st' = LetGo(q, k, end))
    BY <1>7 DEF SlotOff, Makes
  <2> DEFINE r == [st EXCEPT !.enabled[k] = FALSE, !.msOn[k] = FALSE]
             n == NoLoop(r)
             q == [n EXCEPT !.ms = ms, !.mutes = NoRows]
  <2>2. Sound(r, mix.vol) /\ r.fade = st.fade
    <3>1. r.fade = st.fade
      BY <1>1 DEF States
    <3> QED BY <1>1, <2>1, <3>1, StretchTypes, SlotSound
  <2>3. st' = r \/ st' = LetGo(q, k, end)
    BY <2>1
  <2> HIDE DEF r
  <2>4. Sound(n, mix.vol) /\ n.fade = r.fade
    BY <1>1, <2>2, LoopSound, RestoresCalm DEF Calm
  <2> HIDE DEF n
  <2>5. LetGo(q, k, end).fade = n.fade
    BY <2>4 DEF LetGo, Sound, States
  <2> QED BY <2>2, <2>3, <2>4, <2>5
<1>8. CASE SetLimit
  <2> DEFINE r(k, t, v) == [st EXCEPT !.limit[k][t] = v]
             target(t, v) == FadeTarget(st.rows[t][1].vol, v)
             heard(k, t) == t \in AutoTracks[k] /\ st.active = k /\ st.rows[t] # <<>>
             h(k, t, v) == [r(k, t, v) EXCEPT !.rows[t][1].target = target(t, v),
                                              !.vol[t] = target(t, v)]
  <2>1. PICK k \in Paired, t \in Tracks, v \in Levels :
          st' = IF heard(k, t) THEN h(k, t, v) ELSE r(k, t, v)
    BY <1>8 DEF SetLimit, Makes
  <2> HIDE DEF target, heard
  <2>2. r(k, t, v).fade = st.fade /\ h(k, t, v).fade = st.fade
    BY <1>1 DEF States
  <2> HIDE DEF r, h
  <2> QED BY <2>1, <2>2
<1>9. CASE GoToPart
  BY <1>1, <1>9 DEF GoToPart, Makes, States
<1>10. CASE Mix
  BY <1>1, <1>10 DEF Mix, States
<1> QED BY <1>2, <1>3, <1>4, <1>5, <1>6, <1>7, <1>8, <1>9, <1>10

\* A fade-out that has run ends in a Stop: at the moment its volumes begin to
\* come back, playback does not go on (76844-76847, 76885-76890).
THEOREM FadeOutStopsHolds == Spec => FadeOutStops
<1> DEFINE A == st.fade.state = "active" /\ st'.fade.state = "restoring"
                  => st'.play # "playing"
<1>1. IInv /\ [Next]_vars => [A]_vars
  <2> SUFFICES ASSUME IInv, Next, st.fade.state = "active", st'.fade.state = "restoring"
               PROVE  st'.play # "playing"
    OBVIOUS
  <2>1. CASE Cycle
    <3>1. PICK late, engine, hushed : st' = Timer(st, late, engine, hushed)
      BY <2>1 DEF Cycle
    <3> DEFINE u == UpdateFade(st)
               l == LoopTick(u, late)
    <3>2. Sound(u, mix.vol)
      BY Ready, UpdateFadeSound
    <3>3. u.fade.state = "restoring" => u.play # "playing"
      BY Ready, UpdateFadeStops
    <3>4. st' = l \/ st' = Engine(l, hushed)
      BY <3>1 DEF Timer
    <3> HIDE DEF u
    <3>5. Sound(l, mix.vol) /\ Calm(u, l)
      BY <3>2, Ready, LoopTickSound, LoopTickCalm
    <3> HIDE DEF l
    <3>6. Calm(l, Engine(l, hushed))
      BY <3>5, Ready, EngineCalm
    <3> QED BY <3>3, <3>4, <3>5, <3>6 DEF Calm
  <2>2. CASE Stop \/ BreakStop \/ HookedStop \/ ReleaseControl
    BY <2>2, StopsFade
  <2>3. CASE ~(Cycle \/ Stop \/ BreakStop \/ HookedStop \/ ReleaseControl)
    BY <2>3, OthersKeepFade DEF Next
  <2> QED BY <2>1, <2>2, <2>3
<1> QED BY <1>1, SoundAlways, PTL DEF Spec, FadeOutStops

-----------------------------------------------------------------------------
(* A pause freezes the Multiloops                                            *)

\* What a pause must leave alone, and what makes it one.
Frozen(s, r) ==
  /\ r.active = s.active /\ r.released = s.released /\ r.repeat = s.repeat
  /\ r.rows = s.rows /\ r.mutes = s.mutes /\ r.ms = s.ms
  /\ \A t \in Tracks \ Fading : r.vol[t] = s.vol[t]
  /\ r.play = s.play /\ r.queued = s.queued

\* A fade-out that meets a pause gives back its own tracks only.
LEMMA UpdateFadeFrozen ==
  ASSUME NEW m \in Mixes, NEW s, Sound(s, m), s.play = "paused"
  PROVE  Frozen(s, UpdateFade(s))
<1>1. UpdateFade(s) \in {s, RestoreFade(s), Returning(s)}
  BY DEF UpdateFade
<1>2. Frozen(s, s)
  BY DEF Frozen
<1>3. Frozen(s, RestoreFade(s))
  BY DEF Frozen, RestoreFade, Sound, States
<1>4. Frozen(s, Returning(s))
  BY DEF Frozen, Returning, Sound, States
<1> QED BY <1>1, <1>2, <1>3, <1>4

\* The engine finds nothing to prepare and no part to arrive at.
LEMMA EngineFrozen ==
  ASSUME NEW m \in Mixes, NEW s, Sound(s, m), s.play = "paused", ~s.queued, NEW hushed
  PROVE  Frozen(s, Engine(s, hushed))
<1>1. PrepareStop(s, hushed) = s
  BY DEF PrepareStop
<1>2. ArriveAtPart(s) = s
  BY DEF ArriveAtPart, PartReached
<1>3. Engine(s, hushed) = [s EXCEPT !.seen = (s.play = "playing")]
  BY <1>1, <1>2 DEF Engine
<1> QED BY <1>3 DEF Frozen, Sound, States

\* A pause freezes the Multiloops: no call of the timer gives back a track or
\* lets go of a loop, unless a queued song waits (comment at 71001-71002).
THEOREM PauseFreezesHolds == Spec => PauseFreezes
<1> DEFINE A == Cycle /\ st.play = "paused" /\ ~st.queued =>
       /\ st'.active = st.active /\ st'.released = st.released /\ st'.repeat = st.repeat
       /\ st'.rows = st.rows /\ st'.mutes = st.mutes /\ st'.ms = st.ms
       /\ \A t \in Tracks \ Fading : st'.vol[t] = st.vol[t]
<1>1. IInv /\ [Next]_vars => [A]_vars
  <2> SUFFICES ASSUME IInv, Cycle, st.play = "paused", ~st.queued
               PROVE  Frozen(st, st')
    BY DEF Frozen
  <2>1. PICK late, engine, hushed : st' = Timer(st, late, engine, hushed)
    BY DEF Cycle
  <2> DEFINE u == UpdateFade(st)
             l == LoopTick(u, late)
  <2>2. Sound(u, mix.vol) /\ Frozen(st, u)
    BY Ready, UpdateFadeSound, UpdateFadeFrozen
  <2>3. st' = l \/ st' = Engine(l, hushed)
    BY <2>1 DEF Timer
  <2> HIDE DEF u
  <2>4. u.play = "paused" /\ ~u.queued
    BY <2>2 DEF Frozen
  <2>5. l = SeePause(u)
    BY <2>4 DEF LoopTick
  <2>6. Sound(l, mix.vol) /\ Frozen(u, l)
    <3>1. Frozen(u, SeePause(u))
      BY <2>2 DEF Frozen, SeePause, Sound, States
    <3> QED BY <2>2, <2>5, <3>1, Ready, LoopTickSound
  <2> HIDE DEF l
  <2>7. Frozen(l, Engine(l, hushed))
    BY <2>4, <2>6, Ready, EngineFrozen DEF Frozen
  <2> QED BY <2>2, <2>3, <2>6, <2>7 DEF Frozen
<1> QED BY <1>1, SoundAlways, PTL DEF Spec, PauseFreezes

-----------------------------------------------------------------------------
(* A stretch that was let go of stays let go of                              *)

\* No two stretches of the song overlap.
StretchesApart == \A j, k \in Paired : j # k => To[j] <= From[k] \/ To[k] <= From[j]

\* Playback is in the stretch g and nothing repeats, and either bypass is on or
\* g is still the stretch that is active or the one that was released.
IsOut(s, g) ==
  /\ g \in Paired /\ Within(g, s.pos)
  /\ s.play # "stopped" /\ ~s.repeat /\ s.armed = None
  /\ (s.bypass /\ s.request = "none") \/ s.active = g \/ s.released = g

\* A pause that was seen has not moved playback, but for what was played since.
PauseHolds(s, played) ==
  s.paused.on => /\ ~s.paused.moved
                 /\ IF s.play = "paused" THEN s.pos = s.paused.at
                    ELSE s.pos - s.paused.at \in 0..played

\* The stretch is still let go of after a routine.
StillOut(s, r, g) ==
  /\ IsOut(r, g) /\ r.play = s.play /\ r.pos = s.pos
  /\ r.bypass = s.bypass /\ r.request = s.request
  /\ r.paused = s.paused /\ r.queued = s.queued

\* A routine that changes the mixer only.
MixerOnly(s, r) ==
  /\ r.play = s.play /\ r.pos = s.pos /\ r.repeat = s.repeat /\ r.armed = s.armed
  /\ r.active = s.active /\ r.released = s.released
  /\ r.bypass = s.bypass /\ r.request = s.request
  /\ r.paused = s.paused /\ r.queued = s.queued

\* Such a routine lets the stretch be.
LEMMA MixerOnlyOut ==
  ASSUME NEW s, NEW r, NEW g, IsOut(s, g), MixerOnly(s, r)
  PROVE  StillOut(s, r, g)
BY DEF IsOut, MixerOnly, StillOut

\* To give back what is held is one.
LEMMA RestoresMixerOnly ==
  ASSUME NEW m \in Mixes, NEW s, Sound(s, m)
  PROVE  MixerOnly(s, RestoreTracks(s)) /\ \A c : MixerOnly(s, RestoreIf(c, s))
<1>1. MixerOnly(s, RestoreTracks(s)) /\ MixerOnly(s, s)
  BY DEF Sound, States, RestoreTracks, MixerOnly
<1> QED BY <1>1 DEF RestoreIf

\* So is what an Auto Fader does.
LEMMA FadersMixerOnly ==
  ASSUME NEW m \in Mixes, NEW s, Sound(s, m)
  PROVE  MixerOnly(s, FadeOut(s)) /\ MixerOnly(s, FadeIn(s))
<1>1. MixerOnly(s, s) /\ \A part : MixerOnly(s, Faded1(s, part))
  BY DEF Sound, States, Faded1, MixerOnly
<1>2. MixerOnly(s, FadeOut(s))
  BY <1>1 DEF FadeOut
<1>3. CASE s.in
  <2> DEFINE part == FadePart(s)
             f == Faded1(s, part)
  <2>1. Sound(f, m) /\ MixerOnly(s, f)
    <3>1. s.from < s.to
      BY <1>3 DEF Sound, HasSpan
    <3> QED BY <1>1, <3>1, FadePartType, Faded1Sound
  <2>2. FadeIn(s) = f \/ FadeIn(s) = RestoreTracks(f)
    BY <1>3 DEF FadeIn, RestoreIf
  <2> HIDE DEF f, part
  <2>3. MixerOnly(f, RestoreTracks(f))
    BY <2>1, RestoresMixerOnly
  <2> QED BY <1>2, <2>1, <2>2, <2>3 DEF MixerOnly
<1>4. CASE ~s.in
  BY <1>1, <1>2, <1>4 DEF FadeIn
<1> QED BY <1>3, <1>4

\* And a pre-fade.
LEMMA PreFadeMixerOnly ==
  ASSUME NEW m \in Mixes, NEW s, Sound(s, m), NEW k
  PROVE  MixerOnly(s, PreFade(s, k))
<1>1. PICK rows : LET r == [s EXCEPT !.rows = rows]
                  IN  PreFade(s, k) \in {s, r, [r EXCEPT !.out = TRUE,
                                    !.from = From[k] - Lead[k], !.to = From[k]]}
  BY DEF PreFade
<1> QED BY <1>1 DEF Sound, States, MixerOnly

\* A visit forgets only a stretch that playback is not in, and arms nothing.
LEMMA VisitOut ==
  ASSUME NEW m \in Mixes, NEW s, Sound(s, m), NEW g, IsOut(s, g), NEW k
  PROVE  StillOut(s, Visit(s, k), g)
<1>1. StillOut(s, s, g)
  BY DEF StillOut
<1>2. CASE k \notin Paired
  BY <1>1, <1>2 DEF Visit
<1>3. CASE k \in Paired
  <2> DEFINE p == PreFade(s, k)
             r == RestoreIf(Holds(p), p)
             q == [r EXCEPT !.released = None]
  <2>1. MarkArmed(s, k) = s
    <3>1. From[k] \in Nat
      BY <1>3, StretchTypes, Numbers DEF Positions
    <3> QED BY <3>1, Numbers DEF MarkArmed, IsOut
  <2>2. Sound(p, m) /\ MixerOnly(s, p)
    BY <1>3, PreFadeSound, PreFadeMixerOnly
  <2>3. Visit(s, k) = s \/ Visit(s, k) = Passed(p, k)
    BY <2>1 DEF Visit
  <2>4. Passed(p, k) = IF p.released # k \/ Within(k, p.pos) THEN p ELSE q
    BY DEF Passed
  <2> HIDE DEF p
  <2>5. StillOut(s, p, g)
    BY <2>2, MixerOnlyOut
  <2>6. CASE Passed(p, k) = p
    BY <1>1, <2>3, <2>5, <2>6
  <2>7. CASE p.released = k /\ ~Within(k, p.pos)
    <3>1. Sound(r, m) /\ MixerOnly(p, r)
      BY <2>2, RestoreIfSound, RestoresMixerOnly
    <3> HIDE DEF r
    <3>2. /\ q.play = r.play /\ q.pos = r.pos /\ q.repeat = r.repeat /\ q.armed = r.armed
          /\ q.active = r.active /\ q.bypass = r.bypass /\ q.request = r.request
          /\ q.paused = r.paused /\ q.queued = r.queued
      BY <3>1 DEF Sound, States
    <3>3. p.released # g
      BY <2>5, <2>7 DEF StillOut, IsOut
    <3> HIDE DEF q
    <3>4. StillOut(s, q, g)
      BY <2>5, <3>1, <3>2, <3>3 DEF StillOut, IsOut, MixerOnly
    <3> QED BY <1>1, <2>3, <2>4, <2>7, <3>4
  <2> QED BY <2>4, <2>6, <2>7
<1> QED BY <1>2, <1>3

\* Nor do all four.
LEMMA VisitAllOut ==
  ASSUME NEW m \in Mixes, NEW s, Sound(s, m), NEW g, IsOut(s, g)
  PROVE  StillOut(s, VisitAll(s), g)
<1> DEFINE a == Visit(s, 1)
           b == Visit(a, 2)
           c == Visit(b, 3)
<1>1. Sound(a, m) /\ StillOut(s, a, g)
  BY VisitSound, VisitOut
<1> HIDE DEF a
<1>2. Sound(b, m) /\ StillOut(s, b, g)
  BY <1>1, VisitSound, VisitOut DEF StillOut
<1> HIDE DEF b
<1>3. Sound(c, m) /\ StillOut(s, c, g)
  BY <1>2, VisitSound, VisitOut DEF StillOut
<1> HIDE DEF c
<1>4. StillOut(c, Visit(c, 4), g) /\ VisitAll(s) = Visit(c, 4)
  BY <1>3, VisitOut DEF VisitAll, StillOut, a, b, c
<1> QED BY <1>3, <1>4 DEF StillOut

\* Playback is in one stretch at a time, so the one let go of is followed as
\* such, or none is.
LEMMA FollowOut ==
  ASSUME StretchesApart, NEW m \in Mixes, NEW s, Sound(s, m), NEW g, IsOut(s, g),
         ~s.bypass
  PROVE  StillOut(s, Follow(s), g)
<1> DEFINE a == Here(s)
<1>1. s.pos \in Nat /\ g \in Paired /\ Within(g, s.pos) /\ ~s.repeat
      /\ (s.active = g \/ s.released = g)
  BY Numbers DEF Sound, States, Positions, IsOut
<1>2. \A k \in Paired : From[k] \in Nat /\ To[k] \in Nat
  BY StretchTypes, Numbers DEF Positions
<1>3. a = None \/ a = g
  <2>1. a = None \/ (a \in Paired /\ Within(a, s.pos))
    BY HereType
  <2> HIDE DEF a
  <2> QED BY <1>1, <1>2, <2>1 DEF StretchesApart, Within
<1>4. StillOut(s, s, g)
  BY DEF StillOut
<1>5. CASE a = None
  <2>1. CASE s.active # None /\ s.pos >= To[s.active]
    <3>1. s.active \in Paired /\ s.active # g
      BY <1>1, <1>2, <2>1 DEF Sound, States, SlotOrNone, Within
    <3>2. s.released = g
      BY <1>1, <3>1
    <3> DEFINE r == RestoreIf(s.active # None \/ Holds(s), s)
    <3>3. Sound(r, m) /\ MixerOnly(s, r)
      BY RestoreIfSound, RestoresMixerOnly
    <3>4. Follow(s) = [r EXCEPT !.active = None]
      BY <1>5, <2>1 DEF Follow, Dropped
    <3> HIDE DEF r
    <3> DEFINE d == [r EXCEPT !.active = None]
    <3>5. /\ d.play = r.play /\ d.pos = r.pos /\ d.repeat = r.repeat /\ d.armed = r.armed
          /\ d.released = r.released /\ d.paused = r.paused /\ d.queued = r.queued
          /\ d.bypass = r.bypass /\ d.request = r.request
      BY <3>3 DEF Sound, States
    <3> HIDE DEF d
    <3>6. StillOut(s, d, g)
      BY <3>2, <3>3, <3>5 DEF StillOut, IsOut, MixerOnly
    <3> QED BY <3>4, <3>6 DEF d
  <2>2. CASE ~(s.active # None /\ s.pos >= To[s.active])
    BY <1>4, <1>5, <2>2 DEF Follow
  <2> QED BY <2>1, <2>2
<1>6. CASE a = g /\ a # None
  <2>1. Follow(s) = s \/ (s.active = g /\ Follow(s) = LetGo(s, g, To[g]))
    BY <1>1, <1>6 DEF Follow
  <2> DEFINE r == [s EXCEPT !.active = None, !.released = g]
             f == [r EXCEPT !.out = FALSE, !.in = TRUE, !.from = s.pos, !.to = To[g]]
  <2>2. LetGo(s, g, To[g]) \in {r, f}
    BY DEF LetGo
  <2>3. StillOut(s, r, g) /\ StillOut(s, f, g)
    BY <1>1 DEF Sound, States, StillOut, IsOut
  <2> HIDE DEF r, f
  <2> QED BY <1>4, <2>1, <2>2, <2>3
<1> QED BY <1>3, <1>5, <1>6

\* Bypass drops the loop.
LEMMA SilencedOut ==
  ASSUME NEW m \in Mixes, NEW s, Sound(s, m), NEW g \in Paired,
         Within(g, s.pos), s.play # "stopped", ~s.repeat, s.armed = None,
         s.bypass, s.request = "none"
  PROVE  StillOut(s, Silenced(s), g)
<1> DEFINE n == IF s.active # None THEN NoLoop(s) ELSE s
           r == RestoreIf(n.active # None \/ Holds(n), n)
           d == [r EXCEPT !.active = None]
           z == [d EXCEPT !.released = None]
<1>1. Sound(n, m) /\ n \in States
  BY LoopSound DEF Sound
<1>2. /\ n.play = s.play /\ n.pos = s.pos /\ ~n.repeat /\ n.armed = None
      /\ n.bypass /\ n.request = "none" /\ n.paused = s.paused /\ n.queued = s.queued
  BY DEF Sound, States, NoLoop
<1>3. Silenced(s) = z
  BY DEF Silenced, Dropped
<1> HIDE DEF n
<1>4. Sound(r, m) /\ MixerOnly(n, r)
  BY <1>1, RestoreIfSound, RestoresMixerOnly
<1> HIDE DEF r
<1>5. /\ z.play = r.play /\ z.pos = r.pos /\ z.repeat = r.repeat /\ z.armed = r.armed
      /\ z.bypass = r.bypass /\ z.request = r.request
      /\ z.paused = r.paused /\ z.queued = r.queued
  BY <1>4 DEF Sound, States
<1> HIDE DEF z
<1> QED BY <1>2, <1>3, <1>4, <1>5 DEF StillOut, IsOut, MixerOnly

\* A call of the Multiloops.
LEMMA ProcessLoopsOut ==
  ASSUME StretchesApart, NEW m \in Mixes, NEW s, Sound(s, m), NEW g, IsOut(s, g),
         s.play = "playing"
  PROVE  LET r == ProcessLoops(s)
         IN  IsOut(r, g) /\ r.play = s.play /\ r.paused = s.paused /\ r.queued = s.queued
<1> DEFINE on == CASE s.request = "toggle" -> ~s.bypass
                   [] s.request = "none"   -> s.bypass
                   [] OTHER                -> s.request = "on"
           q == [s EXCEPT !.request = "none", !.bypass = on]
           r == TakeRequest(s)
<1>1. on \in BOOLEAN /\ (s.request = "none" => on = s.bypass)
  BY DEF Sound, States
<1>2. r = IF on /\ ~s.bypass THEN Silenced(q) ELSE q
  BY DEF TakeRequest
<1> HIDE DEF on
<1>3. q \in States /\ Same(s, q)
  BY <1>1 DEF Sound, States, Same
<1>4. Sound(q, m)
  BY <1>3, SameSound
<1>5. /\ q.play = s.play /\ q.pos = s.pos /\ q.repeat = s.repeat /\ q.armed = s.armed
      /\ q.active = s.active /\ q.released = s.released /\ q.request = "none"
      /\ q.bypass = on /\ q.paused = s.paused /\ q.queued = s.queued
  BY <1>1 DEF Sound, States
<1> HIDE DEF q
<1>6. /\ g \in Paired /\ Within(g, s.pos) /\ ~s.repeat /\ s.armed = None
      /\ s.play # "stopped" /\ s.pos \in Nat /\ s.pos < SongEnd
  <2>1. g \in Paired /\ Within(g, s.pos) /\ s.pos \in Nat
    BY Numbers DEF IsOut, Sound, States, Positions
  <2>2. To[g] <= SongEnd /\ To[g] \in Nat
    BY <2>1, MultiLoopSlots
  <2> QED BY <2>1, <2>2, Numbers DEF IsOut, Within
<1>7. /\ Sound(r, m) /\ IsOut(r, g) /\ r.play = s.play /\ r.pos = s.pos
      /\ r.request = "none" /\ r.paused = s.paused /\ r.queued = s.queued
  <2>1. CASE on /\ ~s.bypass
    <3>1. StillOut(q, Silenced(q), g)
      BY <1>4, <1>5, <1>6, <2>1, SilencedOut
    <3> QED BY <1>2, <1>4, <1>5, <2>1, <3>1, SilencedSound DEF StillOut
  <2>2. CASE ~(on /\ ~s.bypass)
    <3>1. IsOut(q, g)
      BY <1>1, <1>5, <2>2 DEF IsOut
    <3> QED BY <1>2, <1>4, <1>5, <2>2, <3>1
  <2> QED BY <2>1, <2>2
<1>9. ProcessLoops(s) = IF r.bypass THEN Silenced(r)
                        ELSE Follow(FadeIn(FadeOut(VisitAll(r))))
  BY <1>6, <1>7, Numbers DEF ProcessLoops
<1> HIDE DEF r
<1>10. CASE r.bypass
  <2>1. StillOut(r, Silenced(r), g)
    BY <1>7, <1>10, SilencedOut DEF StillOut, IsOut
  <2> QED BY <1>7, <1>9, <1>10, <2>1 DEF StillOut
<1>11. CASE ~r.bypass
  <2> DEFINE v == VisitAll(r)
             o == FadeOut(v)
             i == FadeIn(o)
  <2>1. Sound(v, m) /\ StillOut(r, v, g)
    BY <1>7, VisitAllSound, VisitAllOut DEF StillOut
  <2>2. ~v.bypass
    BY <1>11, <2>1 DEF StillOut
  <2> HIDE DEF v
  <2>3. Sound(o, m) /\ MixerOnly(v, o)
    BY <2>1, FadeOutSound, FadersMixerOnly
  <2> HIDE DEF o
  <2>4. Sound(i, m) /\ MixerOnly(o, i)
    BY <2>3, FadeInSound, FadersMixerOnly
  <2> HIDE DEF i
  <2>5. StillOut(r, i, g) /\ ~i.bypass
    BY <2>1, <2>2, <2>3, <2>4 DEF StillOut, IsOut, MixerOnly
  <2>6. StillOut(i, Follow(i), g)
    BY <2>4, <2>5, FollowOut DEF StillOut
  <2>7. ProcessLoops(s) = Follow(i)
    BY <1>9, <1>11 DEF i, o, v
  <2> QED BY <1>7, <2>5, <2>6, <2>7 DEF StillOut
<1> QED BY <1>10, <1>11

\* What is left of a seen pause after a call of the timer.
PauseSeen(s) == s.paused.on => ~s.paused.moved /\ s.play = "paused" /\ s.pos = s.paused.at

\* A call of the timer for the Multiloops sees a pause as one, and not as a jump.
LEMMA LoopTickOut ==
  ASSUME StretchesApart, NEW m \in Mixes, NEW s, Sound(s, m), NEW g, IsOut(s, g),
         NEW played \in Nat, played <= ResumeTol, PauseHolds(s, played), NEW late
  PROVE  LET r == LoopTick(s, late)
         IN  IsOut(r, g) /\ PauseSeen(r) /\ r.play = s.play /\ r.queued = s.queued
<1>1. s.pos \in Nat /\ s.paused.at \in Nat /\ s.paused.on \in BOOLEAN /\ s.paused.moved \in BOOLEAN
      /\ ResumeTol \in Nat /\ s \in States
  BY Numbers, MultiLoopNumbers DEF Sound, States, Positions
<1>2. CASE s.play = "paused"
  <2> DEFINE moved == s.paused.on /\ (s.paused.moved \/ s.pos # s.paused.at)
             at == IF s.paused.on THEN s.paused.at ELSE s.pos
             p == [on |-> TRUE, moved |-> moved, at |-> at]
  <2>1. ~moved /\ at = s.pos
    BY <1>1, <1>2 DEF PauseHolds
  <2>2. LoopTick(s, late) = [s EXCEPT !.paused = p]
    BY <1>2 DEF LoopTick, SeePause
  <2>3. p.on /\ ~p.moved /\ p.at = s.pos
    BY <2>1
  <2> HIDE DEF p
  <2> DEFINE r == [s EXCEPT !.paused = p]
  <2>4. /\ r.play = s.play /\ r.pos = s.pos /\ r.repeat = s.repeat /\ r.armed = s.armed
        /\ r.active = s.active /\ r.released = s.released
        /\ r.bypass = s.bypass /\ r.request = s.request
        /\ r.paused = p /\ r.queued = s.queued
    BY <1>1 DEF States
  <2> HIDE DEF r
  <2> QED BY <1>2, <2>2, <2>3, <2>4 DEF IsOut, PauseSeen, r
<1>3. CASE s.play # "paused"
  <2> DEFINE p == [on |-> FALSE, moved |-> FALSE, at |-> 0]
             r == [s EXCEPT !.paused = p]
             f == [r EXCEPT !.fresh = 0]
  <2>1. s.play = "playing"
    BY <1>1, <1>3 DEF States, IsOut
  <2>2. ~(s.paused.on /\ (s.paused.moved \/ Apart(s.pos, s.paused.at)))
    BY <1>1, <1>3 DEF PauseHolds, Apart
  <2>3. SeeResume(s) = r
    BY <2>1, <2>2 DEF SeeResume
  <2>4. LoopTick(s, late) = IF late THEN r ELSE ProcessLoops(f)
    BY <1>3, <2>3 DEF LoopTick
  <2>5. p \in [on : BOOLEAN, moved : BOOLEAN, at : Positions] /\ ~p.on
    BY Numbers DEF Positions
  <2> HIDE DEF p
  <2>6. Sound(r, m)
    BY <2>5, PausedSound
  <2>7. /\ r.play = s.play /\ r.pos = s.pos /\ r.repeat = s.repeat /\ r.armed = s.armed
        /\ r.active = s.active /\ r.released = s.released
        /\ r.bypass = s.bypass /\ r.request = s.request
        /\ r.paused = p /\ r.queued = s.queued
    BY <1>1 DEF States
  <2> HIDE DEF r
  <2>8. IsOut(r, g) /\ PauseSeen(r)
    BY <2>5, <2>7 DEF IsOut, PauseSeen
  <2>9. Sound(f, m)
    BY <2>6, FreshSound
  <2>10. /\ f.play = r.play /\ f.pos = r.pos /\ f.repeat = r.repeat /\ f.armed = r.armed
         /\ f.active = r.active /\ f.released = r.released
         /\ f.bypass = r.bypass /\ f.request = r.request
         /\ f.paused = r.paused /\ f.queued = r.queued
    BY <2>6 DEF Sound, States
  <2> HIDE DEF f
  <2>11. IsOut(f, g) /\ f.play = "playing"
    BY <2>1, <2>7, <2>8, <2>10 DEF IsOut
  <2> DEFINE l == ProcessLoops(f)
  <2>12. IsOut(l, g) /\ l.play = f.play /\ l.paused = f.paused /\ l.queued = f.queued
    BY <2>9, <2>11, ProcessLoopsOut
  <2> HIDE DEF l
  <2>13. IsOut(l, g) /\ PauseSeen(l) /\ l.play = s.play /\ l.queued = s.queued
    BY <2>5, <2>7, <2>10, <2>12 DEF PauseSeen
  <2> QED BY <2>4, <2>7, <2>8, <2>13 DEF l
<1> QED BY <1>2, <1>3

\* The fade-out changes the mixer only, unless it stops playback.
LEMMA UpdateFadeOut ==
  ASSUME NEW m \in Mixes, NEW s, Sound(s, m), UpdateFade(s).play # "stopped"
  PROVE  MixerOnly(s, UpdateFade(s))
<1>1. MixerOnly(s, s) /\ MixerOnly(s, RestoreFade(s)) /\ MixerOnly(s, Returning(s))
  BY DEF Sound, States, RestoreFade, Returning, MixerOnly
<1>2. CASE s.fade.state = "active" /\ s.play = "playing"
  <2> DEFINE age == Least(s.fade.age, FadeLen)
             vol == RampTo(s, age)
             r == [s EXCEPT !.vol = vol]
             q == [Returning(r) EXCEPT !.fresh = 0]
             c == ClearLoops(q)
             h == [c EXCEPT !.play = "stopped", !.queued = FALSE]
  <2>1. UpdateFade(s) \in {r, h}
    BY <1>2 DEF UpdateFade, Ramp, HardStop
  <2> HIDE DEF vol, c
  <2>2. MixerOnly(s, r)
    BY DEF Sound, States, MixerOnly
  <2> HIDE DEF r
  <2>3. CASE UpdateFade(s) = h
    <3>1. UpdateFade(s) \in States
      BY UpdateFadeSound DEF Sound
    <3>2. h \in States /\ "play" \in DOMAIN h /\ DOMAIN h = DOMAIN c
      BY <2>3, <3>1 DEF States
    <3> QED BY <2>3, <3>2
  <2> QED BY <2>1, <2>2, <2>3
<1>3. CASE ~(s.fade.state = "active" /\ s.play = "playing")
  BY <1>1, <1>3 DEF UpdateFade
<1> QED BY <1>2, <1>3

\* The engine finds no part to arrive at, and nothing to prepare unless a queue
\* is taken.
LEMMA EngineOut ==
  ASSUME NEW m \in Mixes, NEW s, Sound(s, m), NEW g, IsOut(s, g), PauseSeen(s), NEW hushed,
         ~(s.queued /\ ~Engine(s, hushed).queued)
  PROVE  IsOut(Engine(s, hushed), g) /\ PauseSeen(Engine(s, hushed))
<1>1. s.armed = None
  BY DEF IsOut
<1> DEFINE p == PrepareStop(s, hushed)
           c == ClearLoops(s)
<1>2. p = s \/ (s.queued /\ p = [c EXCEPT !.queued = FALSE])
  BY DEF PrepareStop
<1>3. Sound(c, m) /\ Sound(p, m)
  BY ClearLoopsSound, PrepareStopSound
<1>4. p = s
  <2>1. SUFFICES ASSUME s.queued, p = [c EXCEPT !.queued = FALSE] PROVE FALSE
    BY <1>2
  <2> HIDE DEF c, p
  <2>2. p.queued = FALSE /\ p \in States
    BY <1>3, <2>1 DEF Sound, States
  <2>3. c.armed = None
    <3> DEFINE e == RestoreIf(s.active # None \/ Holds(s) \/ s.out \/ s.in, NoLoop(s))
    <3>1. c = [e EXCEPT !.active = None, !.released = None, !.armed = None]
      BY DEF c, ClearLoops
    <3>2. "armed" \in DOMAIN c
      BY <1>3 DEF Sound, States
    <3> HIDE DEF e, c
    <3>3. DOMAIN c = DOMAIN e
      BY <3>1
    <3> QED BY <3>1, <3>2, <3>3
  <2>4. p.armed = None
    BY <1>3, <2>1, <2>3 DEF Sound, States
  <2>5. ArriveAtPart(p) = p
    BY <2>4 DEF ArriveAtPart, PartReached
  <2>6. Engine(s, hushed) = [p EXCEPT !.seen = (s.play = "playing")]
    BY <2>5 DEF Engine, p
  <2>7. Engine(s, hushed).queued = FALSE
    BY <2>2, <2>6 DEF States
  <2> QED BY <2>1, <2>7
<1>5. ArriveAtPart(p) = s
  BY <1>1, <1>4 DEF ArriveAtPart, PartReached
<1> DEFINE e == [s EXCEPT !.seen = (s.play = "playing")]
<1>6. Engine(s, hushed) = e
  BY <1>5 DEF Engine
<1>7. MixerOnly(s, e)
  BY DEF Sound, States, MixerOnly
<1> HIDE DEF e
<1>8. IsOut(e, g) /\ PauseSeen(e)
  BY <1>7, MixerOnlyOut DEF StillOut, MixerOnly, PauseSeen
<1> QED BY <1>6, <1>8

\* The invariant behind LetOut.
LetGoInv == letGo # None => IsOut(st, letGo) /\ PauseHolds(st, lag)

\* What becomes of it in a step.
LetGoHeld == letGo' # None => IsOut(st', letGo') /\ PauseHolds(st', lag')

\* A call of the timer.
LEMMA CycleOut ==
  ASSUME StretchesApart, MaxLag <= ResumeTol, IInv, LetGoInv, Cycle
  PROVE  LetGoHeld
<1>1. PICK late \in IF st.fresh > 0 THEN BOOLEAN ELSE {FALSE}, engine \in BOOLEAN,
           hushed \in BOOLEAN : st' = Timer(st, late, engine, hushed)
  BY DEF Cycle
<1>2. /\ letGo' = IF st.queued /\ ~st'.queued THEN None ELSE Stays(st')
      /\ lag' = 0
  BY DEF Cycle
<1> SUFFICES ASSUME letGo' # None PROVE IsOut(st', letGo') /\ PauseHolds(st', 0)
  BY <1>2 DEF LetGoHeld
<1>3. /\ letGo' = letGo /\ letGo # None /\ st'.play # "stopped"
      /\ ~(st.queued /\ ~st'.queued)
  BY <1>2 DEF Stays
<1> DEFINE g == letGo
           u == UpdateFade(st)
           l == LoopTick(u, late)
<1>4. Sound(u, mix.vol) /\ Sound(l, mix.vol) /\ mix.vol \in Mixes /\ Sound(st, mix.vol)
  BY Ready, UpdateFadeSound, LoopTickSound
<1>5. st' = IF engine THEN Engine(l, hushed) ELSE l
  BY <1>1 DEF Timer
<1>6. Calm(u, l) /\ Calm(l, Engine(l, hushed))
  BY <1>4, LoopTickCalm, EngineCalm
<1>7. u.play # "stopped"
  BY <1>3, <1>5, <1>6 DEF Calm
<1>8. MixerOnly(st, u)
  BY <1>4, <1>7, UpdateFadeOut
<1>9. IsOut(u, g) /\ PauseHolds(u, lag) /\ u.queued = st.queued
  BY <1>3, <1>8, MixerOnlyOut DEF LetGoInv, StillOut, PauseHolds, MixerOnly
<1>10. lag \in Nat /\ lag <= ResumeTol
  BY Numbers, MultiLoopNumbers DEF IInv, StageTypeOK
<1> HIDE DEF u
<1>11. IsOut(l, g) /\ PauseSeen(l) /\ l.queued = st.queued
  BY <1>4, <1>9, <1>10, LoopTickOut
<1> HIDE DEF l
<1>12. IsOut(st', g) /\ PauseSeen(st')
  BY <1>3, <1>4, <1>5, <1>11, EngineOut
<1> QED BY <1>3, <1>12 DEF PauseSeen, PauseHolds

\* Time passes: playback goes on in the stretch or leaves it.
LEMMA TickOut ==
  ASSUME IInv, LetGoInv, Tick
  PROVE  LetGoHeld
<1> DEFINE age == IF st.fade.state = "idle" THEN 0 ELSE Least(st.fade.age + 1, MaxAge)
           since == Least(st.sinceCancel + 1, CancelWindow)
           fresh == IF st.fresh > 0 THEN st.fresh - 1 ELSE 0
<1>1. PICK p \in NextPositions(st) :
        st' = [st EXCEPT !.pos = p, !.fade.age = age, !.sinceCancel = since, !.fresh = fresh]
  BY DEF Tick
<1>2. letGo' = Stays(st') /\ lag' = lag + 1 /\ lag \in Nat
  BY Numbers DEF Tick, IInv, StageTypeOK
<1> SUFFICES ASSUME letGo' # None PROVE IsOut(st', letGo') /\ PauseHolds(st', lag')
  BY DEF LetGoHeld
<1>3. letGo' = letGo /\ letGo # None /\ Within(letGo, st'.pos)
  BY <1>2 DEF Stays
<1>4. IsOut(st, letGo) /\ PauseHolds(st, lag)
  BY <1>3 DEF LetGoInv
<1> HIDE DEF age, since, fresh
<1>5. /\ st'.play = st.play /\ st'.pos = p /\ st'.repeat = st.repeat /\ st'.armed = st.armed
      /\ st'.active = st.active /\ st'.released = st.released
      /\ st'.bypass = st.bypass /\ st'.request = st.request /\ st'.paused = st.paused
  BY <1>1, Ready DEF Sound, States
<1>6. /\ st.pos \in Nat /\ st.pos <= MaxPos /\ st.paused.at \in Nat /\ MaxPos \in Nat
  BY Ready, Numbers DEF Sound, States, Positions
<1>7. IF st.play = "playing" THEN p \in {st.pos, st.pos + 1} ELSE p = st.pos
  BY <1>4, <1>6 DEF NextPositions, IsOut, Least
<1>8. PauseHolds(st', lag')
  <2>1. ASSUME st.paused.on, st.play # "paused"
        PROVE  p - st.paused.at \in 0..(lag + 1)
    <3>1. st.pos - st.paused.at \in 0..lag
      BY <1>4, <2>1 DEF PauseHolds
    <3> QED BY <1>2, <1>6, <1>7, <3>1
  <2> QED BY <1>2, <1>4, <1>5, <1>7, <2>1 DEF PauseHolds
<1> QED BY <1>3, <1>4, <1>5, <1>8 DEF IsOut

\* The commands of the transport.
LEMMA TransportOut ==
  ASSUME IInv, LetGoInv, \/ Stop \/ BreakStop \/ HookedStop \/ ReaperStops \/ ProjectEnds
                         \/ Play \/ HookedPlay \/ Pause \/ Seek
  PROVE  LetGoHeld
<1>1. CASE HookedStop \/ ReaperStops \/ ProjectEnds \/ Play \/ HookedPlay \/ Seek
  BY <1>1 DEF HookedStop, ReaperStops, ProjectEnds, Play, HookedPlay, Seek, LetGoHeld
<1>2. ASSUME NEW s, Sound(s, mix.vol)
      PROVE  HardStop(s).play = "stopped"
  <2> DEFINE c == ClearLoops(s)
             h == [c EXCEPT !.play = "stopped", !.queued = FALSE]
  <2>1. Sound(c, mix.vol) /\ HardStop(s) = h
    BY <1>2, Ready, ClearLoopsSound DEF HardStop
  <2> HIDE DEF c
  <2>2. h.play = "stopped"
    BY <2>1 DEF Sound, States
  <2> QED BY <2>1, <2>2
<1> DEFINE r == [st EXCEPT !.fresh = 0]
<1>3. Sound(r, mix.vol) /\ Sound(st, mix.vol) /\ mix.vol \in Mixes
  BY Ready, FreshSound
<1>4. MixerOnly(st, r)
  BY <1>3 DEF Sound, States, MixerOnly
<1>5. ASSUME MixerOnly(st, st'), letGo' = letGo, lag' = lag
      PROVE  LetGoHeld
  BY <1>5, MixerOnlyOut DEF LetGoInv, LetGoHeld, StillOut, PauseHolds, MixerOnly
<1>6. CASE Stop
  <2> DEFINE q == RestoreFade(r)
             z == [q EXCEPT !.sinceCancel = 0]
             f == StartFade(r)
  <2>1. st' \in {r, z, f, HardStop(r)} /\ letGo' = Stays(st') /\ lag' = lag
    BY <1>6 DEF Stop, Makes, StopCommand, FadeStop
  <2> HIDE DEF r
  <2>2. MixerOnly(r, q) /\ MixerOnly(r, f)
    BY <1>3 DEF Sound, States, RestoreFade, StartFade, MixerOnly
  <2>3. MixerOnly(r, z)
    BY <1>3 DEF Sound, States, RestoreFade, MixerOnly
  <2> HIDE DEF z, f, q
  <2>4. CASE st' = HardStop(r)
    BY <1>2, <1>3, <2>1, <2>4 DEF Stays, LetGoHeld
  <2>5. CASE st' \in {r, z, f}
    <3>1. MixerOnly(st, st')
      BY <1>4, <2>2, <2>3, <2>5 DEF MixerOnly
    <3>2. letGo' = None \/ letGo' = letGo
      BY <2>1 DEF Stays
    <3> QED BY <1>5, <2>1, <3>1, <3>2 DEF LetGoHeld
  <2> QED BY <2>1, <2>4, <2>5
<1>7. CASE BreakStop
  <2>1. /\ letGo' = Stays(st')
        /\ st' = IF st.play = "stopped" THEN r ELSE HardStop(BreakFade(r))
    BY <1>7 DEF BreakStop, Makes, StopBreak
  <2> HIDE DEF r
  <2>2. st'.play = "stopped"
    BY <1>2, <1>3, <1>4, <2>1, BreakFadeSound DEF MixerOnly
  <2> QED BY <2>1, <2>2 DEF Stays, LetGoHeld
<1>8. CASE Pause
  <2> DEFINE play == IF st.play = "playing" THEN "paused" ELSE "playing"
  <2>1. PICK fresh \in {st.fresh, 0} :
          /\ st.play # "stopped"
          /\ Makes("pause", [st EXCEPT !.play = play, !.fresh = fresh])
          /\ letGo' = IF st.play = "playing" /\ st.paused.on THEN None ELSE letGo
    BY <1>8 DEF Pause
  <2> SUFFICES ASSUME letGo' # None PROVE IsOut(st', letGo') /\ PauseHolds(st', lag')
    BY DEF LetGoHeld
  <2>2. st' = [st EXCEPT !.play = play, !.fresh = fresh] /\ lag' = lag /\ letGo' = letGo
        /\ (st.play = "playing" => ~st.paused.on)
    BY <2>1, <1>3 DEF Makes
  <2>3. st.play \in {"playing", "paused"} /\ play # "stopped"
        /\ (st.play = "paused" <=> play # "paused")
    BY <1>3, <2>1 DEF Sound, States
  <2> HIDE DEF play
  <2>4. /\ st'.play = play /\ st'.pos = st.pos /\ st'.repeat = st.repeat /\ st'.armed = st.armed
        /\ st'.active = st.active /\ st'.released = st.released
        /\ st'.bypass = st.bypass /\ st'.request = st.request /\ st'.paused = st.paused
    BY <1>3, <2>2 DEF Sound, States
  <2>5. IsOut(st, letGo) /\ PauseHolds(st, lag)
    BY <2>2 DEF LetGoInv
  <2>6. IsOut(st', letGo')
    BY <2>2, <2>3, <2>4, <2>5 DEF IsOut
  <2>7. st.pos \in Nat /\ st.paused.at \in Nat /\ lag \in Nat
    BY <1>3, Numbers DEF Sound, States, Positions, IInv, StageTypeOK
  <2>8. PauseHolds(st', lag')
    BY <2>2, <2>3, <2>4, <2>5, <2>7 DEF PauseHolds
  <2> QED BY <2>6, <2>8
<1> QED BY <1>1, <1>6, <1>7, <1>8

\* The commands that let go of a stretch, and those that start over.
LEMMA LoopsOut ==
  ASSUME IInv, LetGoInv, \/ LoopOn \/ LoopOff \/ SlotOff
                         \/ RequestBypass \/ GoToPart \/ ReleaseControl
  PROVE  LetGoHeld
<1>1. CASE LoopOn \/ RequestBypass \/ GoToPart \/ ReleaseControl
  BY <1>1 DEF LoopOn, RequestBypass, GoToPart, ReleaseControl, LetGoHeld
<1>2. Sound(st, mix.vol) /\ mix.vol \in Mixes /\ st \in States
  BY Ready DEF Sound
<1>3. /\ InActive # None => /\ InActive = st.active /\ st.active \in Paired
                             /\ Within(st.active, st.pos) /\ st.play # "stopped"
                             /\ st.armed = None /\ ~st.paused.on
  BY <1>2 DEF InActive, States, SlotOrNone
<1>4. CASE LoopOff
  <2>1. st' = NoLoop(st) /\ letGo' = InActive /\ lag' = lag
    BY <1>4 DEF LoopOff, Makes
  <2>2. /\ st'.play = st.play /\ st'.pos = st.pos /\ ~st'.repeat /\ st'.armed = st.armed
        /\ st'.active = st.active /\ st'.paused = st.paused
    BY <1>2, <2>1 DEF States, NoLoop
  <2> QED BY <1>3, <2>1, <2>2 DEF LetGoHeld, IsOut, PauseHolds
<1>5. CASE SlotOff
  <2> DEFINE r(k) == [st EXCEPT !.enabled[k] = FALSE, !.msOn[k] = FALSE]
             quiet(k) == [NoLoop(r(k)) EXCEPT !.ms = Unmuted(st), !.mutes = NoRows]
             end(k) == IF st.pos < To[k] THEN To[k] ELSE st.pos + 1
  <2>1. PICK k \in Paired :
          /\ Makes("slot", IF st.active = k THEN LetGo(quiet(k), k, end(k)) ELSE r(k))
          /\ letGo' = IF st.active = k THEN InActive ELSE letGo
    BY <1>5 DEF SlotOff
  <2>2. lag' = lag /\ st' = IF st.active = k THEN LetGo(quiet(k), k, end(k)) ELSE r(k)
    BY <2>1 DEF Makes
  <2>3. CASE st.active # k
    <3>1. MixerOnly(st, r(k))
      BY <1>2 DEF States, MixerOnly
    <3> HIDE DEF r
    <3> QED BY <2>1, <2>2, <2>3, <3>1, MixerOnlyOut
            DEF LetGoInv, LetGoHeld, StillOut, PauseHolds, MixerOnly
  <2>4. CASE st.active = k
    <3>1. /\ quiet(k).play = st.play /\ quiet(k).pos = st.pos /\ ~quiet(k).repeat
          /\ quiet(k).armed = st.armed /\ quiet(k).paused = st.paused
      BY <1>2 DEF States, NoLoop
    <3> DEFINE e == [quiet(k) EXCEPT !.active = None, !.released = k]
               f == [e EXCEPT !.out = FALSE, !.in = TRUE, !.from = quiet(k).pos, !.to = end(k)]
    <3>2. st' \in {e, f}
      BY <2>2, <2>4 DEF LetGo
    <3>3. /\ e.play = st.play /\ e.pos = st.pos /\ ~e.repeat
          /\ e.armed = st.armed /\ e.paused = st.paused /\ e.released = k
      BY <1>2 DEF States, NoLoop
    <3>4. /\ f.play = st.play /\ f.pos = st.pos /\ ~f.repeat
          /\ f.armed = st.armed /\ f.paused = st.paused /\ f.released = k
      BY <1>2 DEF States, NoLoop
    <3> HIDE DEF e, f, quiet, end
    <3> QED BY <1>3, <2>1, <2>2, <2>4, <3>2, <3>3, <3>4 DEF LetGoHeld, IsOut, PauseHolds
  <2> QED BY <2>3, <2>4
<1> QED BY <1>1, <1>4, <1>5

\* The commands that do not concern playback.
LEMMA OthersOut ==
  ASSUME IInv, LetGoInv, \/ SlotOn \/ ToggleMs \/ SetLimit \/ Queue \/ DisarmPart \/ Mix
                         \/ UNCHANGED vars
  PROVE  LetGoHeld
<1>1. /\ st'.play = st.play /\ st'.pos = st.pos /\ st'.repeat = st.repeat
      /\ st'.armed \in {st.armed, None}
      /\ st'.active = st.active /\ st'.released = st.released
      /\ st'.bypass = st.bypass /\ st'.request = st.request /\ st'.paused = st.paused
  <2>1. st \in States
    BY Ready DEF Sound
  <2>2. CASE SlotOn \/ ToggleMs \/ Queue \/ DisarmPart
    BY <2>1, <2>2 DEF SlotOn, ToggleMs, Queue, DisarmPart, Makes, States
  <2>3. CASE Mix
    BY <2>1, <2>3 DEF Mix, States
  <2>4. CASE SetLimit
    <3> DEFINE r(k, t, v) == [st EXCEPT !.limit[k][t] = v]
               target(t, v) == FadeTarget(st.rows[t][1].vol, v)
               heard(k, t) == t \in AutoTracks[k] /\ st.active = k /\ st.rows[t] # <<>>
               h(k, t, v) == [r(k, t, v) EXCEPT !.rows[t][1].target = target(t, v),
                                                !.vol[t] = target(t, v)]
    <3>1. PICK k \in Paired, t \in Tracks, v \in Levels :
            st' = IF heard(k, t) THEN h(k, t, v) ELSE r(k, t, v)
      BY <2>4 DEF SetLimit, Makes
    <3> HIDE DEF target, heard
    <3>2. MixerOnly(st, r(k, t, v)) /\ MixerOnly(st, h(k, t, v))
      BY <2>1 DEF States, MixerOnly
    <3> HIDE DEF r, h
    <3> QED BY <3>1, <3>2 DEF MixerOnly
  <2>5. CASE UNCHANGED vars
    BY <2>5 DEF vars
  <2> QED BY <2>2, <2>3, <2>4, <2>5
<1>2. letGo' = letGo /\ lag' = lag
  BY DEF SlotOn, ToggleMs, SetLimit, Queue, DisarmPart, Mix, Makes, vars
<1> QED BY <1>1, <1>2 DEF LetGoInv, LetGoHeld, IsOut, PauseHolds

\* A stretch the operator let go of does not begin to repeat again while playback
\* stays in it (70915-70945), when no two stretches overlap and the timer is called
\* often enough to tell a pause from a jump.
THEOREM LetOutHolds ==
  ASSUME StretchesApart, MaxLag <= ResumeTol
  PROVE  Spec => []LetOut
<1>1. Init => LetGoInv
  BY DEF Init, LetGoInv
<1>2. IInv /\ LetGoInv /\ [Next]_vars => LetGoInv'
  <2> SUFFICES ASSUME IInv, LetGoInv, [Next]_vars PROVE LetGoHeld
    BY DEF LetGoHeld, LetGoInv
  <2> QED BY CycleOut, TickOut, TransportOut, LoopsOut, OthersOut DEF Next
<1>3. LetGoInv => LetOut
  BY DEF LetGoInv, LetOut, IsOut
<1>4. Spec => []IInv
  BY SoundAlways
<1> QED BY <1>1, <1>2, <1>3, <1>4, PTL DEF Spec

-----------------------------------------------------------------------------
(* What is given back is what the operator set                               *)

\* No Multiloop fades a track that is chosen for the fade-out of a Stop.
FadersApart == \A k \in Paired : AutoTracks[k] \cap Fading = {}

\* Neither a stretch nor its lead begins before another one ends.
LeadsApart == \A j, k \in Paired : j # k => To[j] <= From[k] - Lead[k] \/ To[k] <= From[j]

Desks == [vol : Mixes, ms : [Tracks -> BOOLEAN]]

\* Of every track at most one row is held, and it is what the operator set; a
\* track nobody holds is heard as it was set.
RowsHeld(s, m) == \A t \in Tracks : s.rows[t] # <<>> =>
  t \notin Fading /\ Len(s.rows[t]) = 1 /\ s.rows[t][1].vol = m.vol[t]
FreeHeard(s, m) == \A t \in Tracks :
  s.rows[t] = <<>> /\ (t \in Fading => s.fade.state = "idle") => s.vol[t] = m.vol[t]
FadeHeld(s, m) == s.fade.state # "idle" => \A t \in Fading : s.fade.before[t] = m.vol[t]
MutesHeld(s, m) == \A t \in Tracks :
  IF s.mutes[t] = <<>> THEN s.ms[t] = m.ms[t]
  ELSE Len(s.mutes[t]) = 1 /\ s.mutes[t][1] = m.ms[t]
Held(s, m) == RowsHeld(s, m) /\ FreeHeard(s, m) /\ FadeHeld(s, m) /\ MutesHeld(s, m)

\* What is held belongs to a stretch, or to an Auto Fader on its way.
Owned(s) ==
  /\ HoldsFaders(s) => s.active # None \/ s.out \/ s.in
  /\ HoldsMutes(s) => s.active # None \/ s.released # None
  /\ s.out => s.active = None

\* An Auto Fader goes down only when no mutes are held.
Unmixed(s) == s.out => ~HoldsMutes(s)

Kept(s, m) == Sound(s, m.vol) /\ Held(s, m) /\ Owned(s) /\ Unmixed(s)

\* Nothing is held.
Clear(s, m) ==
  /\ Sound(s, m.vol) /\ Held(s, m)
  /\ ~HoldsFaders(s) /\ ~HoldsMutes(s) /\ (s.out => s.active = None)

\* The two differ neither in the mixer nor in what is held of it.
SameDesk(s, r) ==
  /\ r.rows = s.rows /\ r.mutes = s.mutes /\ r.vol = s.vol /\ r.ms = s.ms
  /\ r.fade = s.fade /\ r.out = s.out /\ r.in = s.in /\ r.from = s.from /\ r.to = s.to

\* A desk is a mix of volumes and of mutes.
LEMMA DeskParts ==
  ASSUME NEW m \in Desks
  PROVE  m.vol \in Mixes /\ m.ms \in [Tracks -> BOOLEAN]
BY DEF Desks

\* Where nothing is held, what is held is kept.
LEMMA ClearKept ==
  ASSUME NEW m, NEW s, Clear(s, m)
  PROVE  Kept(s, m)
BY DEF Clear, Kept, Owned, Unmixed

\* The same mixer holds the same.
LEMMA SameDeskHeld ==
  ASSUME NEW m \in Desks, NEW s, NEW r \in States, Sound(s, m.vol), SameDesk(s, r)
  PROVE  /\ Sound(r, m.vol)
         /\ Held(s, m) => Held(r, m)
         /\ HoldsFaders(r) <=> HoldsFaders(s)
         /\ HoldsMutes(r) <=> HoldsMutes(s)
<1>1. Sound(r, m.vol)
  BY DeskParts, SameSound DEF SameDesk, Same
<1>2. Held(s, m) => Held(r, m)
  BY DEF SameDesk, Held, RowsHeld, FreeHeard, FadeHeld, MutesHeld
<1>3. (HoldsFaders(r) <=> HoldsFaders(s)) /\ (HoldsMutes(r) <=> HoldsMutes(s))
  BY DEF SameDesk, HoldsFaders, HoldsMutes
<1> QED BY <1>1, <1>2, <1>3

\* What differs in nothing that is held, nor in whose it is, is kept as well.
LEMMA SameDeskKept ==
  ASSUME NEW m \in Desks, NEW s, NEW r \in States, Kept(s, m), SameDesk(s, r),
         r.active = s.active, r.released = s.released
  PROVE  Kept(r, m)
<1>1. /\ Sound(r, m.vol) /\ Held(r, m) /\ (HoldsFaders(r) <=> HoldsFaders(s))
      /\ (HoldsMutes(r) <=> HoldsMutes(s))
  BY SameDeskHeld DEF Kept
<1> QED BY <1>1 DEF Kept, Owned, Unmixed, SameDesk

\* When nothing is held, it does not matter who is said to hold it.
LEMMA SameDeskClear ==
  ASSUME NEW m \in Desks, NEW s, NEW r \in States, Clear(s, m), SameDesk(s, r),
         r.active \in {s.active, None}
  PROVE  Clear(r, m)
<1>1. /\ Sound(r, m.vol) /\ Held(r, m) /\ (HoldsFaders(r) <=> HoldsFaders(s))
      /\ (HoldsMutes(r) <=> HoldsMutes(s))
  BY SameDeskHeld DEF Clear
<1> QED BY <1>1 DEF Clear, SameDesk

\* A sequence of one has its newest member first.
LEMMA NewestOfOne ==
  ASSUME NEW q, Len(q) = 1
  PROVE  Newest(q) = q[1]
BY DEF Newest

\* To give the mutes back is to give back what the operator set.
LEMMA UnmutedOwn ==
  ASSUME NEW m \in Desks, NEW s, Held(s, m), NEW t \in Tracks
  PROVE  Unmuted(s)[t] = m.ms[t]
<1>1. CASE s.mutes[t] = <<>>
  BY <1>1 DEF Unmuted, Held, MutesHeld
<1>2. CASE s.mutes[t] # <<>>
  <2>1. Len(s.mutes[t]) = 1 /\ s.mutes[t][1] = m.ms[t]
    BY <1>2 DEF Held, MutesHeld
  <2>2. Newest(s.mutes[t]) = s.mutes[t][1]
    BY <2>1, NewestOfOne
  <2> QED BY <1>2, <2>1, <2>2 DEF Unmuted
<1> QED BY <1>1, <1>2

\* A restore gives back what the operator set.
LEMMA RestoreTracksClear ==
  ASSUME NEW m \in Desks, NEW s, Sound(s, m.vol), Held(s, m)
  PROVE  LET r == RestoreTracks(s)
         IN  /\ Clear(r, m) /\ MixerOnly(s, r) /\ ~r.out /\ ~r.in
             /\ r.enabled = s.enabled /\ r.fade = s.fade
<1> DEFINE r == RestoreTracks(s)
<1>1. Sound(r, m.vol) /\ MixerOnly(s, r)
  BY DeskParts, RestoreTracksSound, RestoresMixerOnly
<1>2. /\ r.rows = NoRows /\ r.mutes = NoRows /\ r.vol = Restored(s) /\ r.ms = Unmuted(s)
      /\ r.fade = s.fade /\ ~r.out /\ ~r.in /\ r.enabled = s.enabled
  BY DEF Sound, States, RestoreTracks
<1>3. ASSUME NEW t \in Tracks, t \in Fading => s.fade.state = "idle"
      PROVE  Restored(s)[t] = m.vol[t]
  <2>1. CASE s.rows[t] = <<>>
    BY <1>3, <2>1 DEF Restored, Held, FreeHeard
  <2>2. CASE s.rows[t] # <<>>
    <3>1. Len(s.rows[t]) = 1 /\ s.rows[t][1].vol = m.vol[t]
      BY <2>2 DEF Held, RowsHeld
    <3>2. Newest(s.rows[t]) = s.rows[t][1]
      BY <3>1, NewestOfOne
    <3> QED BY <2>2, <3>1, <3>2 DEF Restored
  <2> QED BY <2>1, <2>2
<1>4. \A t \in Tracks : Unmuted(s)[t] = m.ms[t]
  BY UnmutedOwn
<1>5. \A t \in Tracks : NoRows[t] = <<>>
  BY DEF NoRows
<1> HIDE DEF r
<1>6. RowsHeld(r, m) /\ FreeHeard(r, m) /\ MutesHeld(r, m)
  BY <1>2, <1>3, <1>4, <1>5 DEF RowsHeld, FreeHeard, MutesHeld
<1>7. FadeHeld(r, m)
  BY <1>2 DEF Held, FadeHeld
<1>8. ~HoldsFaders(r) /\ ~HoldsMutes(r)
  BY <1>2, <1>5 DEF HoldsFaders, HoldsMutes
<1> QED BY <1>1, <1>2, <1>6, <1>7, <1>8 DEF Clear, Held, r

\* A restore that is left out only when nothing is held.
LEMMA RestoreIfClear ==
  ASSUME NEW m \in Desks, NEW s, Sound(s, m.vol), Held(s, m), NEW condition,
         Holds(s) => condition, s.out => condition \/ s.active = None
  PROVE  LET r == RestoreIf(condition, s)
         IN  Clear(r, m) /\ MixerOnly(s, r) /\ r.enabled = s.enabled
             /\ (r.out => s.out) /\ (r.in => s.in)
<1>1. CASE condition
  BY <1>1, RestoreTracksClear DEF RestoreIf
<1>2. CASE ~condition
  BY <1>2 DEF RestoreIf, Clear, Holds, MixerOnly
<1> QED BY <1>1, <1>2

\* To drop a stretch is to give everything back.
LEMMA DroppedClear ==
  ASSUME NEW m \in Desks, NEW s, Kept(s, m)
  PROVE  Clear(Dropped(s), m) /\ Clear([Dropped(s) EXCEPT !.released = None], m)
<1> DEFINE c == s.active # None \/ Holds(s)
           r == RestoreIf(c, s)
           d == [r EXCEPT !.active = None]
           e == [d EXCEPT !.released = None]
<1>1. Clear(r, m)
  BY RestoreIfClear DEF Kept, Owned
<1>2. Dropped(s) = d
  BY DEF Dropped
<1> HIDE DEF r
<1>3. d \in States /\ e \in States /\ SameDesk(r, d) /\ SameDesk(r, e)
      /\ d.active = None /\ e.active = None
  BY <1>1 DEF Clear, Sound, States, SlotOrNone, SameDesk
<1> HIDE DEF d, e
<1>4. Clear(d, m) /\ Clear(e, m)
  BY <1>1, <1>3, SameDeskClear
<1> QED BY <1>2, <1>4 DEF e

\* Repeat and its range leave the mixer alone.
LEMMA LoopKept ==
  ASSUME NEW m \in Desks, NEW s, Kept(s, m)
  PROVE  Kept(NoLoop(s), m) /\ \A range \in Ranges : Kept(LoopOver(s, range), m)
<1>1. /\ NoLoop(s) \in States /\ \A range \in Ranges : LoopOver(s, range) \in States
      /\ SameDesk(s, NoLoop(s)) /\ \A range \in Ranges : SameDesk(s, LoopOver(s, range))
      /\ NoLoop(s).active = s.active /\ NoLoop(s).released = s.released
      /\ \A range \in Ranges : /\ LoopOver(s, range).active = s.active
                               /\ LoopOver(s, range).released = s.released
  BY DEF Kept, Sound, States, NoLoop, LoopOver, SameDesk
<1> QED BY <1>1, SameDeskKept

\* Every Stop and every Play gives everything back.
LEMMA ClearLoopsClear ==
  ASSUME NEW m \in Desks, NEW s, Kept(s, m)
  PROVE  Clear(ClearLoops(s), m)
<1> DEFINE n == NoLoop(s)
           c == s.active # None \/ Holds(s) \/ s.out \/ s.in
           r == RestoreIf(c, n)
           z == [r EXCEPT !.active = None, !.released = None, !.armed = None]
<1>1. Kept(n, m) /\ SameDesk(s, n)
  <2>1. SameDesk(s, n)
    BY DEF Kept, Sound, States, NoLoop, SameDesk
  <2> QED BY <2>1, LoopKept
<1>2. Holds(n) <=> Holds(s)
  BY <1>1 DEF SameDesk, Holds, HoldsFaders, HoldsMutes
<1>3. ClearLoops(s) = z
  BY DEF ClearLoops
<1> HIDE DEF n
<1>4. (Holds(n) => c) /\ (n.out => c \/ n.active = None)
  BY <1>1, <1>2 DEF SameDesk
<1> HIDE DEF c
<1>5. Clear(r, m)
  BY <1>1, <1>4, RestoreIfClear DEF Kept
<1> HIDE DEF r
<1>6. z \in States /\ SameDesk(r, z) /\ z.active = None
  BY <1>5 DEF Clear, Sound, States, SlotOrNone, SameDesk
<1> HIDE DEF z
<1> QED BY <1>3, <1>5, <1>6, SameDeskClear

\* A stretch that begins to repeat holds what the operator set: nothing else is
\* held then, but for a fade that has come down for it.
LEMMA RepeatsKept ==
  ASSUME FadersApart, NEW m \in Desks, NEW s, Sound(s, m.vol), Held(s, m), Unmixed(s),
         NEW k \in Paired
  PROVE  Kept(Repeats(s, k), m)
<1> DEFINE kept == FadedInto(s, k)
           b == [s EXCEPT !.out = FALSE, !.in = FALSE]
           r == IF kept THEN b ELSE RestoreTracks(s)
           target(t) == IF r.rows[t] # <<>> THEN FadeTarget(r.rows[t][1].vol, r.limit[k][t])
                        ELSE NewRow(r, k, t).target
           muting(t) == r.msOn[k] /\ t \in Ms[k]
           rows(t) == IF t \notin AutoTracks[k] THEN r.rows[t]
                      ELSE IF r.rows[t] # <<>> THEN [r.rows[t] EXCEPT ![1].target = target(t)]
                      ELSE <<NewRow(r, k, t)>>
           vol == [t \in Tracks |-> IF t \in AutoTracks[k] THEN target(t) ELSE r.vol[t]]
           mutes == [t \in Tracks |-> IF muting(t) THEN Append(r.mutes[t], r.ms[t])
                                      ELSE r.mutes[t]]
           ms == [t \in Tracks |-> r.ms[t] \/ muting(t)]
           c == Capture(s, k)
<1>1. /\ Held(r, m) /\ r \in States /\ ~r.out /\ ~HoldsMutes(r)
  <2>1. CASE kept
    <3>1. b \in States /\ ~b.out
      BY DEF Sound, States
    <3>2. /\ b.rows = s.rows /\ b.mutes = s.mutes /\ b.vol = s.vol /\ b.ms = s.ms
          /\ b.fade = s.fade
      BY DEF Sound, States
    <3> HIDE DEF b
    <3>3. Held(b, m)
      BY <3>2 DEF Held, RowsHeld, FreeHeard, FadeHeld, MutesHeld
    <3>4. ~HoldsMutes(b)
      BY <2>1, <3>2 DEF FadedInto, Unmixed, HoldsMutes
    <3> QED BY <2>1, <3>1, <3>3, <3>4
  <2>2. CASE ~kept
    BY <2>2, RestoreTracksClear DEF Clear, Sound
  <2> QED BY <2>1, <2>2
<1>2. c = [r EXCEPT !.vol = vol, !.rows = [t \in Tracks |-> rows(t)], !.mutes = mutes, !.ms = ms]
  BY DEF Capture
<1>3. Sound(c, m.vol) /\ Sound(Repeats(s, k), m.vol) /\ k \in SlotOrNone /\ k # None
  BY DeskParts, CaptureSound, RepeatsSound, StretchTypes, Numbers, MultiLoopSlots DEF Slots
<1> HIDE DEF r, kept, c
<1>4. /\ c.vol = vol /\ c.rows = [t \in Tracks |-> rows(t)] /\ c.fade = r.fade
      /\ c.mutes = mutes /\ c.ms = ms /\ ~c.out
  BY <1>1, <1>2 DEF States
<1>5. RowsHeld(c, m)
  <2> SUFFICES ASSUME NEW t \in Tracks, rows(t) # <<>>
               PROVE  t \notin Fading /\ Len(rows(t)) = 1 /\ rows(t)[1].vol = m.vol[t]
    BY <1>4 DEF RowsHeld
  <2> DEFINE q == r.rows[t]
  <2>1. q # <<>> => t \notin Fading /\ Len(q) = 1 /\ q[1].vol = m.vol[t]
    BY <1>1 DEF Held, RowsHeld
  <2>2. q \in Seq(Rows)
    BY <1>1 DEF States
  <2>3. CASE rows(t) = q
    BY <2>1, <2>3
  <2>4. CASE t \in AutoTracks[k] /\ q = <<>>
    <3> DEFINE row == NewRow(r, k, t)
    <3>1. rows(t) = <<row>> /\ row.vol = r.vol[t]
      BY <2>4 DEF NewRow
    <3>2. t \notin Fading
      BY <2>4 DEF FadersApart
    <3>3. r.vol[t] = m.vol[t]
      BY <1>1, <2>4, <3>2 DEF Held, FreeHeard
    <3> HIDE DEF row, rows
    <3> QED BY <3>1, <3>2, <3>3
  <2>5. CASE t \in AutoTracks[k] /\ q # <<>>
    <3> DEFINE w == target(t)
               e == [q[1] EXCEPT !.target = w]
    <3>1. rows(t) = [q EXCEPT ![1] = e]
      BY <2>5
    <3>2. Len(q) = 1 /\ 1 \in 1..Len(q) /\ q[1] \in Rows
      BY <2>1, <2>2, <2>5
    <3>3. w \in Volumes
      <4>1. q[1].vol \in Volumes /\ r.limit[k][t] \in Volumes /\ w = FadeTarget(q[1].vol, r.limit[k][t])
        BY <1>1, <2>5, <3>2, StretchTypes DEF Rows, States
      <4> QED BY <4>1, TargetType
    <3> HIDE DEF rows, q, w
    <3>4. e.vol = q[1].vol /\ e \in Rows
      BY <3>2, <3>3 DEF Rows
    <3> HIDE DEF e
    <3>5. Len([q EXCEPT ![1] = e]) = 1 /\ [q EXCEPT ![1] = e][1] = e
      BY <2>2, <3>2, <3>4, ExceptSeq DEF q
    <3> QED BY <2>1, <2>5, <3>1, <3>4, <3>5 DEF q
  <2> QED BY <2>3, <2>4, <2>5
<1>6. FreeHeard(c, m)
  <2> SUFFICES ASSUME NEW t \in Tracks, rows(t) = <<>>, t \in Fading => r.fade.state = "idle"
               PROVE  vol[t] = m.vol[t]
    BY <1>4 DEF FreeHeard
  <2>1. t \notin AutoTracks[k]
    <3>1. SUFFICES ASSUME t \in AutoTracks[k] PROVE rows(t) # <<>>
      OBVIOUS
    <3> DEFINE q == r.rows[t]
               row == NewRow(r, k, t)
               e == [q[1] EXCEPT !.target = target(t)]
    <3>2. rows(t) = IF q # <<>> THEN [q EXCEPT ![1] = e] ELSE <<row>>
      BY <3>1
    <3>3. q \in Seq(Rows) /\ (q # <<>> => Len(q) = 1)
      BY <1>1 DEF States, Held, RowsHeld
    <3> HIDE DEF q, row, e, rows
    <3>4. <<row>> # <<>>
      OBVIOUS
    <3>5. CASE q # <<>>
      <4>1. DOMAIN q = 1..1
        BY <3>3, <3>5, LenProperties
      <4>2. 1 \in DOMAIN [q EXCEPT ![1] = e]
        BY <4>1
      <4> QED BY <3>2, <3>5, <4>2
    <3> QED BY <3>2, <3>4, <3>5
  <2> QED BY <1>1, <2>1 DEF Held, FreeHeard
<1>7. FadeHeld(c, m)
  BY <1>1, <1>4 DEF Held, FadeHeld
<1>8. MutesHeld(c, m)
  <2> SUFFICES ASSUME NEW t \in Tracks
               PROVE  IF mutes[t] = <<>> THEN ms[t] = m.ms[t]
                      ELSE Len(mutes[t]) = 1 /\ mutes[t][1] = m.ms[t]
    BY <1>4 DEF MutesHeld
  <2>1. r.mutes[t] = <<>> /\ r.ms[t] = m.ms[t] /\ r.ms[t] \in BOOLEAN
    BY <1>1 DEF Held, MutesHeld, HoldsMutes, States
  <2>2. CASE muting(t)
    <3> DEFINE x == r.ms[t]
    <3>1. mutes[t] = Append(<<>>, x) /\ x = m.ms[t]
      BY <2>1, <2>2
    <3> HIDE DEF x, mutes
    <3> QED BY <3>1
  <2>3. CASE ~muting(t)
    <3>1. mutes[t] = <<>>
      BY <2>1, <2>3
    <3>2. ms[t] = r.ms[t]
      BY <2>1, <2>3
    <3> QED BY <2>1, <3>1, <3>2
  <2> QED BY <2>2, <2>3
<1>9. Held(c, m)
  BY <1>5, <1>6, <1>7, <1>8 DEF Held
<1> HIDE DEF vol, mutes, ms
<1> DEFINE n == [LoopOver(c, Pair(k)) EXCEPT !.active = k]
<1>10. Repeats(s, k) = n
  BY DEF Repeats, c
<1>11. n \in States /\ SameDesk(c, n) /\ n.active = k
  <2>1. n \in States
    BY <1>3, <1>10 DEF Sound
  <2>2. SameDesk(c, n) /\ n.active = k
    BY <1>3 DEF Sound, States, LoopOver, SameDesk
  <2> QED BY <2>1, <2>2
<1> HIDE DEF n
<1>12. Held(n, m) /\ ~n.out
  BY <1>3, <1>4, <1>9, <1>11, SameDeskHeld DEF SameDesk
<1> QED BY <1>3, <1>10, <1>11, <1>12 DEF Kept, Owned, Unmixed

\* An Auto Fader moves only tracks it holds.
LEMMA FadersKept ==
  ASSUME NEW m \in Desks, NEW s, Kept(s, m)
  PROVE  Kept(FadeOut(s), m) /\ Kept(FadeIn(s), m)
<1>1. ASSUME NEW part, Sound(Faded1(s, part), m.vol)
      PROVE  Kept(Faded1(s, part), m)
  <2> DEFINE f == Faded1(s, part)
             vol == [t \in Tracks |-> IF s.rows[t] = <<>> THEN s.vol[t]
                       ELSE Level(Newest(s.rows[t]), part, s.to - s.from)]
  <2>1. f = [s EXCEPT !.vol = vol]
    BY DEF Faded1
  <2>2. \A t \in Tracks : s.rows[t] = <<>> => vol[t] = s.vol[t]
    OBVIOUS
  <2> HIDE DEF vol, f
  <2>3. /\ f.rows = s.rows /\ f.mutes = s.mutes /\ f.vol = vol /\ f.ms = s.ms
        /\ f.fade = s.fade /\ f.out = s.out /\ f.active = s.active /\ f.released = s.released
        /\ f.in = s.in
    BY <2>1 DEF Kept, Sound, States
  <2>4. Held(f, m)
    BY <2>2, <2>3 DEF Kept, Held, RowsHeld, FreeHeard, FadeHeld, MutesHeld
  <2>5. Owned(f) /\ Unmixed(f)
    BY <2>3 DEF Kept, Owned, Unmixed, HoldsFaders, HoldsMutes
  <2> QED BY <1>1, <2>4, <2>5 DEF Kept, f
<1>2. Sound(s, m.vol) /\ m.vol \in Mixes
  BY DeskParts DEF Kept
<1>3. s.from < s.to => \A part \in 0..(s.to - s.from) : Sound(Faded1(s, part), m.vol)
  BY <1>2, Faded1Sound
<1>4. Kept(FadeOut(s), m)
  BY <1>1, <1>2, <1>3, FadePartType DEF FadeOut, Sound, HasSpan
<1>5. CASE s.in
  <2>1. s.from < s.to
    BY <1>2, <1>5 DEF Sound, HasSpan
  <2>2. Kept(Faded1(s, FadePart(s)), m)
    BY <1>1, <1>2, <1>3, <2>1, FadePartType
  <2>3. Kept(RestoreTracks(Faded1(s, FadePart(s))), m)
    BY <2>2, RestoreTracksClear, ClearKept DEF Kept
  <2> QED BY <1>4, <1>5, <2>2, <2>3 DEF FadeIn, RestoreIf
<1>6. CASE ~s.in
  BY <1>4, <1>6 DEF FadeIn, Kept
<1> QED BY <1>5, <1>6

\* A stretch let go of: the Auto Fader comes back, the mutes are still its own.
LEMMA LetGoKept ==
  ASSUME NEW m \in Desks, NEW s, Sound(s, m.vol), Held(s, m), ~s.out, NEW k \in Paired,
         NEW end, Sound(LetGo(s, k, end), m.vol)
  PROVE  Kept(LetGo(s, k, end), m)
<1> DEFINE r == [s EXCEPT !.active = None, !.released = k]
           f == [r EXCEPT !.out = FALSE, !.in = TRUE, !.from = s.pos, !.to = end]
           l == LetGo(s, k, end)
<1>1. k # None
  BY Numbers, MultiLoopSlots DEF Slots
<1>2. l = IF HoldsFaders(s) THEN f ELSE r
  BY DEF LetGo
<1>3. /\ l.rows = s.rows /\ l.mutes = s.mutes /\ l.vol = s.vol /\ l.ms = s.ms
      /\ l.fade = s.fade /\ ~l.out /\ l.active = None /\ l.released = k
      /\ (HoldsFaders(s) => l.in)
  BY <1>2 DEF Sound, States
<1> HIDE DEF l
<1>4. Held(l, m)
  BY <1>3 DEF Held, RowsHeld, FreeHeard, FadeHeld, MutesHeld
<1>5. Owned(l) /\ Unmixed(l)
  BY <1>1, <1>3 DEF Owned, Unmixed, HoldsFaders
<1> QED BY <1>4, <1>5 DEF Kept, l

\* What becomes of the stretch playback is in, or has left.
LEMMA FollowKept ==
  ASSUME FadersApart, NEW m \in Desks, NEW s, Kept(s, m)
  PROVE  Kept(Follow(s), m)
<1> DEFINE a == Here(s)
<1>1. CASE a = None
  BY <1>1, DroppedClear, ClearKept DEF Follow
<1>2. CASE a # None
  <2>1. a \in Paired /\ a # None /\ a \in SlotOrNone
    BY <1>2, HereType, StretchTypes
  <2> DEFINE q == [s EXCEPT !.released = None]
  <2>2. q \in States /\ SameDesk(s, q)
    BY DEF Kept, Sound, States, SlotOrNone, SameDesk
  <2>3. Sound(q, m.vol) /\ Held(q, m) /\ Unmixed(q)
    BY <2>2, SameDeskHeld DEF Kept, Unmixed, SameDesk
  <2>4. Kept(Repeats(q, a), m) /\ Kept(Repeats(s, a), m)
    BY <2>1, <2>3, RepeatsKept DEF Kept
  <2>5. Follow(s) \in {s, Repeats(q, a), Repeats(s, a)}
        \/ (s.active = a /\ Follow(s) = LetGo(s, a, To[a]))
    BY <1>2 DEF Follow
  <2>6. CASE s.active = a /\ Follow(s) = LetGo(s, a, To[a])
    <3>1. Sound(LetGo(s, a, To[a]), m.vol)
      <4>1. To[a] \in Nat /\ s.pos < To[a]
        BY <1>2, <2>1, HereType, StretchTypes, Numbers DEF Within, Positions
      <4> QED BY <2>1, <4>1, DeskParts, LetGoSound DEF Kept
    <3> HIDE DEF a
    <3>2. Kept(LetGo(s, a, To[a]), m)
      BY <2>1, <2>6, <3>1, LetGoKept DEF Kept, Owned
    <3> QED BY <2>6, <3>2
  <2> QED BY <2>4, <2>5, <2>6
<1> QED BY <1>1, <1>2

\* Between the visits of the slots: mutes that a pre-fade found still held belong
\* to a stretch that is visited later and was left, so they end before the call
\* does; and a stretch let go of whose turn is over is the one playback is in.
Owed(s, i) == s.out /\ HoldsMutes(s) =>
  /\ s.released \in Paired /\ s.enabled[s.released] /\ i <= s.released
  /\ ~Within(s.released, s.pos) /\ s.armed = None /\ Here(s) = None
Turn(s, i) ==
  s.armed = None /\ s.released # None /\ s.enabled[s.released] /\ Here(s) = None =>
    i <= s.released \/ Within(s.released, s.pos)
Visiting(s, i, m) ==
  Sound(s, m.vol) /\ Held(s, m) /\ Owned(s) /\ ~Crosses(s) /\ Owed(s, i) /\ Turn(s, i)

\* A routine that leaves playback and the settings alone, and the mutes to whom
\* they belong, if it leaves any, crosses nothing that was not crossed.
Settled(s, r) == r.pos = s.pos /\ r.enabled = s.enabled

\* Playback is in the same stretch then.
LEMMA SettledHere ==
  ASSUME NEW s, NEW r, Settled(s, r)
  PROVE  /\ Here(r) = Here(s)
         /\ (r.in => s.in) /\ (HoldsMutes(r) => HoldsMutes(s) /\ r.released = s.released)
              => (Crosses(r) => Crosses(s))
<1>1. Here(r) = Here(s)
  BY DEF Settled, Here
<1>2. ASSUME r.in => s.in, HoldsMutes(r) => HoldsMutes(s) /\ r.released = s.released,
             Crosses(r)
      PROVE  Crosses(s)
  BY <1>2 DEF Settled, Crosses, Stranded
<1> QED BY <1>1, <1>2

\* When nothing is held, nothing is owed.
LEMMA ClearVisiting ==
  ASSUME NEW m, NEW r, Clear(r, m), ~Crosses(r), NEW i,
         r.armed # None \/ r.released = None
  PROVE  Visiting(r, i, m)
BY DEF Visiting, Clear, Owned, Owed, Turn

\* Playback before a stretch and in its lead is in no other stretch.
LEMMA LeadIsFree ==
  ASSUME LeadsApart, NEW s, s.pos \in Nat, NEW k \in Paired, InLead(k, s.pos)
  PROVE  Here(s) = None /\ \A j \in Paired : ~Within(j, s.pos)
<1>1. \A j \in Paired :
        From[j] \in Nat /\ To[j] \in Nat /\ Lead[j] \in Nat /\ From[j] < To[j]
  BY StretchTypes, Numbers DEF Positions
<1>2. \A j \in Paired : ~Within(j, s.pos)
  BY <1>1 DEF LeadsApart, InLead, Within
<1>3. Here(s) = None \/ (Here(s) \in Paired /\ Within(Here(s), s.pos))
  BY HereType
<1> QED BY <1>2, <1>3

\* A pre-fade holds what the operator set, for nothing else fades then.
LEMMA PreFadeKept ==
  ASSUME FadersApart, NEW m \in Desks, NEW s, Sound(s, m.vol), Held(s, m), Owned(s),
         ~Crosses(s), NEW k \in Paired, s.enabled[k]
  PROVE  LET p == PreFade(s, k)
         IN  /\ Sound(p, m.vol) /\ Held(p, m) /\ Owned(p)
             /\ MixerOnly(s, p) /\ Settled(s, p) /\ p.in = s.in /\ p.mutes = s.mutes
             /\ p.out => s.out \/ (MayPreFade(s, k) /\ ~s.out)
<1> DEFINE row(t) == NewRow(s, k, t)
           rows(t) == IF t \in AutoTracks[k] THEN Append(s.rows[t], row(t)) ELSE s.rows[t]
           r == [s EXCEPT !.rows = [t \in Tracks |-> rows(t)]]
           f == [r EXCEPT !.out = TRUE, !.from = From[k] - Lead[k], !.to = From[k]]
           p == PreFade(s, k)
<1>1. Sound(p, m.vol) /\ MixerOnly(s, p)
  BY DeskParts, PreFadeSound, PreFadeMixerOnly
<1>2. CASE ~MayPreFade(s, k)
  <2>1. p = s
    BY <1>2 DEF PreFade
  <2> HIDE DEF p
  <2> QED BY <1>1, <2>1 DEF Settled, p
<1>3. CASE MayPreFade(s, k)
  <2>1. ~s.out /\ s.active = None /\ InLead(k, s.pos)
    BY <1>3 DEF MayPreFade
  <2>2. ~s.in
    BY <2>1 DEF Crosses
  <2>3. \A t \in Tracks : s.rows[t] = <<>>
    BY <2>1, <2>2 DEF Owned, HoldsFaders
  <2>4. p = IF HoldsFaders(r) THEN f ELSE r
    BY <1>3 DEF PreFade
  <2>5. ASSUME NEW t \in Tracks
        PROVE  rows(t) = IF t \in AutoTracks[k] THEN <<row(t)>> ELSE <<>>
    <3> DEFINE x == row(t)
    <3>1. rows(t) = IF t \in AutoTracks[k] THEN Append(<<>>, x) ELSE <<>>
      BY <2>3
    <3> HIDE DEF x, rows
    <3>2. Append(<<>>, x) = <<x>>
      OBVIOUS
    <3> QED BY <3>1, <3>2 DEF x
  <2> HIDE DEF p, rows
  <2>6. /\ p.rows = [t \in Tracks |-> rows(t)] /\ p.mutes = s.mutes /\ p.vol = s.vol
        /\ p.ms = s.ms /\ p.fade = s.fade /\ p.in = s.in /\ p.enabled = s.enabled
        /\ p.pos = s.pos /\ p.active = s.active /\ p.released = s.released
    BY <2>4 DEF Sound, States
  <2>7. HoldsFaders(p) => p.out
    <3>1. CASE HoldsFaders(r)
      BY <2>4, <3>1 DEF Sound, States
    <3>2. CASE ~HoldsFaders(r)
      BY <2>4, <3>2
    <3> QED BY <3>1, <3>2
  <2>8. RowsHeld(p, m)
    <3> SUFFICES ASSUME NEW t \in Tracks, rows(t) # <<>>
                 PROVE  t \notin Fading /\ Len(rows(t)) = 1 /\ rows(t)[1].vol = m.vol[t]
      BY <2>6 DEF RowsHeld
    <3> DEFINE x == row(t)
    <3>1. t \in AutoTracks[k] /\ rows(t) = <<x>>
      BY <2>5
    <3>2. t \notin Fading
      BY <3>1 DEF FadersApart
    <3>3. x.vol = s.vol[t]
      BY DEF NewRow
    <3>4. s.vol[t] = m.vol[t]
      BY <2>3, <3>2 DEF Held, FreeHeard
    <3> HIDE DEF x
    <3> QED BY <3>1, <3>2, <3>3, <3>4
  <2>9. FreeHeard(p, m) /\ FadeHeld(p, m) /\ MutesHeld(p, m)
    BY <2>3, <2>6 DEF Held, FreeHeard, FadeHeld, MutesHeld
  <2>10. Held(p, m)
    BY <2>8, <2>9 DEF Held
  <2>11. Owned(p)
    BY <2>1, <2>6, <2>7 DEF Owned, HoldsMutes
  <2> QED BY <1>1, <1>3, <2>1, <2>6, <2>10, <2>11 DEF p, Settled
<1> QED BY <1>2, <1>3

\* One visit after the other.
LEMMA VisitKept ==
  ASSUME FadersApart, LeadsApart, NEW m \in Desks, NEW i \in 1..4,
         NEW s, Visiting(s, i, m)
  PROVE  Visiting(Visit(s, i), i + 1, m)
<1>1. /\ Sound(s, m.vol) /\ Held(s, m) /\ Owned(s) /\ ~Crosses(s) /\ Owed(s, i) /\ Turn(s, i)
      /\ s.pos \in Nat /\ (s.released # None => s.released \in Paired)
      /\ m.vol \in Mixes
  BY Numbers, DeskParts DEF Visiting, Sound, States, SlotOrNone, Positions
<1>2. Paired \subseteq 1..4
  BY MultiLoopSlots DEF Slots
<1>3. CASE ~(i \in Paired /\ s.enabled[i] /\ (Here(s) = None \/ i <= Here(s)))
  <2>1. Visit(s, i) = s
    BY <1>3 DEF Visit
  <2>2. Here(s) = None /\ s.released \in Paired /\ s.enabled[s.released] => s.released # i
    BY <1>3
  <2>3. \A j \in Paired : i <= j /\ j # i => i + 1 <= j
    BY <1>2
  <2>4. Owed(s, i + 1)
    BY <1>1, <2>2, <2>3 DEF Owed
  <2>5. Turn(s, i + 1)
    BY <1>1, <2>2, <2>3 DEF Turn
  <2> QED BY <1>1, <2>1, <2>4, <2>5 DEF Visiting
<1>4. CASE i \in Paired /\ s.enabled[i] /\ (Here(s) = None \/ i <= Here(s))
  <2> DEFINE a == MarkArmed(s, i)
             p == PreFade(a, i)
             q == Passed(p, i)
  <2>1. Visit(s, i) = q
    BY <1>4 DEF Visit
  <2>2. i # None /\ i \in SlotOrNone /\ From[i] \in Nat
    BY <1>4, StretchTypes, Numbers DEF Positions
  \* A stretch that was left gives everything back.
  <2>3. ASSUME NEW x, Sound(x, m.vol), Held(x, m), Owned(x), ~Crosses(x), x.released = i,
               ~Within(i, x.pos)
        PROVE  Visiting(Passed(x, i), i + 1, m)
    <3> DEFINE r == RestoreIf(Holds(x), x)
               e == [r EXCEPT !.released = None]
    <3>1. Clear(r, m) /\ MixerOnly(x, r) /\ r.enabled = x.enabled /\ (r.in => x.in)
      BY <2>3, RestoreIfClear DEF Owned
    <3>2. Passed(x, i) = e
      BY <2>3 DEF Passed
    <3> HIDE DEF r
    <3>3. e \in States /\ SameDesk(r, e) /\ e.active = r.active /\ e.released = None
          /\ e.pos = r.pos /\ e.enabled = r.enabled
      BY <3>1 DEF Clear, Sound, States, SlotOrNone, SameDesk
    <3> HIDE DEF e
    <3>4. Clear(e, m)
      BY <3>1, <3>3, SameDeskClear
    <3>5. ~Crosses(e)
      <4>1. Settled(x, e) /\ (e.in => x.in) /\ ~HoldsMutes(e)
        BY <3>1, <3>3, <3>4 DEF Settled, MixerOnly, SameDesk, Clear
      <4> QED BY <2>3, <4>1, SettledHere
    <3> QED BY <3>2, <3>3, <3>4, <3>5, ClearVisiting
  <2>4. CASE s.armed = None
    <3>1. a = s
      BY <2>2, <2>4, Numbers DEF MarkArmed
    <3>2. /\ Sound(p, m.vol) /\ Held(p, m) /\ Owned(p)
          /\ MixerOnly(s, p) /\ Settled(s, p) /\ p.in = s.in /\ p.mutes = s.mutes
          /\ p.out => s.out \/ (MayPreFade(s, i) /\ ~s.out)
      <4> HIDE DEF a
      <4> QED BY <1>1, <1>4, <3>1, PreFadeKept
    <3> HIDE DEF p
    <3>3. (HoldsMutes(p) <=> HoldsMutes(s)) /\ p.released = s.released
          /\ p.armed = s.armed /\ p.pos = s.pos /\ p.enabled = s.enabled
      BY <3>2 DEF HoldsMutes, MixerOnly, Settled
    <3>4. ~Crosses(p) /\ Here(p) = Here(s)
      BY <1>1, <3>2, <3>3, SettledHere
    <3>5. CASE p.released = i /\ ~Within(i, p.pos)
      BY <2>1, <2>3, <3>2, <3>4, <3>5
    <3>6. CASE ~(p.released = i /\ ~Within(i, p.pos))
      <4>1. q = p
        BY <3>6 DEF Passed
      <4>2. s.released # i \/ Within(i, s.pos)
        BY <3>3, <3>6
      <4>3. \A j \in Paired : i <= j /\ j # i => i + 1 <= j
        BY <1>2
      <4>4. Owed(p, i + 1)
        <5> SUFFICES ASSUME s.out \/ (MayPreFade(s, i) /\ ~s.out), HoldsMutes(s)
                     PROVE  /\ s.released \in Paired /\ s.enabled[s.released]
                            /\ i + 1 <= s.released /\ ~Within(s.released, s.pos)
                            /\ s.armed = None /\ Here(s) = None
          BY <3>2, <3>3, <3>4 DEF Owed
        <5>1. CASE s.out
          BY <1>1, <4>2, <4>3, <5>1 DEF Owed
        <5>2. CASE MayPreFade(s, i) /\ ~s.out
          <6>1. s.active = None /\ InLead(i, s.pos)
            BY <5>2 DEF MayPreFade
          <6>2. s.released \in Paired /\ s.released # None
            BY <1>1, <6>1 DEF Owned
          <6>3. s.enabled[s.released]
            BY <1>1, <1>4, <6>1, <6>2 DEF Crosses, Stranded
          <6>4. Here(s) = None /\ ~Within(s.released, s.pos) /\ ~Within(i, s.pos)
            BY <1>1, <1>4, <6>1, <6>2, LeadIsFree
          <6>5. i <= s.released
            BY <1>1, <2>4, <6>2, <6>3, <6>4 DEF Turn
          <6> QED BY <2>4, <4>2, <4>3, <6>2, <6>3, <6>4, <6>5
        <5> QED BY <5>1, <5>2
      <4>5. Turn(p, i + 1)
        <5> SUFFICES ASSUME s.released # None, s.enabled[s.released], Here(s) = None,
                            ~Within(s.released, s.pos)
                     PROVE  i + 1 <= s.released
          BY <3>3, <3>4 DEF Turn
        <5>1. s.released # i
          BY <4>2
        <5> QED BY <1>1, <2>4, <4>3, <5>1 DEF Turn
      <4> QED BY <2>1, <3>2, <3>4, <4>1, <4>4, <4>5 DEF Visiting
    <3> QED BY <3>5, <3>6
  <2>5. CASE s.armed # None
    <3> DEFINE r == RestoreIf(Holds(s), s)
               e == [r EXCEPT !.released = i]
    <3>1. ~(s.out /\ HoldsMutes(s))
      BY <1>1, <2>5 DEF Owed
    <3>2. Clear(r, m) /\ MixerOnly(s, r) /\ r.enabled = s.enabled /\ (r.in => s.in)
      BY <1>1, RestoreIfClear DEF Owned
    <3>3. a = s \/ a = e
      BY DEF MarkArmed
    <3> HIDE DEF r
    <3>4. e \in States /\ SameDesk(r, e) /\ e.active = r.active /\ e.released = i
          /\ e.pos = r.pos /\ e.enabled = r.enabled /\ e.armed = r.armed
      BY <2>2, <3>2 DEF Clear, Sound, States, SameDesk
    <3> HIDE DEF e, a
    <3>5. Clear(e, m)
      BY <3>2, <3>4, SameDeskClear
    <3>6. ~Crosses(e)
      <4>1. Settled(s, e) /\ (e.in => s.in) /\ ~HoldsMutes(e)
        BY <3>2, <3>4, <3>5 DEF Settled, MixerOnly, SameDesk, Clear
      <4> QED BY <1>1, <4>1, SettledHere
    <3>7. /\ Sound(a, m.vol) /\ Held(a, m) /\ Owned(a) /\ ~Crosses(a)
          /\ ~(a.out /\ HoldsMutes(a)) /\ a.armed # None
      BY <1>1, <2>5, <3>1, <3>2, <3>3, <3>4, <3>5, <3>6 DEF Clear, Owned, MixerOnly
    <3>8. p = a
      BY <3>7 DEF PreFade, MayPreFade
    <3>9. CASE a.released = i /\ ~Within(i, a.pos)
      BY <2>1, <2>3, <3>7, <3>8, <3>9
    <3>10. CASE ~(a.released = i /\ ~Within(i, a.pos))
      <4>1. q = a
        BY <3>8, <3>10 DEF Passed
      <4> QED BY <2>1, <3>7, <4>1 DEF Visiting, Owed, Turn
    <3> QED BY <3>9, <3>10
  <2> QED BY <2>4, <2>5
<1> QED BY <1>3, <1>4

\* All four visits: nothing that fades is left with mutes.
LEMMA VisitAllKept ==
  ASSUME FadersApart, LeadsApart, NEW m \in Desks, NEW s, Kept(s, m), ~Crosses(s)
  PROVE  Kept(VisitAll(s), m)
<1> DEFINE a == Visit(s, 1)
           b == Visit(a, 2)
           c == Visit(b, 3)
           d == Visit(c, 4)
<1>1. Visiting(s, 1, m)
  <2>1. s.released # None => 1 <= s.released
    <3>1. s.released \in Paired \cup {None}
      BY DEF Kept, Sound, States, SlotOrNone
    <3>2. \A j \in Paired : 1 <= j
      BY MultiLoopSlots DEF Slots
    <3> QED BY <3>1, <3>2
  <2> QED BY <2>1 DEF Visiting, Kept, Unmixed, Owed, Turn
<1>2. Visiting(a, 2, m)
  <2>1. 1 \in 1..4 /\ 1 + 1 = 2
    OBVIOUS
  <2> QED BY <1>1, <2>1, VisitKept
<1> HIDE DEF a
<1>3. Visiting(b, 3, m)
  <2>1. 2 \in 1..4 /\ 2 + 1 = 3
    OBVIOUS
  <2> QED BY <1>2, <2>1, VisitKept
<1> HIDE DEF b
<1>4. Visiting(c, 4, m)
  <2>1. 3 \in 1..4 /\ 3 + 1 = 4
    OBVIOUS
  <2> QED BY <1>3, <2>1, VisitKept
<1> HIDE DEF c
<1>5. Visiting(d, 5, m)
  <2>1. 4 \in 1..4 /\ 4 + 1 = 5
    OBVIOUS
  <2> QED BY <1>4, <2>1, VisitKept
<1> HIDE DEF d
<1>6. \A j \in Paired : ~(5 <= j)
  BY MultiLoopSlots DEF Slots
<1>7. Kept(d, m)
  BY <1>5, <1>6 DEF Visiting, Owed, Kept, Unmixed
<1> QED BY <1>7 DEF VisitAll, a, b, c, d

-----------------------------------------------------------------------------
(* The fade-out of a Stop                                                    *)

\* The fade-out holds its tracks as the operator set them, and moves no others.
LEMMA FadeStepKept ==
  ASSUME NEW m \in Desks, NEW s, Kept(s, m), NEW r, Sound(r, m.vol),
         r.rows = s.rows, r.mutes = s.mutes, r.ms = s.ms, r.out = s.out, r.in = s.in,
         r.active = s.active, r.released = s.released,
         \A t \in Tracks \ Fading : r.vol[t] = s.vol[t],
         IF r.fade.state = "idle" THEN \A t \in Fading : r.vol[t] = m.vol[t]
         ELSE \A t \in Fading : r.fade.before[t] = m.vol[t]
  PROVE  Kept(r, m)
<1>1. RowsHeld(r, m) /\ MutesHeld(r, m)
  BY DEF Kept, Held, RowsHeld, MutesHeld
<1>2. FreeHeard(r, m)
  BY DEF Kept, Held, FreeHeard
<1>3. FadeHeld(r, m)
  BY DEF FadeHeld
<1>4. Owned(r) /\ Unmixed(r)
  BY DEF Kept, Owned, Unmixed, HoldsFaders, HoldsMutes
<1> QED BY <1>1, <1>2, <1>3, <1>4 DEF Kept, Held

\* A fade-out that ends, begins or turns.
LEMMA FadesKept ==
  ASSUME NEW m \in Desks, NEW s, Kept(s, m)
  PROVE  /\ s.fade.state # "idle" => Kept(RestoreFade(s), m) /\ Kept(Returning(s), m)
         /\ s.fade.state = "idle" => Kept(StartFade(s), m)
         /\ Kept(BreakFade(s), m)
<1>1. Sound(s, m.vol) /\ m.vol \in Mixes /\ s \in States
  BY DeskParts DEF Kept, Sound
<1>2. ASSUME s.fade.state # "idle"
      PROVE  Kept(RestoreFade(s), m)
  <2> DEFINE vol == [t \in Tracks |-> IF t \in Fading THEN s.fade.before[t] ELSE s.vol[t]]
             r == [s EXCEPT !.vol = vol, !.fade = NoFade]
  <2>1. Sound(r, m.vol)
    BY <1>1, <1>2, RestoreFadeSound DEF RestoreFade
  <2>2. \A t \in Fading : t \in Tracks /\ vol[t] = m.vol[t]
    BY <1>2, FadeTypes DEF Kept, Held, FadeHeld
  <2>3. \A t \in Tracks \ Fading : vol[t] = s.vol[t]
    OBVIOUS
  <2> HIDE DEF vol
  <2>4. /\ r.rows = s.rows /\ r.mutes = s.mutes /\ r.ms = s.ms /\ r.out = s.out /\ r.in = s.in
        /\ r.active = s.active /\ r.released = s.released /\ r.vol = vol /\ r.fade = NoFade
    BY <1>1 DEF States
  <2>5. NoFade.state = "idle"
    BY DEF NoFade
  <2> HIDE DEF r
  <2>6. Kept(r, m)
    BY <2>1, <2>2, <2>3, <2>4, <2>5, FadeStepKept
  <2> QED BY <2>6 DEF RestoreFade, r, vol
<1>3. ASSUME s.fade.state # "idle"
      PROVE  Kept(Returning(s), m)
  <2> DEFINE r == Returning(s)
  <2>1. r.fade.state = "restoring" /\ r.fade.before = s.fade.before /\ r.fade \in Fades
    BY <1>1, FadeTypes DEF Returning, States, Fades
  <2>2. /\ r.rows = s.rows /\ r.mutes = s.mutes /\ r.ms = s.ms /\ r.out = s.out /\ r.in = s.in
        /\ r.active = s.active /\ r.released = s.released /\ r.vol = s.vol
        /\ r.from = s.from /\ r.to = s.to /\ r \in States
    BY <1>1, <2>1 DEF Returning, States
  <2> HIDE DEF r
  <2>3. Sound(r, m.vol)
    BY <1>1, <1>3, <2>1, <2>2 DEF Sound, RowsBelow, VolBelow, FadeBelow, HasSpan
  <2>4. \A t \in Fading : r.fade.before[t] = m.vol[t]
    BY <1>3, <2>1 DEF Kept, Held, FadeHeld
  <2> QED BY <2>1, <2>2, <2>3, <2>4, FadeStepKept DEF r
<1>4. ASSUME s.fade.state = "idle"
      PROVE  Kept(StartFade(s), m)
  <2> DEFINE before == [t \in Fading |-> s.vol[t]]
             r == [s EXCEPT !.fade = [state |-> "active", age |-> 0, before |-> before]]
  <2>1. Sound(r, m.vol)
    BY <1>1, StartFadeSound DEF StartFade
  <2>2. \A t \in Fading : before[t] = m.vol[t]
    <3> SUFFICES ASSUME NEW t \in Fading PROVE s.vol[t] = m.vol[t]
      OBVIOUS
    <3>1. t \in Tracks
      BY FadeTypes
    <3>2. s.rows[t] = <<>>
      BY <3>1 DEF Kept, Held, RowsHeld
    <3> QED BY <1>4, <3>1, <3>2 DEF Kept, Held, FreeHeard
  <2> HIDE DEF before
  <2>3. /\ r.rows = s.rows /\ r.mutes = s.mutes /\ r.ms = s.ms /\ r.out = s.out /\ r.in = s.in
        /\ r.active = s.active /\ r.released = s.released /\ r.vol = s.vol
        /\ r.fade.state = "active" /\ r.fade.before = before
    BY <1>1 DEF States
  <2> HIDE DEF r
  <2>4. Kept(r, m)
    BY <2>1, <2>2, <2>3, FadeStepKept
  <2> QED BY <2>4 DEF StartFade, r, before
<1> QED BY <1>2, <1>3, <1>4 DEF BreakFade

\* A field of the transport or of the engine is no concern of the mixer.
LEMMA FieldsKept ==
  ASSUME NEW m \in Desks, NEW s, Kept(s, m)
  PROVE  /\ Kept([s EXCEPT !.fresh = 0], m)
         /\ Kept([s EXCEPT !.sinceCancel = 0], m)
         /\ Kept([s EXCEPT !.queued = FALSE], m)
         /\ Kept([s EXCEPT !.armed = None], m)
         /\ \A b \in BOOLEAN : Kept([s EXCEPT !.seen = b], m)
         /\ \A p \in [on : BOOLEAN, moved : BOOLEAN, at : Positions] :
              Kept([s EXCEPT !.paused = p], m)
<1>1. s \in States /\ 0 \in 0..FreshLife /\ 0 \in 0..CancelWindow
  BY Numbers DEF Kept, Sound
<1>2. ASSUME NEW r \in States, SameDesk(s, r), r.active = s.active, r.released = s.released
      PROVE  Kept(r, m)
  BY <1>2, SameDeskKept
<1>3. Kept([s EXCEPT !.fresh = 0], m)
  <2>1. [s EXCEPT !.fresh = 0] \in States /\ SameDesk(s, [s EXCEPT !.fresh = 0])
    BY <1>1 DEF States, SameDesk
  <2> QED BY <1>1, <1>2, <2>1 DEF States
<1>4. Kept([s EXCEPT !.sinceCancel = 0], m)
  <2>1. [s EXCEPT !.sinceCancel = 0] \in States /\ SameDesk(s, [s EXCEPT !.sinceCancel = 0])
    BY <1>1 DEF States, SameDesk
  <2> QED BY <1>1, <1>2, <2>1 DEF States
<1>5. Kept([s EXCEPT !.queued = FALSE], m)
  <2>1. [s EXCEPT !.queued = FALSE] \in States /\ SameDesk(s, [s EXCEPT !.queued = FALSE])
    BY <1>1 DEF States, SameDesk
  <2> QED BY <1>1, <1>2, <2>1 DEF States
<1>6. Kept([s EXCEPT !.armed = None], m)
  <2>1. [s EXCEPT !.armed = None] \in States /\ SameDesk(s, [s EXCEPT !.armed = None])
    BY <1>1 DEF States, SameDesk
  <2> QED BY <1>1, <1>2, <2>1 DEF States
<1>7. ASSUME NEW b \in BOOLEAN
      PROVE  Kept([s EXCEPT !.seen = b], m)
  <2>1. [s EXCEPT !.seen = b] \in States /\ SameDesk(s, [s EXCEPT !.seen = b])
    BY <1>1 DEF States, SameDesk
  <2> QED BY <1>1, <1>2, <2>1 DEF States
<1>8. ASSUME NEW p \in [on : BOOLEAN, moved : BOOLEAN, at : Positions]
      PROVE  Kept([s EXCEPT !.paused = p], m)
  <2>1. [s EXCEPT !.paused = p] \in States /\ SameDesk(s, [s EXCEPT !.paused = p])
    BY <1>1 DEF States, SameDesk
  <2> QED BY <1>1, <1>2, <2>1 DEF States
<1> QED BY <1>3, <1>4, <1>5, <1>6, <1>7, <1>8

\* The Stop gives back what the Multiloops hold.
LEMMA HardStopKept ==
  ASSUME NEW m \in Desks, NEW s, Kept(s, m)
  PROVE  Kept(HardStop(s), m)
<1> DEFINE c == ClearLoops(s)
           h == [c EXCEPT !.play = "stopped", !.queued = FALSE]
<1>1. Kept(c, m)
  BY ClearLoopsClear, ClearKept
<1>2. HardStop(s) = h
  BY DEF HardStop
<1> HIDE DEF c
<1>3. h \in States /\ SameDesk(c, h) /\ h.active = c.active /\ h.released = c.released
  BY <1>1 DEF Kept, Sound, States, SameDesk
<1> QED BY <1>1, <1>2, <1>3, SameDeskKept

\* Stop and Stop Break.
LEMMA StopCommandKept ==
  ASSUME NEW m \in Desks, NEW s, Kept(s, m)
  PROVE  Kept(StopCommand(s), m) /\ Kept(StopBreak(s), m)
<1> DEFINE r == [s EXCEPT !.fresh = 0]
<1>1. Kept(r, m)
  BY FieldsKept
<1>2. StopCommand(s) = IF TakesStop(r) THEN FadeStop(r) ELSE HardStop(r)
  BY DEF StopCommand
<1>3. StopBreak(s) = IF s.play = "stopped" THEN r ELSE HardStop(BreakFade(r))
  BY DEF StopBreak
<1> HIDE DEF r
<1>4. Kept(HardStop(r), m) /\ Kept(HardStop(BreakFade(r)), m)
  BY <1>1, HardStopKept, FadesKept
<1>5. Kept(FadeStop(r), m)
  <2>1. r.fade.state \in {"idle", "active", "restoring"}
    BY <1>1 DEF Kept, Sound, States, Fades
  <2>2. r.fade.state = "active" => Kept([RestoreFade(r) EXCEPT !.sinceCancel = 0], m)
    BY <1>1, FadesKept, FieldsKept
  <2> QED BY <1>1, <2>1, <2>2, FadesKept DEF FadeStop
<1> QED BY <1>1, <1>2, <1>3, <1>4, <1>5

\* A step of the ramp.
LEMMA RampKept ==
  ASSUME NEW m \in Desks, NEW s, Kept(s, m), s.fade.state = "active"
  PROVE  Kept(Ramp(s), m)
<1> DEFINE age == Least(s.fade.age, FadeLen)
           vol == RampTo(s, age)
           r == [s EXCEPT !.vol = vol]
<1>1. Sound(s, m.vol) /\ m.vol \in Mixes /\ s \in States
  BY DeskParts DEF Kept, Sound
<1>2. Ramp(s) = IF age < FadeLen THEN r ELSE HardStop([Returning(r) EXCEPT !.fresh = 0])
  BY DEF Ramp
<1>3. Sound(r, m.vol)
  BY <1>1, RampVolumesSound
<1>4. \A t \in Tracks \ Fading : vol[t] = s.vol[t]
  BY DEF RampTo
<1> HIDE DEF vol, age
<1>5. /\ r.rows = s.rows /\ r.mutes = s.mutes /\ r.ms = s.ms /\ r.out = s.out /\ r.in = s.in
      /\ r.active = s.active /\ r.released = s.released /\ r.vol = vol /\ r.fade = s.fade
  BY <1>1 DEF States
<1> HIDE DEF r
<1>6. \A t \in Fading : s.fade.before[t] = m.vol[t]
  BY DEF Kept, Held, FadeHeld
<1>7. Kept(r, m) /\ r.fade.state = "active"
  BY <1>3, <1>4, <1>5, <1>6, FadeStepKept
<1>8. Kept(HardStop([Returning(r) EXCEPT !.fresh = 0]), m)
  BY <1>7, FadesKept, FieldsKept, HardStopKept
<1> QED BY <1>2, <1>7, <1>8

\* A call of the timer, for the fade-out.
LEMMA UpdateFadeKept ==
  ASSUME NEW m \in Desks, NEW s, Kept(s, m)
  PROVE  Kept(UpdateFade(s), m)
<1>1. CASE s.fade.state = "restoring"
  BY <1>1, FadesKept DEF UpdateFade
<1>2. CASE s.fade.state = "active"
  BY <1>2, FadesKept, RampKept DEF UpdateFade
<1>3. CASE s.fade.state \notin {"restoring", "active"}
  BY <1>3 DEF UpdateFade
<1> QED BY <1>1, <1>2, <1>3

-----------------------------------------------------------------------------
(* The timer                                                                 *)

\* Bypass gives everything back.
LEMMA SilencedClear ==
  ASSUME NEW m \in Desks, NEW s, Kept(s, m)
  PROVE  Clear(Silenced(s), m)
<1> DEFINE n == IF s.active # None THEN NoLoop(s) ELSE s
<1>1. Kept(n, m) /\ Silenced(s) = [Dropped(n) EXCEPT !.released = None]
  BY LoopKept DEF Silenced
<1> HIDE DEF n
<1> QED BY <1>1, DroppedClear

\* Nor does it change the bypass itself.
LEMMA SilencedBypass ==
  ASSUME NEW m \in Mixes, NEW s, Sound(s, m)
  PROVE  Silenced(s).bypass = s.bypass
<1> DEFINE n == IF s.active # None THEN NoLoop(s) ELSE s
           c == n.active # None \/ Holds(n)
           r == RestoreIf(c, n)
           d == [r EXCEPT !.active = None]
<1>1. Silenced(s) = [d EXCEPT !.released = None]
  BY DEF Silenced, Dropped
<1>2. Sound(n, m) /\ n.bypass = s.bypass
  <2>1. NoLoop(s).bypass = s.bypass
    BY DEF Sound, States, NoLoop
  <2> QED BY <2>1, LoopSound
<1> HIDE DEF n, c
<1>3. Sound(r, m) /\ r.bypass = n.bypass
  <2>1. RestoreTracks(n).bypass = n.bypass
    BY <1>2 DEF Sound, States, RestoreTracks
  <2> QED BY <1>2, <2>1, RestoreIfSound DEF RestoreIf
<1> HIDE DEF r
<1>4. [d EXCEPT !.released = None].bypass = r.bypass
  BY <1>3 DEF Sound, States
<1> QED BY <1>1, <1>2, <1>3, <1>4

\* A call of the Multiloops.
LEMMA ProcessLoopsKept ==
  ASSUME FadersApart, LeadsApart, NEW m \in Desks, NEW s, Kept(s, m),
         s.play = "playing" => ~Crosses(s)
  PROVE  Kept(ProcessLoops(s), m)
<1> DEFINE on == CASE s.request = "toggle" -> ~s.bypass
                   [] s.request = "none"   -> s.bypass
                   [] OTHER                -> s.request = "on"
           q == [s EXCEPT !.request = "none", !.bypass = on]
           r == TakeRequest(s)
<1>1. s \in States /\ on \in BOOLEAN
  BY DEF Kept, Sound, States
<1>2. r = IF on /\ ~s.bypass THEN Silenced(q) ELSE q
  BY DEF TakeRequest
<1> HIDE DEF on
<1>3. q \in States /\ SameDesk(s, q) /\ q.active = s.active /\ q.released = s.released
      /\ q.enabled = s.enabled /\ q.pos = s.pos /\ q.play = s.play /\ q.bypass = on
  BY <1>1 DEF States, SameDesk
<1> HIDE DEF q, r
<1>4. Kept(q, m) /\ Sound(q, m.vol) /\ m.vol \in Mixes
  BY <1>3, SameDeskKept, DeskParts DEF Kept
<1>5. Kept(r, m)
  BY <1>2, <1>4, SilencedClear, ClearKept
<1>6. CASE r.play # "playing" \/ r.pos >= SongEnd \/ r.bypass
  <2>1. ProcessLoops(s) \in {[Dropped(r) EXCEPT !.released = None], Silenced(r)}
    BY <1>6 DEF ProcessLoops, r
  <2> QED BY <1>5, <2>1, DroppedClear, SilencedClear, ClearKept
<1>7. CASE ~(r.play # "playing" \/ r.pos >= SongEnd \/ r.bypass)
  <2>1. ProcessLoops(s) = Follow(FadeIn(FadeOut(VisitAll(r))))
    BY <1>7 DEF ProcessLoops, r
  <2>2. ~Crosses(r)
    <3>1. CASE r = q
      <4>1. s.play = "playing"
        BY <1>3, <1>7, <3>1
      <4>2. (HoldsMutes(q) <=> HoldsMutes(s)) /\ q.in = s.in
        BY <1>3 DEF SameDesk, HoldsMutes
      <4> QED BY <1>3, <3>1, <4>1, <4>2 DEF Crosses, Stranded
    <3>2. CASE r = Silenced(q) /\ on
      <4>1. r.bypass = q.bypass
        BY <1>4, <3>2, SilencedBypass
      <4> QED BY <1>3, <1>7, <3>2, <4>1
    <3> QED BY <1>2, <3>1, <3>2
  <2> QED BY <1>5, <2>1, <2>2, VisitAllKept, FadersKept, FollowKept
<1> QED BY <1>6, <1>7

\* A call of the timer for the Multiloops, in a pause and out of it.
LEMMA LoopTickKept ==
  ASSUME FadersApart, LeadsApart, NEW m \in Desks, NEW s, Kept(s, m),
         s.play = "playing" => ~Crosses(s), NEW late
  PROVE  Kept(LoopTick(s, late), m)
<1>1. s \in States /\ m.vol \in Mixes
  BY DeskParts DEF Kept, Sound
<1>2. CASE s.play = "paused"
  <2> DEFINE p == [on |-> TRUE,
                   moved |-> s.paused.on /\ (s.paused.moved \/ s.pos # s.paused.at),
                   at |-> IF s.paused.on THEN s.paused.at ELSE s.pos]
  <2>1. p \in [on : BOOLEAN, moved : BOOLEAN, at : Positions]
    BY <1>1 DEF States
  <2>2. LoopTick(s, late) = [s EXCEPT !.paused = p]
    BY <1>2 DEF LoopTick, SeePause
  <2> HIDE DEF p
  <2>3. Kept([s EXCEPT !.paused = p], m)
    BY <2>1, FieldsKept
  <2> QED BY <2>2, <2>3
<1>3. CASE s.play # "paused"
  <2> DEFINE p == [on |-> FALSE, moved |-> FALSE, at |-> 0]
             b == [s EXCEPT !.paused = p]
             n == IF s.active # None \/ Holds(s) THEN NoLoop(b) ELSE b
             t == RestoreTracks(n)
             z == [t EXCEPT !.active = None, !.released = None]
             r == SeeResume(s)
             f == [r EXCEPT !.fresh = 0]
  <2>1. p \in [on : BOOLEAN, moved : BOOLEAN, at : Positions]
    BY Numbers DEF Positions
  <2>2. r = b \/ r = z
    BY DEF SeeResume
  <2>3. LoopTick(s, late) = IF late THEN r ELSE ProcessLoops([r EXCEPT !.fresh = 0])
    BY <1>3 DEF LoopTick
  <2> HIDE DEF p, r
  <2>4. Kept(b, m)
    BY <2>1, FieldsKept
  <2>5. /\ b.play = s.play /\ b.pos = s.pos /\ b.enabled = s.enabled /\ b.in = s.in
        /\ b.mutes = s.mutes /\ b.released = s.released
    BY <1>1 DEF States
  <2> HIDE DEF b
  <2>6. Kept(n, m)
    BY <2>4, LoopKept
  <2> HIDE DEF n
  <2>7. Clear(t, m) /\ ~t.in
    BY <2>6, RestoreTracksClear DEF Kept
  <2> HIDE DEF t
  <2>8. z \in States /\ SameDesk(t, z) /\ z.active = None
    BY <2>7 DEF Clear, Sound, States, SlotOrNone, SameDesk
  <2> HIDE DEF z
  <2>9. Clear(z, m) /\ ~z.in
    BY <2>7, <2>8, SameDeskClear DEF SameDesk
  <2>10. Kept(r, m)
    BY <2>2, <2>4, <2>9, ClearKept
  <2>11. r.play = "playing" => ~Crosses(r)
    <3>1. CASE r = b
      BY <2>5, <3>1 DEF Crosses, Stranded, HoldsMutes
    <3>2. CASE r = z
      BY <2>9, <3>2 DEF Crosses, Stranded, Clear
    <3> QED BY <2>2, <3>1, <3>2
  <2>12. Kept(f, m)
    BY <2>10, FieldsKept
  <2>13. /\ f.play = r.play /\ f.pos = r.pos /\ f.enabled = r.enabled /\ f.in = r.in
         /\ f.mutes = r.mutes /\ f.released = r.released
    BY <2>10 DEF Kept, Sound, States
  <2> HIDE DEF f
  <2>14. f.play = "playing" => ~Crosses(f)
    BY <2>11, <2>13 DEF Crosses, Stranded, HoldsMutes
  <2>15. Kept(ProcessLoops(f), m)
    BY <2>12, <2>14, ProcessLoopsKept
  <2>16. f = [r EXCEPT !.fresh = 0]
    BY DEF f
  <2> QED BY <2>3, <2>10, <2>15, <2>16
<1> QED BY <1>2, <1>3

\* The engine's share.
LEMMA EngineKept ==
  ASSUME NEW m \in Desks, NEW s, Kept(s, m), NEW hushed
  PROVE  Kept(Engine(s, hushed), m)
<1> DEFINE c == ClearLoops(s)
           p == PrepareStop(s, hushed)
           d == [p EXCEPT !.armed = None]
           a == ArriveAtPart(p)
<1>1. Kept(c, m)
  BY ClearLoopsClear, ClearKept
<1>2. p = s \/ p = [c EXCEPT !.queued = FALSE]
  BY DEF PrepareStop
<1> HIDE DEF c, p
<1>3. Kept(p, m)
  BY <1>1, <1>2, FieldsKept
<1>4. Kept(d, m)
  BY <1>3, FieldsKept
<1>5. a \in {p, d, Dropped(NoLoop(d)), NoLoop(d)}
  BY DEF ArriveAtPart, ReleaseLoop
<1> HIDE DEF d, a
<1>6. Kept(a, m)
  BY <1>3, <1>4, <1>5, LoopKept, DroppedClear, ClearKept
<1> DEFINE seen == s.play = "playing"
<1>7. Engine(s, hushed) = [a EXCEPT !.seen = seen]
  BY DEF Engine, a, p
<1>8. seen \in BOOLEAN
  OBVIOUS
<1> HIDE DEF seen
<1>9. Kept([a EXCEPT !.seen = seen], m)
  BY <1>6, <1>8, FieldsKept
<1> QED BY <1>7, <1>9

\* While playback goes on, the fade-out touches nothing of the Multiloops.
LEMMA UpdateFadeRows ==
  ASSUME NEW m \in Mixes, NEW s, Sound(s, m), UpdateFade(s).play # "stopped"
  PROVE  LET u == UpdateFade(s)
         IN  u.in = s.in /\ u.mutes = s.mutes /\ u.enabled = s.enabled
<1> DEFINE Untouched(u) == u.in = s.in /\ u.mutes = s.mutes /\ u.enabled = s.enabled
<1>1. Untouched(s) /\ Untouched(RestoreFade(s)) /\ Untouched(Returning(s))
  BY DEF Sound, States, RestoreFade, Returning
<1>2. CASE s.fade.state = "active" /\ s.play = "playing"
  <2> DEFINE age == Least(s.fade.age, FadeLen)
             vol == RampTo(s, age)
             r == [s EXCEPT !.vol = vol]
             q == [Returning(r) EXCEPT !.fresh = 0]
             c == ClearLoops(q)
             h == [c EXCEPT !.play = "stopped", !.queued = FALSE]
  <2>1. UpdateFade(s) \in {r, h}
    BY <1>2 DEF UpdateFade, Ramp, HardStop
  <2> HIDE DEF vol, c
  <2>2. Untouched(r)
    BY DEF Sound, States
  <2> HIDE DEF r
  <2>3. CASE UpdateFade(s) = h
    <3>1. UpdateFade(s) \in States
      BY UpdateFadeSound DEF Sound
    <3>2. h \in States /\ "play" \in DOMAIN h /\ DOMAIN h = DOMAIN c
      BY <2>3, <3>1 DEF States
    <3> QED BY <2>3, <3>2
  <2> QED BY <2>1, <2>2, <2>3
<1>3. CASE ~(s.fade.state = "active" /\ s.play = "playing")
  BY <1>1, <1>3 DEF UpdateFade
<1> QED BY <1>2, <1>3

\* A call of the timer that meets no Auto Fader and no stranded mutes in a lead.
LEMMA TimerKept ==
  ASSUME FadersApart, LeadsApart, NEW m \in Desks, NEW s, Kept(s, m), ~Crosses(s),
         NEW late, NEW engine, NEW hushed
  PROVE  Kept(Timer(s, late, engine, hushed), m)
<1> DEFINE u == UpdateFade(s)
           l == LoopTick(u, late)
<1>1. Sound(s, m.vol) /\ m.vol \in Mixes
  BY DeskParts DEF Kept
<1>2. Kept(u, m)
  BY UpdateFadeKept
<1>3. u.play = "playing" => ~Crosses(u)
  <2> SUFFICES ASSUME u.play = "playing" PROVE ~Crosses(u)
    OBVIOUS
  <2>1. MixerOnly(s, u)
    BY <1>1, UpdateFadeOut
  <2>2. u.in = s.in /\ u.mutes = s.mutes /\ u.enabled = s.enabled
    BY <1>1, UpdateFadeRows
  <2> QED BY <2>1, <2>2 DEF Crosses, Stranded, HoldsMutes, MixerOnly
<1>4. Timer(s, late, engine, hushed) = IF engine THEN Engine(l, hushed) ELSE l
  BY DEF Timer
<1> HIDE DEF u
<1>5. Kept(l, m)
  BY <1>2, <1>3, LoopTickKept
<1> HIDE DEF l
<1>6. Kept(Engine(l, hushed), m)
  BY <1>5, EngineKept
<1> QED BY <1>4, <1>5, <1>6

-----------------------------------------------------------------------------
(* Every step                                                                *)

MixInv == ~crossed => Kept(st, mix)

\* What the operator set is the desk of the lemmas.
LEMMA DeskOfMix ==
  ASSUME IInv
  PROVE  mix \in Desks /\ Sound(st, mix.vol) /\ st \in States
BY DEF IInv, StageTypeOK, Desks, Mixes

\* A command that leaves the mix alone need only make a state that is kept.
LEMMA MakesMix ==
  ASSUME NEW kind, NEW s, Makes(kind, s), ~crossed => Kept(s, mix)
  PROVE  MixInv'
BY DEF Makes, MixInv

\* The timer.
LEMMA CycleMix ==
  ASSUME FadersApart, LeadsApart, IInv, MixInv, Cycle
  PROVE  MixInv'
<1>1. PICK late \in IF st.fresh > 0 THEN BOOLEAN ELSE {FALSE}, engine \in BOOLEAN,
           hushed \in BOOLEAN : st' = Timer(st, late, engine, hushed)
  BY DEF Cycle
<1>2. mix' = mix /\ crossed' = (crossed \/ Crosses(st))
  BY DEF Cycle
<1>3. ~crossed' => Kept(Timer(st, late, engine, hushed), mix)
  BY <1>2, DeskOfMix, TimerKept DEF MixInv
<1> QED BY <1>1, <1>2, <1>3 DEF MixInv

\* Time passes for the fade-out, which holds what it held.
LEMMA TickMix ==
  ASSUME IInv, IInv', MixInv, Tick
  PROVE  MixInv'
<1> DEFINE age == IF st.fade.state = "idle" THEN 0 ELSE Least(st.fade.age + 1, MaxAge)
           fade == [st.fade EXCEPT !.age = age]
           since == Least(st.sinceCancel + 1, CancelWindow)
           fresh == IF st.fresh > 0 THEN st.fresh - 1 ELSE 0
<1>1. PICK p \in NextPositions(st) :
        st' = [st EXCEPT !.pos = p, !.fade.age = age, !.sinceCancel = since, !.fresh = fresh]
  BY DEF Tick
<1>2. st' = [st EXCEPT !.pos = p, !.fade = fade, !.sinceCancel = since, !.fresh = fresh]
  BY <1>1
<1>3. mix' = mix /\ crossed' = crossed
  BY DEF Tick
<1> HIDE DEF age, since, fresh
<1>4. fade.state = st.fade.state /\ fade.before = st.fade.before
  BY DeskOfMix DEF States, Fades
<1> HIDE DEF fade
<1>5. /\ st'.rows = st.rows /\ st'.mutes = st.mutes /\ st'.ms = st.ms /\ st'.vol = st.vol
      /\ st'.out = st.out /\ st'.in = st.in /\ st'.active = st.active
      /\ st'.released = st.released /\ st'.fade = fade
  BY <1>2, DeskOfMix DEF States
<1>6. Sound(st', mix.vol)
  BY <1>3 DEF IInv
<1> SUFFICES ASSUME ~crossed PROVE Kept(st', mix)
  BY <1>3 DEF MixInv
<1>7. Kept(st, mix)
  BY DEF MixInv
<1>8. ASSUME st.fade.state = "idle", NEW t \in Fading
      PROVE  st.vol[t] = mix.vol[t]
  <2>1. t \in Tracks
    BY FadeTypes
  <2>2. st.rows[t] = <<>>
    BY <1>7, <2>1 DEF Kept, Held, RowsHeld
  <2> QED BY <1>7, <1>8, <2>1, <2>2 DEF Kept, Held, FreeHeard
<1>9. st.fade.state # "idle" => \A t \in Fading : st.fade.before[t] = mix.vol[t]
  BY <1>7 DEF Kept, Held, FadeHeld
<1> QED BY <1>4, <1>5, <1>6, <1>7, <1>8, <1>9, DeskOfMix, FadeStepKept

\* Stop, Stop Break and the Stop the extension intercepts.
LEMMA StopsMix ==
  ASSUME IInv, MixInv, Stop \/ BreakStop \/ HookedStop
  PROVE  MixInv'
<1>1. ~crossed => /\ Kept(StopCommand(st), mix) /\ Kept(StopBreak(st), mix)
                  /\ Kept(HardStop(st), mix)
  BY DeskOfMix, StopCommandKept, HardStopKept DEF MixInv
<1> QED BY <1>1, MakesMix DEF Stop, BreakStop, HookedStop

\* Play gives everything back first.
LEMMA PlayMix ==
  ASSUME IInv, IInv', MixInv, Play
  PROVE  MixInv'
<1> DEFINE c == ClearLoops(st)
           fresh == IF st.play = "stopped" THEN FreshLife ELSE 0
<1>1. PICK p \in PlayFrom :
        Makes("play", [c EXCEPT !.play = "playing", !.pos = p, !.fresh = fresh])
  BY DEF Play
<1> DEFINE r == [c EXCEPT !.play = "playing", !.pos = p, !.fresh = fresh]
<1> HIDE DEF fresh
<1>2. r \in States
  BY <1>1 DEF Makes, IInv, StageTypeOK
<1>3. ~crossed => Kept(c, mix)
  BY DeskOfMix, ClearLoopsClear, ClearKept DEF MixInv
<1> HIDE DEF c
<1>4. ~crossed => /\ SameDesk(c, r) /\ r.active = c.active /\ r.released = c.released
  BY <1>3 DEF Kept, Sound, States, SameDesk
<1> HIDE DEF r
<1>5. ~crossed => Kept(r, mix)
  BY <1>2, <1>3, <1>4, DeskOfMix, SameDeskKept
<1> QED BY <1>1, <1>5, MakesMix DEF r

\* A step that touches neither the mixer nor what is held of it.
Untouching ==
  /\ mix' = mix /\ crossed' = crossed
  /\ SameDesk(st, st') /\ st'.active = st.active /\ st'.released = st.released

\* It keeps what is held.
LEMMA UntouchingMix ==
  ASSUME IInv, IInv', MixInv, Untouching
  PROVE  MixInv'
<1>1. st' \in States
  BY DEF IInv, StageTypeOK
<1> QED BY <1>1, DeskOfMix, SameDeskKept DEF Untouching, MixInv

\* Playback that stops, starts, halts or jumps by itself or by REAPER's commands.
LEMMA TransportMix ==
  ASSUME IInv, IInv', MixInv, ProjectEnds \/ ReaperStops \/ HookedPlay \/ Pause \/ Seek
  PROVE  MixInv'
<1>1. mix' = mix /\ crossed' = crossed /\ st \in States
  BY DeskOfMix DEF ProjectEnds, ReaperStops, HookedPlay, Pause, Seek, Makes
<1>2. CASE ProjectEnds \/ ReaperStops
  <2>1. st' = [st EXCEPT !.play = "stopped"]
    BY <1>2 DEF ProjectEnds, ReaperStops, Makes
  <2> QED BY <1>1, <2>1, UntouchingMix DEF Untouching, SameDesk, States
<1>3. CASE HookedPlay
  <2>1. PICK p \in PlayFrom : st' = [st EXCEPT !.play = "playing", !.pos = p]
    BY <1>3 DEF HookedPlay, Makes
  <2> QED BY <1>1, <2>1, UntouchingMix DEF Untouching, SameDesk, States
<1>4. CASE Pause
  <2> DEFINE play == IF st.play = "playing" THEN "paused" ELSE "playing"
  <2>1. PICK fresh \in {st.fresh, 0} : st' = [st EXCEPT !.play = play, !.fresh = fresh]
    BY <1>4 DEF Pause, Makes
  <2> HIDE DEF play
  <2> QED BY <1>1, <2>1, UntouchingMix DEF Untouching, SameDesk, States
<1>5. CASE Seek
  <2>1. PICK p \in SeekTo : st' = [st EXCEPT !.pos = p]
    BY <1>5 DEF Seek, Makes
  <2> QED BY <1>1, <2>1, UntouchingMix DEF Untouching, SameDesk, States
<1> QED BY <1>2, <1>3, <1>4, <1>5

\* Commands that set a slot, the queue, a request or an armed part.
LEMMA SettingsMix ==
  ASSUME IInv, IInv', MixInv,
         SlotOn \/ ToggleMs \/ RequestBypass \/ Queue \/ GoToPart \/ DisarmPart
  PROVE  MixInv'
<1>1. mix' = mix /\ crossed' = crossed /\ st \in States
  BY DeskOfMix DEF SlotOn, ToggleMs, RequestBypass, Queue, GoToPart, DisarmPart, Makes
<1>2. CASE SlotOn
  <2>1. PICK k \in Paired : st' = [st EXCEPT !.enabled[k] = TRUE]
    BY <1>2 DEF SlotOn, Makes
  <2> QED BY <1>1, <2>1, UntouchingMix DEF Untouching, SameDesk, States
<1>3. CASE ToggleMs
  <2>1. PICK k \in Paired : st' = [st EXCEPT !.msOn[k] = ~st.msOn[k]]
    BY <1>3 DEF ToggleMs, Makes
  <2> QED BY <1>1, <2>1, UntouchingMix DEF Untouching, SameDesk, States
<1>4. CASE RequestBypass
  <2>1. PICK request \in {"on", "off", "toggle"} : st' = [st EXCEPT !.request = request]
    BY <1>4 DEF RequestBypass, Makes
  <2> QED BY <1>1, <2>1, UntouchingMix DEF Untouching, SameDesk, States
<1>5. CASE Queue
  <2> DEFINE q == ~st.queued
  <2>1. st' = [st EXCEPT !.queued = q]
    BY <1>5 DEF Queue, Makes
  <2> HIDE DEF q
  <2> QED BY <1>1, <2>1, UntouchingMix DEF Untouching, SameDesk, States
<1>6. CASE GoToPart
  <2>1. PICK p \in Marks : st' \in {[st EXCEPT !.armed = None, !.pos = p],
          [st EXCEPT !.armed = p], [st EXCEPT !.armed = p, !.origin = st.pos]}
    BY <1>6 DEF GoToPart, Makes
  <2> QED BY <1>1, <2>1, UntouchingMix DEF Untouching, SameDesk, States
<1>7. CASE DisarmPart
  <2>1. st' = [st EXCEPT !.armed = None]
    BY <1>7 DEF DisarmPart, Makes
  <2> QED BY <1>1, <2>1, UntouchingMix DEF Untouching, SameDesk, States
<1> QED BY <1>2, <1>3, <1>4, <1>5, <1>6, <1>7

\* Repeat, and the release of control.
LEMMA LoopsMix ==
  ASSUME IInv, MixInv, LoopOn \/ LoopOff \/ ReleaseControl
  PROVE  MixInv'
<1>1. st.pos \in Positions
  BY DeskOfMix DEF States
<1>2. CASE LoopOn
  <2> DEFINE l == LoopOver(st, Segment(st.pos))
  <2>1. ~crossed /\ st.pos < SongEnd => Kept(l, mix)
    BY <1>1, DeskOfMix, SegmentType, LoopKept DEF MixInv
  <2>2. ~crossed => Kept(NoLoop(st), mix)
    BY DeskOfMix, LoopKept DEF MixInv
  <2>3. Makes("loop", IF st.pos < SongEnd THEN l ELSE NoLoop(st))
    BY <1>2 DEF LoopOn
  <2> HIDE DEF l
  <2> QED BY <2>1, <2>2, <2>3, MakesMix
<1>3. CASE LoopOff
  BY <1>3, DeskOfMix, LoopKept, MakesMix DEF LoopOff, MixInv
<1>4. CASE ReleaseControl
  <2> DEFINE r == BreakFade(st)
             n == IF st.active # None THEN NoLoop(r) ELSE r
             z == [Dropped(n) EXCEPT !.released = None]
  <2>1. Makes("release", z)
    BY <1>4 DEF ReleaseControl
  <2>2. ~crossed => Kept(r, mix)
    BY DeskOfMix, FadesKept DEF MixInv
  <2> HIDE DEF r
  <2>3. ~crossed => Kept(n, mix)
    BY <2>2, DeskOfMix, LoopKept
  <2> HIDE DEF n
  <2>4. ~crossed => Kept(z, mix)
    BY <2>3, DeskOfMix, DroppedClear, ClearKept
  <2> HIDE DEF z
  <2> QED BY <2>1, <2>4, MakesMix
<1> QED BY <1>2, <1>3, <1>4

\* A slot that is turned off while it repeats gives its mutes back and leaves the
\* rest to the Auto Fader that comes back.
LEMMA SlotOffMix ==
  ASSUME IInv, IInv', MixInv, SlotOff
  PROVE  MixInv'
<1> DEFINE r(k) == [st EXCEPT !.enabled[k] = FALSE, !.msOn[k] = FALSE]
           quiet(k) == [NoLoop(r(k)) EXCEPT !.ms = Unmuted(st), !.mutes = NoRows]
           end(k) == IF st.pos < To[k] THEN To[k] ELSE st.pos + 1
<1>1. PICK k \in Paired :
        Makes("slot", IF st.active = k THEN LetGo(quiet(k), k, end(k)) ELSE r(k))
  BY DEF SlotOff
<1>2. k \in Slots /\ k # None /\ mix.vol \in Mixes
  BY StretchTypes, Numbers, DeskOfMix, DeskParts DEF Slots
<1>3. st' \in States /\ Sound(st', mix.vol) /\ mix' = mix /\ crossed' = crossed
  BY <1>1 DEF IInv, StageTypeOK, Makes
<1>4. Sound(r(k), mix.vol)
  BY <1>2, DeskOfMix, SlotSound
<1>5. SameDesk(st, r(k)) /\ r(k).active = st.active /\ r(k).released = st.released
  BY DeskOfMix DEF States, SameDesk
<1> HIDE DEF r, end
<1>6. CASE st.active # k
  <2>1. st' = r(k)
    BY <1>1, <1>6 DEF Makes
  <2> QED BY <1>3, <1>5, <2>1, UntouchingMix DEF Untouching
<1>7. CASE st.active = k
  <2> SUFFICES ASSUME ~crossed PROVE MixInv'
    BY <1>3 DEF MixInv
  <2>1. Kept(st, mix) /\ ~st.out
    BY <1>2, <1>7 DEF MixInv, Kept, Owned
  <2>2. Sound(NoLoop(r(k)), mix.vol) /\ SameDesk(r(k), NoLoop(r(k)))
    <3>1. SameDesk(r(k), NoLoop(r(k)))
      BY <1>4 DEF Sound, States, NoLoop, SameDesk
    <3> QED BY <1>2, <1>4, <3>1, LoopSound
  <2>3. Sound(quiet(k), mix.vol)
    BY <1>2, <2>2, DeskOfMix, RestoredType, NoRowsType, MutesSound
  <2> DEFINE l == NoLoop(r(k))
             q == [l EXCEPT !.ms = Unmuted(st), !.mutes = NoRows]
  <2>4. q = quiet(k) /\ l \in States
    BY <2>2 DEF Sound
  <2> HIDE DEF l, quiet
  <2>5. /\ q.rows = l.rows /\ q.vol = l.vol /\ q.fade = l.fade /\ q.out = l.out
        /\ q.ms = Unmuted(st) /\ q.mutes = NoRows
    BY <2>4 DEF States
  <2> HIDE DEF q
  <2>6. q.rows = st.rows /\ q.vol = st.vol /\ q.fade = st.fade /\ q.out = st.out
    BY <1>5, <2>2, <2>5 DEF SameDesk, l
  <2>7. RowsHeld(q, mix) /\ FreeHeard(q, mix) /\ FadeHeld(q, mix)
    BY <2>1, <2>6 DEF Kept, Held, RowsHeld, FreeHeard, FadeHeld
  <2>8. MutesHeld(q, mix)
    <3>1. \A t \in Tracks : NoRows[t] = <<>> /\ Unmuted(st)[t] = mix.ms[t]
      BY <2>1, DeskOfMix, UnmutedOwn DEF Kept, NoRows
    <3> QED BY <2>5, <3>1 DEF MutesHeld
  <2>9. Held(q, mix) /\ Sound(q, mix.vol) /\ ~q.out
    BY <2>1, <2>3, <2>4, <2>6, <2>7, <2>8 DEF Held
  <2>10. st' = LetGo(q, k, end(k))
    BY <1>1, <1>7, <2>4 DEF Makes
  <2>11. Kept(LetGo(q, k, end(k)), mix)
    <3> DEFINE e == end(k)
    <3>1. Sound(LetGo(q, k, e), mix.vol)
      BY <1>3, <2>10
    <3> HIDE DEF e
    <3>2. Kept(LetGo(q, k, e), mix)
      BY <2>9, <3>1, DeskOfMix, LetGoKept
    <3> QED BY <3>2 DEF e
  <2> QED BY <1>3, <2>10, <2>11 DEF MixInv
<1> QED BY <1>6, <1>7

\* A new limit moves a track that is held, and not what is held of it.
LEMMA SetLimitMix ==
  ASSUME IInv, IInv', MixInv, SetLimit
  PROVE  MixInv'
<1> DEFINE r(k, t, v) == [st EXCEPT !.limit[k][t] = v]
           target(t, v) == FadeTarget(st.rows[t][1].vol, v)
           heard(k, t) == t \in AutoTracks[k] /\ st.active = k /\ st.rows[t] # <<>>
           h(k, t, v) == [r(k, t, v) EXCEPT !.rows[t][1].target = target(t, v),
                                            !.vol[t] = target(t, v)]
<1>1. PICK k \in Paired, t \in Tracks, v \in Levels :
        Makes("limit", IF heard(k, t) THEN h(k, t, v) ELSE r(k, t, v))
  BY DEF SetLimit
<1>2. st' \in States /\ Sound(st', mix.vol) /\ mix' = mix /\ crossed' = crossed
      /\ v \in Volumes /\ k \in Slots
  BY <1>1, StretchTypes, StagePlaces DEF IInv, StageTypeOK, Makes, Volumes
<1> DEFINE b == r(k, t, v)
           q == b.rows[t]
           w == target(t, v)
           e == [q[1] EXCEPT !.target = w]
           n == [q EXCEPT ![1] = e]
           rows == [b.rows EXCEPT ![t] = n]
           vol  == [b.vol EXCEPT ![t] = w]
           g == h(k, t, v)
<1>3. b \in States /\ SameDesk(st, b) /\ b.active = st.active /\ b.released = st.released
  BY <1>2, DeskOfMix DEF States, SameDesk
<1>4. CASE ~heard(k, t)
  <2>1. st' = b
    BY <1>1, <1>4 DEF Makes
  <2> HIDE DEF b
  <2> QED BY <1>2, <1>3, <2>1, UntouchingMix DEF Untouching
<1>5. CASE heard(k, t)
  <2> SUFFICES ASSUME ~crossed PROVE Kept(st', mix)
    BY <1>2 DEF MixInv
  <2>1. g = [b EXCEPT !.rows = rows, !.vol = vol]
    OBVIOUS
  <2>2. st' = g
    BY <1>1, <1>5 DEF Makes
  <2>3. Kept(st, mix)
    BY DEF MixInv
  <2>4. q = st.rows[t] /\ q # <<>> /\ q \in Seq(Rows) /\ w = FadeTarget(q[1].vol, v)
    BY <1>3, <1>5 DEF SameDesk, States
  <2> HIDE DEF b, q, w
  <2>5. t \notin Fading /\ Len(q) = 1 /\ q[1].vol = mix.vol[t]
    BY <2>3, <2>4 DEF Kept, Held, RowsHeld
  <2>6. 1 \in 1..Len(q) /\ q[1] \in Rows /\ q[1].vol \in Volumes
    <3>1. 1 \in 1..Len(q)
      BY <2>5
    <3>2. q[1] \in Rows
      BY <2>4, <3>1
    <3> QED BY <3>1, <3>2 DEF Rows
  <2>7. w \in Volumes
    BY <1>2, <2>4, <2>6, TargetType
  <2>8. e \in Rows /\ e.vol = q[1].vol
    BY <2>6, <2>7 DEF Rows
  <2> HIDE DEF e
  <2>9. n \in Seq(Rows) /\ Len(n) = 1 /\ n[1] = e
    BY <2>4, <2>5, <2>6, <2>8, ExceptSeq
  <2>10. b.rows \in [Tracks -> Seq(Rows)] /\ b.vol \in [Tracks -> Volumes]
    BY <1>3 DEF States
  <2> HIDE DEF n
  <2>11. /\ \A u \in Tracks : rows[u] = IF u = t THEN n ELSE b.rows[u]
         /\ \A u \in Tracks : vol[u] = IF u = t THEN w ELSE b.vol[u]
    BY <2>10
  <2> HIDE DEF rows, vol, g
  <2>12. /\ g.rows = rows /\ g.vol = vol /\ g.fade = b.fade /\ g.mutes = b.mutes
         /\ g.ms = b.ms /\ g.out = b.out /\ g.in = b.in /\ g.active = b.active
         /\ g.released = b.released
    BY <1>3, <2>1 DEF States
  <2>13. n # <<>>
    BY <2>9, EmptySeq
  <2>14. /\ \A u \in Tracks : g.rows[u] = IF u = t THEN n ELSE st.rows[u]
         /\ \A u \in Tracks : g.vol[u] = IF u = t THEN w ELSE st.vol[u]
         /\ g.fade = st.fade /\ g.mutes = st.mutes /\ g.ms = st.ms /\ g.out = st.out
         /\ g.in = st.in /\ g.active = st.active /\ g.released = st.released
    BY <1>3, <2>11, <2>12 DEF SameDesk
  <2>15. RowsHeld(g, mix)
    BY <2>3, <2>5, <2>8, <2>9, <2>14 DEF Kept, Held, RowsHeld
  <2>16. FreeHeard(g, mix)
    BY <2>3, <2>13, <2>14 DEF Kept, Held, FreeHeard
  <2>17. FadeHeld(g, mix) /\ MutesHeld(g, mix)
    BY <2>3, <2>14 DEF Kept, Held, FadeHeld, MutesHeld
  <2>18. HoldsFaders(st) /\ (HoldsMutes(g) <=> HoldsMutes(st))
    BY <2>4, <2>14 DEF HoldsFaders, HoldsMutes
  <2>19. Owned(g) /\ Unmixed(g)
    BY <2>3, <2>14, <2>18 DEF Kept, Owned, Unmixed
  <2> QED BY <1>2, <2>2, <2>15, <2>16, <2>17, <2>19 DEF Kept, Held
<1> QED BY <1>4, <1>5

\* The operator sets what nobody holds.
LEMMA MixMix ==
  ASSUME IInv, IInv', MixInv, Mix
  PROVE  MixInv'
<1>1. PICK t \in Tracks :
        \/ \E v \in Levels :
             /\ st.rows[t] = <<>> /\ (t \in Fading => st.fade.state = "idle")
             /\ mix' = [mix EXCEPT !.vol[t] = v] /\ st' = [st EXCEPT !.vol[t] = v]
        \/ /\ st.mutes[t] = <<>>
           /\ mix' = [mix EXCEPT !.ms[t] = ~mix.ms[t]]
           /\ st' = [st EXCEPT !.ms[t] = ~st.ms[t]]
  BY DEF Mix
<1>2. /\ mix \in [vol : [Tracks -> Volumes], ms : [Tracks -> BOOLEAN]]
      /\ st \in States /\ crossed' = crossed /\ Sound(st', mix'.vol)
  BY DEF IInv, StageTypeOK, Mix
<1> SUFFICES ASSUME ~crossed PROVE Kept(st', mix')
  BY <1>2 DEF MixInv
<1>3. Kept(st, mix)
  BY DEF MixInv
<1>4. CASE \E v \in Levels :
             /\ st.rows[t] = <<>> /\ (t \in Fading => st.fade.state = "idle")
             /\ mix' = [mix EXCEPT !.vol[t] = v] /\ st' = [st EXCEPT !.vol[t] = v]
  <2>1. PICK v \in Levels :
          /\ st.rows[t] = <<>> /\ (t \in Fading => st.fade.state = "idle")
          /\ mix' = [mix EXCEPT !.vol[t] = v] /\ st' = [st EXCEPT !.vol[t] = v]
    BY <1>4
  <2>2. /\ mix'.ms = mix.ms /\ \A u \in Tracks : mix'.vol[u] = IF u = t THEN v ELSE mix.vol[u]
    BY <1>2, <2>1
  <2>3. /\ st'.rows = st.rows /\ st'.fade = st.fade /\ st'.mutes = st.mutes /\ st'.ms = st.ms
        /\ st'.out = st.out /\ st'.in = st.in /\ st'.active = st.active
        /\ st'.released = st.released
        /\ \A u \in Tracks : st'.vol[u] = IF u = t THEN v ELSE st.vol[u]
    BY <1>2, <2>1 DEF States
  <2>4. RowsHeld(st', mix') /\ MutesHeld(st', mix')
    BY <1>3, <2>1, <2>2, <2>3 DEF Kept, Held, RowsHeld, MutesHeld
  <2>5. FreeHeard(st', mix')
    BY <1>3, <2>2, <2>3 DEF Kept, Held, FreeHeard
  <2>6. FadeHeld(st', mix')
    BY <1>3, <2>1, <2>2, <2>3, FadeTypes DEF Kept, Held, FadeHeld
  <2>7. Owned(st') /\ Unmixed(st')
    BY <1>3, <2>3 DEF Kept, Owned, Unmixed, HoldsFaders, HoldsMutes
  <2> QED BY <1>2, <2>4, <2>5, <2>6, <2>7 DEF Kept, Held
<1>5. CASE /\ st.mutes[t] = <<>>
           /\ mix' = [mix EXCEPT !.ms[t] = ~mix.ms[t]]
           /\ st' = [st EXCEPT !.ms[t] = ~st.ms[t]]
  <2> DEFINE a == ~mix.ms[t]
             b == ~st.ms[t]
  <2>1. a = b
    BY <1>3, <1>5 DEF Kept, Held, MutesHeld
  <2>2. mix' = [mix EXCEPT !.ms[t] = a] /\ st' = [st EXCEPT !.ms[t] = b]
    BY <1>5
  <2> HIDE DEF a, b
  <2>3. /\ mix'.vol = mix.vol /\ \A u \in Tracks : mix'.ms[u] = IF u = t THEN a ELSE mix.ms[u]
    BY <1>2, <2>2
  <2>4. /\ st'.rows = st.rows /\ st'.fade = st.fade /\ st'.mutes = st.mutes
        /\ st'.vol = st.vol /\ st'.out = st.out /\ st'.in = st.in
        /\ st'.active = st.active /\ st'.released = st.released
        /\ \A u \in Tracks : st'.ms[u] = IF u = t THEN b ELSE st.ms[u]
    BY <1>2, <2>2 DEF States
  <2>5. RowsHeld(st', mix') /\ FreeHeard(st', mix') /\ FadeHeld(st', mix')
    BY <1>3, <2>3, <2>4 DEF Kept, Held, RowsHeld, FreeHeard, FadeHeld
  <2>6. MutesHeld(st', mix')
    BY <1>3, <1>5, <2>1, <2>3, <2>4 DEF Kept, Held, MutesHeld
  <2>7. Owned(st') /\ Unmixed(st')
    BY <1>3, <2>4 DEF Kept, Owned, Unmixed, HoldsFaders, HoldsMutes
  <2> QED BY <1>2, <2>5, <2>6, <2>7 DEF Kept, Held
<1> QED BY <1>1, <1>4, <1>5

\* Nothing is held when the extension starts.
LEMMA InitMix ==
  ASSUME Init
  PROVE  MixInv
<1>1. Sound(st, mix.vol)
  BY InitSound DEF IInv
<1>2. /\ st.rows = NoRows /\ st.mutes = NoRows /\ st.vol = mix.vol /\ st.ms = mix.ms
      /\ st.fade.state = "idle" /\ ~st.out
  BY DEF Init, StateOf, NoFade
<1>3. \A t \in Tracks : NoRows[t] = <<>>
  BY DEF NoRows
<1>4. Held(st, mix)
  BY <1>2, <1>3 DEF Held, RowsHeld, FreeHeard, FadeHeld, MutesHeld
<1>5. Clear(st, mix)
  BY <1>1, <1>2, <1>3, <1>4 DEF Clear, HoldsFaders, HoldsMutes
<1> QED BY <1>5, ClearKept DEF MixInv

\* Every action.
LEMMA StepMix ==
  ASSUME FadersApart, LeadsApart, IInv, MixInv, [Next]_vars
  PROVE  MixInv'
<1>1. IInv'
  BY StepKeeps
<1>2. CASE UNCHANGED vars
  BY <1>2 DEF vars, MixInv
<1>3. CASE Cycle \/ Tick \/ Play \/ Stop \/ BreakStop \/ HookedStop
  BY <1>1, <1>3, CycleMix, TickMix, PlayMix, StopsMix
<1>4. CASE ProjectEnds \/ ReaperStops \/ HookedPlay \/ Pause \/ Seek
  BY <1>1, <1>4, TransportMix
<1>5. CASE SlotOn \/ ToggleMs \/ RequestBypass \/ Queue \/ GoToPart \/ DisarmPart
  BY <1>1, <1>5, SettingsMix
<1>6. CASE LoopOn \/ LoopOff \/ ReleaseControl
  BY <1>6, LoopsMix
<1>7. CASE SlotOff \/ SetLimit \/ Mix
  BY <1>1, <1>7, SlotOffMix, SetLimitMix, MixMix
<1> QED BY <1>2, <1>3, <1>4, <1>5, <1>6, <1>7 DEF Next

\* What will be given back, and what is on the desk when nothing is held, is what
\* the operator set, however pauses, jumps, parts, slots, limits, bypass and the
\* two kinds of Stop follow one another, as long as no lead is entered while an
\* Auto Fader of another stretch still comes back or its mutes are stranded.
THEOREM MixKeptHolds ==
  ASSUME FadersApart, LeadsApart
  PROVE  Spec => []MixKept
<1>1. Init => MixInv
  BY InitMix
<1>2. IInv /\ MixInv /\ [Next]_vars => MixInv'
  BY StepMix
<1>3. IInv /\ MixInv => MixKept
  <2> SUFFICES ASSUME MixInv, ~crossed, NEW t \in Tracks
               PROVE  /\ mix.vol[t] = IF st.rows[t] # <<>> THEN Newest(st.rows[t]).vol
                            ELSE IF t \in Fading /\ st.fade.state # "idle"
                                 THEN st.fade.before[t] ELSE st.vol[t]
                      /\ mix.ms[t] = IF st.mutes[t] # <<>> THEN Newest(st.mutes[t])
                                     ELSE st.ms[t]
    BY DEF MixKept
  <2>1. Held(st, mix)
    BY DEF MixInv, Kept
  <2>2. CASE st.rows[t] # <<>>
    <3>1. Len(st.rows[t]) = 1 /\ st.rows[t][1].vol = mix.vol[t]
      BY <2>1, <2>2 DEF Held, RowsHeld
    <3>2. Newest(st.rows[t]) = st.rows[t][1]
      BY <3>1, NewestOfOne
    <3>3. mix.ms[t] = IF st.mutes[t] # <<>> THEN Newest(st.mutes[t]) ELSE st.ms[t]
      BY <2>1, NewestOfOne DEF Held, MutesHeld
    <3> QED BY <2>2, <3>1, <3>2, <3>3
  <2>3. CASE st.rows[t] = <<>>
    <3>1. mix.vol[t] = IF t \in Fading /\ st.fade.state # "idle" THEN st.fade.before[t]
                       ELSE st.vol[t]
      BY <2>1, <2>3 DEF Held, FreeHeard, FadeHeld
    <3>2. mix.ms[t] = IF st.mutes[t] # <<>> THEN Newest(st.mutes[t]) ELSE st.ms[t]
      BY <2>1, NewestOfOne DEF Held, MutesHeld
    <3> QED BY <2>3, <3>1, <3>2
  <2> QED BY <2>2, <2>3
<1> QED BY <1>1, <1>2, <1>3, SoundAlways, PTL DEF Spec
=============================================================================
