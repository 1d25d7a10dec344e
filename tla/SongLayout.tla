---------------------------- MODULE SongLayout ----------------------------
(***************************************************************************)
(* What the playback automation reads of a project: its songs (REAPER      *)
(* regions, NativeSongWindow), their bounds on the time line, the families *)
(* of parent and child songs, and the active playlist with its blocks.     *)
(* Positions are whole units of time; the half-open interval               *)
(* Start[s] .. End[s]-1 is the song.  The code's tolerances for equal      *)
(* positions (0.5 to 3 ms) are the equality of two units.                  *)
(***************************************************************************)
EXTENDS Integers, Sequences

CONSTANTS
  Songs,      \* the playable songs of the project
  None,       \* "no song" (an empty id)
  Block,      \* a block header in the playlist
  Start, End, \* bounds of every song
  Parent,     \* the family parent of a child song, None for the others
  Playlist    \* the active playlist: songs and block headers in order

ASSUME NoneAssumption  == None \notin Songs /\ Block \notin Songs /\ None # Block
ASSUME BoundAssumption == /\ Start \in [Songs -> Nat]
                          /\ End \in [Songs -> Nat]
                          /\ \A s \in Songs : Start[s] < End[s]
ASSUME FamilyAssumption == Parent \in [Songs -> Songs \cup {None}]
ASSUME PlaylistAssumption == Playlist \in Seq(Songs \cup {Block})

SongOrNone == Songs \cup {None}
Span(s)    == End[s] - Start[s]
Children   == {s \in Songs : Parent[s] # None}
Parents    == {Parent[c] : c \in Children}

SameSpan(s, u) == Start[s] = Start[u] /\ End[s] = End[u]
Contains(s, p) == Start[s] <= p /\ p < End[s]

\* nativeSongBoundsMatch: a start at 0 is taken for one that is not known.
BoundsMatch(s, u) == (Start[u] = 0 \/ Start[s] = Start[u]) /\ End[s] = End[u]

\* One element of a set, or None: the code's "best so far" pointer.
AnyOf(S) == IF S = {} THEN None ELSE CHOOSE s \in S : TRUE

\* nativeFindPlayingId: the shortest song at p, a child winning a tie.
PlayingSong(p) ==
  LET here == {s \in Songs : Contains(s, p)}
  IN  AnyOf({s \in here : \A o \in here :
               \/ Span(s) < Span(o)
               \/ Span(s) = Span(o) /\ (o \in Children => s \in Children)})

\* nativeFindPlayingFamilyChildLocked: the child that is playing, by its id or
\* its bounds, else the shortest child at p.
FamilyChild(song, p) ==
  LET named == {c \in Children : c = song \/ (song # None /\ SameSpan(c, song))}
      here  == {c \in Children : Contains(c, p)}
  IN  IF named # {} THEN AnyOf(named)
      ELSE AnyOf({c \in here : \A o \in here : Span(c) <= Span(o)})

\* Mutant: the child itself is the source.
SourceIsChild(song, p) == song
\* nativeResolveQueueSourceBoundary: a child plays inside its parent, whose end
\* is the boundary a queue or a stop waits for.
SourceOf(song, p) ==
  LET child == FamilyChild(song, p)
  IN  IF child # None THEN Parent[child] ELSE song

Entries == {i \in 1..Len(Playlist) : Playlist[i] # Block}
AnyIndex(I) == IF I = {} THEN 0 ELSE CHOOSE i \in I : TRUE
LowestIn(I) == AnyIndex({i \in I : \A j \in I : i <= j})
HighestIn(I) == AnyIndex({i \in I : \A j \in I : j <= i})

\* nativeFindCurrentIndexInActivePlaylist: the last entry with the bounds of
\* the playing song; for a child the entry of its parent, when there is one.
CurrentIndex(song) ==
  LET same == {i \in Entries : SameSpan(Playlist[i], song)}
      at   == HighestIn(same)
      home == IF at = 0 \/ Playlist[at] \notin Children THEN 0
              ELSE LowestIn({i \in Entries : Playlist[i] = Parent[Playlist[at]]})
      around == {i \in Entries : /\ Playlist[i] \in Parents
                                 /\ Start[Playlist[i]] <= Start[song]
                                 /\ End[song] <= End[Playlist[i]]}
  IN  IF at = 0 THEN HighestIn(around) ELSE IF home # 0 THEN home ELSE at

\* nativeResolveNextAutoQueueTarget: the next entry that is neither a block nor
\* a child.  When AT/BL is on and a block lies in between there is no next song
\* and that entry is the boundary target instead.
NextIndex(i) == IF i = 0 THEN 0
                ELSE LowestIn({j \in Entries : j > i /\ Playlist[j] \notin Children})
CrossesBlock(i, j) == \E k \in (i + 1)..(j - 1) : Playlist[k] = Block

NextAuto(i, bl) ==
  LET j == NextIndex(i)
  IN  IF j = 0 \/ (bl /\ CrossesBlock(i, j)) THEN None ELSE Playlist[j]
\* Mutant: the block header instead of the song behind it.
BoundaryHeader(i, bl) ==
  LET j == NextIndex(i)
  IN  IF j # 0 /\ bl /\ CrossesBlock(i, j) THEN Playlist[j - 1] ELSE None
BoundaryTarget(i, bl) ==
  LET j == NextIndex(i)
  IN  IF j # 0 /\ bl /\ CrossesBlock(i, j) THEN Playlist[j] ELSE None
=============================================================================
