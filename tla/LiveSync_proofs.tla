--------------------------- MODULE LiveSync_proofs ---------------------------
(* The copy of a steady item follows the original, for all projects, bounds  *)
(* and numbers of events. Everything underway, in the outbox, with the relay *)
(* or late, is related to both ends: events of one item grow in age with     *)
(* their number, none is newer than the original, and one that PC B would    *)
(* still take is not older than the copy. Bundles and deletions never name a *)
(* thing that lasts.                                                         *)
EXTENDS LiveSync, FiniteSetTheorems, TLAPS

Permanent == Tracks \ Spare
Lasting == Steady \cup Permanent
Mail == outbox \cup toB \cup late

\* Steady items lie on permanent tracks and keep their shape.
Sound(p) ==
    /\ Permanent \subseteq p.tracks
    /\ \A i \in Steady : p.items[i].track \in Permanent /\ p.items[i].shape = 0

ProjectsSound ==
    /\ Sound(projA) /\ Sound(projB)
    /\ known # None => Sound(known)
    /\ snap # None => Sound(snap)

\* An event does no harm to what lasts.
Harmless(e) ==
    /\ e.kind = "itemDelete" => e.id \notin Steady
    /\ e.kind = "trackDelete" => e.id \notin Permanent
    /\ e.kind = "trackUpsert" => e.plan \subseteq {e.id}
    /\ e.kind = "itemState" /\ e.id \in Steady => e.item.track \in Permanent
    /\ e.plan \cap Lasting = {}

PlansSpare ==
    /\ \A e \in Mail : Harmless(e)
    /\ job.plan \cap Lasting = {}
    /\ queued \cap Lasting = {}

States == {e \in Mail : e.kind = "itemState" /\ e.id \in Steady}

NotNewer ==
    \A e \in States :
        /\ e.item.age <= projA.items[e.id].age
        /\ e.item.age = projA.items[e.id].age => e.item.track = projA.items[e.id].track

InOrder ==
    \A d, e \in States : d.id = e.id /\ d.seq <= e.seq => d.item.age <= e.item.age

CopyBehind ==
    \A i \in Steady :
        /\ projB.items[i].age <= projA.items[i].age
        /\ \A e \in States : e.id = i /\ e.seq > applied[i] => projB.items[i].age <= e.item.age

AgesPast == \A i \in Items : projA.items[i].age <= edits

Typed == TypeOK /\ AgesPast
Spared == ProjectsSound /\ PlansSpare
Ordered == NotNewer /\ InOrder /\ CopyBehind /\ Whole
IInv == Typed /\ Spared /\ Ordered
-----------------------------------------------------------------------------
(* The operators                                                             *)

\* An item that is gone has a state; nothing is named None.
LEMMA GoneTyped == Gone \in ItemStates /\ None \notin Things
  BY LiveAssumption, OutboxAssumption DEF Gone, ItemStates, Ages

\* Putting an item into a project makes a project that differs there alone.
LEMMA ItemSet ==
  ASSUME NEW p \in Projects, NEW i \in Items, NEW st \in ItemStates
  PROVE  /\ With(p, i, st) \in Projects
         /\ With(p, i, st).tracks = p.tracks
         /\ \A j \in Items : With(p, i, st).items[j]
                              = IF j = i THEN st ELSE p.items[j]
  BY DEF Projects, With

\* A track taken out takes along the items on it, and nothing else.
LEMMA WithoutTyped ==
  ASSUME NEW p \in Projects, NEW t
  PROVE  /\ Without(p, t) \in Projects
         /\ Without(p, t).tracks = p.tracks \ {t}
         /\ \A j \in Items : Without(p, t).items[j]
                              = IF p.items[j].track = t THEN Gone ELSE p.items[j]
  BY GoneTyped DEF Projects, Without, On

\* A new event of a poll has a number no older event has.
LEMMA Recorded ==
  ASSUME NEW messages, IsFiniteSet(messages), seq \in Nat, Record(messages),
         \A m \in messages : m.kind \in Kinds /\ m.id \in Things \cup {None}
  PROVE  /\ seq' \in Nat /\ seq <= seq'
         /\ \A m \in messages : /\ Number(m, messages) \in Nat
                                 /\ seq < Number(m, messages)
                                 /\ Number(m, messages) <= seq'
         /\ outbox' \subseteq outbox \cup Numbered(messages)
         /\ UNCHANGED relayVars
<1>1. Cardinality(messages) \in Nat
  BY FS_CardinalityType
<1>2. ASSUME NEW m \in messages
      PROVE  /\ Number(m, messages) \in Nat
             /\ seq < Number(m, messages)
             /\ Number(m, messages) <= seq + Cardinality(messages)
  <2> DEFINE B == {n \in messages : Before(n, m)}
  <2>1. B \in SUBSET messages
    OBVIOUS
  <2>2. /\ IsFiniteSet(B) /\ Cardinality(B) <= Cardinality(messages)
        /\ Cardinality(messages) = Cardinality(B) => messages = B
    BY <2>1, FS_Subset
  <2>3. Cardinality(B) \in Nat
    BY <2>2, FS_CardinalityType
  <2>4. ~Before(m, m)
    <3>1. KindRank[m.kind] \in Nat /\ Rank[m.id] \in Nat
      BY OutboxAssumption DEF KindRank, Kinds
    <3> QED
      BY <3>1 DEF Before
  <2>5. messages # B
    BY <2>4
  <2>6. Number(m, messages) = seq + 1 + Cardinality(B)
    BY DEF Number
  <2> HIDE DEF B
  <2> QED
    BY <1>1, <2>2, <2>3, <2>5, <2>6
<1> QED
  BY <1>1, <1>2 DEF Record

-----------------------------------------------------------------------------
(* Types                                                                     *)

\* The image of a finite set under a function is finite.
LEMMA FiniteImage ==
  ASSUME NEW S, IsFiniteSet(S), NEW f, f = [x \in S |-> f[x]]
  PROVE  IsFiniteSet({f[x] : x \in S})
<1> DEFINE T == {f[x] : x \in S}
<1>1. f \in Surjection(S, T)
  BY DEF Surjection
<1> QED
  BY <1>1, FS_Surjection

\* What a poll finds is a finite set of well-formed messages.
LEMMA DifferencesTyped ==
  ASSUME TypeOK
  PROVE  /\ IsFiniteSet(Differences)
         /\ \A m \in Differences : /\ m.kind \in Kinds /\ m.id \in Things \cup {None}
                                   /\ m.item \in ItemStates /\ m.plan \in SUBSET Things
<1> USE DEF TypeOK
<1>1. /\ DeletedItems \subseteq Items /\ LightStates \subseteq Items /\ NewShapes \subseteq Items
  BY DEF DeletedItems, LightStates, NewShapes, Held
<1>2. Baseline.tracks \subseteq Tracks
  BY DEF Baseline, Established, Projects
<1>3. /\ DeletedTracks \subseteq Tracks /\ NewTracks \subseteq Tracks
      /\ ReportedTracks \subseteq Tracks
  BY <1>2 DEF DeletedTracks, NewTracks, ReportedTracks, Projects
<1>4. \A i \in Items : [projA.items[i] EXCEPT !.shape = 0] \in ItemStates
  BY LiveAssumption DEF Projects, ItemStates, Ages
<1> DEFINE itemDelete == [i \in DeletedItems |-> Message("itemDelete", i, Gone, {})]
           trackDelete == [t \in DeletedTracks |-> Message("trackDelete", t, Gone, {})]
           upsert == [t \in ReportedTracks |->
                        Message("trackUpsert", t, Gone, {t} \cap NewTracks)]
           state == [i \in LightStates |->
                        Message("itemState", i, [projA.items[i] EXCEPT !.shape = 0], {})]
           plans == {NewTracks \cup NewShapes} \ {{}}
           resync == [p \in plans |-> Message("resync", None, Gone, p)]
<1>5. IsFiniteSet(Items) /\ IsFiniteSet(Tracks)
  BY OutboxAssumption
<1>6. IsFiniteSet({itemDelete[i] : i \in DeletedItems})
  <2>1. IsFiniteSet(DeletedItems)
    BY <1>1, <1>5, FS_Subset
  <2>2. itemDelete = [x \in DeletedItems |-> itemDelete[x]]
    OBVIOUS
  <2> HIDE DEF itemDelete
  <2> QED
    BY <2>1, <2>2, FiniteImage
<1>7. IsFiniteSet({trackDelete[t] : t \in DeletedTracks})
  <2>1. IsFiniteSet(DeletedTracks)
    BY <1>3, <1>5, FS_Subset
  <2>2. trackDelete = [x \in DeletedTracks |-> trackDelete[x]]
    OBVIOUS
  <2> HIDE DEF trackDelete
  <2> QED
    BY <2>1, <2>2, FiniteImage
<1>8. IsFiniteSet({upsert[t] : t \in ReportedTracks})
  <2>1. IsFiniteSet(ReportedTracks)
    BY <1>3, <1>5, FS_Subset
  <2>2. upsert = [x \in ReportedTracks |-> upsert[x]]
    OBVIOUS
  <2> HIDE DEF upsert
  <2> QED
    BY <2>1, <2>2, FiniteImage
<1>9. IsFiniteSet({state[i] : i \in LightStates})
  <2>1. IsFiniteSet(LightStates)
    BY <1>1, <1>5, FS_Subset
  <2>2. state = [x \in LightStates |-> state[x]]
    OBVIOUS
  <2> HIDE DEF state
  <2> QED
    BY <2>1, <2>2, FiniteImage
<1>10. IsFiniteSet({resync[p] : p \in plans})
  <2>1. IsFiniteSet({NewTracks \cup NewShapes})
    BY FS_Singleton
  <2>2. IsFiniteSet(plans)
    BY <2>1, FS_Subset
  <2>3. resync = [x \in plans |-> resync[x]]
    OBVIOUS
  <2> HIDE DEF resync, plans
  <2> QED
    BY <2>2, <2>3, FiniteImage
<1>11. Differences = {itemDelete[i] : i \in DeletedItems}
                     \cup {trackDelete[t] : t \in DeletedTracks}
                     \cup {upsert[t] : t \in ReportedTracks}
                     \cup {state[i] : i \in LightStates}
                     \cup {resync[p] : p \in plans}
  BY DEF Differences
<1>12. IsFiniteSet(Differences)
  <2> HIDE DEF itemDelete, trackDelete, upsert, state, resync, plans
  <2> QED
    BY <1>6, <1>7, <1>8, <1>9, <1>10, <1>11, FS_Union
<1>13. ASSUME NEW m \in Differences
       PROVE  /\ m.kind \in Kinds /\ m.id \in Things \cup {None}
              /\ m.item \in ItemStates /\ m.plan \in SUBSET Things
  BY <1>1, <1>3, <1>4, GoneTyped DEF Differences, Message, Kinds, Things
<1> QED
  BY <1>12, <1>13

-----------------------------------------------------------------------------
(* What a step of each kind does                                             *)

\* The operator changes at most one steady item, and stamps it with the clock.
SteadyEdit(p) ==
    \/ \A i \in Steady : p.items[i] = projA.items[i]
    \/ \E x \in Steady : /\ p.items[x].age = edits + 1
                         /\ \A i \in Steady \ {x} : p.items[i] = projA.items[i]

\* An edit of one item leaves a sound project and no age of the future.
LEMMA ItemEdited ==
  ASSUME Typed, Sound(projA), NEW i \in Items, NEW st \in ItemStates,
         st.age = edits + 1 \/ (i \notin Steady /\ st.age <= edits + 1),
         i \in Steady => st.track \in Permanent /\ st.shape = 0
  PROVE  LET p == With(projA, i, st)
         IN  /\ p \in Projects /\ Sound(p) /\ SteadyEdit(p)
             /\ \A j \in Items : p.items[j].age <= edits + 1
<1> DEFINE p == With(projA, i, st)
<1>1. /\ p \in Projects /\ p.tracks = projA.tracks
      /\ \A j \in Items : p.items[j] = IF j = i THEN st ELSE projA.items[j]
  BY ItemSet DEF Typed, TypeOK
<1> HIDE DEF p
<1>2. Sound(p) /\ SteadyEdit(p)
  BY <1>1, LiveAssumption DEF Sound, SteadyEdit
<1>3. ASSUME NEW j \in Items PROVE p.items[j].age <= edits + 1
  <2>1. projA.items[j].age \in Nat /\ edits \in Nat
    BY LiveAssumption DEF Typed, TypeOK, Projects, ItemStates, Ages
  <2>2. st.age <= edits + 1
    BY <2>1
  <2> QED
    BY <1>1, <2>1, <2>2 DEF Typed, AgesPast
<1> QED
  BY <1>1, <1>2, <1>3 DEF p

\* Whatever PC A's operator does is such an edit.
LEMMA OperatorStep ==
  ASSUME Typed, Sound(projA), Operator
  PROVE  \E p \in Projects : /\ Edited(p) /\ Sound(p) /\ SteadyEdit(p)
                             /\ \A j \in Items : p.items[j].age <= edits + 1
<1> USE DEF Typed, TypeOK
<1>1. /\ edits + 1 \in Ages /\ edits \in Nat /\ 0 \in Ages
      /\ \A j \in Items : projA.items[j].age <= edits /\ projA.items[j].age \in Nat
  <2>1. edits < MaxEdits
    BY DEF Operator, ChangeItem, MoveItem, ReshapeItem, CreateItem, DeleteItem,
           CreateTrack, DeleteTrack, Edited
  <2>2. edits \in Nat /\ MaxEdits \in Nat
    BY LiveAssumption DEF Ages
  <2>3. ASSUME NEW j \in Items
        PROVE  projA.items[j].age <= edits /\ projA.items[j].age \in Nat
    BY <2>2 DEF AgesPast, Projects, ItemStates, Ages
  <2> QED
    BY <2>1, <2>2, <2>3 DEF Ages
<1>2. ASSUME NEW i \in Items, ChangeItem(i)
      PROVE  \E p \in Projects : /\ Edited(p) /\ Sound(p) /\ SteadyEdit(p)
                                 /\ \A j \in Items : p.items[j].age <= edits + 1
  <2> DEFINE st == [projA.items[i] EXCEPT !.age = edits + 1]
  <2>1. st \in ItemStates /\ st.age = edits + 1
        /\ st.track = projA.items[i].track /\ st.shape = projA.items[i].shape
    BY <1>1 DEF Projects, ItemStates
  <2>2. Edited(With(projA, i, st))
    BY <1>2 DEF ChangeItem
  <2> HIDE DEF st
  <2>3. i \in Steady => st.track \in Permanent /\ st.shape = 0
    BY <2>1 DEF Sound
  <2> DEFINE p == With(projA, i, st)
  <2> HIDE DEF Typed, TypeOK
  <2>4. /\ p \in Projects /\ Sound(p) /\ SteadyEdit(p)
        /\ \A j \in Items : p.items[j].age <= edits + 1
    BY <2>1, <2>2, <2>3, ItemEdited
  <2> HIDE DEF p
  <2> QED
    BY <2>2, <2>4 DEF p
<1>3. ASSUME NEW i \in Items, NEW t \in Tracks, MoveItem(i, t)
      PROVE  \E p \in Projects : /\ Edited(p) /\ Sound(p) /\ SteadyEdit(p)
                                 /\ \A j \in Items : p.items[j].age <= edits + 1
  <2> DEFINE st == [projA.items[i] EXCEPT !.track = t, !.age = edits + 1]
  <2>1. st \in ItemStates /\ st.age = edits + 1
        /\ st.track = t /\ st.shape = projA.items[i].shape
    BY <1>1 DEF Projects, ItemStates
  <2>2. Edited(With(projA, i, st))
    BY <1>3 DEF MoveItem
  <2>3. i \in Steady => t \in Permanent
    BY <1>3, LiveAssumption DEF MoveItem, Permanent
  <2> HIDE DEF st
  <2>4. i \in Steady => st.track \in Permanent /\ st.shape = 0
    BY <2>1, <2>3 DEF Sound
  <2> DEFINE p == With(projA, i, st)
  <2> HIDE DEF Typed, TypeOK
  <2>5. /\ p \in Projects /\ Sound(p) /\ SteadyEdit(p)
        /\ \A j \in Items : p.items[j].age <= edits + 1
    BY <2>1, <2>2, <2>4, ItemEdited
  <2> HIDE DEF p
  <2> QED
    BY <2>2, <2>5 DEF p
<1>4. ASSUME NEW i \in Items, ReshapeItem(i)
      PROVE  \E p \in Projects : /\ Edited(p) /\ Sound(p) /\ SteadyEdit(p)
                                 /\ \A j \in Items : p.items[j].age <= edits + 1
  <2> DEFINE st == [projA.items[i] EXCEPT !.shape = edits + 1]
  <2>1. st \in ItemStates /\ st.age = projA.items[i].age
    BY <1>1 DEF Projects, ItemStates
  <2>2. Edited(With(projA, i, st)) /\ i \notin Steady
    BY <1>4 DEF ReshapeItem
  <2>3. st.age <= edits + 1
    BY <1>1, <2>1
  <2> HIDE DEF st
  <2> QED
    BY <2>1, <2>2, <2>3, ItemEdited DEF Sound
<1>5. ASSUME NEW i \in Items, NEW t \in Tracks, CreateItem(i, t)
      PROVE  \E p \in Projects : /\ Edited(p) /\ Sound(p) /\ SteadyEdit(p)
                                 /\ \A j \in Items : p.items[j].age <= edits + 1
  <2> DEFINE st == [track |-> t, age |-> edits + 1, shape |-> edits + 1]
  <2>1. st \in ItemStates /\ st.age = edits + 1
    BY <1>1 DEF ItemStates
  <2>2. Edited(With(projA, i, st)) /\ i \notin Steady
    BY <1>5 DEF CreateItem
  <2> HIDE DEF st
  <2> DEFINE p == With(projA, i, st)
  <2> HIDE DEF Typed, TypeOK
  <2>3. /\ p \in Projects /\ Sound(p) /\ SteadyEdit(p)
        /\ \A j \in Items : p.items[j].age <= edits + 1
    BY <2>1, <2>2, ItemEdited
  <2> HIDE DEF p
  <2> QED
    BY <2>2, <2>3 DEF p
<1>6. ASSUME NEW i \in Items, DeleteItem(i)
      PROVE  \E p \in Projects : /\ Edited(p) /\ Sound(p) /\ SteadyEdit(p)
                                 /\ \A j \in Items : p.items[j].age <= edits + 1
  <2>1. Gone \in ItemStates /\ Gone.age <= edits + 1
    BY <1>1, GoneTyped DEF Gone
  <2>2. Edited(With(projA, i, Gone)) /\ i \notin Steady
    BY <1>6 DEF DeleteItem
  <2> DEFINE p == With(projA, i, Gone)
  <2> HIDE DEF Typed, TypeOK
  <2>3. /\ p \in Projects /\ Sound(p) /\ SteadyEdit(p)
        /\ \A j \in Items : p.items[j].age <= edits + 1
    BY <2>1, <2>2, ItemEdited
  <2> HIDE DEF p
  <2> QED
    BY <2>2, <2>3 DEF p
<1>7. ASSUME NEW t \in Tracks, CreateTrack(t)
      PROVE  \E p \in Projects : /\ Edited(p) /\ Sound(p) /\ SteadyEdit(p)
                                 /\ \A j \in Items : p.items[j].age <= edits + 1
  <2> DEFINE p == [projA EXCEPT !.tracks = projA.tracks \cup {t}]
  <2>1. p \in Projects /\ p.tracks = projA.tracks \cup {t} /\ p.items = projA.items
    BY DEF Projects
  <2>2. Edited(p)
    BY <1>7 DEF CreateTrack
  <2> HIDE DEF p
  <2>3. \A j \in Items : p.items[j].age <= edits + 1
    BY <1>1, <2>1
  <2>4. Sound(p) /\ SteadyEdit(p)
    BY <2>1 DEF Sound, SteadyEdit
  <2> QED
    BY <2>1, <2>2, <2>3, <2>4
<1>8. ASSUME NEW t \in Tracks, DeleteTrack(t)
      PROVE  \E p \in Projects : /\ Edited(p) /\ Sound(p) /\ SteadyEdit(p)
                                 /\ \A j \in Items : p.items[j].age <= edits + 1
  <2> DEFINE p == Without(projA, t)
  <2>1. /\ p \in Projects /\ p.tracks = projA.tracks \ {t}
        /\ \A j \in Items : p.items[j] = IF projA.items[j].track = t THEN Gone
                                          ELSE projA.items[j]
    BY WithoutTyped
  <2>2. Edited(p) /\ t \notin Permanent
    BY <1>8 DEF DeleteTrack, Permanent
  <2> HIDE DEF p
  <2>3. \A j \in Items : p.items[j].age <= edits + 1
    BY <1>1, <2>1 DEF Gone
  <2>4. \A i \in Steady : p.items[i] = projA.items[i]
    BY <2>1, <2>2, LiveAssumption DEF Sound
  <2>5. Sound(p) /\ SteadyEdit(p)
    BY <2>1, <2>2, <2>4 DEF Sound, SteadyEdit
  <2> QED
    BY <2>1, <2>2, <2>3, <2>5
<1> QED
  BY <1>2, <1>3, <1>4, <1>5, <1>6, <1>7, <1>8 DEF Operator

\* A sound project holds every steady item.
LEMMA SteadyHeld ==
  ASSUME NEW p, Sound(p), NEW i \in Steady
  PROVE  i \in Held(p)
  BY LiveAssumption, OutboxAssumption DEF Sound, Held, Gone, Permanent, Things

\* No difference endangers a steady item: its states carry the track of PC A.
LEMMA DifferencesSpare ==
  ASSUME TypeOK, ProjectsSound, NEW m \in Differences
  PROVE  /\ Harmless(m)
         /\ m.kind = "itemState" /\ m.id \in Steady =>
              /\ m.item.age = projA.items[m.id].age
              /\ m.item.track = projA.items[m.id].track
<1>1. Steady \cap Tracks = {} /\ Permanent \cap Items = {} /\ Lasting = Steady \cup Permanent
  BY LiveAssumption, OutboxAssumption DEF Permanent, Lasting
<1>2. NewTracks \cap Lasting = {}
  BY <1>1 DEF NewTracks, Baseline, Established, ProjectsSound, Sound, TypeOK, Projects
<1>3. NewShapes \cap Lasting = {}
  <2>1. ASSUME NEW i \in Steady PROVE i \notin NewShapes
    <3>1. CASE known = None
      BY <3>1 DEF NewShapes, Established
    <3>2. CASE known # None
      <4>1. i \in Held(known) /\ known.items[i].shape = 0 /\ projA.items[i].shape = 0
        BY <3>2, SteadyHeld DEF ProjectsSound, Sound
      <4> QED
        BY <3>2, <4>1 DEF NewShapes, Baseline, Established
    <3> QED
      BY <3>1, <3>2
  <2>2. NewShapes \subseteq Items
    BY DEF NewShapes, Held
  <2> QED
    BY <1>1, <2>1, <2>2
<1>4. CASE \E i \in DeletedItems : m = Message("itemDelete", i, Gone, {})
  BY <1>4, SteadyHeld DEF DeletedItems, ProjectsSound, Message, Harmless
<1>5. CASE \E t \in DeletedTracks : m = Message("trackDelete", t, Gone, {})
  BY <1>5 DEF DeletedTracks, ProjectsSound, Sound, Message, Harmless
<1>6. CASE \E t \in ReportedTracks : m = Message("trackUpsert", t, Gone, {t} \cap NewTracks)
  BY <1>2, <1>6 DEF Message, Harmless
<1>7. CASE \E i \in LightStates :
             m = Message("itemState", i, [projA.items[i] EXCEPT !.shape = 0], {})
  <2> PICK i \in LightStates :
             m = Message("itemState", i, [projA.items[i] EXCEPT !.shape = 0], {})
    BY <1>7
  <2> DEFINE st == [projA.items[i] EXCEPT !.shape = 0]
  <2>1. i \in Items /\ projA.items[i] \in ItemStates
    BY DEF LightStates, Held, TypeOK, Projects
  <2>2. st.age = projA.items[i].age /\ st.track = projA.items[i].track
    BY <2>1 DEF ItemStates
  <2>3. m.kind = "itemState" /\ m.id = i /\ m.item = st /\ m.plan = {}
    BY DEF Message
  <2>4. i \in Steady => projA.items[i].track \in Permanent
    BY DEF ProjectsSound, Sound
  <2> HIDE DEF st
  <2> QED
    BY <2>2, <2>3, <2>4 DEF Harmless
<1>8. CASE \E p \in {NewTracks \cup NewShapes} \ {{}} : m = Message("resync", None, Gone, p)
  BY <1>2, <1>3, <1>8 DEF Message, Harmless
<1> QED
  BY <1>4, <1>5, <1>6, <1>7, <1>8 DEF Differences

\* A poll adds its differences to the outbox, numbered above all that is there.
LEMMA PollStep ==
  ASSUME Typed, ProjectsSound, Poll
  PROVE  /\ seq' \in Nat /\ seq <= seq'
         /\ outbox' \subseteq outbox \cup Numbered(Differences)
         /\ UNCHANGED relayVars
         /\ \A e \in Numbered(Differences) :
              /\ e \in Events /\ seq < e.seq /\ e.seq <= seq' /\ Harmless(e)
              /\ e.kind = "itemState" /\ e.id \in Steady =>
                   /\ e.item.age = projA.items[e.id].age
                   /\ e.item.track = projA.items[e.id].track
<1>1. TypeOK /\ Record(Differences) /\ seq \in Nat
  BY DEF Typed, TypeOK, Poll
<1>2. /\ IsFiniteSet(Differences)
      /\ \A m \in Differences : /\ m.kind \in Kinds /\ m.id \in Things \cup {None}
                                /\ m.item \in ItemStates /\ m.plan \in SUBSET Things
  BY <1>1, DifferencesTyped
<1>3. /\ seq' \in Nat /\ seq <= seq'
      /\ \A m \in Differences : /\ Number(m, Differences) \in Nat
                                /\ seq < Number(m, Differences)
                                /\ Number(m, Differences) <= seq'
      /\ outbox' \subseteq outbox \cup Numbered(Differences)
      /\ UNCHANGED relayVars
  BY <1>1, <1>2, Recorded
<1>4. ASSUME NEW e \in Numbered(Differences)
      PROVE  /\ e \in Events /\ seq < e.seq /\ e.seq <= seq' /\ Harmless(e)
             /\ e.kind = "itemState" /\ e.id \in Steady =>
                  /\ e.item.age = projA.items[e.id].age
                  /\ e.item.track = projA.items[e.id].track
  <2>1. PICK m \in Differences :
               e = [seq |-> Number(m, Differences), kind |-> m.kind, id |-> m.id,
                    item |-> m.item, plan |-> m.plan]
    BY DEF Numbered
  <2>2. /\ e.seq = Number(m, Differences) /\ e.kind = m.kind /\ e.id = m.id
        /\ e.item = m.item /\ e.plan = m.plan
    BY <2>1
  <2>3. e \in Events
    BY <1>2, <1>3, <2>1 DEF Events
  <2>4. /\ Harmless(m)
        /\ m.kind = "itemState" /\ m.id \in Steady =>
             /\ m.item.age = projA.items[m.id].age
             /\ m.item.track = projA.items[m.id].track
    BY <1>1, DifferencesSpare
  <2> QED
    BY <1>3, <2>2, <2>3, <2>4 DEF Harmless
<1> QED
  BY <1>3, <1>4

\* What a received event, or a bundle, does to the steady items of PC B.
Same(i) == projB'.items[i] = projB.items[i] /\ applied'[i] = applied[i]

Taken(e) ==
    /\ e \in States /\ e.seq > applied[e.id]
    /\ projB'.items[e.id].age = e.item.age /\ projB'.items[e.id].track = e.item.track
    /\ applied'[e.id] = e.seq
    /\ \A i \in Steady \ {e.id} : Same(i)

BTyped ==
    /\ projB \in Projects /\ applied \in [Things -> Nat]
    /\ job \in [state : JobStates, plan : SUBSET Things] /\ queued \in SUBSET Things

BSpared == Sound(projB) /\ job.plan \cap Lasting = {} /\ queued \cap Lasting = {}

\* PC B takes one event out of the mail and leaves a sound project; steady items
\* change only by a state that is taken.
LEMMA ApplyStep ==
  ASSUME Typed, Spared, ApplyNext
  PROVE  \E e \in Mail :
           /\ Receive(e) /\ UNCHANGED <<projectVars, pollVars, snap>>
           /\ BTyped' /\ BSpared'
           /\ Taken(e) \/ \A i \in Steady : Same(i)
<1>1. PICK e \in toB \cup late :
        ApplyItemState(e) \/ ApplyItemDelete(e) \/ ApplyTrackUpsert(e)
          \/ ApplyTrackDelete(e) \/ ApplyResync(e)
  BY DEF ApplyNext
<1>2. e \in Mail /\ e \in Events /\ Harmless(e)
  BY DEF Mail, Typed, TypeOK, Spared, PlansSpare
<1>3. /\ e.seq \in Nat /\ e.id \in Things \cup {None} /\ e.item \in ItemStates
      /\ e.plan \in SUBSET Things
  BY <1>2 DEF Events
<1>4. BTyped /\ BSpared
  BY DEF BTyped, BSpared, Typed, TypeOK, Spared, ProjectsSound, PlansSpare
<1>5. /\ Steady \subseteq Items /\ Items \subseteq Things /\ Tracks \subseteq Things
      /\ Steady \cap Tracks = {} /\ Permanent \subseteq Tracks
  BY LiveAssumption, OutboxAssumption DEF Things, Permanent
<1> DEFINE Goal == /\ Receive(e) /\ UNCHANGED <<projectVars, pollVars, snap>>
                   /\ BTyped' /\ BSpared'
                   /\ Taken(e) \/ \A i \in Steady : Same(i)
<1>6. CASE ApplyItemState(e)
  <2>1. e.id \in Items /\ e.kind = "itemState"
    BY <1>6 DEF ApplyItemState, Takes
  <2>2. CASE IsNew(e) /\ e.id \in Held(projB)
    <3>1. PICK t \in Destinations(e.id, e.item.track) :
            /\ projB' = With(projB, e.id, [projB.items[e.id] EXCEPT !.track = t,
                                                                    !.age = e.item.age])
            /\ applied' = [applied EXCEPT ![e.id] = e.seq]
      BY <1>6, <2>1, <2>2 DEF ApplyItemState, Takes
    <3> DEFINE st == [projB.items[e.id] EXCEPT !.track = t, !.age = e.item.age]
    <3>2. projB.items[e.id] \in ItemStates /\ projB.tracks \subseteq Tracks
      BY <1>4, <2>1 DEF BTyped, Projects
    <3>3. t \in Tracks \cup {None}
      BY <3>1, <3>2, <1>3 DEF Destinations, ItemStates
    <3>4. /\ st \in ItemStates /\ st.track = t /\ st.age = e.item.age
          /\ st.shape = projB.items[e.id].shape
      BY <1>3, <3>2, <3>3 DEF ItemStates
    <3> HIDE DEF st
    <3>5. projB' = With(projB, e.id, st)
      BY <3>1 DEF st
    <3>6. /\ projB' \in Projects /\ projB'.tracks = projB.tracks
          /\ \A j \in Items : projB'.items[j] = IF j = e.id THEN st ELSE projB.items[j]
      BY <1>4, <2>1, <3>4, <3>5, ItemSet DEF BTyped
    <3>7. e.id \in Steady => t = e.item.track /\ t \in Permanent
      BY <1>2, <1>4, <2>1, <3>1 DEF Harmless, Destinations, BSpared, Sound
    <3>8. Receive(e) /\ UNCHANGED <<projectVars, pollVars, jobVars>>
      BY <1>6 DEF ApplyItemState, Takes
    <3>9. BTyped'
      BY <1>3, <1>4, <1>5, <2>1, <3>1, <3>6, <3>8 DEF BTyped, jobVars
    <3>10. BSpared'
      BY <1>4, <1>5, <3>4, <3>6, <3>7, <3>8 DEF BSpared, Sound, jobVars
    <3>11. \A i \in Steady : i # e.id => Same(i)
      BY <1>4, <1>5, <3>1, <3>6 DEF Same, BTyped
    <3>12. e.id \in Steady => Taken(e)
      BY <1>2, <1>4, <1>5, <2>1, <2>2, <3>1, <3>4, <3>6, <3>7, <3>11
         DEF Taken, States, IsNew, BTyped
    <3> QED
      BY <1>2, <3>8, <3>9, <3>10, <3>11, <3>12 DEF jobVars
  <2>3. CASE ~(IsNew(e) /\ e.id \in Held(projB))
    <3>1. /\ projB' = projB /\ applied' = applied
          /\ Receive(e) /\ UNCHANGED <<projectVars, pollVars, jobVars>>
      BY <1>6, <2>3 DEF ApplyItemState, Takes
    <3> QED
      BY <1>2, <1>4, <3>1 DEF BTyped, BSpared, Sound, Same, jobVars
  <2> QED
    BY <2>2, <2>3
<1>7. CASE ApplyItemDelete(e)
  <2>1. /\ e.id \in Items \ Steady
        /\ projB' = IF IsNew(e) THEN With(projB, e.id, Gone) ELSE projB
        /\ applied' = IF IsNew(e) THEN [applied EXCEPT ![e.id] = e.seq] ELSE applied
        /\ Receive(e) /\ UNCHANGED <<projectVars, pollVars, jobVars>>
    BY <1>2, <1>7 DEF ApplyItemDelete, Takes, Harmless
  <2>2. /\ projB' \in Projects /\ projB'.tracks = projB.tracks
        /\ \A j \in Items \ {e.id} : projB'.items[j] = projB.items[j]
    BY <1>4, <2>1, GoneTyped, ItemSet DEF BTyped
  <2>3. BTyped'
    BY <1>3, <1>4, <1>5, <2>1, <2>2 DEF BTyped, jobVars
  <2>4. BSpared'
    BY <1>4, <1>5, <2>1, <2>2 DEF BSpared, Sound, jobVars
  <2>5. \A i \in Steady : Same(i)
    BY <1>4, <1>5, <2>1, <2>2 DEF Same, BTyped
  <2> QED
    BY <1>2, <2>1, <2>3, <2>4, <2>5 DEF jobVars
<1>8. CASE ApplyTrackUpsert(e) \/ ApplyTrackDelete(e)
  <2>1. /\ e.id \in Tracks
        /\ Receive(e) /\ UNCHANGED <<projectVars, pollVars, jobVars>>
        /\ applied' \in {applied, [applied EXCEPT ![e.id] = e.seq]}
    BY <1>8 DEF ApplyTrackUpsert, ApplyTrackDelete, Takes
  <2> DEFINE p == Without(projB, e.id)
             q == [p EXCEPT !.tracks = p.tracks \cup {e.id}]
  <2>2. /\ p \in Projects /\ p.tracks = projB.tracks \ {e.id}
        /\ \A j \in Items : p.items[j] = IF projB.items[j].track = e.id THEN Gone
                                          ELSE projB.items[j]
    BY <1>4, WithoutTyped DEF BTyped
  <2>3. \/ projB' = projB
        \/ e.id \notin Permanent /\ projB' = p
        \/ e.id \notin Permanent /\ projB' = q
    <3>1. CASE ApplyTrackUpsert(e)
      <4>1. e.plan # {} => e.id \notin Permanent
        BY <1>2, <3>1 DEF Harmless, ApplyTrackUpsert, Takes, Lasting
      <4> QED
        BY <3>1, <4>1 DEF ApplyTrackUpsert, Takes
    <3>2. CASE ApplyTrackDelete(e)
      BY <1>2, <3>2 DEF Harmless, ApplyTrackDelete, Takes
    <3> QED
      BY <1>8, <3>1, <3>2
  <2>4. q \in Projects /\ q.items = p.items /\ q.tracks = p.tracks \cup {e.id}
    <3> HIDE DEF p
    <3> QED
      BY <2>1, <2>2 DEF Projects
  <2> HIDE DEF p, q
  <2>5. \A i \in Steady : projB'.items[i] = projB.items[i]
    BY <1>4, <1>5, <2>2, <2>3, <2>4 DEF BSpared, Sound
  <2>6. projB' \in Projects /\ Permanent \subseteq projB'.tracks
    BY <1>4, <1>5, <2>2, <2>3, <2>4 DEF BTyped, BSpared, Sound
  <2>7. BTyped'
    BY <1>3, <1>4, <1>5, <2>1, <2>6 DEF BTyped, jobVars
  <2>8. BSpared'
    BY <1>4, <2>1, <2>5, <2>6 DEF BSpared, Sound, jobVars
  <2>9. \A i \in Steady : Same(i)
    BY <1>4, <1>5, <2>1, <2>5 DEF Same, BTyped
  <2> QED
    BY <1>2, <2>1, <2>7, <2>8, <2>9 DEF jobVars
<1>9. CASE ApplyResync(e)
  <2>1. /\ projB' = projB /\ applied' = applied
        /\ Receive(e) /\ UNCHANGED <<projectVars, pollVars, snap>>
        /\ \/ queued' = queued \cup e.plan /\ job' = job
           \/ queued' = queued /\ job' = [state |-> "requested", plan |-> e.plan]
    BY <1>9 DEF ApplyResync, Takes
  <2>2. BTyped' /\ BSpared'
    BY <1>2, <1>3, <1>4, <2>1 DEF BTyped, BSpared, Sound, JobStates, Harmless
  <2> QED
    BY <1>2, <2>1, <2>2 DEF Same
<1> QED
  BY <1>1, <1>6, <1>7, <1>8, <1>9

\* A bundle leaves the steady items of PC B as they are.
LEMMA BundleStep ==
  ASSUME Typed, Spared, CommitBundle
  PROVE  /\ BTyped' /\ BSpared' /\ \A i \in Steady : Same(i)
         /\ UNCHANGED <<outboxVars, projectVars, pollVars>> /\ snap' = None
<1>1. PICK found : projB' = [tracks |-> KeptTracks,
                             items |-> [i \in Items |-> ItemAfterBundle(i, found)]]
  BY DEF CommitBundle
<1>2. /\ snap \in Projects /\ Sound(snap) /\ projB \in Projects /\ Sound(projB)
      /\ job \in [state : JobStates, plan : SUBSET Things] /\ queued \in SUBSET Things
      /\ job.plan \cap Lasting = {} /\ queued \cap Lasting = {}
      /\ applied \in [Things -> Nat] /\ applied' = applied
      /\ queued' = {} /\ snap' = None
      /\ job' \in {[job EXCEPT !.state = "ended"], [state |-> "requested", plan |-> queued]}
      /\ UNCHANGED <<outboxVars, projectVars, pollVars>>
  BY DEF CommitBundle, Typed, TypeOK, Spared, ProjectsSound, PlansSpare
<1>3. KeptTracks \subseteq Tracks /\ Permanent \subseteq KeptTracks
  BY <1>2 DEF KeptTracks, Projects, Sound, Lasting
<1>4. \A i \in Items : ItemAfterBundle(i, found) \in ItemStates
  BY <1>2, GoneTyped DEF ItemAfterBundle, Projects
<1>5. projB' \in Projects
  BY <1>1, <1>3, <1>4 DEF Projects
<1>6. ASSUME NEW i \in Steady PROVE ItemAfterBundle(i, found) = projB.items[i]
  <2>1. i \notin Written
    BY <1>2 DEF Written, CreatedTracks, Sound, Lasting
  <2>2. i \in Staying
    BY <1>2, <1>3, SteadyHeld DEF Staying, Sound, Lasting
  <2> QED
    BY <2>1, <2>2 DEF ItemAfterBundle
<1>7. \A i \in Steady : projB'.items[i] = projB.items[i]
  BY <1>1, <1>6, LiveAssumption
<1>8. BTyped'
  BY <1>2, <1>5 DEF BTyped, JobStates
<1>9. BSpared'
  BY <1>1, <1>2, <1>3, <1>7 DEF BSpared, Sound
<1> QED
  BY <1>2, <1>7, <1>8, <1>9 DEF Same

-----------------------------------------------------------------------------
(* The invariant                                                             *)

\* Ages, numbers and revisions can be compared.
LEMMA Numbers ==
  ASSUME Typed
  PROVE  /\ edits \in Nat /\ seq \in Nat /\ Steady \subseteq Items /\ Items \subseteq Things
         /\ \A i \in Items : projA.items[i].age \in Nat /\ projB.items[i].age \in Nat
         /\ \A e \in Mail : e.seq \in Nat /\ e.seq <= seq /\ e.item.age \in Nat
         /\ \A i \in Things : applied[i] \in Nat
<1>1. Ages \subseteq Nat
  BY DEF Ages
<1>2. \A e \in Mail : e \in Events /\ e.seq <= seq
  BY DEF Typed, TypeOK, Mail
<1> QED
  BY <1>1, <1>2, LiveAssumption
     DEF Typed, TypeOK, Projects, ItemStates, Events, Things

\* The invariant holds at first,
LEMMA InitHolds == Init => IInv
<1> SUFFICES ASSUME Init PROVE IInv
  OBVIOUS
<1>1. /\ Steady \subseteq Items /\ Items \subseteq Things
      /\ \A i \in Items : Start[i] \in Tracks \ Coming
      /\ Coming \subseteq Spare /\ Spare \subseteq Tracks
      /\ \A i \in Steady : Start[i] \in Permanent
  BY LiveAssumption DEF Permanent, Things
<1> DEFINE st == [i \in Items |-> [Gone EXCEPT !.track = Start[i]]]
<1>2. \A i \in Items : st[i] \in ItemStates /\ st[i].track = Start[i]
                        /\ st[i].age = 0 /\ st[i].shape = 0
  BY <1>1, LiveAssumption DEF Gone, ItemStates, Ages
<1>3. projA = [tracks |-> Tracks \ Coming, items |-> st]
  BY DEF Init, FirstProject
<1> HIDE DEF st
<1>4. st = [i \in Items |-> st[i]]
  BY DEF st
<1>5. /\ projA \in Projects /\ projA.tracks = Tracks \ Coming /\ projA.items = st
  BY <1>2, <1>3, <1>4 DEF Projects
<1>6. Mail = {}
  BY DEF Init, OutboxInit, Mail
<1>7. Typed
  <2>1. /\ edits = 0 /\ edits \in Ages /\ faults \in 0..MaxFaults
        /\ after \in 0..seq /\ seq \in Nat
    BY LiveAssumption, OutboxAssumption DEF Init, OutboxInit, Ages
  <2>2. TypeOK
    BY <1>5, <2>1 DEF Init, OutboxInit, TypeOK, JobStates
  <2> QED
    BY <1>1, <1>2, <1>5, <2>1, <2>2 DEF Typed, AgesPast, Init
<1>8. Spared
  BY <1>1, <1>2, <1>5, <1>6 DEF Init, Spared, ProjectsSound, PlansSpare, Sound, Permanent
<1>9. Ordered
  BY <1>1, <1>2, <1>5, <1>6
     DEF Init, Ordered, NotNewer, InOrder, CopyBehind, Whole, States
<1> QED
  BY <1>7, <1>8, <1>9 DEF IInv

\* is kept by PC A's operator,
LEMMA OperatorKeeps ==
  ASSUME IInv, Operator
  PROVE  IInv'
<1>1. PICK p \in Projects : /\ Edited(p) /\ Sound(p) /\ SteadyEdit(p)
                            /\ \A j \in Items : p.items[j].age <= edits + 1
  BY OperatorStep DEF IInv, Spared, ProjectsSound
<1>2. /\ edits < MaxEdits /\ projA' = p /\ edits' = edits + 1
      /\ seen' = FALSE
      /\ UNCHANGED <<outboxVars, known, paired, initial, projB, applied, jobVars>>
  BY <1>1 DEF Edited
<1>3. Mail' = Mail /\ States' = States
  BY <1>2 DEF Mail, States, outboxVars, relayVars
<1>4. Typed'
  <2>1. edits + 1 \in Ages
    BY <1>2, LiveAssumption DEF IInv, Typed, TypeOK, Ages
  <2>2. TypeOK'
    BY <1>1, <1>2, <2>1
       DEF IInv, Typed, TypeOK, outboxVars, relayVars, pollVars, jobVars
  <2> QED
    BY <1>1, <1>2, <2>2 DEF IInv, Typed, AgesPast, pollVars
<1>5. Spared'
  <2>1. ProjectsSound'
    BY <1>1, <1>2 DEF IInv, Spared, ProjectsSound, Sound, pollVars, jobVars
  <2>2. PlansSpare'
    BY <1>2, <1>3 DEF IInv, Spared, PlansSpare, Harmless, jobVars
  <2> QED
    BY <2>1, <2>2 DEF Spared
<1>6. ASSUME NEW i \in Steady
      PROVE  \/ projA'.items[i] = projA.items[i]
             \/ projA.items[i].age < projA'.items[i].age
  BY <1>1, <1>2, Numbers DEF IInv, Typed, AgesPast, SteadyEdit
<1>7. \A i \in Steady : projA'.items[i].age \in Nat /\ projA.items[i].age \in Nat
                         /\ projB.items[i].age \in Nat
  <2>1. \A i \in Items : projA'.items[i].age \in Nat
    BY <1>1, <1>2 DEF Projects, ItemStates, Ages
  <2> QED
    BY <2>1, Numbers DEF IInv
<1>8. \A e \in States : e.id \in Steady /\ e.item.age \in Nat
  BY Numbers DEF IInv, States
<1>9. NotNewer'
  BY <1>3, <1>6, <1>7, <1>8 DEF IInv, Ordered, NotNewer
<1>10. InOrder' /\ CopyBehind' /\ Whole'
  BY <1>2, <1>3, <1>6, <1>7, <1>8
     DEF IInv, Ordered, InOrder, CopyBehind, Whole
<1> QED
  BY <1>4, <1>5, <1>9, <1>10 DEF IInv, Ordered

\* Events are only delivered, repeated or dropped; bundles come and go.
Quiet == OwnMix \/ PollAlone \/ Unpair \/ Pair \/ RelayFetch
           \/ PrepareBundle \/ BundleFails \/ BundleDropped

\* The steps of relay and pairing change no project and bring no new mail,
LEMMA QuietStep ==
  ASSUME IInv, Quiet
  PROVE  /\ UNCHANGED <<projA, edits, projB, applied>> /\ Mail' \subseteq Mail
         /\ Typed' /\ ProjectsSound'
         /\ job'.plan = job.plan /\ queued' = queued
<1> USE DEF IInv, Typed, TypeOK, outboxVars, relayVars, projectVars, pollVars, jobVars
<1>1. /\ UNCHANGED <<projA, edits, projB, applied, outbox, seq, queued>>
      /\ Mail' \subseteq Mail
  BY DEF Quiet, OwnMix, PollAlone, Unpair, Pair, RelayFetch, Fetch, Unread, PrepareBundle,
         BundleFails, BundleDropped, Mail
<1>2. /\ after' \in 0..seq /\ faults' \in 0..MaxFaults
      /\ toB' \subseteq outbox \cup toB /\ late' \subseteq outbox \cup late
  <2>1. CASE RelayFetch
    <3>1. seq \in 0..seq
      OBVIOUS
    <3>2. faults < MaxFaults => faults + 1 \in 0..MaxFaults
      BY OutboxAssumption
    <3> QED
      BY <2>1, <3>1, <3>2 DEF RelayFetch, Fetch, Unread
  <2>2. CASE Pair
    BY <2>2 DEF Pair
  <2>3. CASE Unpair
    <3>1. faults < MaxFaults => faults + 1 \in 0..MaxFaults
      BY OutboxAssumption
    <3> QED
      BY <2>3, <3>1 DEF Unpair
  <2>4. CASE ~RelayFetch /\ ~Pair /\ ~Unpair
    BY <2>4 DEF Quiet, OwnMix, PollAlone, PrepareBundle, BundleFails, BundleDropped
  <2> QED
    BY <2>1, <2>2, <2>3, <2>4
<1>3. /\ known' \in Projects \cup {None}
      /\ seen' \in BOOLEAN /\ paired' \in BOOLEAN /\ initial' \in BOOLEAN
      /\ known' # None => known' = known
  <2>1. CASE Pair
    BY <2>1, LiveAssumption DEF Pair
  <2>2. CASE Unpair
    BY <2>2 DEF Unpair
  <2>3. CASE ~Unpair /\ ~Pair
    BY <2>3 DEF Quiet, OwnMix, PollAlone, RelayFetch, PrepareBundle, BundleFails,
                BundleDropped
  <2> QED
    BY <2>1, <2>2, <2>3
<1>4. /\ snap' \in {None, snap, projA}
      /\ job' \in [state : JobStates, plan : SUBSET Things] /\ job'.plan = job.plan
  <2>1. CASE PrepareBundle \/ BundleFails
    BY <2>1 DEF PrepareBundle, BundleFails, JobStates
  <2>2. CASE ~PrepareBundle /\ ~BundleFails
    BY <2>2 DEF Quiet, OwnMix, PollAlone, Unpair, Pair, RelayFetch, BundleDropped
  <2> QED
    BY <2>1, <2>2
<1>5. TypeOK'
  BY <1>1, <1>2, <1>3, <1>4
<1>6. Typed'
  BY <1>1, <1>3, <1>5 DEF AgesPast
<1>7. ProjectsSound'
  BY <1>1, <1>3, <1>4 DEF Spared, ProjectsSound, Sound
<1> QED
  BY <1>1, <1>4, <1>6, <1>7

\* While both projects stay, fewer events hold what more events held.
LEMMA FewerEvents ==
  ASSUME IInv, UNCHANGED <<projA, projB, applied>>, Mail' \subseteq Mail
  PROVE  Ordered' /\ (\A e \in Mail' : Harmless(e)')
<1>1. States' \subseteq States
  BY DEF States
<1> QED
  BY <1>1 DEF IInv, Ordered, NotNewer, InOrder, CopyBehind, Whole, Spared, PlansSpare,
              Harmless

\* so they keep the invariant,
LEMMA QuietKeeps ==
  ASSUME IInv, Quiet
  PROVE  IInv'
<1>1. PlansSpare'
  BY QuietStep, FewerEvents DEF IInv, Spared, PlansSpare
<1> QED
  BY <1>1, QuietStep, FewerEvents DEF IInv, Spared

\* A poll adds events that are younger than all others, as new as the project.
LEMMA PollKeeps ==
  ASSUME IInv, Poll
  PROVE  IInv'
<1> DEFINE New == Numbered(Differences)
<1>1. /\ seq' \in Nat /\ seq <= seq'
      /\ outbox' \subseteq outbox \cup New
      /\ UNCHANGED relayVars
      /\ \A e \in New :
              /\ e \in Events /\ seq < e.seq /\ e.seq <= seq' /\ Harmless(e)
              /\ e.kind = "itemState" /\ e.id \in Steady =>
                   /\ e.item.age = projA.items[e.id].age
                   /\ e.item.track = projA.items[e.id].track
  BY PollStep DEF IInv, Spared
<1>2. /\ UNCHANGED <<projectVars, paired, projB, applied, jobVars>>
      /\ known' = projA /\ seen' = TRUE /\ initial' = FALSE
  BY DEF Poll
<1> HIDE DEF New
<1>3. Mail' \subseteq Mail \cup New /\ States' \subseteq States \cup {e \in New : e.kind = "itemState" /\ e.id \in Steady}
  BY <1>1 DEF Mail, States, relayVars
<1>4. Typed'
  <2>1. outbox' \subseteq Events /\ toB' \subseteq Events /\ late' \subseteq Events
    BY <1>1 DEF relayVars, IInv, Typed, TypeOK
  <2>2. ASSUME NEW e \in outbox' \cup toB' \cup late' PROVE e.seq <= seq'
    <3>1. e \in Mail \/ e \in New
      BY <1>3 DEF Mail
    <3>2. CASE e \in Mail
      BY <1>1, <3>2, Numbers DEF IInv
    <3> QED
      BY <1>1, <3>1, <3>2
  <2>3. after' \in 0..seq' /\ faults' \in 0..MaxFaults
    BY <1>1 DEF relayVars, IInv, Typed, TypeOK
  <2>4. TypeOK'
    BY <1>1, <1>2, <2>1, <2>2, <2>3 DEF projectVars, jobVars, IInv, Typed, TypeOK
  <2> QED
    BY <1>2, <2>4 DEF projectVars, IInv, Typed, AgesPast
<1>5. Spared'
  <2>1. ProjectsSound'
    BY <1>2 DEF projectVars, jobVars, IInv, Spared, ProjectsSound, Sound
  <2>2. PlansSpare'
    BY <1>1, <1>2, <1>3 DEF jobVars, IInv, Spared, PlansSpare, Harmless
  <2> QED
    BY <2>1, <2>2 DEF Spared
<1>6. UNCHANGED <<projA, projB, applied>>
  BY <1>2 DEF projectVars
<1>7. ASSUME NEW e \in States'
      PROVE  /\ e.id \in Steady
             /\ \/ e \in States
                \/ /\ e \notin States /\ seq < e.seq
                   /\ e.item.age = projA.items[e.id].age
                   /\ e.item.track = projA.items[e.id].track
  BY <1>1, <1>3 DEF States
<1>8. \A e \in States : e.seq \in Nat /\ e.seq <= seq /\ e.item.age \in Nat
  BY Numbers DEF IInv, States
<1>9. \A e \in States' : e.seq \in Nat
  BY <1>1, <1>3, <1>8 DEF Events
<1>10. \A i \in Steady : projA.items[i].age \in Nat /\ projB.items[i].age \in Nat
  BY Numbers DEF IInv
<1>11. seq \in Nat
  BY Numbers DEF IInv
<1>12. NotNewer'
  BY <1>6, <1>7, <1>10 DEF IInv, Ordered, NotNewer
<1>13. InOrder'
  <2> SUFFICES ASSUME NEW d \in States', NEW e \in States', d.id = e.id, d.seq <= e.seq
               PROVE  d.item.age <= e.item.age
    BY DEF InOrder
  <2>1. CASE e \in States
    BY <1>7, <1>8, <1>9, <1>11, <2>1 DEF IInv, Ordered, InOrder
  <2>2. CASE e \notin States
    BY <1>7, <1>10, <2>2 DEF IInv, Ordered, NotNewer
  <2> QED
    BY <2>1, <2>2
<1>14. CopyBehind' /\ Whole'
  BY <1>6, <1>7, <1>10 DEF IInv, Ordered, CopyBehind, Whole
<1> QED
  BY <1>4, <1>5, <1>12, <1>13, <1>14 DEF IInv, Ordered

\* PC B is given an event.
LEMMA ApplyKeeps ==
  ASSUME IInv, ApplyNext
  PROVE  IInv'
<1>1. PICK e \in Mail :
        /\ Receive(e) /\ UNCHANGED <<projectVars, pollVars, snap>>
        /\ BTyped' /\ BSpared'
        /\ Taken(e) \/ \A i \in Steady : Same(i)
  BY ApplyStep DEF IInv
<1>2. /\ UNCHANGED <<outbox, seq, after, faults>>
      /\ toB' \subseteq toB /\ late' \subseteq late /\ Mail' \subseteq Mail
  BY <1>1 DEF Receive, Mail
<1>3. Typed'
  BY <1>1, <1>2 DEF IInv, Typed, TypeOK, AgesPast, BTyped, projectVars, pollVars
<1>4. Spared'
  <2>1. ProjectsSound'
    BY <1>1 DEF IInv, Spared, ProjectsSound, BSpared, Sound, projectVars, pollVars
  <2>2. PlansSpare'
    BY <1>1, <1>2 DEF IInv, Spared, PlansSpare, BSpared, Harmless
  <2> QED
    BY <2>1, <2>2 DEF Spared
<1>5. States' \subseteq States /\ projA' = projA
  BY <1>1, <1>2 DEF States, projectVars
<1>6. NotNewer' /\ InOrder'
  BY <1>5 DEF IInv, Ordered, NotNewer, InOrder
<1>7. \A d \in States : d.seq \in Nat /\ d.item.age \in Nat /\ d.id \in Steady
  BY Numbers DEF IInv, States
<1>8. \A i \in Steady : applied[i] \in Nat
  BY Numbers DEF IInv
<1>9. CopyBehind' /\ Whole'
  <2>1. CASE \A i \in Steady : Same(i)
    BY <1>5, <2>1 DEF IInv, Ordered, CopyBehind, Whole, Same
  <2>2. CASE Taken(e)
    <3>1. ASSUME NEW i \in Steady \ {e.id}
          PROVE  /\ projB'.items[i] = projB.items[i] /\ applied'[i] = applied[i]
      BY <2>2 DEF Taken, Same
    <3>2. /\ e \in States /\ e.id \in Steady /\ e.seq \in Nat /\ applied'[e.id] = e.seq
          /\ projB'.items[e.id].age = e.item.age /\ projB'.items[e.id].track = e.item.track
      BY <1>7, <2>2 DEF Taken
    <3>3. ASSUME NEW d \in States', d.id = e.id, d.seq > e.seq
          PROVE  e.item.age <= d.item.age
      BY <1>5, <1>7, <3>2, <3>3 DEF IInv, Ordered, InOrder
    <3>4. CopyBehind'
      BY <1>5, <3>1, <3>2, <3>3 DEF IInv, Ordered, CopyBehind, NotNewer
    <3>5. Whole'
      BY <1>5, <3>1, <3>2 DEF IInv, Ordered, Whole, NotNewer
    <3> QED
      BY <3>4, <3>5
  <2> QED
    BY <1>1, <2>1, <2>2
<1> QED
  BY <1>3, <1>4, <1>6, <1>9 DEF IInv, Ordered

\* as does a bundle,
LEMMA BundleKeeps ==
  ASSUME IInv, CommitBundle
  PROVE  IInv'
<1>1. /\ BTyped' /\ BSpared' /\ \A i \in Steady : Same(i)
      /\ UNCHANGED <<outboxVars, projectVars, pollVars>> /\ snap' = None
  BY BundleStep DEF IInv
<1>2. Mail' = Mail /\ States' = States /\ projA' = projA
  BY <1>1 DEF Mail, States, outboxVars, relayVars, projectVars
<1>3. Typed'
  BY <1>1 DEF IInv, Typed, TypeOK, AgesPast, BTyped, outboxVars, relayVars,
              projectVars, pollVars
<1>4. Spared'
  BY <1>1, <1>2 DEF IInv, Spared, ProjectsSound, PlansSpare, BSpared, Sound, Harmless,
                    pollVars
<1>5. Ordered'
  BY <1>1, <1>2 DEF IInv, Ordered, NotNewer, InOrder, CopyBehind, Whole, Same
<1> QED
  BY <1>3, <1>4, <1>5 DEF IInv

\* and a step of nobody.
LEMMA StutterKeeps ==
  ASSUME IInv, UNCHANGED vars
  PROVE  IInv'
<1>1. Mail' = Mail /\ States' = States
  BY DEF Mail, States, vars, outboxVars, relayVars
<1>2. Typed'
  BY DEF IInv, Typed, TypeOK, AgesPast, vars, outboxVars, relayVars, projectVars,
         pollVars, jobVars
<1>3. Spared'
  BY <1>1 DEF IInv, Spared, ProjectsSound, PlansSpare, Sound, Harmless, vars, projectVars,
              pollVars, jobVars
<1>4. Ordered'
  BY <1>1 DEF IInv, Ordered, NotNewer, InOrder, CopyBehind, Whole, vars, projectVars
<1> QED
  BY <1>2, <1>3, <1>4 DEF IInv

\* Every step keeps the invariant.
LEMMA NextKeeps == IInv /\ [Next]_vars => IInv'
<1> SUFFICES ASSUME IInv, [Next]_vars PROVE IInv'
  OBVIOUS
<1>1. CASE Operator
  BY <1>1, OperatorKeeps
<1>2. CASE Poll
  BY <1>2, PollKeeps
<1>3. CASE Quiet
  BY <1>3, QuietKeeps
<1>4. CASE ApplyNext
  BY <1>4, ApplyKeeps
<1>5. CASE CommitBundle
  BY <1>5, BundleKeeps
<1>6. CASE UNCHANGED vars
  BY <1>6, StutterKeeps
<1> QED
  BY <1>1, <1>2, <1>3, <1>4, <1>5, <1>6 DEF Next, Quiet

\* So it always holds.
LEMMA Invariance == Spec => []IInv
  BY InitHolds, NextKeeps, PTL DEF Spec
-----------------------------------------------------------------------------
(* What follows                                                              *)

\* All state stays within its types: what the relay carries is an event, the
\* bounds hold, and both projects are projects (the state of Project Sync).
THEOREM TypeCorrect == Spec => []TypeOK
<1>1. IInv => TypeOK
  BY DEF IInv, Typed
<1> QED
  BY <1>1, Invariance, PTL

\* PC B never shows two states of a lasting item mixed: a copy as new as the
\* original lies on the original's track (nativeProjectSyncResolveTrack).
THEOREM CopyIsWhole == Spec => []Whole
<1>1. IInv => Whole
  BY DEF IInv, Ordered
<1> QED
  BY <1>1, Invariance, PTL

Source == [i \in Steady |-> projA.items[i].age]
Copy == [i \in Steady |-> projB.items[i].age]

\* At first the copy is the original,
LEMMA MirrorInit == Init => M!Init
  BY LiveAssumption DEF Init, FirstProject, Gone, M!Init

\* and every step is one of the mirror, or none.
LEMMA MirrorStep == IInv /\ [Next]_vars => [M!Next]_(M!vars)
<1> SUFFICES ASSUME IInv, [Next]_vars
             PROVE  (Source' = Source /\ Copy' = Copy) \/ M!Next
  BY DEF M!vars, Source, Copy
<1>1. /\ \A i \in Steady : projA.items[i].age \in Nat /\ projB.items[i].age \in Nat
      /\ edits \in Nat /\ \A i \in Steady : projA.items[i].age <= edits
  BY Numbers DEF IInv, Typed, AgesPast
<1>2. CASE Operator
  <2>1. PICK p \in Projects : Edited(p) /\ SteadyEdit(p)
    BY <1>2, OperatorStep DEF IInv, Spared, ProjectsSound
  <2>2. projA' = p /\ projB' = projB /\ Copy' = Copy
    BY <2>1 DEF Edited, Copy
  <2>3. CASE \A i \in Steady : p.items[i] = projA.items[i]
    BY <2>2, <2>3 DEF Source
  <2>4. CASE \E x \in Steady : /\ p.items[x].age = edits + 1
                               /\ \A i \in Steady \ {x} : p.items[i] = projA.items[i]
    <3>1. PICK x \in Steady : /\ p.items[x].age = edits + 1
                              /\ \A i \in Steady \ {x} : p.items[i] = projA.items[i]
      BY <2>4
    <3>2. Source[x] < Source'[x] /\ Source' = [Source EXCEPT ![x] = Source'[x]]
      <4>1. \A i \in Steady \ {x} : Source'[i] = Source[i]
        BY <2>2, <3>1 DEF Source
      <4>2. Source[x] = projA.items[x].age /\ Source'[x] = edits + 1
        BY <2>2, <3>1 DEF Source
      <4>3. Source[x] < Source'[x]
        BY <1>1, <4>2
      <4>4. Source' = [i \in Steady |-> Source'[i]] /\ Source = [i \in Steady |-> Source[i]]
        BY DEF Source
      <4> HIDE DEF Source
      <4> QED
        BY <4>1, <4>3, <4>4
    <3>3. M!Edit(x)
      BY <2>2, <3>2 DEF M!Edit, Source, Copy
    <3> QED
      BY <3>3 DEF M!Next
  <2> QED
    BY <2>1, <2>3, <2>4 DEF SteadyEdit
<1>3. CASE Poll
  BY <1>3 DEF Poll, projectVars, Source, Copy
<1>4. CASE Quiet
  BY <1>4, QuietStep DEF Source, Copy
<1>5. CASE ApplyNext
  <2>1. PICK e \in Mail : /\ UNCHANGED projectVars
                          /\ Taken(e) \/ \A i \in Steady : Same(i)
    BY <1>5, ApplyStep DEF IInv
  <2>2. Source' = Source
    BY <2>1 DEF projectVars, Source
  <2>3. CASE \A i \in Steady : Same(i)
    BY <2>2, <2>3 DEF Same, Copy
  <2>4. CASE Taken(e)
    <3>1. /\ e \in States /\ e.id \in Steady /\ e.seq > applied[e.id]
          /\ projB'.items[e.id].age = e.item.age
          /\ \A i \in Steady \ {e.id} : projB'.items[i] = projB.items[i]
      BY <2>4 DEF Taken, States, Same
    <3>2. Copy[e.id] <= Copy'[e.id] /\ Copy'[e.id] <= Source[e.id]
      BY <3>1 DEF IInv, Ordered, NotNewer, CopyBehind, Source, Copy
    <3>3. Copy' = [Copy EXCEPT ![e.id] = Copy'[e.id]]
      BY <3>1 DEF Copy
    <3>4. Copy[e.id] \in Nat /\ Copy'[e.id] \in Nat
      BY <1>1, <3>1, Numbers DEF IInv, Copy, States
    <3>5. CASE Copy'[e.id] = Copy[e.id]
      BY <2>2, <3>3, <3>5 DEF Copy
    <3>6. CASE Copy'[e.id] # Copy[e.id]
      <4>1. Copy[e.id] < Copy'[e.id]
        BY <3>2, <3>4, <3>6
      <4>2. M!Follow(e.id)
        BY <2>2, <3>2, <3>3, <4>1 DEF M!Follow, Source, Copy
      <4> QED
        BY <3>1, <4>2 DEF M!Next
    <3> QED
      BY <3>5, <3>6
  <2> QED
    BY <2>1, <2>3, <2>4
<1>6. CASE CommitBundle
  BY <1>6, BundleStep DEF IInv, Same, projectVars, Source, Copy
<1>7. CASE UNCHANGED vars
  BY <1>7 DEF vars, projectVars, Source, Copy
<1> QED
  BY <1>2, <1>3, <1>4, <1>5, <1>6, <1>7 DEF Next, Quiet

\* PC B follows PC A in every lasting item: it shows states PC A has or had,
\* never an older one after a newer one, whatever is repeated, overtaken, late
\* or brought by a bundle (nativeProjectSyncLiveRevisionIsNew).
THEOREM FollowsSource == Spec => Mirrors
<1>1. Init => M!Init
  BY MirrorInit
<1>2. IInv /\ [Next]_vars => [M!Next]_(M!vars)
  BY MirrorStep
<1> QED
  BY <1>1, <1>2, Invariance, PTL DEF Spec, Mirrors, M!Spec

\* No step loses a thing that waits for a bundle, but for the jobs that fail
\* (nativeProjectSyncMergeDifferencePlans, the queued plan of a live resync).
THEOREM PlansAreKept == Spec => PlanKept
<1> DEFINE Kept == /\ queued \subseteq queued' \cup job'.plan
                   /\ Busy /\ Busy' => job.plan \subseteq job'.plan \/ CommitBundle
<1>1. ASSUME TypeOK, [Next]_vars PROVE Kept \/ UNCHANGED vars
  <2>1. job \in [state : JobStates, plan : SUBSET Things]
    BY <1>1 DEF TypeOK
  <2>2. CASE Operator
    <3>1. UNCHANGED jobVars
      BY <2>2 DEF Operator, ChangeItem, MoveItem, ReshapeItem, CreateItem, DeleteItem,
                  CreateTrack, DeleteTrack, Edited
    <3> QED
      BY <3>1 DEF jobVars
  <2>3. CASE Poll \/ OwnMix \/ PollAlone \/ Unpair \/ Pair \/ RelayFetch
    BY <2>3 DEF Poll, OwnMix, PollAlone, Unpair, Pair, RelayFetch, jobVars
  <2>4. CASE ApplyNext
    <3>1. PICK e : ApplyItemState(e) \/ ApplyItemDelete(e) \/ ApplyTrackUpsert(e)
                     \/ ApplyTrackDelete(e) \/ ApplyResync(e)
      BY <2>4 DEF ApplyNext
    <3>2. CASE ApplyResync(e)
      BY <3>2 DEF ApplyResync
    <3>3. CASE ~ApplyResync(e)
      BY <3>1, <3>3 DEF ApplyItemState, ApplyItemDelete, ApplyTrackUpsert,
                        ApplyTrackDelete, jobVars
    <3> QED
      BY <3>2, <3>3
  <2>5. CASE PrepareBundle \/ BundleFails \/ BundleDropped
    BY <2>1, <2>5 DEF PrepareBundle, BundleFails, BundleDropped
  <2>6. CASE CommitBundle
    BY <2>6 DEF CommitBundle
  <2> QED
    BY <1>1, <2>2, <2>3, <2>4, <2>5, <2>6 DEF Next
<1>2. TypeOK /\ [Next]_vars => [Kept]_vars
  BY <1>1
<1> QED
  BY <1>2, TypeCorrect, PTL DEF Spec, PlanKept
=============================================================================
