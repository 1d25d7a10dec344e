------------------------------ MODULE LiveSync ------------------------------
(***************************************************************************)
(* Project Sync while a show is being edited: PC A polls its project and   *)
(* reports the differences, PC B applies them as they come. What a live    *)
(* event cannot carry (media, new items) is announced as a plan; PC B then *)
(* asks for a bundle, a snapshot of PC A's project, from which it takes    *)
(* the things the plan names.                                              *)
(*                                                                         *)
(* An item is seen as its track and two ages: of its light state (volume,  *)
(* position, ...: nativeProjectSyncLiveItemStateChanged) and of its shape  *)
(* (media, take, FX: structureKey). A track is there or not.               *)
(***************************************************************************)
EXTENDS LanOutbox

CONSTANTS
    Steady,     \* items that are never created, deleted or reshaped
    Spare,      \* tracks that may be created and deleted
    Home,       \* the tracks between which an item may be moved
    Start,      \* the track an item lies on at first
    Coming,     \* the spare tracks that are not there at first
    MaxEdits    \* bound: edits of PC A's operator

ASSUME LiveAssumption ==
    /\ Steady \subseteq Items /\ Spare \subseteq Tracks
    /\ Home \in [Items -> SUBSET Tracks]
    /\ Start \in [Items -> Tracks] /\ Coming \subseteq Spare
    /\ \A i \in Items : Start[i] \in Home[i] \ Coming
    /\ \A i \in Steady : Home[i] \cap Spare = {}
    /\ MaxEdits \in Nat

VARIABLES
    projA,      \* the project of PC A
    edits,      \* how often it was edited: the clock of the ages
    known,      \* what the last poll saw: the baselines; None if it has none
    seen,       \* is g_nativeProjectSyncLiveChangeCount REAPER's count?
    paired,     \* g_nativeTimecodeLanPeerConnected at PC A
    initial,    \* g_nativeProjectSyncPublishInitialLiveSnapshot
    projB,      \* the project of PC B
    applied,    \* g_nativeProjectSyncLiveAppliedRevisions, one per thing
    job,        \* g_nativeProjectSyncApply: state and differencePlan
    queued,     \* g_nativeProjectSyncQueuedAutomaticPlan
    snap        \* the snapshot of the bundle under way; None without

projectVars == <<projA, edits>>
pollVars == <<known, seen, paired, initial>>
jobVars == <<job, queued, snap>>
vars == <<outboxVars, projectVars, pollVars, projB, applied, jobVars>>

Ages == 0..MaxEdits
Gone == [track |-> None, age |-> 0, shape |-> 0]
ItemStates == [track : Tracks \cup {None}, age : Ages, shape : Ages]
Projects == [tracks : SUBSET Tracks, items : [Items -> ItemStates]]
Events == [seq : Nat, kind : Kinds, id : Things \cup {None},
           item : ItemStates, plan : SUBSET Things]
JobStates == {"none", "requested", "transfer", "ended"}

With(p, i, state) == [p EXCEPT !.items[i] = state]
Held(p) == {i \in Items : p.items[i] # Gone}
On(p, t) == {i \in Items : p.items[i].track = t}

TypeOK ==
    /\ outbox \subseteq Events /\ toB \subseteq Events /\ late \subseteq Events
    /\ \A e \in outbox \cup toB \cup late : e.seq <= seq
    /\ seq \in Nat /\ after \in 0..seq /\ faults \in 0..MaxFaults
    /\ projA \in Projects /\ projB \in Projects
    /\ edits \in Ages
    /\ known \in Projects \cup {None}
    /\ seen \in BOOLEAN /\ paired \in BOOLEAN /\ initial \in BOOLEAN
    /\ applied \in [Things -> Nat]
    /\ job \in [state : JobStates, plan : SUBSET Things]
    /\ queued \subseteq Things
    /\ snap \in Projects \cup {None}

\* The project the first bundle left behind, the same on both computers.
FirstProject ==
    [tracks |-> Tracks \ Coming,
     items |-> [i \in Items |-> [Gone EXCEPT !.track = Start[i]]]]

Init ==
    /\ OutboxInit
    /\ projA = FirstProject /\ edits = 0
    /\ known = None /\ seen = FALSE /\ paired = TRUE /\ initial = TRUE
    /\ projB = projA
    /\ applied = [x \in Things |-> 0]
    /\ job = [state |-> "none", plan |-> {}] /\ queued = {} /\ snap = None

-----------------------------------------------------------------------------
(* PC A: the operator                                                       *)

Edited(p) ==
    /\ edits < MaxEdits
    /\ projA' = p /\ edits' = edits + 1 /\ seen' = FALSE
    /\ UNCHANGED <<outboxVars, known, paired, initial, projB, applied, jobVars>>

\* Volume, position, mute: the light state.
ChangeItem(i) ==
    /\ i \in Held(projA)
    /\ Edited(With(projA, i, [projA.items[i] EXCEPT !.age = edits + 1]))

MoveItem(i, t) ==
    /\ i \in Held(projA)
    /\ t \in (Home[i] \cap projA.tracks) \ {projA.items[i].track}
    /\ Edited(With(projA, i, [projA.items[i] EXCEPT !.track = t, !.age = edits + 1]))

\* Another take, another file, another effect.
ReshapeItem(i) ==
    /\ i \in Held(projA) \ Steady
    /\ Edited(With(projA, i, [projA.items[i] EXCEPT !.shape = edits + 1]))

\* A new item, or a deleted one restored by undo.
CreateItem(i, t) ==
    /\ i \notin Steady \cup Held(projA)
    /\ t \in Home[i] \cap projA.tracks
    /\ Edited(With(projA, i, [track |-> t, age |-> edits + 1, shape |-> edits + 1]))

DeleteItem(i) ==
    /\ i \in Held(projA) \ Steady
    /\ Edited(With(projA, i, Gone))

CreateTrack(t) ==
    /\ t \in Spare \ projA.tracks
    /\ Edited([projA EXCEPT !.tracks = @ \cup {t}])

\* A project without track t and what is on it.
Without(p, t) ==
    [tracks |-> p.tracks \ {t},
     items |-> [i \in Items |-> IF i \in On(p, t) THEN Gone ELSE p.items[i]]]

DeleteTrack(t) ==
    /\ t \in Spare \cap projA.tracks
    /\ Edited(Without(projA, t))

-----------------------------------------------------------------------------
(* PC A: nativeProjectSyncPollLiveProjectOnMainThread                       *)

Message(kind, id, item, plan) == [kind |-> kind, id |-> id, item |-> item, plan |-> plan]

\* What the project is compared with: nothing after a new pairing, when
\* "initial" makes the poll report all there is.
Established == known # None
Baseline == IF Established THEN known
            ELSE [tracks |-> {}, items |-> [i \in Items |-> Gone]]

DeletedItems == Held(Baseline) \ Held(projA)
DeletedTracks == Baseline.tracks \ projA.tracks
NewTracks == IF Established THEN projA.tracks \ Baseline.tracks ELSE {}

\* New and reshaped items wait for the bundle.
NewShapes ==
    {i \in Held(projA) : Established /\ (i \notin Held(Baseline)
                           \/ Baseline.items[i].shape # projA.items[i].shape)}
LightStates ==
    {i \in Held(projA) \ NewShapes :
        initial \/ [Baseline.items[i] EXCEPT !.shape = 0]
                     # [projA.items[i] EXCEPT !.shape = 0]}

\* Tracks are reported when any of them changed; a new one that already
\* holds items waits for the bundle, a new empty one travels whole.
ReportedTracks ==
    IF initial \/ Baseline.tracks # projA.tracks
    THEN {t \in projA.tracks : t \in NewTracks => On(projA, t) = {}}
    ELSE {}

Differences ==
    {Message("itemDelete", i, Gone, {}) : i \in DeletedItems}
    \cup {Message("trackDelete", t, Gone, {}) : t \in DeletedTracks}
    \cup {Message("trackUpsert", t, Gone, {t} \cap NewTracks) : t \in ReportedTracks}
    \cup {Message("itemState", i, [projA.items[i] EXCEPT !.shape = 0], {}) :
             i \in LightStates}
    \cup {Message("resync", None, Gone, p) : p \in {NewTracks \cup NewShapes} \ {{}}}

Poll ==
    /\ paired
    /\ initial \/ ~seen
    /\ Record(Differences)
    /\ known' = projA /\ seen' = TRUE /\ initial' = FALSE
    /\ UNCHANGED <<projectVars, paired, projB, applied, jobVars>>

\* A poll without a peer forgets what it knew.
PollAlone ==
    /\ ~paired /\ known # None
    /\ known' = None /\ seen' = FALSE
    /\ UNCHANGED <<outboxVars, projectVars, paired, initial, projB, applied, jobVars>>

\* A Multiloop moves a fader, which counts as a change of the project. The
\* poll takes all that changed since the last one for VS Hook's own, unless the
\* note that says so (nativeNoteLightweightProjectMutation) is used up already.
OwnMix ==
    /\ \/ seen /\ seen' = FALSE
       \/ paired /\ ~initial /\ ~seen /\ seen' = TRUE
    /\ UNCHANGED <<outboxVars, projectVars, known, paired, initial, projB, applied, jobVars>>

-----------------------------------------------------------------------------
(* Pairing, as the relay reports it (timecode_peer_status)                  *)

Unpair ==
    /\ paired /\ faults < MaxFaults
    /\ paired' = FALSE /\ initial' = FALSE /\ faults' = faults + 1
    /\ UNCHANGED <<outbox, seq, after, toB, late, projectVars, known, seen, projB, applied, jobVars>>

\* The relay starts its new session with the oldest event or the newest.
Pair ==
    /\ ~paired
    /\ paired' = TRUE /\ initial' = TRUE
    /\ after' \in {0, seq}
    /\ UNCHANGED <<outbox, seq, toB, late, faults, projectVars, known, seen, projB, applied, jobVars>>

RelayFetch ==
    /\ paired /\ Fetch
    /\ UNCHANGED <<projectVars, pollVars, projB, applied, jobVars>>

-----------------------------------------------------------------------------
(* PC B: nativeApplyProjectSyncLiveCommand                                  *)

\* Mutant: revisions are not compared.
IsNewAlways(e) == TRUE

IsNew(e) == e.seq > applied[e.id]

\* Event e, of the given kind, changes the project to p; its revision is kept
\* if commit says so.
Takes(e, kind, p, commit) ==
    /\ Receive(e) /\ e.kind = kind
    /\ projB' = p
    /\ applied' = IF commit THEN [applied EXCEPT ![e.id] = e.seq] ELSE applied
    /\ UNCHANGED <<projectVars, pollVars>>

\* Mutant: the item keeps its track.
DestinationsHere(i, t) == {projB.items[i].track}

\* nativeProjectSyncResolveTrack: a track that is not there is looked for by
\* its name and its index, which may be those of any other track.
Destinations(i, t) ==
    IF t \in projB.tracks THEN {t} ELSE projB.tracks \cup {projB.items[i].track}

ApplyItemState(e) ==
    /\ \E t \in IF e.id \in Items THEN Destinations(e.id, e.item.track) ELSE {} :
         LET applies == IsNew(e) /\ e.id \in Held(projB)
         IN  Takes(e, "itemState",
                   IF applies
                   THEN With(projB, e.id, [projB.items[e.id] EXCEPT !.track = t, !.age = e.item.age])
                   ELSE projB,
                   applies)
    /\ UNCHANGED jobVars

ApplyItemDelete(e) ==
    /\ e.id \in Items
    /\ Takes(e, "itemDelete",
             IF IsNew(e) THEN With(projB, e.id, Gone) ELSE projB,
             IsNew(e))
    /\ UNCHANGED jobVars

\* A whole track is created, or its empty content replaces that of the track
\* (nativeProjectSyncMergeTrackChunk without a plan); any other report changes
\* only a track that is there.
ApplyTrackUpsert(e) ==
    /\ e.id \in Tracks
    /\ LET whole == e.plan # {}
           there == e.id \in projB.tracks
       IN  Takes(e, "trackUpsert",
                 IF IsNew(e) /\ whole
                 THEN [Without(projB, e.id) EXCEPT !.tracks = @ \cup {e.id}]
                 ELSE projB,
                 IsNew(e) /\ (whole \/ there))
    /\ UNCHANGED jobVars

ApplyTrackDelete(e) ==
    /\ e.id \in Tracks
    /\ Takes(e, "trackDelete",
             IF IsNew(e) THEN Without(projB, e.id) ELSE projB,
             IsNew(e))
    /\ UNCHANGED jobVars

\* nativeProjectSyncApplyStateIsBusy
Busy == job.state \in {"requested", "transfer"}

\* Mutant: a new plan takes the place of the one that waits.
ApplyResyncReplaces(e) ==
    /\ Takes(e, "resync", projB, FALSE)
    /\ IF Busy
       THEN queued' = e.plan /\ UNCHANGED job
       ELSE job' = [state |-> "requested", plan |-> e.plan] /\ UNCHANGED queued
    /\ UNCHANGED snap

\* A plan starts a job, or waits for the end of the one under way.  That the
\* preflight's request id is valid (74127, 74135) is taken for granted;
\* without one the code drops the plan.
ApplyResync(e) ==
    /\ Takes(e, "resync", projB, FALSE)
    /\ IF Busy
       THEN queued' = queued \cup e.plan /\ UNCHANGED job
       ELSE job' = [state |-> "requested", plan |-> e.plan] /\ UNCHANGED queued
    /\ UNCHANGED snap

ApplyNext ==
    \E e \in toB \cup late :
        \/ ApplyItemState(e)
        \/ ApplyItemDelete(e)
        \/ ApplyTrackUpsert(e)
        \/ ApplyTrackDelete(e)
        \/ ApplyResync(e)

-----------------------------------------------------------------------------
(* The bundle                                                               *)

\* PC A saves a snapshot (nativeProjectSyncPrepareBundleFromCommand), or
\* offers once more the one of a job that failed, if that is still "ready".
\* (After a success the bundle is ready, too, for the same request and structural
\* revision, 29489-29496; the model has PC A save a new one.)
PrepareBundle ==
    /\ job.state = "requested"
    /\ snap' \in {projA} \cup ({snap} \ {None})
    /\ job' = [job EXCEPT !.state = "transfer"]
    /\ UNCHANGED <<outboxVars, projectVars, pollVars, projB, applied, queued>>

\* The job fails at either side, or stalls for too long
\* (nativeProjectSyncExpireStalledApplyOnMainThread); its bundle may still come.
BundleFails ==
    /\ Busy
    /\ job' = [job EXCEPT !.state = "ended"]
    /\ UNCHANGED <<outboxVars, projectVars, pollVars, projB, applied, queued, snap>>

\* A late bundle that nobody takes any more.
BundleDropped ==
    /\ ~Busy /\ snap # None
    /\ snap' = None
    /\ UNCHANGED <<outboxVars, projectVars, pollVars, projB, applied, job, queued>>

\* nativeProjectSyncApplyTracksInPlace with a plan. Tracks of the snapshot
\* that are missing are created with everything on them; tracks only PC B has
\* stay unless the plan names them.
CreatedTracks == snap.tracks \ projB.tracks
KeptTracks == snap.tracks \cup (projB.tracks \ job.plan)

\* nativeProjectSyncMergeTrackChunk: the items whose block comes from the
\* snapshot, and those of PC B that stay where they are.
Written == {i \in Held(snap) : i \in job.plan \/ snap.items[i].track \in CreatedTracks}
Staying == {i \in Held(projB) : /\ projB.items[i].track \in KeptTracks
                                /\ i \in job.plan => projB.items[i].track \notin snap.tracks}

\* An item both written and staying is there twice; live events find one of
\* the two.
ItemAfterBundle(i, found) ==
    IF i \in Written /\ i \notin found THEN snap.items[i]
    ELSE IF i \in Staying THEN projB.items[i] ELSE Gone

\* nativeProjectSyncCommitPendingOpenOnMainThread: PC B takes from the
\* snapshot what its job's plan names, then turns to the plan that waits.
\* (The code takes the plan as it was when the bundle was checked, 29799, which
\* differs from the job's only for a late bundle that meets a newer job.)
CommitBundle ==
    /\ snap # None /\ job.state # "none"
    /\ \E found \in SUBSET (Written \cap Staying) :
         projB' = [tracks |-> KeptTracks,
                   items |-> [i \in Items |-> ItemAfterBundle(i, found)]]
    /\ job' = IF queued = {} THEN [job EXCEPT !.state = "ended"]
              ELSE [state |-> "requested", plan |-> queued]
    /\ queued' = {} /\ snap' = None
    /\ UNCHANGED <<outboxVars, projectVars, pollVars, applied>>

-----------------------------------------------------------------------------
Operator ==
    \/ \E i \in Items :
         \/ ChangeItem(i) \/ ReshapeItem(i) \/ DeleteItem(i)
         \/ \E t \in Tracks : MoveItem(i, t) \/ CreateItem(i, t)
    \/ \E t \in Tracks : CreateTrack(t) \/ DeleteTrack(t)

Next ==
    \/ Operator
    \/ Poll \/ OwnMix \/ PollAlone \/ Unpair \/ Pair \/ RelayFetch
    \/ ApplyNext
    \/ PrepareBundle \/ BundleFails \/ BundleDropped \/ CommitBundle

Spec == Init /\ [][Next]_vars

\* The poll and the commands of PC B run on timers of REAPER; the relay asks
\* again and again. Nothing is assumed of bundles and of pairing.
Fairness == WF_vars(Poll) /\ WF_vars(RelayFetch) /\ WF_vars(ApplyNext)

FairSpec == Spec /\ Fairness
-----------------------------------------------------------------------------
(* Properties                                                               *)

\* Of an item that is only moved about and changed, PC B shows a state PC A
\* has or had, and never an older one after a newer one: whatever the relay
\* delivers twice, the outbox lets overtake, or a bundle brings in between
\* (nativeProjectSyncLiveRevisionIsNew, nativeTimecodeLanRecordCommand).
M == INSTANCE Mirror WITH
       Things <- Steady,
       source <- [i \in Steady |-> projA.items[i].age],
       copy <- [i \in Steady |-> projB.items[i].age]
Mirrors == M!Spec

\* PC B never mixes two states of such an item: the copy that is as new as
\* the original lies on the same track (nativeProjectSyncResolveTrack).
Whole ==
    \A i \in Steady :
        projB.items[i].age = projA.items[i].age
            => projB.items[i].track = projA.items[i].track

\* A thing that is named in a waiting plan waits on or is asked for; a job
\* under way drops nothing of its plan (nativeProjectSyncMergeDifferencePlans
\* and the queued plan of the live resync).
PlanKept ==
    [][/\ queued \subseteq queued' \cup job'.plan
       /\ Busy /\ Busy' => job.plan \subseteq job'.plan \/ CommitBundle]_vars

\* When the pairing lasts, PC B ends with every steady item as PC A has it
\* (the initial snapshot of a new pairing, and the changes after it), provided
\* no edit is taken for a change of VS Hook's own and left at that.
Converges ==
    <>[]paired /\ <>[](seen => known = projA)
        => \A i \in Steady : <>[](projB.items[i].age = projA.items[i].age)

\* The same without the proviso ("Project Sync observa tambem alteracoes feitas
\* diretamente no TCP/MCP do REAPER", vshook_extension.cpp:79830).
EditsReach ==
    <>[]paired => \A i \in Steady : <>[](projB.items[i].age = projA.items[i].age)

\* An item goes with a track that is deleted only when PC A does not hold it
\* on a track PC B has ("uma pista apagada leva junto somente os itens que
\* ainda restam", vshook_extension.cpp:73715).
OnlyRemainingGo ==
    [][\A e \in toB \cup late : ApplyTrackDelete(e) =>
         \A i \in Held(projB) \ Held(projB') :
            projA.items[i].track \notin projB'.tracks]_vars
=============================================================================
