# Verification of the VS Hook extension

TLA+ models of the VS Hook extension for REAPER (`src/src/vshook_extension.cpp`
and its neighbours), TLC runs that check them on small instances, and proofs
that TLAPS checks for all values of the constants. Line numbers below are those
of `src/src/vshook_extension.cpp` unless a file is named.

The extension runs a live show: a playlist of songs (REAPER regions) on one time
line, a queue for what comes next, automatic modes that move on or stop at the
end of a song, and commands from a local panel, the Director app, the keyboard
and a second computer. What must not go wrong happens at the seams: a command
that arrives while a seek is pending, a stop seen one timer tick late, a queue
changed after REAPER was already told where to go.

## Inventory

| Component | State it keeps | Operations | Interacts with | Hard part |
| --- | --- | --- | --- | --- |
| Playback automation (14938-16731, 71210-71735, 74822-77175) | queue, AT/BL target, selection, requested Play, armed part, published playback, Auto Stop memory, settings | cycle; queue, auto, selection, transport, marker commands; stop hook | REAPER transport (read and commanded), the command dispatcher | stale readings, one pending seek for several askers, order of steps in a cycle |
| Command queue (77523-77600, 78514-78690) | deque of commands | post, atomic batch, drain of up to 128 | server thread writes, main thread reads | coalescing, limit, overtaking |
| Bridge server (5689-5731, 72832-72858, 78692-79102, 79527-79641) | running flag, thread, listening and client socket | start, stop, retry, serve one client | main thread joins server thread | races between stop and accept/publish/read |
| Timecode LAN (5978-7610, 77949-78367) | outbox, sequence, session id, topology, remote clock | record, outbox read, refresh of configuration, transport following | Hook Center relay, command queue | coalescing, overflow, sequence reset, toggles delivered twice |
| Project Sync (26144-31538, 72904-74538) | role, manifest, bundle, apply state, live revisions | preflight, bundle (worker thread), handover, apply, live deltas | Timecode LAN, file system, REAPER project | cancellation, role change, late deltas |
| MTC (77602-77947, `native_mtc_timecode.h`) | last sent position, quarter frame index | prime, quarter frames, stopped locate | transport | drop frame, 24 h wrap, labels split over two timer calls |
| Manual Stop fade-out (15183-15400, 76353-76451, 76817-76891) | ramp, saved volumes | start, step, cancel, break, restore | Stop, Multiloops, REAPER volumes | what happens during the ramp, the Stop at its end, restore after it |
| Multiloops, Repeat (70294-71046, 75213-75440) | repeated stretch, volumes and mutes held, the stretch let go of | pre-fade, capture, let go, give back, bypass | Parts, queue, Auto Stop (they wait while Repeat is on) | loop around an armed part |
| Timer (6560-6700, 75774-75926) | value, running, direction | start, stop, reset, automatic | transport, bypass | bypass and restart |
| Live marks (75146-) | songs marked as played | set, reset, tracker | playback | minimum time over pauses |
| Playlists (13384-14780, 15493-15604) | playlists and their order | edit, clone, sort | all song lists | identity of repeated songs |
| Premix (69652-70292, 75450-75772) | saved mixer values per song | apply, restore | song changes, project tabs | restore to the right project |
| Tuner (9302-9636, 16369-16459) | transposition per song | apply, retry | song changes | retry after a song change |
| Director access (2590-2710, 24961-25055) | heartbeat, owner, blocking | enter, heartbeat, logout | timer, bridge | expiry |
| Technical notices (7996-8735) | notices with expiry | post, cancel, expire, persist | bridge | expiry against persistence |
| Lifecycle (79107-80702) | bypass, project tab, startup | timer, bypass, entry, exit | everything | order of shutdown |
| Smart search, BPM scan, UI, decoders, licence, JS API, assets, vendored code | | | | outside the models, see `PROJECT.json` |

What makes each component correct:

- Playback: a stop loses no target; only one next target waits; a manual queue
  is the user's; REAPER's one pending seek belongs to an armed part before the
  queue and always leads where the state says; a song is stopped at its real
  end, a fresh Play never; an armed part ends; a family plays through.
- Command queue: nothing accepted is lost unless a later command of its class
  replaces it; the rest is applied once, in order; a refusal changes nothing.
- Bridge server: a stop returns without waiting for a client, leaves nothing
  behind, and a server that died comes back.
- Fade-out Stop and Multiloops: what is taken from the mixer is given back, as the
  operator set it and never louder, however playback ends; a fade-out that has run
  ends in a Stop; a stretch let go of stays let go of; a pause freezes both.
- Timecode LAN: a reader that acknowledges what it read sees every event that was
  not replaced, in order. Project Sync: what is applied belongs to the session
  and revision that asked for it.

## SongLayout, PlaybackAutomation, MCPlayback

`SongLayout` is what the automation reads of a project: songs with bounds,
families (a parent region and its children), the active playlist with block
headers. Its operators are the search routines: `PlayingSong` is
`nativeFindPlayingId`, `SourceOf` is `nativeResolveQueueSourceBoundary`,
`CurrentIndex`, `NextAuto` and `BoundaryTarget` are the playlist searches. `BoundsMatch`
is the code's comparison of bounds, which takes a start at 0 for one not known.

`PlaybackAutomation` is the engine. Every handler runs on REAPER's main thread,
so one handler is one action:

| Action | Code |
| --- | --- |
| `Cycle` | `nativeRebuildState` with runtime control: `View` corrects the reading for a requested Play, `PromoteOnStop` prepares a stop just seen, then the reading is published (`cur`), then `MaintainQueue`, `MaintainAutoStop`, `PartsArrival` in the code's order |
| `QueueSong`, `ClearQueue` | `nativeApplyQueueCommand` |
| `SetAuto`, `ToggleAtBl`, `ToggleAutoStop` | `nativeApplyAutoCommand` |
| `Select`, `ClearSelection`, `ProcessSelection` | `nativeApplySelectionCommand` and the deferred `nativeProcessPendingSelectionOnMainThread` |
| `Play`, `Stop`, `Pause` | `nativeApplyTransportCommand` |
| `HookedStop` | `handleTransportQueueStopCommand` |
| `GoToPart`, `DisarmPart`, `EscapePart` | `nativeApplyMarkerCommand` |
| `HoldKey`, `ReleaseKey` | `nativeUiPrepareNavigationKeyDown` and `nativeUiResetNavigationRepeat`: an arrow key of the panel goes down and up |
| `HookedPlay`, `ReaperStops`, `ToggleLoop`, `Elapse` | REAPER and its user |

The routines of a cycle and of a stop call one another on the state the one
before left. They are written as functions of a record (`Now`) of everything
they may change, composed as in the code, and `Becomes` makes the result the next
state. `queueSeekPerformed` is the field `acted`.

State and code: `queue.sought` is the seek signature (`g_nativeQueuedSeekSignature`),
which names source and target; only the source can differ between two checks,
because every change of the target clears it. `pending` is
`g_nativePendingPlayTarget`, `cur` the `g_nativeCurrent*` block, `last` the
`g_nativeAutoStopLast*` block, `suppress` the time left of
`g_nativeSuppressStoppedTransitionPrepareUntil`, `click` the pending selection
command. `g_nativeAutoStopLastStoppedSignature` is left out: it is set just before a
stop, which makes it unreachable by the next evaluation.

REAPER, outside the repository, is modelled from how the code uses it:

- one pending seek; with smooth seek it is executed at the end of the song that
  plays, or earlier (`Arrives` at any time, `RunsOn` never past a song end with a
  seek pending);
- a started Play reports the old position for at most `MaxStale` units (`Drifts`),
  which is what `nativeFindPlayingIdWithPendingTarget` guards against (15012-15118);
- Pause drops a pending seek; at the end of the project REAPER stops by itself;
- Repeat jumps from the end of the loop to its start.

Time: one unit is 250 ms, the window in which a song end is still acted on.
`Period` is how long the next cycle may take to come (`nativeBridgeStateIntervalMs`,
72491): while the transport is not stopped 220 ms (`kNativeBridgeLiveIntervalMs`), so
`MaxLag = 1`, at most one unit; stopped up to a second when nobody looks (`IdleLag` 4).
Both are nominal: a main thread that is busy delays its timer.

One thing suspends the cycle by design, and without a limit: as long as the user
holds an arrow key in the panel, `nativeBridgeTick` returns at once (72535, comment
72530-72534), and what is due is done when the key comes up. Pending selections, the
Multiloops, the fade-out and the commands go on meanwhile (79867-79878). This is the
variable `held`: `Cycle` waits for `~held`, time does not. `lag` counts the units since
the last cycle, up to `MaxLate` (4, more than any property distinguishes). Three things
follow, which the model shows and the properties except, each with the condition
it needs:

- an end of a song that passes while a key is held is seen too late for Auto Stop
  (16671), which then misses it (`AutoStopNotMissed` speaks of cycles that come no later
  than `StopWindow + 1` units after the one before);
- a part behind the place it was armed at counts as reached only close to its
  position (71698-71710); with a key held while playback arrives there it stays
  armed, and under Repeat elsewhere for ever (`PartsEnd` speaks of behaviours in which a key
  is let go of before the part's seek is done);
- a queued song that plays to its end while a key is held is not seen to play. It stays
  queued with its signature and is not asked for again at the end of the same
  source (`SeekNotForgotten` excepts time that passes under a held key).

The other durations are scaled and keep
their order: `SeekLead` 2 (2 s), `PendingLife` 2 (500 ms), `StaleTol` 1 (75 ms),
`PartsGrace` 1 (150 ms), `SuppressLife` 2 or 4 (1.8 s). Songs are 2 to 3 units
long, so that windows overlap each other and the songs, which is when things
happen. The theorems hold for every value of these constants, so for cycles as late
as one likes.

Layouts: `Show` has two glued songs, a gap, a block header and a third song;
`Family` a parent filled by two (glued) children, and a song after a gap. These are the
boundaries the code distinguishes: glued, gap, block, parent. Commands are
bounded by `MaxCommands` (3 or 4 of the kinds a run names), the project by
`MaxPos` (12 units); three commands in any order with cycles and time between
them reach every pairing of the hazards, the fourth is there where arming,
replacing and disarming take three already.

Runs (`MCPlayback`):

| Run | Properties | Shows |
| --- | --- | --- |
| `queue` | `TypeOK`, `OneTarget`, `StopKeepsTarget`, `ManualQueueHolds`, `SeekFollowsQueue` | targets and seeks under queue, auto, AT/BL, play and stop commands, from all twelve settings |
| `play` | `FreshPlayGoesOn`, `AutoStopNotMissed`, `NoStopInSong`, `FamilyPlaysOn` | Auto Stop against stale readings, the timer period and a held key, around a family, whose parent's end, not the child's, is the boundary |
| `parts` | `PartsOwnsSeek`, `SeekNotForgotten`, `PartsEnd` | Parts against the queue for the one seek, with keys held in between; liveness: an armed part ends |

Keys are held in `play` and `parts`. Fairness: only `parts` assumes any. `FairSpec`
says that the timer goes on and, unless a key is held, has its cycle
(`[]<>(held \/ lag = 0)`: REAPER calls the registered timer; only `Cycle` brings `lag`
back to 0), that a pending selection is applied by the timer (`WF(ProcessSelection)`)
and that REAPER plays on (`WF(Elapse)`). No command is assumed to come, and no key to be
let go of.

Disagreements between code and comments, each with a run that shows it
(`expect: violation`):

| Run | The comment or test | The code |
| --- | --- | --- |
| `auto2_end` | 16334-16335: Auto 2 acts after confirming the real end of the source | the recorded source is the song published before the Play (16037), so a Play of the song glued after it is stopped by the first cycle |
| `block_stop` | 16616-16617 and `tests/native_auto_stop_start_test.cpp:131`: the AT/BL limit stops also with Auto Stop off | in the gap the cycle clears the target (16201) before `nativeMaintainAutoStop` looks; a song queued in the gap is lost the same way |
| `second_stop` | 16198-16199: the target was promoted before the queue is cleared | within 1.8 s of an extension stop it is not (71400-71415) |

Left out, so the component is "partly" modelled: the fade-out Stop (see `Stage`), the tuner and
Premix calls of a cycle, row selection of the local panel (`nativeUi*`), block
headers as play targets, several open project tabs, markers as play positions.
The `parts` run leaves out `pause`, `play`, `esc` and `auto`: with them a signature may
outlive the seek (listed as hazards); no comment or test says what is intended.

## Proofs: PlaybackAutomation_proofs

Proved for all constants that satisfy the assumptions of `SongLayout` and
`PlaybackAutomation` (bounds are naturals, songs are not empty and end inside the
project):

- `TypeCorrect`: `Spec => []TypeOK`
- `OneTargetHolds`: `Spec => []OneTarget`
- `PartsOwnsSeekHolds`: `Spec => []PartsOwnsSeek`, with all commands, also those the
  `parts` run leaves out
- `ManualQueueHeld`: `Spec => ManualQueueHolds`, an action property

Argument. `TypeOK /\ OneTarget` is inductive (`InvHolds`). Because the routines are
functions of a record, each has a lemma of its own: `Sound(s)` says that the record
is well typed and holds at most one target, and every routine takes a sound record
to a sound one. The cycle composes them. `PartsOwnsSeek` needs more than the
invariant of the record: `LeavesPart(s, t)` says that when a routine leaves a part
armed in `t`, it was armed in `s` and transport and seek are those of `s`; with it
each action either leaves the part and the seek alone, sets both (`GoToPart`) or
disarms. `Holds(s, t)` is the relation for the manual queue: a routine keeps
the queued song or empties it and leaves `cur` alone, until the step that re-arms,
which acts only on an empty or automatic queue.

## Proofs: PlaybackCycle_proofs

What one call of the timer does, read from the state at its beginning to the state at
its end. Proved for all constants, under the hypotheses named:

- `StopKeepsTargetHolds`: `Spec => StopKeepsTarget`
- `NoStopInSongHolds`: `Spec => NoStopInSong`
- `FamilyPlaysOnHolds`: `Spec => FamilyPlaysOn`, if families lie apart (`FamiliesApart`)
- `AutoStopNotMissedHolds`: `Spec => AutoStopNotMissed`; that the cycle comes in time is a
  premise of the property, so nothing is assumed of the timer
- `FreshPlayHolds`: if `MaxStale <= PendingLife`, a cycle neither stops playback nor
  asks for a seek while a Play waits to be seen inside its song
- `SeekFollowsQueueHolds`: `Spec => SeekFollowsQueue` with all commands, also those the
  `queue` run leaves out, if `SongsApart` and `NoParentAtZero`

`FamiliesApart` says that children that overlap belong to families that end together,
which is how a project with families is laid out (a child lies in its parent, parents
follow one another). `SongsApart` says the same of all songs: two that overlap are of one
family, whose parent holds its children. `NoParentAtZero` is needed: the code takes a
queued song that starts at 0 for one without bounds (16131), so a parent at 0, queued with
its bounds while one of its children plays, is not consumed, and the seek asked for the
song queued before stays. With `FamilyStart` as it is in `MCPlayback` and `queue`, `play` among the
commands TLC finds that; with the family moved to 1 it finds nothing. `MaxStale <= PendingLife` says that REAPER reports old positions for no longer than
the 500 ms for which the code expects them (15012-15118).

Argument. `Seen` is the record a cycle starts its automation with: the reading corrected
and published, a stop promoted. From it the routines are followed in their order, with one
relation each between the records before and after. `Steered`: a routine
leaves transport and seek alone, or stops where a song ended, or asks for the seek
of the queue close to the end of the source. `Carries`: it leaves the pending target,
and a Play on its way, alone. A stop's target is read off `StopTarget`. Three of the theorems need to know
what earlier cycles and commands left: `Known`, the end Auto Stop waits for is a song's;
`Awaited`, a Play not yet seen in its song is the pending target, as old as its seek; and
`OnItsWay`, while REAPER owes the queue a seek, playback runs in a song, no target is
pending, the end of the source is at most `SeekLead` away, and a signature names the song the
seek leads to. `OnItsWay` is kept because a smooth seek never runs past the end of a song, and
all songs at a position share one source (`SourceIsRoot`); from it follows that
the next cycle looks at the queue again (`FireQueue`) and either keeps the signature, so that the seek is
right, or asks anew.

Only model-checked: `FreshPlayGoesOn`, `SeekNotForgotten` and the liveness property `PartsEnd`. `FreshPlayHolds` is `FreshPlayGoesOn` for as long as the
target is pending; the run also looks at what follows an old position that lies, by
chance, inside the song. `SeekNotForgotten` is true only of the commands of its run: Pause, Esc
and a Play given while a song plays replace the seek and leave the signature (see the hazard at
76492).

## CommandQueue, CommandLanes, Sublists, MCQueue

`CommandQueue` is the deque through which the apps reach REAPER's main thread. A
command is a member of one of three sets, for only its type matters to the
queue: `Pulses` (`timecode_transport_sync`), `Selections` (the four selection
commands) and `Others`. `QueueLocked` is `nativeQueueHttpCommandLocked`, a function of
the queue, because `Post` uses it on the queue itself and `PostBatch` on a staged
copy. `TakePending` is the part of `nativeProcessHttpCommandsOnMainThread` under the
lock; each turn of the loop after it is an `ApplyNext`, so posts of the server
thread come in between. A command waits at most once (a bound that names
commands; two equal commands are two members of the set).

`CommandLanes` says what the apps may rely on: two lanes, selections and the rest,
each first come first served, served independently; a pulse or a selection may
take the place of older ones, though not of those already taken out to be
applied (`kept`); a call is taken whole or refused without a trace. The refinement
`CommandQueue => CommandLanes`, with the lanes read off `pending \o queue`, has two
parts: `KeepsLanes` is its safety (`Order`: what is accepted, lost, overtaken,
refused), `ServesLanes` its fairness (`Service`: each lane goes on being applied).
`Sublists` holds `Only`, what an erasure leaves of a sequence.

| Run | Properties | Shows |
| --- | --- | --- |
| `queue_lanes` | `QueueTypeOK`, `KeepsLanes`, `ServesLanes`, `Served` | bound, order, loss and refusal, service of each lane and of each command, for six commands (two of each kind), a limit of 3, drains of 2, batches of up to 3 |

A limit below the number of commands makes refusals happen with and without
erasures before them; a drain smaller than the queue leaves commands behind a
taken batch. Fairness: the timer runs (`WF` of `TakePending` and `ApplyNext`). With
two pulses, two selections and posts without end, `Served` is not trivial: a pulse
put in front would starve the rest (that is its mutant).

`DrainMax` is assumed to be at least 2 (128 in the code). With 1 a stream of
selections, each put in front, would starve the other lane: the drain would take
nothing else. The same would happen with 128 if 128 selections could wait, but
each erases the one before.

## Proofs: Induction, CommandQueue_proofs

Proved for all sets of commands, limits, batch and drain sizes:

- `QueueBounded`: `QueueSpec => []QueueTypeOK`
- `QueueKeepsLanes`: `QueueSpec => KeepsLanes`, the refinement

Erasures and batches are recursive functions over sequences, and the library's
induction theorems take an operator, which the provers cannot instantiate.
`Induction` states induction about sets instead (`FromZeroUp`): it follows from the
well-foundedness of strict inclusion between finite sets, a library theorem that
takes no operator. From it come the existence and uniqueness of what `n` steps of a
recursion yield (`Iterates...`) and induction over sequences.

Argument. `Only` is characterised once (its members, its order, how it meets
concatenation, that it is no longer than its argument and keeps commands distinct), and
the queue's proofs cite only that. `QueueTypeOK` is inductive in the form
`Sorted`, which speaks of the two deques one by one (`TypeInParts`). For the refinement a post
is seen in each lane by itself: what `QueueLocked` erases from the queue and what it
puts in front or behind is, read through `Only`, what `Joined` does to one lane and
leaves of the other, with `kept` the number of commands of that lane already taken
out. A batch composes as many of these as it has commands. A drain moves commands
from `queue` to `pending` and leaves both lanes as they are.

Only model-checked: `ServesLanes` and `Served` (liveness).

## BridgeServer, MCBridge

`BridgeServer` extends the queue by the two threads around it. `main` and `srv` are
the places at which the threads can be overtaken by one another: a read or write
of `g_nativeRunning`, a critical section of `g_nativeServerMutex` or
`g_nativeMutex`, a blocking call. What lies between two of them is one action.

| Actions | Code |
| --- | --- |
| `StopFlag`, `ShutdownSockets`, `Join` | `stopNativeBridgeServer` (79094), called by bypass and by the exit |
| `Start`, `StartJoin`, `Create` | `startNativeBridgeServer` (79080) |
| `BypassOn`, `BypassClear`, `BypassOff` | `nativeSetExtensionBypass` (79527) |
| `Unload`, `TimerRestart`, `TimerTake`, `TimerApply` | the exit (80508), `startupTimer` (79753) |
| `Open` ... `End` | `nativeBridgeServerThread` (78959) |
| `ReadCheck`, `Receive*` | `nativeReadHttpRequest` (72823) |
| `Handle` | `nativeHandleClient` (78694), as far as it changes shared state |
| `SendCheck`, `SendShut`, `SendEnds` | `nativeSendAll` (5691) |

A socket is `open`, `shut` (shutdown called) or `closed`; that the main thread may
call shutdown is `listenerPub` and `clientPub`, the two published numbers. A client
is an adversary: it sends its envelope line by line or in pieces of lines, stops
at any point, or does not read. Its commands are not already waiting, the same
bound as above. `bind` and `listen` may fail, the thread may not be created, REAPER's
window may not exist yet.

| Run | Properties | Shows |
| --- | --- | --- |
| `bridge_stop` | `TypeOK`, `FlagHasThread`, `BypassQuiet`, `PublishedOpen`, `StopReturns`, `ComesBack` | every interleaving of the two threads with one client after the other, envelopes of up to two of three commands (one of each kind), a queue of 2 |

Two commands in an envelope are enough to be cut in the middle; the threads are
two in the code. Deadlock is not checked, for the main thread is gone after the
exit.

Fairness: both threads are scheduled (`WF` of `MainStep` and of `ServerStep`), which
includes the 200 ms wait, and excludes everything that depends on a client or on
a socket timeout (`ClientStep`): `StopReturns` holds without the timeouts of 1 and
3.5 s. `ComesBack` assumes in addition that the timer runs and that window, thread
and port can be had in the end (`Recovery`); in the code the timer does so only
in a licensed session.

The Project Sync worker that the exit joins before the bridge, the endpoints that
only read or that belong to the teleprompter and to notices, and the cut of a
single command (its text is then incomplete) are left out. Two threads blocked
in `accept` on the same port of two REAPER instances are one `Open` that fails.

One thing the model shows has no property: a request that is cut (the client
closes or pauses for a second) is handled with what has arrived, so an envelope
cut at the end of a line is queued in part and its sender repeats it. It is
listed as a hazard.

## Proofs: BridgeServer_proofs

Proved for all sets of commands, limits and batch sizes: `TypeCorrect`,
`FlagHolds` (`[]FlagHasThread`), `BypassHolds` (`[]BypassQuiet`), `PublishedHolds`
(`[]PublishedOpen`), and, of the queue inside the bridge, `BridgeQueueBounded`
(`[]QueueTypeOK`) and `BridgeKeepsLanes` (`KeepsLanes`).

Argument. Each safety property follows from where the two threads are, so the
inductive invariant is `TypeOK` with two tables: `ThreadTable` says what each place of
the main thread implies for flag, server thread and queue (past the fall of the
flag it stays down; past the join there is no thread; in bypass nothing is
started), `SocketTable` gives the stretches of the server thread in which each
socket is open, and the shorter ones in which it is published. `MainKeeps` and
`ServerKeeps` go through the actions one by one. The safety properties alone are
not inductive: `BypassQuiet`, for instance, needs that a stop called by bypass
goes on to empty the queue.

The queue's theorems are about `QueueSpec`, the bridge's about its own `Spec`; they meet in
`StepOfQueue`: to the queue every step of the bridge is one of its own, or a batch of
what has arrived of an envelope. Such a part is a batch the lanes accept (`PartOfCall`),
for an envelope holds each command once and grows line by line (`CallSound`). That the
part may be less than what the client meant is the hazard at 72839, not a breach of
the lanes.

Only model-checked: `StopReturns` and `ComesBack` (liveness).

## LanOutbox, LiveSync, Mirror, MCLiveSync

Project Sync keeps the project of a second computer (PC B) like that of the first
(PC A). After a first bundle both hold the same project; from then on PC A
reports what its operator changes, and `LiveSync` models this live half.

`LanOutbox` is the outbox of events on PC A and the relay (Hook Center) that
carries them. `LiveSync` extends it with the two projects. An item is its track and two
ages, the number of the edit that changed its light state last and of the one that
changed its shape (`structureKey`: media, takes, FX). A track is there or not.

| Action | Code |
| --- | --- |
| `ChangeItem` ... `DeleteTrack` | PC A's operator in REAPER |
| `Poll`, `PollAlone` | `nativeProjectSyncPollLiveProjectOnMainThread` with and without a peer: differences against the baselines, in the order deletions, tracks, items, resync, recorded by `nativeTimecodeLanRecordCommand` and the `Record...` of each kind |
| `OwnMix` | a fader moved by VS Hook itself, noted by `nativeNoteLightweightProjectMutation` |
| `Pair`, `Unpair` | `timecode_peer_status` from the relay |
| `RelayFetch` | the relay reads what it has not acknowledged and hands it over; a batch may be delayed, delivered again, and arrive itself later |
| `ApplyItemState`, `ApplyItemDelete`, `ApplyTrackUpsert`, `ApplyTrackDelete`, `ApplyResync` | `nativeApplyProjectSyncLiveCommand` on PC B |
| `PrepareBundle`, `CommitBundle` | PC A saves a snapshot; PC B merges from it what the plan of its job names (`nativeProjectSyncApplyTracksInPlace`, `nativeProjectSyncMergeTrackChunk`) and turns to the plan that waits |
| `BundleFails`, `BundleDropped` | failure on either side, expiry of a stalled job, a bundle nobody takes |

`Mirror` is the abstract specification: a copy that follows an original, may skip
states and never goes back. `Mirrors` is the refinement `LiveSync => Mirror` for the
items that are never created, deleted or reshaped (`Steady`), over everything that
may happen to the others, among them bundles, whose snapshots are older than events
already applied.

External is the relay, a program outside the repository. It is modelled from its
interface (77949-78130): it hands over in order what is newer than its
acknowledgement, hands it over again when an answer is missing, and starts a session
at the oldest or at the newest event.

What is abstracted: `seq` stands for the live revision of an event too, for both
grow with every event; ages stand for values; track names are distinct, yet a
track that is missing on PC B may be taken for any other (name and index may fit);
the report of one track carries only its existence. Left out: roles and handover,
the first conference, the copying of files and its worker thread, the events of
time line, viewport, configuration, playlists and commands (they share the outbox but
no state with items and tracks), `item_upsert` (applied, never sent), the overflow at
4096 events, the reset of the topology, and the drop of a command repeated within
15 ms.

Three more things are simplified, and no property depends on them. The id of a resync
request is taken as valid (checked at 74127 and 74135: with an invalid one the code
starts no job). A bundle carries out the plan its job has when it is committed; the code
captures the plan when the check of the bundle starts (29799), which differs only when a
late bundle meets a newer job. After a success PC A's bundle stays ready (29489-29496)
and answers the same request again; the model consumes it, and PC A saves a new one.

| Run | Properties | Shows |
| --- | --- | --- |
| `live_sync` | `TypeOK`, `Whole`, `Mirrors`, `PlanKept`, `Converges` | one steady item and one that comes, goes and changes shape, on two tracks and one that comes and goes, two edits, and one fault: a delayed batch or a broken pairing |

Two edits are needed for any order to matter (an old and a new state; a deletion
and what came before it); the bundle adds a third, older state in between. One
delayed batch is enough to have every event arrive twice and late; one broken
pairing makes a new initial snapshot overtake what was under way. The safety
and action properties are proved for all bounds (next section), so the bounds matter
only for `Converges`.

Fairness: the poll and the commands of PC B run on REAPER's timers
(`WF(Poll)`, `WF(ApplyNext)`), and the relay goes on asking (`WF(RelayFetch)`). Nothing
is assumed of bundles (they may fail for ever) and of the pairing: `Converges`
speaks of behaviours in which it lasts from some time on. Its second premise,
`<>[](seen => known = projA)`, excludes the case in the second row of this table:

| Run | The comment | The code |
| --- | --- | --- |
| `live_loss` | 73725-73726: a deleted track takes along only the items that still remain | one poll sends the deletions of tracks (73732) before the states of items (73807); an item moved off the track is deleted with it on PC B, and its state then finds no item (74440) |
| `live_own_mix` | 79830-79831: Project Sync also observes changes made directly in REAPER's track panels | an edit followed by a fader move of VS Hook's own is below the change count the latter stores; the poll takes it over unread (73670-73673) |

Deadlock is not checked: with the edits used up and everything applied, the model
stops.

## Proofs: LiveSync_proofs

Proved for all sets of items and tracks, all homes, any number of edits and faults:

- `TypeCorrect`: `Spec => []TypeOK`
- `CopyIsWhole`: `Spec => []Whole`
- `FollowsSource`: `Spec => Mirrors`, the refinement
- `PlansAreKept`: `Spec => PlanKept`

Argument. `Whole` and `Mirrors` are about PC B's project, but what endangers them is
under way: in the outbox, in the two batches, in the snapshot. `IInv` speaks of all
of them and has three parts. `Typed`: `TypeOK` and `AgesPast` (no age is of the
future). `Spared`: steady items are there, on permanent tracks (`ProjectsSound`),
and no plan names them or their tracks (`PlansSpare`), so no bundle touches them.
`Ordered`: no event about a steady item is newer than PC A's project (`NotNewer`);
of two events the later in number is not the older in age (`InOrder`); PC B's copy
is not newer than any event it would still apply (`CopyBehind`). From `CopyBehind`, with the
revision check of PC B, each application goes forward; from `NotNewer` it goes no
further than PC A. Where the age is PC A's, so is the track. Each of the three
parts is kept by each action, with a lemma for the actions that leave mail and
projects alone.

Only model-checked: `Converges` (liveness).

## MultiLoops, StopFade, Stage, MCStage

Two parts of the extension take volumes away from the operator while a song plays.
`MultiLoops`: up to four stretches of a song (slots), each between two markers.
Before a stretch an Auto Fader takes its tracks down to a limit, at its start REAPER's
Repeat is put over it and other tracks are muted or soloed, and when the operator
turns Repeat off, the stretch is played to its end and everything is given back.
`StopFade`: a Stop that first fades chosen tracks out, stops, and gives the volumes
back 400 ms later. Both modules hold operators only, functions of a record of what
the handlers change, for these call one another on the state the one before left.
`Stage` holds that record (`st`) as its state and composes them as the timer does.

| Action | Code |
| --- | --- |
| `Cycle` | `startupTimer` (79867-79879): `UpdateFade` is `nativeUpdateManualStopFadeoutOnMainThread`, `LoopTick` is `nativeProcessMultiLoopsOnMainThread` with `nativeProcessMultiLoops`, `Engine` what `nativeRebuildState` does to loops and mixer (a stop seen, 71400-71415; a part reached, 71686-71733), which runs less often |
| `Stop`, `BreakStop`, `Play` | `nativeApplyTransportCommand` |
| `Pause` | the pause key (76916), `director_pause` (76490) |
| `HookedStop` | `handleTransportQueueStopCommand` |
| `LoopOn`, `LoopOff` | `nativeApplyLoopCommand` |
| `SlotOn`, `SlotOff`, `ToggleMs`, `SetLimit`, `RequestBypass` | `nativeApplyMultiLoopCommand` |
| `GoToPart`, `DisarmPart` | `nativeApplyMarkerCommand` |
| `ReleaseControl` | `nativeReleaseRuntimeControlOnMainThread` |
| `Tick`, `ProjectEnds`, `ReaperStops`, `HookedPlay`, `Seek`, `Mix` | REAPER and its user |

State and code: `rows` is `g_nativeMultiLoopFadeTracks` by track (a track may have
several rows; they are restored in turn, so the newest stays), `mutes` is
`g_nativeMultiLoopRestore`, `active` is `g_nativeMultiLoopActivePair`, `released` is
`g_nativeMultiLoopDisarmedPairKey`, `out`, `in`, `from` and `to` are the fade that runs,
`paused` the `...Paused...` variables, `fade` is `g_nativeManualStopFadeoutRuntime`.
Mute and solo of a track are one flag, for the code treats them alike. The queue is
only that a song waits, a Play only that it is still unconfirmed: the rest of the
engine is `PlaybackAutomation`. `mix` is what the operator set; he changes it only
on tracks nothing holds. `letGo` and `crossed` are ghosts of the properties.

The run `stage` (`MCStage`):

| Property | Shows |
| --- | --- |
| `StageTypeOK` | types, among them that no level leaves the range of volumes |
| `NeverLouder` | no limit, fade or restore makes a track louder than the operator set it |
| `MixKept` | what is kept to be given back, and what a track nobody holds sounds like, is what the operator set, never a level already reduced |
| `LetOut` | a stretch let go of does not catch playback again while playback stays in it |
| `FadeOutStops` | when the volumes of a fade-out are to return, playback has been stopped or paused |
| `PauseFreezes` | in a pause no timer call restores a track or drops a loop |
| `FadeEnds` | every fade-out ends |
| `MixReturns` | once playback has stopped, the mixer is again what the operator set |

Bounds: one song of 9 units in a project of 10, two stretches of two units,
[2,4) and [6,8), each with a lead of two, so that the lead of the second begins where
the first ends; one track is faded by both, the other muted by the first and chosen
for the fade-out; two volumes above silence; a fade of two units, a return of one. One
unit passes at most between two calls of the timer (`MaxLag`), no more than the
tolerance of a pause (150 ms). Three commands in any order: one to play, one to
begin a fade-out or let go, one to disturb it. From a state that already plays,
three more commands were checked for the safety properties.

Fairness: the timer goes on and time passes (`[]<>(lag = 0)`, `[]<>(lag > 0)`). No
command is assumed.

Not covered by the properties, and listed as hazards, are things the model
shows. A pre-fade that begins while an Auto Fader still comes back keeps the
half-way volume as the operator's (`Crosses`; the ghost `crossed` excepts it from `MixKept`).
So does one that begins over mutes left behind: when the operator turns Repeat off and then
the slot, no visit of the timer gives its mutes back at the end of the stretch, for only
enabled slots are visited (70855-70882), though the comment at 70874-70876 says that they
last until playback leaves the stretch (`Stranded`, excepted likewise). A part armed to the start of
an earlier stretch overwrites the mark of the one let go of. A pause with a queued
song is taken for a stop (71413) and does drop the Multiloop, though the comment at 71001 says
that a pause restores nothing. A pause begun before the timer saw the last one end
counts as part of that one (70997-71032), so what was played in between is taken for a
jump and the mark is dropped. A seek past the end of a stretch leaves Repeat on. A fade-out over
tracks an Auto Fader holds is not in the run's layout: it reads the reduced
volume (76419) and gives that back after the Stop.

Left out: persistence and parsing of the slots, the focus, the commands that
change fade times and tracks, the bypass warning of the Director, several songs and
project tabs, closing the project during a fade.

## Proofs: Stage_proofs

Proved for all stretches (they may overlap where nothing else is said), tracks, limits,
durations, marker sets and numbers of commands:

- `TypeCorrect`: `Spec => []StageTypeOK`
- `NeverLouderHolds`: `Spec => []NeverLouder`
- `MixKeptHolds`: `Spec => []MixKept`, if `FadersApart` and `LeadsApart`
- `LetOutHolds`: `Spec => []LetOut`, if `StretchesApart` and `MaxLag <= ResumeTol`
- `FadeOutStopsHolds`: `Spec => FadeOutStops`, an action property
- `PauseFreezesHolds`: `Spec => PauseFreezes`, an action property

Argument. `NeverLouder` alone is not inductive: a track is as loud as what is given
back to it. `Sound(s, m)` adds that every row held, not the newest alone, has its target
below its volume and its volume below the operator's (`RowsBelow`), the same of the
volumes a fade-out remembers (`FadeBelow`), and that a fade that runs has a span
(`HasSpan`), without which a level would be a division by nothing. Each routine of
`MultiLoops` and `StopFade` takes a sound record to a sound one; `LevelType` and
`PartBound` are the arithmetic of a level between its two ends. The timer and the
commands compose the routines, and `MixKeeps` is why the operator may set volumes under
it: only of tracks that nobody holds.

For the action properties `Calm(s, t)` says that a routine leaves playback and the
fade-out alone. Every routine of the Multiloops and the engine does, so what
`UpdateFade` did at the start of a call of the timer, to stop or to find playback
stopped, still holds at its end. `Frozen(s, t)` is what a pause must leave alone.

`LetOut`. `LetGoInv` says that as long as the ghost `letGo` names a stretch, playback is
out of it in the sense of `IsOut`: still inside, nothing repeats, no part is armed, and either bypass is on
or the stretch is the active or the released one, which the code does not capture again; and that a pause
under way halted where it was seen. Stretches that overlap could hand
playback to one another, hence `StretchesApart`. The timer must be able to tell the end of a
pause from a jump: what is played between two of its calls is at most the 150 ms the code
tolerates (`MaxLag <= ResumeTol`); a call comes about every 30 ms.

`MixKept`. The invariant `Kept` adds to `Sound` that every track has at most one row, which
holds the operator's volume, that a track nobody holds sounds as he set it, and the same of the
fade-out and of mutes (`Held`); that what is held belongs to a stretch or to an Auto Fader on its
way (`Owned`); and that no Auto Fader goes down over mutes (`Unmixed`). The last breaks within a
call of the timer and is whole again at its end: a pre-fade may be
begun on the visit of one slot while mutes wait for the visit of a later one. `Visiting` is the
invariant between two visits; it says to which slot such mutes are owed (`Owed`), and that a
stretch let go of whose turn is over is the one playback is in (`Turn`). Both hypotheses are needed,
and TLC has a counterexample without either. `FadersApart`: with an Auto Fader on a track of
the fade-out, a Stop reads the reduced volume (76419). `LeadsApart`: with a lead that
begins before another stretch ends, a seek out of a stretch let go of lands in a lead while
that stretch is still held.

Only model-checked: the liveness properties `FadeEnds` and `MixReturns`. That `FadersApart` and
`LeadsApart` hold is the operator's choice, the code does not check it.

## Mtc, Mtc_proofs

`Mtc` translates `native_mtc_timecode.h`: `RateCode` is `nativeMtcFrameRate`, `FrameAt`,
`Renumbered` and `Fields` are the steps of `nativeMtcTimeFields`, `QuarterFrameData` is
`nativeMtcQuarterFrameData`, `FullFrame` the four data bytes of
`nativeSendMtcFullFrameLocateOnMainThread`, and `Batch` the quarter frames of one call of
`nativeMtcBridgeTickOnMainThread`. `Count`, `Labels`, `Joined` and `Located` are the
reference: SMPTE labels with their frame count, and what a slave reads back. Rates are
ten-thousandths, positions millionths of a frame; the rounding of binary floating point
is left out, except that the last position of a day may round to a whole day. There is no
state, so there is no run: what is proved holds for every frame of the day and every
rate code.

- `FrameInDay`, `FrameNearPosition`: a position gives a frame of the day; playback is
  never more than a millionth of a frame ahead of it and less than a frame behind, a locate at most half a frame away,
  midnight excepted, where both wrap to the first frame.
- `LabelCountsFrames`, `LabelsDistinct`, `EveryLabelReached`: frames and labels
  correspond one to one. No frame gets a label SMPTE time skips, none is skipped that
  SMPTE has, and the label counts the frames since midnight.
- `DropFrameFollowsClock`: a drop-frame label is at most 1799 thirty-thousandths of a
  second behind and 4390 ahead of real time, over the whole day. `DropFrameOnlyOnRequest`: drop frame is
  never forced on a project.
- `QuarterFramesCarryLabel`, `FullFrameCarriesLabel`: a slave reads the label that was
  sent.
- `SplitQuarterFramesJump`: what it reads when the eight quarter frames come from two
  timer calls. The bridge takes the label anew at each call but goes on with its index;
  around a change of minute the slave reads a label one minute ahead. The test of the
  header (`src/tests/native_mtc_timecode_test.cpp`) joins eight quarter frames of one
  label only.

Argument. `DropForm` gives drop-frame counting in closed form: the tens of minutes `q` and
the minutes `k` of the current ten that a frame has behind it. `DropMinutes` shows that
the label arrived at has exactly these minutes, `DropConverse` the way back, and
`NumberUnique` that a label is determined by its number.

## Plan

Written: `SongLayout`, `PlaybackAutomation`, `Sublists`, `CommandLanes`, `CommandQueue`,
`BridgeServer`, `LanOutbox`, `LiveSync`, `Mirror`, `MultiLoops`, `StopFade`, `Stage`,
`Mtc`, `Induction`, their runs and proofs. Not yet
modelled, in this order:

1. `ProjectSync`: bundle worker beside the main thread, handover of roles.
2. The MTC bridge and the stopped locate, around `Mtc`: when a label is sent.
3. `Timer`, `Premix`, `Playlists`, `UiDamage`.

Theorems worth proving next: `FreshPlayGoesOn` with the clause about old positions
inside the song; that the abstract transport of `Stage` (playing, paused, stopped) is that of
`PlaybackAutomation`.

Out of the prover's reach, and left to TLC: liveness under fairness (`Served`,
`ServesLanes`, `StopReturns`, `ComesBack`, `Converges`, `PartsEnd`, `FadeEnds`,
`MixReturns`), statements with `ENABLED`, and RECURSIVE operators. Induction over data,
which the library's theorems offer only with an operator as parameter, is
derived in `Induction` for sets.

## Running

    tlc -config playback_queue.cfg MCPlayback
    tlc -config queue_lanes.cfg MCQueue
    tlc -config bridge_stop.cfg MCBridge
    tlc -config live_sync.cfg MCLiveSync
    tlc -config stage.cfg MCStage
    tlapm PlaybackAutomation_proofs.tla
    tlapm PlaybackCycle_proofs.tla
    tlapm Induction.tla
    tlapm CommandQueue_proofs.tla
    tlapm BridgeServer_proofs.tla
    tlapm LiveSync_proofs.tla
    tlapm Stage_proofs.tla
    tlapm Mtc_proofs.tla
