---------------------------- MODULE CommandQueue ----------------------------
(* The queue between the bridge's server thread, which posts the commands of *)
(* the apps, and REAPER's main thread, which alone may apply them            *)
(* (nativeQueueHttpCommandLocked .. nativeProcessHttpCommandsOnMainThread).  *)
(* A command stands for its JSON text; only its type matters to the queue.   *)
EXTENDS Sublists

CONSTANTS Pulses, Selections, Others,   \* the commands, by type (see CommandLanes)
          Limit,                        \* kNativeHttpCommandQueueLimit (4096)
          DrainMax,                     \* commands taken by one timer tick (128)
          MaxBatch                      \* bound: commands of one inbox envelope (512)

ASSUME QueueAssumption ==
  /\ Limit \in Nat \ {0}
  /\ DrainMax \in Nat /\ DrainMax >= 2
  /\ MaxBatch \in Nat \ {0}
  /\ Pulses \cap Selections = {} /\ Others \cap (Pulses \cup Selections) = {}

VARIABLES queue,    \* g_nativeHttpCommandQueue, under g_nativeMutex
          pending,  \* the local deque of nativeProcessHttpCommandsOnMainThread
          answer    \* what the last post was told: none, queued or busy
queueVars == <<queue, pending, answer>>

Commands == Pulses \cup Selections \cup Others
Waiting == ToSet(pending \o queue)

\* What c leaves of a queue q: older pulses, or older selections, are erased.
Kept(q, c) ==
  LET older == IF c \in Pulses THEN Pulses
               ELSE IF c \in Selections THEN Selections ELSE {}
  IN Only(q, Commands \ older)

\* Mutants: one command too many; pulses put in front of what waits, too.
QueueOneMore(q, c) ==
  LET kept == Kept(q, c)
  IN IF Len(kept) > Limit THEN [ok |-> FALSE, q |-> kept]
     ELSE [ok |-> TRUE,
           q |-> IF c \in Selections THEN <<c>> \o kept ELSE Append(kept, c)]
QueuePulsesFirst(q, c) ==
  LET kept == Kept(q, c)
  IN IF Len(kept) >= Limit THEN [ok |-> FALSE, q |-> kept]
     ELSE [ok |-> TRUE,
           q |-> IF c \in Others THEN Append(kept, c) ELSE <<c>> \o kept]

\* nativeQueueHttpCommandLocked on a queue q: the limit is looked at after the
\* erasures; a selection goes to the front.
QueueLocked(q, c) ==
  LET kept == Kept(q, c)
  IN IF Len(kept) >= Limit THEN [ok |-> FALSE, q |-> kept]
     ELSE [ok |-> TRUE,
           q |-> IF c \in Selections THEN <<c>> \o kept ELSE Append(kept, c)]

\* The copy of the queue a batch is staged in; nothing is tried after a refusal.
Staged(cs) ==
  LET staged[i \in 0 .. Len(cs)] ==
        IF i = 0 THEN [ok |-> TRUE, q |-> queue]
        ELSE IF staged[i - 1].ok THEN QueueLocked(staged[i - 1].q, cs[i]) ELSE staged[i - 1]
  IN staged[Len(cs)]

Answered(ok) == answer' = IF ok THEN "queued" ELSE "busy"

QueueInit == queue = <<>> /\ pending = <<>> /\ answer = "none"

\* POST /command.  Bound: a command is one waiting at most once.
Post(c) ==
  LET r == QueueLocked(queue, c)
  IN /\ c \notin Waiting
     /\ queue' = r.q
     /\ Answered(r.ok)
     /\ UNCHANGED pending

\* Mutant: the batch is written to the queue as far as it goes.
PostInPlace(cs) ==
  LET r == Staged(cs)
  IN /\ ToSet(cs) \cap Waiting = {}
     /\ queue' = r.q
     /\ Answered(r.ok)
     /\ UNCHANGED pending

\* POST /timecode/inbox and /timecode-parallel/inbox: all of it or nothing.
PostBatch(cs) ==
  LET r == Staged(cs)
  IN /\ ToSet(cs) \cap Waiting = {}
     /\ queue' = IF r.ok THEN r.q ELSE queue
     /\ Answered(r.ok)
     /\ UNCHANGED pending

\* Mutant: a tick takes one command.
TakeOne ==
  /\ pending = <<>> /\ queue # <<>>
  /\ pending' = <<queue[1]>> /\ queue' = Tail(queue)
  /\ UNCHANGED answer
\* The timer tick moves the head of the queue to a local deque, under the lock...
TakePending ==
  LET count == IF Len(queue) < DrainMax THEN Len(queue) ELSE DrainMax
  IN /\ pending = <<>> /\ queue # <<>>
     /\ pending' = SubSeq(queue, 1, count)
     /\ queue' = SubSeq(queue, count + 1, Len(queue))
     /\ UNCHANGED answer

\* ... and applies it one command at a time without the lock: posts come in between.
ApplyNext ==
  /\ pending # <<>>
  /\ pending' = Tail(pending)
  /\ UNCHANGED <<queue, answer>>

\* nativeSetExtensionBypass(true) runs between ticks.
Clear ==
  /\ pending = <<>>
  /\ queue' = <<>>
  /\ UNCHANGED <<pending, answer>>

Batches == {cs \in SeqOf(Commands, MaxBatch) : Len(cs) > 1 /\ IsInjective(cs)}

QueueNext ==
  \/ \E c \in Commands : Post(c)
  \/ \E cs \in Batches : PostBatch(cs)
  \/ TakePending
  \/ ApplyNext
  \/ Clear

\* The timer runs at every tick of REAPER, and finishes what it took.
QueueSpec == /\ QueueInit /\ [][QueueNext]_queueVars
             /\ WF_queueVars(TakePending) /\ WF_queueVars(ApplyNext)
-----------------------------------------------------------------------------
\* Types; the queue never outgrows its limit, and holds no command twice
\* (nativeQueueHttpCommandLocked).
QueueTypeOK ==
  /\ queue \in SeqOf(Commands, Limit) /\ pending \in SeqOf(Commands, DrainMax)
  /\ IsInjective(pending \o queue)
  /\ answer \in {"none", "queued", "busy"}

\* The two lanes of CommandLanes, as they lie in the deques.
Lanes == INSTANCE CommandLanes
  WITH picks <- Only(pending \o queue, Selections),
       rest <- Only(pending \o queue, Commands \ Selections)

\* Whatever the thread that posts and the thread that applies do in between,
\* nothing accepted is lost or overtaken inside its lane, the last selection
\* wins, and a refused call changes nothing.
KeepsLanes == Lanes!Order

\* And both lanes are served, whatever is put in front of the queue.
ServesLanes == Lanes!Service

\* No stream of pulses and selections keeps another command waiting for ever.
Served == \A c \in Others : c \in Waiting ~> c \notin Waiting
=============================================================================
