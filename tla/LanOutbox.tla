----------------------------- MODULE LanOutbox -----------------------------
(***************************************************************************)
(* The outbox through which the first computer of a Project Sync (PC A)    *)
(* tells the second (PC B) what changed, and the relay that carries it.    *)
(*                                                                         *)
(* A change of an item or a track is recorded as a numbered event. A new   *)
(* event takes the place of older ones about the same thing, so an event   *)
(* may overtake one it was sent after. The relay, a program outside the    *)
(* repository, reads what is newer than it has acknowledged and hands it   *)
(* over in order. A batch that does not arrive in time is handed over      *)
(* again, and may then still arrive itself.                                *)
(***************************************************************************)
EXTENDS Naturals, FiniteSets

CONSTANTS
    Items,      \* media items, by their GUID
    Tracks,     \* tracks, by their GUID
    Rank,       \* the order in which one poll reports the things of a kind
    None,       \* no item, no track
    MaxFaults   \* bound: delayed batches and broken pairings

Things == Items \cup Tracks

ASSUME OutboxAssumption ==
    /\ IsFiniteSet(Items) /\ IsFiniteSet(Tracks) /\ Items \cap Tracks = {}
    /\ None \notin Things
    /\ Rank \in [Things \cup {None} -> Nat]
    /\ MaxFaults \in Nat

VARIABLES
    outbox,     \* g_nativeTimecodeLanOutbox, a set: the numbers give the order
    seq,        \* g_nativeTimecodeLanEventSequence; stands for the live
                \* revision of the event too, which grows in the same order
    after,      \* the last event the relay has acknowledged
    toB,        \* what the relay has read and PC B has not yet applied
    late,       \* what arrives late, in order but at any time
    faults      \* delayed batches and broken pairings so far

relayVars == <<after, toB, late, faults>>
outboxVars == <<outbox, seq, relayVars>>

Kinds == {"itemDelete", "trackDelete", "trackUpsert", "itemState", "resync"}

\* The kinds in the order in which a poll reports them.
KindRank ==
    [itemDelete |-> 1, trackDelete |-> 2, trackUpsert |-> 3, itemState |-> 4, resync |-> 5]

-----------------------------------------------------------------------------
\* Recording

\* Mutant: one item's state takes the place of any other's.
SupersedesAny(new, old) ==
    \/ new.kind = "itemState" /\ old.kind = "itemState"
    \/ new.kind # "itemState" /\ new.id = old.id /\ new.kind = old.kind

\* Does a new event take an older one about the same thing out of the outbox?
Supersedes(new, old) ==
    /\ new.id = old.id
    /\ CASE new.kind = "itemState"  -> old.kind = "itemState"
         [] new.kind = "itemDelete" -> old.kind \in {"itemState", "itemDelete"}
         [] new.kind = "resync"     -> old.kind = "resync"
         [] OTHER                   -> old.kind \in {"trackUpsert", "trackDelete"}

Before(m, n) ==
    \/ KindRank[m.kind] < KindRank[n.kind]
    \/ KindRank[m.kind] = KindRank[n.kind] /\ Rank[m.id] < Rank[n.id]

\* The number of message m among those one poll records.
Number(m, messages) == seq + 1 + Cardinality({n \in messages : Before(n, m)})

Numbered(messages) ==
    {[seq |-> Number(m, messages), kind |-> m.kind, id |-> m.id,
      item |-> m.item, plan |-> m.plan] : m \in messages}

\* Mutant: the events of one poll count once.
RecordOnce(messages) ==
    /\ outbox' = {e \in outbox : \A m \in messages : ~Supersedes(m, e)}
                 \cup Numbered(messages)
    /\ seq' = seq + 1
    /\ UNCHANGED relayVars

\* The events of one poll, at most one about each thing.
Record(messages) ==
    /\ outbox' = {e \in outbox : \A m \in messages : ~Supersedes(m, e)}
                 \cup Numbered(messages)
    /\ seq' = seq + Cardinality(messages)
    /\ UNCHANGED relayVars

-----------------------------------------------------------------------------
\* The relay

Unread == {e \in outbox : e.seq > after}

\* The relay hands all it has not acknowledged to PC B.
Fetch ==
    /\ toB = {} /\ Unread # {}
    /\ \/ toB' = Unread /\ after' = seq /\ UNCHANGED <<late, faults>>
       \/ /\ faults < MaxFaults /\ faults' = faults + 1
          /\ late' = late \cup Unread /\ UNCHANGED <<toB, after>>
    /\ UNCHANGED <<outbox, seq>>

First(e, batch) == e \in batch /\ \A d \in batch : e.seq <= d.seq

\* PC B is given event e, the next of a batch.
Receive(e) ==
    /\ \/ First(e, toB) /\ toB' = toB \ {e} /\ UNCHANGED late
       \/ First(e, late) /\ late' = late \ {e} /\ UNCHANGED toB
    /\ UNCHANGED <<outbox, seq, after, faults>>

OutboxInit ==
    /\ outbox = {} /\ toB = {} /\ late = {}
    /\ seq = 0 /\ after = 0 /\ faults = 0
=============================================================================
