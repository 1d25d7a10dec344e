------------------------- MODULE BridgeServer_proofs -------------------------
(* The safety of the bridge, for every queue limit and every set of          *)
(* commands: which thread may touch what follows from where the two threads  *)
(* are, so the inductive invariant is a table of their control states.       *)
EXTENDS BridgeServer, CommandQueue_proofs

\* The main thread's side: where it is tells what the flag, the server thread
\* and the queue may be.
ThreadTable ==
  /\ FlagHasThread
  /\ main = "create" => srv = "none"
  /\ main \in {"shutdown", "join"} => ~running
  /\ main \in {"clear", "unloaded"} => ~running /\ srv = "none"
  /\ bypass => main \notin {"start", "start_join", "create"}
  /\ bypass /\ main \in {"stop_flag", "shutdown", "join"} => next # "idle"
  /\ bypass /\ main = "idle" => ~running /\ srv = "none" /\ queue = <<>>
  /\ pending # <<>> => main = "idle" /\ ~bypass

\* The server thread's side: the stretch of its code in which each socket is
\* open, and the shorter one inside it in which the socket is published.
ClientPublished == {"read", "recv", "handle", "send", "sending", "unpublish_client"}
ClientOpen == ClientPublished \cup {"publish_client", "close_client"}
ListenerPublished == {"loop", "wait", "polled", "accept", "leave"} \cup ClientOpen
ListenerOpen == ListenerPublished \cup {"publish", "close"}

SocketTable ==
  /\ clientPub => srv \in ClientPublished
  /\ srv \in ClientOpen => client # "closed"
  /\ listenerPub => srv \in ListenerPublished
  /\ srv \in ListenerOpen => listener # "closed"

IInv == TypeOK /\ ThreadTable /\ SocketTable
-----------------------------------------------------------------------------
\* The tables hold at first,
LEMMA InitHolds == Init => IInv
<1> SUFFICES ASSUME Init PROVE IInv
  OBVIOUS
<1> USE DEF Init, QueueInit
<1>1. TypeOK
  BY DEF TypeOK, MainStates, ServerStates
<1>2. ThreadTable
  BY DEF ThreadTable, FlagHasThread
<1>3. SocketTable
  BY DEF SocketTable, ClientPublished, ClientOpen, ListenerPublished, ListenerOpen
<1> QED
  BY <1>1, <1>2, <1>3 DEF IInv

\* Every step of the main thread, the user's and the timer's included.
LEMMA MainKeeps == IInv /\ (MainStep \/ UserStep \/ TimerRestart) => IInv'
<1> SUFFICES ASSUME IInv, MainStep \/ UserStep \/ TimerRestart PROVE IInv'
  OBVIOUS
<1> USE DEF IInv, TypeOK, MainStates, ServerStates, ThreadTable, FlagHasThread,
            SocketTable, ClientPublished, ClientOpen, ListenerPublished, ListenerOpen,
            threadVars, socketVars, callVars, queueVars
<1>1. CASE StopFlag
  BY <1>1 DEF StopFlag
<1>2. CASE ShutdownSockets
  BY <1>2 DEF ShutdownSockets, Shut
<1>3. CASE Join
  BY <1>3 DEF Join, Joined
<1>4. CASE BypassClear
  BY <1>4 DEF BypassClear, Clear
<1>5. CASE \E canHost \in BOOLEAN : Start(canHost)
  BY <1>5 DEF Start
<1>6. CASE StartJoin
  BY <1>6 DEF StartJoin, Joined
<1>7. CASE \E ok \in BOOLEAN : Create(ok)
  BY <1>7 DEF Create
<1>8. CASE TimerTake
  BY <1>8 DEF TimerTake, TakePending
<1>9. CASE TimerApply
  BY <1>9 DEF TimerApply, ApplyNext
<1>10. CASE BypassOn
  BY <1>10 DEF BypassOn, Between
<1>11. CASE BypassOff
  BY <1>11 DEF BypassOff, Between
<1>12. CASE Unload
  BY <1>12 DEF Unload, Between
<1>13. CASE TimerRestart
  BY <1>13 DEF TimerRestart, Between
<1> QED
  BY <1>1, <1>2, <1>3, <1>4, <1>5, <1>6, <1>7, <1>8, <1>9, <1>10, <1>11, <1>12, <1>13
  DEF MainStep, UserStep

\* Every step of the server thread, whoever brings it about.
LEMMA ServerKeeps == IInv /\ (ServerStep \/ ClientStep) => IInv'
<1> SUFFICES ASSUME IInv, ServerStep \/ ClientStep PROVE IInv'
  OBVIOUS
<1> USE DEF IInv, TypeOK, MainStates, ServerStates, ThreadTable, FlagHasThread,
            SocketTable, ClientPublished, ClientOpen, ListenerPublished, ListenerOpen,
            threadVars, socketVars, callVars, queueVars, At
<1>1. CASE \E ok \in BOOLEAN : Open(ok)
  BY <1>1 DEF Open
<1>2. CASE \E ok \in BOOLEAN : Accept(ok)
  BY <1>2 DEF Accept
<1>3. CASE PublishListener
  BY <1>3 DEF PublishListener
<1>4. CASE Loop
  BY <1>4 DEF Loop
<1>5. CASE AfterWait
  BY <1>5 DEF AfterWait
<1>6. CASE \E result \in {"ready", "timeout", "error"} : Wait(result)
  BY <1>6 DEF Wait
<1>7. CASE \E cs \in Envelopes : PublishClient(cs)
  BY <1>7 DEF PublishClient
<1>8. CASE ReadCheck
  BY <1>8 DEF ReadCheck
<1>9. CASE ReceiveShut
  BY <1>9 DEF ReceiveShut
<1>10. CASE Handle
  BY <1>10 DEF Handle, PostBatch
<1>11. CASE SendCheck
  BY <1>11 DEF SendCheck
<1>12. CASE SendShut
  BY <1>12 DEF SendShut
<1>13. CASE UnpublishClient
  BY <1>13 DEF UnpublishClient
<1>14. CASE CloseClient
  BY <1>14 DEF CloseClient
<1>15. CASE UnpublishListener
  BY <1>15 DEF UnpublishListener
<1>16. CASE CloseListener
  BY <1>16 DEF CloseListener
<1>17. CASE End
  BY <1>17 DEF End
<1>18. CASE \E n \in 0 .. MaxBatch, cut \in BOOLEAN : Receive(n, cut)
  BY <1>18 DEF Receive
<1>19. CASE ReceiveEnds
  BY <1>19 DEF ReceiveEnds
<1>20. CASE \E more \in BOOLEAN : SendEnds(more)
  BY <1>20 DEF SendEnds
<1> QED
  BY <1>1, <1>2, <1>3, <1>4, <1>5, <1>6, <1>7, <1>8, <1>9, <1>10, <1>11, <1>12, <1>13,
     <1>14, <1>15, <1>16, <1>17, <1>18, <1>19, <1>20
  DEF ServerStep, ClientStep

\* and after every step of either thread,
LEMMA StepKeeps == IInv /\ [Next]_vars => IInv'
<1> SUFFICES ASSUME IInv, [Next]_vars PROVE IInv'
  OBVIOUS
<1>1. CASE Next
  BY <1>1, MainKeeps, ServerKeeps DEF Next
<1>2. CASE UNCHANGED vars
  BY <1>2 DEF vars, IInv, TypeOK, ThreadTable, FlagHasThread, SocketTable,
              threadVars, socketVars, callVars, queueVars
<1> QED
  BY <1>1, <1>2

\* hence always.
LEMMA Inductive == Spec => []IInv
  BY InitHolds, StepKeeps, PTL DEF Spec
-----------------------------------------------------------------------------
\* Type correctness of the state the two threads share.
THEOREM TypeCorrect == Spec => []TypeOK
<1>1. IInv => TypeOK
  BY DEF IInv
<1> QED
  BY <1>1, Inductive, PTL

\* g_nativeRunning never outlives its thread, so the timer's restart is never
\* held back by a stale flag.
THEOREM FlagHolds == Spec => []FlagHasThread
<1>1. IInv => FlagHasThread
  BY DEF IInv, ThreadTable
<1> QED
  BY <1>1, Inductive, PTL

\* In bypass no thread is left and no command waits, whatever was being posted
\* when it was entered.
THEOREM BypassHolds == Spec => []BypassQuiet
<1>1. IInv => BypassQuiet
  <2> SUFFICES ASSUME IInv, bypass, main = "idle"
               PROVE  ~running /\ srv = "none" /\ Waiting = {}
    BY DEF BypassQuiet
  <2>1. ~running /\ srv = "none" /\ queue = <<>> /\ pending = <<>>
    BY DEF IInv, ThreadTable
  <2>2. Waiting = {}
    BY <2>1 DEF Waiting, ToSet
  <2> QED
    BY <2>1, <2>2
<1> QED
  BY <1>1, Inductive, PTL

\* stopNativeBridgeServer shuts down only sockets that are still open.
THEOREM PublishedHolds == Spec => []PublishedOpen
<1>1. IInv => PublishedOpen
  BY DEF IInv, SocketTable, PublishedOpen, ClientPublished, ClientOpen,
         ListenerPublished, ListenerOpen
<1> QED
  BY <1>1, Inductive, PTL
-----------------------------------------------------------------------------
(***************************************************************************)
(* The queue between the two threads: what is proved of it alone holds of  *)
(* it here, where calls come from a client that may be cut off.            *)
(***************************************************************************)
\* The envelope under way is one the queue may be asked to take, as far as it
\* has arrived.
CallSound ==
  /\ call \in Seq(Commands) /\ Len(call) <= MaxBatch /\ IsInjective(call)
  /\ got \in 0 .. Len(call)

\* What has arrived of it is one, too.
LEMMA PartOfCall ==
  ASSUME NEW c, c \in Seq(Commands), Len(c) <= MaxBatch, IsInjective(c),
         NEW n \in 1 .. Len(c)
  PROVE  /\ SubSeq(c, 1, n) \in Seq(Commands) /\ SubSeq(c, 1, n) # <<>>
         /\ Len(SubSeq(c, 1, n)) <= MaxBatch /\ IsInjective(SubSeq(c, 1, n))
<1>. DEFINE p == SubSeq(c, 1, n)
<1>1. MaxBatch \in Nat /\ Len(c) \in Nat
  BY QueueAssumption
<1>2. p \in Seq(Commands) /\ Len(p) = n /\ \A i \in 1 .. n : p[i] = c[i]
  BY <1>1
<1>3. DOMAIN p = 1 .. n /\ DOMAIN c = 1 .. Len(c)
  BY <1>2
<1>4. IsInjective(p)
  BY <1>1, <1>2, <1>3 DEF IsInjective
<1>. HIDE DEF p
<1>5. p # <<>> /\ Len(p) <= MaxBatch
  BY <1>1, <1>2
<1>. QED BY <1>2, <1>4, <1>5 DEF p

\* Only a client that was just accepted brings an envelope; then it grows.
LEMMA CallKept == CallSound /\ [Next]_vars => CallSound'
<1>. SUFFICES ASSUME CallSound, [Next]_vars PROVE CallSound'
  OBVIOUS
<1>1. <<>> \in Seq(Commands) /\ Len(<<>>) = 0 /\ IsInjective(<<>>) /\ MaxBatch \in Nat
  BY QueueAssumption DEF IsInjective
<1>2. CASE UNCHANGED callVars
  BY <1>2 DEF CallSound, callVars
<1>3. CASE call' = <<>> /\ got' = 0
  BY <1>1, <1>3 DEF CallSound
<1>4. ASSUME NEW cs \in Envelopes, PublishClient(cs) PROVE CallSound'
  <2>1. cs \in Seq(Commands) /\ Len(cs) <= MaxBatch /\ IsInjective(cs)
    BY <1>1, SeqOfIs DEF Envelopes
  <2>2. call' = cs /\ got' = 0
    BY <1>4 DEF PublishClient
  <2>. QED BY <2>1, <2>2 DEF CallSound
<1>5. ASSUME NEW n \in 0 .. MaxBatch, NEW cut \in BOOLEAN, Receive(n, cut) PROVE CallSound'
  <2>1. call' = call /\ got' = got + n /\ got + n <= Len(call)
    BY <1>5 DEF Receive
  <2>. QED BY <1>1, <2>1 DEF CallSound
<1>6. MainStep \/ UserStep \/ TimerRestart \/ UNCHANGED vars => UNCHANGED callVars
  BY DEF MainStep, UserStep, vars, StopFlag, ShutdownSockets, Join, BypassClear, Start,
         StartJoin, Create, TimerTake, TimerApply, BypassOn, BypassOff, Unload, TimerRestart
<1>7. ServerStep =>
        \/ UNCHANGED callVars
        \/ call' = <<>> /\ got' = 0
        \/ \E cs \in Envelopes : PublishClient(cs)
  BY DEF ServerStep, callVars, Open, Accept, PublishListener, Loop, AfterWait, Wait,
         ReadCheck, ReceiveShut, Handle, SendCheck, SendShut, UnpublishClient,
         CloseClient, UnpublishListener, CloseListener, End
<1>8. ClientStep =>
        \/ UNCHANGED callVars
        \/ call' = <<>> /\ got' = 0
        \/ \E n \in 0 .. MaxBatch, cut \in BOOLEAN : Receive(n, cut)
  BY DEF ClientStep, callVars, ReceiveEnds, SendEnds
<1>. QED BY <1>2, <1>3, <1>4, <1>5, <1>6, <1>7, <1>8 DEF Next

\* What has arrived of the envelope.
Arrived == SubSeq(call, 1, got)

\* To the queue every step is one of its own, or a batch of what arrived.
LEMMA StepOfQueue ==
  [Next]_vars => [QueueNext]_queueVars \/ (got > 0 /\ PostBatch(Arrived))
<1>. SUFFICES ASSUME [Next]_vars
              PROVE  [QueueNext]_queueVars \/ (got > 0 /\ PostBatch(Arrived))
  OBVIOUS
<1>1. TimerTake => TakePending
  BY DEF TimerTake
<1>2. TimerApply => ApplyNext
  BY DEF TimerApply
<1>3. BypassClear => Clear
  BY DEF BypassClear
<1>4. Handle => UNCHANGED queueVars \/ (got > 0 /\ PostBatch(Arrived))
  BY DEF Handle, Arrived
<1>5. TimerTake \/ TimerApply \/ BypassClear \/ Handle \/ UNCHANGED queueVars
  BY DEF Next, MainStep, UserStep, ServerStep, ClientStep, vars,
         StopFlag, ShutdownSockets, Join, Start, StartJoin, Create,
         BypassOn, BypassOff, Unload, TimerRestart,
         Open, Accept, PublishListener, Loop, AfterWait, Wait, ReadCheck, ReceiveShut,
         PublishClient, SendCheck, SendShut, UnpublishClient, CloseClient,
         UnpublishListener, CloseListener, End, Receive, ReceiveEnds, SendEnds
<1>. QED BY <1>1, <1>2, <1>3, <1>4, <1>5 DEF QueueNext

\* The queue's own invariant is kept, and its steps are those of the lanes.
LEMMA BridgeStep ==
  CallSound /\ QueueTypeOK /\ [Next]_vars => QueueTypeOK' /\ [Lanes!Next]_(Lanes!lanes)
<1>. SUFFICES ASSUME CallSound, QueueTypeOK, [Next]_vars
              PROVE  QueueTypeOK' /\ [Lanes!Next]_(Lanes!lanes)
  OBVIOUS
<1>1. CASE [QueueNext]_queueVars
  BY <1>1, QueueStepTyped, QueueStepLanes
<1>2. CASE got > 0 /\ PostBatch(Arrived)
  <2>1. got \in 1 .. Len(call)
    BY <1>2 DEF CallSound
  <2>2. /\ Arrived \in Seq(Commands) /\ Arrived # <<>>
        /\ Len(Arrived) <= MaxBatch /\ IsInjective(Arrived)
    BY <2>1, PartOfCall DEF CallSound, Arrived
  <2>3. Sorted(pending, queue, answer)
    BY TypeInParts, Zenon DEF QueueTypeOK
  <2>4. Sorted(pending', queue', answer')
    BY <1>2, <2>2, <2>3, BatchTyped
  <2>5. QueueTypeOK'
    BY <2>4, TypeInParts, Zenon DEF QueueTypeOK
  <2>6. [Lanes!Next]_(Lanes!lanes)
    BY <1>2, <2>2, <2>3, BatchLanes
  <2>. QED BY <2>5, <2>6
<1>. QED BY <1>1, <1>2, StepOfQueue

\* The queue is empty at first, and so is the envelope.
LEMMA QuietAtFirst == Init => CallSound /\ QueueTypeOK /\ Lanes!Init
<1>1. <<>> \in Seq(Commands) /\ Len(<<>>) = 0 /\ IsInjective(<<>>) /\ MaxBatch \in Nat
  BY QueueAssumption DEF IsInjective
<1>2. Init => CallSound
  BY <1>1 DEF Init, CallSound
<1>. QED BY <1>2, QuietQueue, EmptyLanes DEF Init

\* Between the two threads, too, the queue never outgrows its limit, a tick never
\* takes more than its share, and no command waits twice, whatever part of an
\* envelope is posted when its client is cut off.
THEOREM BridgeQueueBounded == Spec => []QueueTypeOK
<1>. QED BY QuietAtFirst, CallKept, BridgeStep, PTL DEF Spec

\* And the lanes are kept: a command posted through the bridge is lost or
\* overtaken only as CommandLanes allows, through stops, restarts and bypass.
THEOREM BridgeKeepsLanes == Spec => KeepsLanes
<1>. QED BY QuietAtFirst, CallKept, BridgeStep, PTL DEF Spec, KeepsLanes, Lanes!Order
=============================================================================
