---------------------------- MODULE BridgeServer ----------------------------
(* The local HTTP bridge: its server thread (nativeBridgeServerThread), the  *)
(* main thread that starts it, stops it and drains the command queue         *)
(* (startNativeBridgeServer, stopNativeBridgeServer, nativeSetExtensionBypass*)
(* and startupTimer), and one client at a time posting envelopes of commands.*)
(* The two threads share g_nativeRunning, the two published sockets and the  *)
(* queue.  A client may stay silent for ever, send its envelope in pieces or *)
(* never read the answer.                                                    *)
EXTENDS CommandQueue

VARIABLES
  bypass,       \* g_nativeExtensionBypassActive
  running,      \* g_nativeRunning
  main,         \* where the main thread is; "idle" between two calls of REAPER
  next,         \* where it goes on once the server thread is joined
  srv,          \* where the server thread is; none: g_nativeThread not joinable
  polled,       \* what the last poll of the listening socket returned
  listener,     \* the listening socket: closed, open or shut (shutdown called)
  client,       \* the accepted socket
  listenerPub,  \* g_nativeServerSocket is valid
  clientPub,    \* g_nativeActiveClientSocket is valid
  call,         \* the envelope the client means to post, if any
  got,          \* how many of its lines have arrived whole
  torn          \* whether a piece of the next line has arrived too
threadVars == <<bypass, running, main, next, srv>>
socketVars == <<polled, listener, client, listenerPub, clientPub>>
callVars == <<call, got, torn>>
vars == <<threadVars, socketVars, callVars, queueVars>>

\* g_nativeThread.joinable() is srv # "none"; join() returns at once when "done".
Joined == srv \in {"none", "done"}
Between == main = "idle" /\ pending = <<>>

Init ==
  /\ bypass \in BOOLEAN            \* the bypass of the last session is restored
  /\ main = IF bypass THEN "idle" ELSE "start"
  /\ next = "idle"
  /\ running = FALSE /\ srv = "none" /\ polled = "timeout"
  /\ listener = "closed" /\ client = "closed"
  /\ listenerPub = FALSE /\ clientPub = FALSE
  /\ call = <<>> /\ got = 0 /\ torn = FALSE
  /\ QueueInit
-----------------------------------------------------------------------------
\* The main thread.

\* stopNativeBridgeServer, in three steps: the flag, the two sockets, the join.
StopFlag ==
  /\ main = "stop_flag"
  /\ running' = FALSE
  /\ main' = "shutdown"
  /\ UNCHANGED <<bypass, next, srv, socketVars, callVars, queueVars>>

Shut(published, socket) == IF published THEN "shut" ELSE socket

ShutdownSockets ==
  /\ main = "shutdown"
  /\ listener' = Shut(listenerPub, listener)
  /\ client' = Shut(clientPub, client)
  /\ main' = "join"
  /\ UNCHANGED <<bypass, running, next, srv, polled, listenerPub, clientPub,
                 callVars, queueVars>>

Join ==
  /\ main = "join" /\ Joined
  /\ srv' = "none"
  /\ main' = next
  /\ UNCHANGED <<bypass, running, next, socketVars, callVars, queueVars>>

\* The rest of nativeSetExtensionBypass(true): the queue is emptied last.
BypassClear ==
  /\ main = "clear"
  /\ Clear
  /\ main' = "idle"
  /\ UNCHANGED <<bypass, running, next, srv, socketVars, callVars>>

\* startNativeBridgeServer: its early returns, among them a REAPER window that
\* does not exist yet (nativeCanHostBridgeServer).
Start(canHost) ==
  /\ main = "start"
  /\ main' = IF bypass \/ running \/ ~canHost THEN "idle" ELSE "start_join"
  /\ UNCHANGED <<bypass, running, next, srv, socketVars, callVars, queueVars>>

\* An earlier thread is joined, and the flag raised before the thread exists.
StartJoin ==
  /\ main = "start_join" /\ Joined
  /\ srv' = "none"
  /\ running' = TRUE
  /\ main' = "create"
  /\ UNCHANGED <<bypass, next, socketVars, callVars, queueVars>>

Create(ok) ==
  /\ main = "create"
  /\ srv' = IF ok THEN "open" ELSE srv
  /\ running' = ok
  /\ main' = "idle"
  /\ UNCHANGED <<bypass, next, socketVars, callVars, queueVars>>

\* Mutant: the queue is emptied before the entries are cut off.
BypassClearFirst ==
  /\ Between /\ ~bypass
  /\ Clear
  /\ bypass' = TRUE
  /\ main' = "stop_flag" /\ next' = "idle"
  /\ UNCHANGED <<running, srv, socketVars, callVars>>

BypassOn ==
  /\ Between /\ ~bypass
  /\ bypass' = TRUE
  /\ main' = "stop_flag" /\ next' = "clear"
  /\ UNCHANGED <<running, srv, socketVars, callVars, queueVars>>

BypassOff ==
  /\ Between /\ bypass
  /\ bypass' = FALSE
  /\ main' = "start"
  /\ UNCHANGED <<running, next, srv, socketVars, callVars, queueVars>>

\* The extension's exit: the timer is gone, and the main thread never comes back.
Unload ==
  /\ Between
  /\ main' = "stop_flag" /\ next' = "unloaded"
  /\ UNCHANGED <<bypass, running, srv, socketVars, callVars, queueVars>>

\* startupTimer, every so many ticks: a bridge that is not running is started
\* again.  In bypass a running one would be stopped.
TimerRestart ==
  /\ Between /\ bypass = running
  /\ main' = IF bypass THEN "stop_flag" ELSE "start"
  /\ next' = "idle"
  /\ UNCHANGED <<bypass, running, srv, socketVars, callVars, queueVars>>

\* startupTimer takes commands from the queue and applies them.
TimerTake ==
  /\ main = "idle" /\ ~bypass
  /\ TakePending
  /\ UNCHANGED <<threadVars, socketVars, callVars>>

TimerApply ==
  /\ ApplyNext
  /\ UNCHANGED <<threadVars, socketVars, callVars>>
-----------------------------------------------------------------------------
\* The server thread.  At(here, there) is a step of its control alone.
At(here, there) ==
  /\ srv = here /\ srv' = there
  /\ UNCHANGED <<bypass, main, next>>

\* Mutant: an early return that leaves the flag up.
OpenKeepsFlag(ok) ==
  /\ At("open", IF ok THEN "publish" ELSE "done")
  /\ listener' = IF ok THEN "open" ELSE listener
  /\ UNCHANGED <<running, polled, client, listenerPub, clientPub, callVars, queueVars>>

\* socket, bind and listen: another instance may own the port.
Open(ok) ==
  /\ At("open", IF ok THEN "publish" ELSE "done")
  /\ listener' = IF ok THEN "open" ELSE listener
  /\ running' = (running /\ ok)
  /\ UNCHANGED <<polled, client, listenerPub, clientPub, callVars, queueVars>>

PublishListener ==
  /\ At("publish", "loop")
  /\ listenerPub' = TRUE
  /\ UNCHANGED <<running, polled, listener, client, clientPub, callVars, queueVars>>

Loop ==
  /\ At("loop", IF running THEN "wait" ELSE "leave")
  /\ UNCHANGED <<running, socketVars, callVars, queueVars>>

\* Mutant: POLLHUP is passed on as it is.
WaitRaw(result) ==
  /\ At("wait", "polled")
  /\ polled' = IF listener = "shut" THEN "hangup" ELSE result
  /\ UNCHANGED <<running, listener, client, listenerPub, clientPub, callVars, queueVars>>

\* nativeWaitForBridgeConnection: at most 200 ms.
Wait(result) ==
  /\ At("wait", "polled")
  /\ polled' = result
  /\ UNCHANGED <<running, listener, client, listenerPub, clientPub, callVars, queueVars>>

AfterWait ==
  /\ At("polled", IF ~running \/ polled = "error" THEN "leave"
                  ELSE IF polled = "timeout" THEN "loop" ELSE "accept")
  /\ UNCHANGED <<running, socketVars, callVars, queueVars>>

\* A connection to a socket that was shut down is not accepted.
Accept(ok) ==
  /\ ok => listener = "open"
  /\ At("accept", IF ok THEN "publish_client" ELSE "loop")
  /\ client' = IF ok THEN "open" ELSE client
  /\ UNCHANGED <<running, polled, listener, listenerPub, clientPub, callVars, queueVars>>

\* The client is published; what it is going to ask is its own choice.
PublishClient(cs) ==
  /\ At("publish_client", "read")
  /\ clientPub' = TRUE
  /\ call' = cs /\ got' = 0 /\ torn' = FALSE
  /\ UNCHANGED <<running, polled, listener, client, listenerPub, queueVars>>

\* Mutant: the flag is not looked at between accept and recv.
ReadUnchecked ==
  /\ At("read", "recv")
  /\ UNCHANGED <<running, socketVars, callVars, queueVars>>

\* nativeReadHttpRequest: the flag is looked at before each blocking recv.
ReadCheck ==
  /\ At("read", IF running THEN "recv" ELSE "handle")
  /\ UNCHANGED <<running, socketVars, callVars, queueVars>>

\* A piece arrives, up to the end of a line or into the next one.  The request
\* is whole when the last line is.
Receive(n, cut) ==
  /\ client = "open"
  /\ got + n <= Len(call) /\ (cut => got + n < Len(call))
  /\ n > 0 \/ (cut /\ ~torn) \/ call = <<>>
  /\ got' = got + n /\ torn' = cut
  /\ At("recv", IF got' = Len(call) THEN "handle" ELSE "read")
  /\ UNCHANGED <<running, socketVars, call, queueVars>>

\* recv fails: the socket was shut down,
ReceiveShut ==
  /\ client = "shut"
  /\ At("recv", "handle")
  /\ UNCHANGED <<running, socketVars, callVars, queueVars>>

\* or the client closed it or sent nothing for a second.
ReceiveEnds ==
  /\ client = "open"
  /\ At("recv", "handle")
  /\ UNCHANGED <<running, socketVars, callVars, queueVars>>

\* nativeHandleClient on what was read: no request at all, a request that posts
\* nothing (it reads state, or the receive mode is off), an envelope whose last
\* line does not end in a brace and is refused, or an envelope to post, as far
\* as it has arrived: lines that are missing are not missed, and the sender, left
\* without an answer, will send the envelope again.
Handle ==
  /\ \/ got = 0 /\ ~torn /\ At("handle", "unpublish_client") /\ UNCHANGED queueVars
     \/ At("handle", "send") /\ UNCHANGED queueVars
     \/ got > 0 /\ ~torn /\ At("handle", "send") /\ PostBatch(SubSeq(call, 1, got))
  /\ UNCHANGED <<running, socketVars, callVars>>

\* nativeSendAll: the flag is looked at before each blocking send.
SendCheck ==
  /\ At("send", IF running THEN "sending" ELSE "unpublish_client")
  /\ UNCHANGED <<running, socketVars, callVars, queueVars>>

SendShut ==
  /\ client = "shut"
  /\ At("sending", "unpublish_client")
  /\ UNCHANGED <<running, socketVars, callVars, queueVars>>

\* The client reads a part of the answer, or all of it; or it has gone away, or
\* the send times out.
SendEnds(more) ==
  /\ client = "open"
  /\ At("sending", IF more THEN "send" ELSE "unpublish_client")
  /\ UNCHANGED <<running, socketVars, callVars, queueVars>>

\* Mutant: the number of the client's socket stays published.
KeepClientPublished ==
  /\ At("unpublish_client", "close_client")
  /\ call' = <<>> /\ got' = 0 /\ torn' = FALSE
  /\ UNCHANGED <<running, polled, listener, client, listenerPub, clientPub, queueVars>>

UnpublishClient ==
  /\ At("unpublish_client", "close_client")
  /\ clientPub' = FALSE
  /\ call' = <<>> /\ got' = 0 /\ torn' = FALSE
  /\ UNCHANGED <<running, polled, listener, client, listenerPub, queueVars>>

CloseClient ==
  /\ At("close_client", "loop")
  /\ client' = "closed"
  /\ UNCHANGED <<running, polled, listener, listenerPub, clientPub, callVars, queueVars>>

UnpublishListener ==
  /\ At("leave", "close")
  /\ listenerPub' = FALSE
  /\ UNCHANGED <<running, polled, listener, client, clientPub, callVars, queueVars>>

CloseListener ==
  /\ At("close", "end")
  /\ listener' = "closed"
  /\ UNCHANGED <<running, polled, client, listenerPub, clientPub, callVars, queueVars>>

\* Mutant: the thread ends without lowering the flag.
EndKeepsFlag ==
  /\ At("end", "done")
  /\ UNCHANGED <<running, socketVars, callVars, queueVars>>

End ==
  /\ At("end", "done")
  /\ running' = FALSE
  /\ UNCHANGED <<socketVars, callVars, queueVars>>
-----------------------------------------------------------------------------
\* An envelope holds commands that are not waiting already; <<>> is a request
\* that posts nothing.
Envelopes == {cs \in SeqOf(Commands, MaxBatch) :
                IsInjective(cs) /\ ToSet(cs) \cap Waiting = {}}

\* What each thread does of its own accord.
MainStep ==
  \/ StopFlag \/ ShutdownSockets \/ Join \/ BypassClear
  \/ \E canHost \in BOOLEAN : Start(canHost)
  \/ StartJoin
  \/ \E ok \in BOOLEAN : Create(ok)
  \/ TimerTake \/ TimerApply

UserStep == BypassOn \/ BypassOff \/ Unload

ServerStep ==
  \/ \E ok \in BOOLEAN : Open(ok) \/ Accept(ok)
  \/ PublishListener \/ Loop \/ AfterWait
  \/ \E result \in {"ready", "timeout", "error"} : Wait(result)
  \/ \E cs \in Envelopes : PublishClient(cs)
  \/ ReadCheck \/ ReceiveShut \/ Handle \/ SendCheck \/ SendShut
  \/ UnpublishClient \/ CloseClient
  \/ UnpublishListener \/ CloseListener \/ End

\* What only the client, or a socket timeout, brings about.
ClientStep ==
  \/ \E n \in 0 .. MaxBatch, cut \in BOOLEAN : Receive(n, cut)
  \/ ReceiveEnds
  \/ \E more \in BOOLEAN : SendEnds(more)

Next == MainStep \/ UserStep \/ TimerRestart \/ ServerStep \/ ClientStep

Spec == Init /\ [][Next]_vars

\* Both threads are scheduled.  Nothing is asked of clients or socket timeouts.
Fairness == WF_vars(MainStep) /\ WF_vars(ServerStep)
FairSpec == Spec /\ Fairness

-----------------------------------------------------------------------------
MainStates == {"idle", "stop_flag", "shutdown", "join", "clear", "start",
               "start_join", "create", "unloaded"}
ServerStates == {"none", "open", "publish", "loop", "wait", "polled", "accept",
                 "publish_client", "read", "recv", "handle", "send", "sending",
                 "unpublish_client", "close_client", "leave", "close", "end", "done"}

\* Types of the variables the two threads share.
TypeOK ==
  /\ bypass \in BOOLEAN /\ running \in BOOLEAN
  /\ main \in MainStates /\ next \in {"idle", "clear", "unloaded"}
  /\ srv \in ServerStates /\ polled \in {"ready", "timeout", "error"}
  /\ {listener, client} \subseteq {"closed", "open", "shut"}
  /\ listenerPub \in BOOLEAN /\ clientPub \in BOOLEAN

\* The flag never outlives the thread it speaks of: were it up with no thread,
\* startNativeBridgeServer would return early at every tick and the apps would
\* be cut off until the next start of REAPER.
FlagHasThread == running => main = "create" \/ srv \notin {"none", "done"}

\* Once bypass is entered no thread is left, nothing waits and nothing can be
\* posted (nativeSetExtensionBypass: the entries are cut off first).
BypassQuiet ==
  bypass /\ main = "idle" => ~running /\ srv = "none" /\ Waiting = {}

\* The sockets the main thread may shut down are still this bridge's: a number
\* that was closed may name another file of REAPER by now.
PublishedOpen ==
  /\ listenerPub => listener # "closed"
  /\ clientPub => client # "closed"

\* Stopping returns whatever the client does, without any socket timeout: the
\* flag falls before the sockets are shut down, and is read again after they
\* are published.
StopReturns == main = "join" ~> main # "join"

\* REAPER's timer runs, and its window, the thread and the port can be had in
\* the end.
Recovery ==
  /\ WF_vars(TimerRestart)
  /\ SF_vars(Start(TRUE)) /\ SF_vars(Create(TRUE)) /\ SF_vars(Open(TRUE))

\* Out of bypass the bridge listens again and again, however often it failed
\* to open the port, lost its socket or was asked to start in vain.
ComesBack ==
  Recovery => (<>[](~bypass /\ main # "unloaded") => []<>listenerPub)
=============================================================================
