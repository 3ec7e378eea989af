---------------------------- MODULE WebSocketBridge ----------------------------
(***************************************************************************)
(* One intercepted WebSocket: the object the application holds             *)
(* (WebSocketOverride), the client and server connections the interceptor  *)
(* hands to its "connection" listeners, and the real WebSockets that       *)
(* server.connect() opens.  Messages and closures travel between them in   *)
(* both directions, through events and microtasks.                         *)
(*                                                                         *)
(* JavaScript runs a microtask or an event listener to its end, but in the *)
(* order of the queue, and the code of the application and of the          *)
(* developer runs in between: in listeners, in microtasks and in tasks of  *)
(* their own.  A browser also empties the queue between two listeners of   *)
(* an event it fires itself; in Node.js, where WebSocket is written in     *)
(* JavaScript, all the listeners run first.                                *)
(***************************************************************************)
EXTENDS Naturals, SequencesExt

CONSTANTS
  Sends,        \* bound: how often ws.send(), client.send() and server.send()
                \* are called altogether
  Connections   \* bound: how often the original server is connected to

ASSUME BoundsAssumption == Sends \in Nat /\ Connections \in Nat \ {0}

VARIABLES
  platform,      \* what runs the code: "node" or "browser"
  hasListeners,  \* there are "connection" listeners
  connection,    \* how far the microtask that emits "connection" is
  client,        \* readyState of the socket the application holds
  jobs,          \* the microtask queue
  opening,       \* kPassthroughPromise is resolved with false, and the
                 \* microtask that waits for it has not run yet
  calls,         \* what is left to run of the listeners of the current event
  inListener,    \* the last of those that ran is the application's or the
                 \* developer's, who may act
  real,          \* the real WebSockets, in the order they are made
  made,          \* how many there are; the last is "realWebSocket"
  aborted,       \* the aborted ones of the controllers "mock" and "real"
  queued,        \* client.send() data waiting for "open" of the client
  used,          \* how often each send() has been called
  late,          \* a connection was made for a client already closed
  blame,         \* the real WebSocket whose closure closed the client, or 0
  seen           \* what the application has been told

vars == <<platform, hasListeners, connection, client, jobs, opening, calls,
          inListener, real, made, aborted, queued, used, late, blame, seen>>
history == <<late, blame>>
setting == <<platform, hasListeners>>
turn == <<calls, inListener>>

States == {"CONNECTING", "OPEN", "CLOSING", "CLOSED"}
Shut == {"CLOSING", "CLOSED"}

\* A message is the number of the ws.send() or client.send() it is from; 0
\* stands for server.send() and for the messages of the original server.
Message == 0..Sends
Sockets == 1..Connections

Job(task, n) == [task |-> task, n |-> n]
Call(listener, n, c) == [listener |-> listener, n |-> n, conn |-> c]

Jobs == [task : {"connection", "proceed", "threw", "close", "onSend", "forward",
                 "clientSend", "serverClose"}, n : Nat]
Calls == [listener : {"flush", "deliver", "mockClose", "realClose"}, n : Nat,
          conn : 0..Connections]
\* One of these is a listener of an event that the platform fires.
TopLevel == {"flush", "realClose"}

\* What waits for "open", what has been sent, how often the server connection
\* has reported a closure, and whether server.close() began it.
RealSocket == [state : States \cup {"none"}, pending : Seq(Message),
               sent : Seq(Message), closes : Nat, shut : BOOLEAN]

TypeOK ==
  /\ platform \in {"node", "browser"}
  /\ hasListeners \in BOOLEAN
  /\ connection \in {"new", "emitted", "settled", "mocked", "passthrough",
                     "failed", "ignored"}
  /\ client \in States
  /\ jobs \in Seq(Jobs)
  /\ opening \in BOOLEAN
  /\ calls \in Seq(Calls)
  /\ inListener \in BOOLEAN
  /\ real \in [Sockets -> RealSocket]
  /\ made \in 0..Connections
  /\ aborted \subseteq {"mock", "real"}
  /\ queued \in Seq(Message)
  /\ used \in [app : 0..Sends, client : 0..Sends, server : 0..Sends]
  /\ late \in BOOLEAN
  /\ blame \in 0..Connections
  /\ seen \in [opens : 0..1, closes : 0..1, got : Seq(Message),
               after : SUBSET {"open", "message", "error"}]

\* The application has constructed its WebSocket: the "connection" microtask is
\* queued.
Init ==
  /\ platform \in {"node", "browser"}
  /\ hasListeners \in BOOLEAN
  /\ connection = "new"
  /\ client = "CONNECTING"
  /\ jobs = <<Job("connection", 0)>>
  /\ opening = FALSE
  /\ calls = <<>>
  /\ inListener = FALSE
  /\ real = [c \in Sockets |-> [state |-> "none", pending |-> <<>>, sent |-> <<>>,
                                closes |-> 0, shut |-> FALSE]]
  /\ made = 0
  /\ aborted = {}
  /\ queued = <<>>
  /\ used = [app |-> 0, client |-> 0, server |-> 0]
  /\ late = FALSE
  /\ blame = 0
  /\ seen = [opens |-> 0, closes |-> 0, got |-> <<>>, after |-> {}]

-----------------------------------------------------------------------------
(* Who runs.                                                               *)

\* The listeners of the current event still to run are cs.  The last one that
\* ran is either somebody else's, who may act before the next, or not.
YieldTo(cs) == calls' = cs /\ inListener' = (cs # <<>>)
GoOn(cs) == calls' = cs /\ inListener' = FALSE

UserTurn == calls = <<>> \/ inListener

\* No JavaScript is on the stack.
Checkpoint ==
  \/ calls = <<>>
  \/ platform = "browser" /\ calls # <<>> /\ Head(calls).listener \in TopLevel

Running(task) == Checkpoint /\ jobs # <<>> /\ Head(jobs).task = task

Calling(listener) ==
  /\ calls # <<>> /\ Head(calls).listener = listener
  /\ platform = "browser" /\ listener \in TopLevel => jobs = <<>> /\ ~opening

MaySend == used.app + used.client + used.server < Sends

\* The platform fires an event when nothing else is left to do.
Idle == calls = <<>> /\ jobs = <<>> /\ ~opening

-----------------------------------------------------------------------------
(* What the application is told.                                           *)

Told(event) ==
  [seen EXCEPT !.after = IF client = "CLOSED" THEN @ \cup {event} ELSE @]
ToldOpen == [Told("open") EXCEPT !.opens = @ + 1]
ToldMessage(n) ==
  [Told("message") EXCEPT !.got = IF n = 0 THEN @ ELSE Append(@, n)]

\* A variant of KClose that closes a socket being closed once more.
KCloseAgain(js) == client' = "CLOSING" /\ jobs' = Append(js, Job("close", 0))

\* kClose() when the other microtasks are js: nothing if the socket is shut.
KClose(js) ==
  \/ client \in Shut /\ UNCHANGED client /\ jobs' = js
  \/ client \notin Shut /\ client' = "CLOSING" /\ jobs' = Append(js, Job("close", 0))

-----------------------------------------------------------------------------
(* The real WebSockets as the bridge handles them.                         *)

\* server.connect(), without its guard.
Connect ==
  /\ made' = made + 1
  /\ real' = [real EXCEPT ![made + 1].state = "CONNECTING"]
  /\ late' = (late \/ client = "CLOSED")

\* A variant of Sent whose "open" listeners are prepended.
SentFirst(ws, n) ==
  [ws EXCEPT !.sent = IF ws.state = "OPEN" THEN Append(@, n) ELSE @,
             !.pending = IF ws.state = "CONNECTING" THEN <<n>> \o @ ELSE @]

\* A real WebSocket that was sent a message, by kSend(): it waits for "open" or
\* is discarded if need be.
Sent(ws, n) ==
  [ws EXCEPT !.sent = IF ws.state = "OPEN" THEN Append(@, n) ELSE @,
             !.pending = IF ws.state = "CONNECTING" THEN Append(@, n) ELSE @]

\* A real WebSocket that was told to close().
Closing(ws) == [ws EXCEPT !.state = IF @ \in Shut THEN @ ELSE "CLOSING"]

-----------------------------------------------------------------------------
(* The "connection" event.                                                 *)

\* The microtask queued by the constructor.  Without listeners emitAsync() only
\* takes a turn of the queue.
RunConnection ==
  /\ Running("connection")
  /\ connection' = "emitted"
  /\ jobs' = IF hasListeners THEN Tail(jobs) ELSE Append(Tail(jobs), Job("proceed", 0))
  /\ UNCHANGED <<setting, client, opening, turn, real, made, aborted, queued, used,
                 history, seen>>

\* The last listener has returned, and what it returned has settled.
ListenersReturn ==
  /\ hasListeners /\ connection = "emitted" /\ UserTurn
  /\ connection' = "settled"
  /\ jobs' = Append(jobs, Job("proceed", 0))
  /\ UNCHANGED <<setting, client, opening, turn, real, made, aborted, queued, used,
                 history, seen>>

\* A listener has thrown an Error (1) or anything else (0).
ListenersThrow(isError) ==
  /\ hasListeners /\ connection = "emitted" /\ UserTurn
  /\ connection' = "settled"
  /\ jobs' = Append(jobs, Job("threw", isError))
  /\ UNCHANGED <<setting, client, opening, turn, real, made, aborted, queued, used,
                 history, seen>>

\* The socket is mocked: it opens as soon as the promise's continuation runs.
ProceedMocked ==
  /\ Running("proceed") /\ hasListeners
  /\ connection' = "mocked"
  /\ opening' = TRUE
  /\ jobs' = Tail(jobs)
  /\ UNCHANGED <<setting, client, turn, real, made, aborted, queued, used, history,
                 seen>>

\* The exception becomes an "error" event and a closure.
Fail ==
  /\ connection' = "failed"
  /\ seen' = Told("error")
  /\ KClose(Tail(jobs))
  /\ UNCHANGED <<setting, opening, turn, real, made, aborted, queued, used, history>>

\* Nobody listens: the connection is performed as-is, if it can be constructed.
ProceedPassthrough ==
  /\ Running("proceed") /\ ~hasListeners
  /\ \/ /\ connection' = "passthrough"
        /\ Connect
        /\ jobs' = Tail(jobs)
        /\ UNCHANGED <<setting, client, opening, turn, aborted, queued, used, blame,
                       seen>>
     \/ Fail

\* Only an Error is translated; anything else is swallowed.
RunThrew ==
  /\ Running("threw")
  /\ \/ Head(jobs).n = 1 /\ Fail
     \/ /\ Head(jobs).n = 0
        /\ connection' = "ignored"
        /\ jobs' = Tail(jobs)
        /\ UNCHANGED <<setting, client, opening, turn, real, made, aborted, queued,
                       used, history, seen>>

\* A variant of Open that does not look at the readyState.
OpenUnchecked ==
  /\ opening /\ Checkpoint
  /\ opening' = FALSE
  /\ client' = "OPEN"
  /\ seen' = ToldOpen
  /\ YieldTo([i \in DOMAIN queued |-> Call("deliver", queued[i], 0)] \o calls)
  /\ queued' = <<>>
  /\ UNCHANGED <<setting, connection, jobs, real, made, aborted, used, history>>

\* The microtask of the WebSocketOverride, after it has awaited the promise; how
\* many turns of the queue that takes is left open.  The application's "open"
\* listener runs first, then those that client.send() has added.
Open ==
  /\ opening /\ Checkpoint
  /\ opening' = FALSE
  /\ \/ /\ client = "CONNECTING"
        /\ client' = "OPEN"
        /\ seen' = ToldOpen
        /\ YieldTo([i \in DOMAIN queued |-> Call("deliver", queued[i], 0)] \o calls)
        /\ queued' = <<>>
     \/ client # "CONNECTING" /\ UNCHANGED <<client, seen, turn, queued>>
  /\ UNCHANGED <<setting, connection, jobs, real, made, aborted, used, history>>

-----------------------------------------------------------------------------
(* The application.                                                        *)

\* ws.send(): too early it closes the socket and throws, too late it does
\* nothing.
AppSend ==
  /\ UserTurn /\ MaySend /\ client \notin Shut
  /\ used' = [used EXCEPT !.app = @ + 1]
  /\ \/ client = "CONNECTING" /\ KClose(jobs)
     \/ /\ client = "OPEN" /\ UNCHANGED client
        /\ jobs' = Append(jobs, Job("onSend", used'.app))
  /\ UNCHANGED <<setting, connection, opening, turn, real, made, aborted, queued,
                 history, seen>>

\* ws.close()
AppClose ==
  /\ UserTurn
  /\ KClose(jobs)
  /\ UNCHANGED <<setting, connection, opening, turn, real, made, aborted, queued,
                 used, history, seen>>

\* A variant of RunOnSend with a forwarding listener for each connect().
RunOnSendTwice ==
  /\ Running("onSend")
  /\ jobs' = Tail(jobs) \o [i \in 1..made |-> Job("forward", Head(jobs).n)]
  /\ UNCHANGED <<setting, connection, client, opening, turn, real, made, aborted,
                 queued, used, history, seen>>

\* The "outgoing" event: the server connection looks for a real WebSocket, then
\* the "message" listeners of the client connection may prevent the forwarding,
\* a later microtask that does nothing if they have.
RunOnSend ==
  /\ Running("onSend")
  /\ \E prevented \in BOOLEAN :
       jobs' = IF made = 0 \/ prevented THEN Tail(jobs)
               ELSE Append(Tail(jobs), Job("forward", Head(jobs).n))
  /\ UNCHANGED <<setting, connection, client, opening, turn, real, made, aborted,
                 queued, used, history, seen>>

RunForward ==
  /\ Running("forward")
  /\ real' = [real EXCEPT ![made] = Sent(@, Head(jobs).n)]
  /\ jobs' = Tail(jobs)
  /\ UNCHANGED <<setting, connection, client, opening, turn, made, aborted, queued,
                 used, history, seen>>

\* The microtask of kClose(): "close" reaches the client connection and the
\* application, then the listener that connect() has added, if there is one.
RunClose ==
  /\ Running("close")
  /\ client' = "CLOSED"
  /\ seen' = [seen EXCEPT !.closes = @ + 1]
  /\ jobs' = Tail(jobs)
  /\ YieldTo((IF made > 0 /\ "mock" \notin aborted
              THEN <<Call("mockClose", 0, 0)>> ELSE <<>>) \o calls)
  /\ UNCHANGED <<setting, connection, opening, real, made, aborted, queued, used,
                 history>>

\* A variant of MockClose that looks for an open connection.
MockCloseIfOpen ==
  /\ Calling("mockClose")
  /\ real' = [real EXCEPT ![made] = IF @.state = "OPEN" THEN Closing(@) ELSE @]
  /\ GoOn(Tail(calls))
  /\ UNCHANGED <<setting, connection, client, jobs, opening, made, aborted, queued,
                 used, history, seen>>

\* handleMockClose() closes the last real WebSocket.
MockClose ==
  /\ Calling("mockClose")
  /\ real' = [real EXCEPT ![made] = Closing(@)]
  /\ GoOn(Tail(calls))
  /\ UNCHANGED <<setting, connection, client, jobs, opening, made, aborted, queued,
                 used, history, seen>>

-----------------------------------------------------------------------------
(* The developer, who has the client and the server connection.            *)

DeveloperTurn == hasListeners /\ connection # "new" /\ UserTurn

\* server.connect() refuses an open connection only.
ServerConnect ==
  /\ DeveloperTurn /\ made < Connections
  /\ made > 0 => real[made].state # "OPEN"
  /\ Connect
  /\ UNCHANGED <<setting, connection, client, jobs, opening, turn, aborted, queued,
                 used, blame, seen>>

\* server.send()
ServerSend ==
  /\ DeveloperTurn /\ made > 0 /\ MaySend
  /\ used' = [used EXCEPT !.server = @ + 1]
  /\ real' = [real EXCEPT ![made] = Sent(@, 0)]
  /\ UNCHANGED <<setting, connection, client, jobs, opening, turn, made, aborted,
                 queued, history, seen>>

\* A variant of ServerClose that goes on listening.
ServerCloseListens ==
  /\ DeveloperTurn /\ made > 0
  /\ real[made].state \notin Shut
  /\ real' = [real EXCEPT ![made] = [Closing(@) EXCEPT !.shut = TRUE]]
  /\ jobs' = Append(jobs, Job("serverClose", made))
  /\ UNCHANGED <<setting, connection, client, opening, turn, made, aborted, queued,
                 used, history, seen>>

\* server.close() stops listening to closures of the original server, then
\* closes the connection, unless that has been done.
ServerClose ==
  /\ DeveloperTurn /\ made > 0
  /\ aborted' = aborted \cup {"real"}
  /\ \/ real[made].state \in Shut /\ UNCHANGED <<real, jobs>>
     \/ /\ real[made].state \notin Shut
        /\ real' = [real EXCEPT ![made] = [Closing(@) EXCEPT !.shut = TRUE]]
        /\ jobs' = Append(jobs, Job("serverClose", made))
  /\ UNCHANGED <<setting, connection, client, opening, turn, made, queued, used,
                 history, seen>>

\* The server connection's "close" event after server.close().
RunServerClose ==
  /\ Running("serverClose")
  /\ real' = [real EXCEPT ![Head(jobs).n].closes = @ + 1]
  /\ jobs' = Tail(jobs)
  /\ UNCHANGED <<setting, connection, client, opening, turn, made, aborted, queued,
                 used, history, seen>>

\* client.send()
ClientSend ==
  /\ DeveloperTurn /\ MaySend
  /\ used' = [used EXCEPT !.client = @ + 1]
  /\ jobs' = Append(jobs, Job("clientSend", used'.client))
  /\ UNCHANGED <<setting, connection, client, opening, turn, real, made, aborted,
                 queued, history, seen>>

\* Variants of RunClientSend: one does not wait for "open", the other does not
\* discard what is sent to a shut socket.
RunClientSendEarly ==
  /\ Running("clientSend")
  /\ jobs' = Tail(jobs)
  /\ seen' = IF client \in Shut THEN seen ELSE ToldMessage(Head(jobs).n)
  /\ UNCHANGED <<setting, connection, client, opening, turn, real, made, aborted,
                 queued, used, history>>

RunClientSendLate ==
  /\ Running("clientSend")
  /\ jobs' = Tail(jobs)
  /\ IF client = "CONNECTING"
       THEN queued' = Append(queued, Head(jobs).n) /\ UNCHANGED seen
       ELSE seen' = ToldMessage(Head(jobs).n) /\ UNCHANGED queued
  /\ UNCHANGED <<setting, connection, client, opening, turn, real, made, aborted,
                 used, history>>

\* Its microtask: the message is discarded, waits for "open" or is delivered.
RunClientSend ==
  /\ Running("clientSend")
  /\ jobs' = Tail(jobs)
  /\ \/ client \in Shut /\ UNCHANGED <<queued, seen>>
     \/ /\ client = "CONNECTING" /\ UNCHANGED seen
        /\ queued' = Append(queued, Head(jobs).n)
     \/ /\ client = "OPEN" /\ UNCHANGED queued
        /\ seen' = ToldMessage(Head(jobs).n)
  /\ UNCHANGED <<setting, connection, client, opening, turn, real, made, aborted,
                 used, history>>

\* client.close()
ClientClose ==
  /\ DeveloperTurn
  /\ KClose(jobs)
  /\ UNCHANGED <<setting, connection, opening, turn, real, made, aborted, queued,
                 used, history, seen>>

-----------------------------------------------------------------------------
(* The original server and the network.                                    *)

\* "open" of a real WebSocket goes to the developer or, in passthrough, to the
\* application; then the messages that waited for it are sent.
RealOpen(c) ==
  /\ Idle /\ real[c].state = "CONNECTING"
  /\ real' = [real EXCEPT ![c].state = "OPEN", ![c].pending = <<>>]
  /\ YieldTo([i \in DOMAIN real[c].pending |-> Call("flush", real[c].pending[i], c)])
  /\ seen' = IF hasListeners THEN seen ELSE ToldOpen
  /\ UNCHANGED <<setting, connection, client, jobs, opening, made, aborted, queued,
                 used, history>>

\* The real WebSocket discards what it is sent once it is closing.
Flush ==
  /\ Calling("flush")
  /\ real' = [real EXCEPT ![Head(calls).conn] = Sent(@, Head(calls).n)]
  /\ GoOn(Tail(calls))
  /\ UNCHANGED <<setting, connection, client, jobs, opening, made, aborted, queued,
                 used, history, seen>>

\* A message of the original server that the server connection's "message"
\* listeners do not prevent from being forwarded.
RealMessage(c) ==
  /\ Idle /\ real[c].state = "OPEN"
  /\ YieldTo(<<Call("deliver", 0, c)>>)
  /\ UNCHANGED <<setting, connection, client, jobs, opening, real, made, aborted,
                 queued, used, history, seen>>

\* The client's "message" event, whatever its readyState.
Deliver ==
  /\ Calling("deliver")
  /\ seen' = ToldMessage(Head(calls).n)
  /\ YieldTo(Tail(calls))
  /\ UNCHANGED <<setting, connection, client, jobs, opening, real, made, aborted,
                 queued, used, history>>

\* What is left of a closed real WebSocket's events: "close", unless the
\* listener is gone.
CloseCalls(c) == IF "real" \in aborted THEN <<>> ELSE <<Call("realClose", 0, c)>>

\* The closing handshake is done, or the original server has closed.
RealCloses(c) ==
  /\ Idle /\ real[c].state \in {"OPEN", "CLOSING"}
  /\ real' = [real EXCEPT ![c].state = "CLOSED"]
  /\ GoOn(CloseCalls(c))
  /\ UNCHANGED <<setting, connection, client, jobs, opening, made, aborted, queued,
                 used, history, seen>>

\* The connection fails, or was closed before it was established: "error" goes
\* to the developer, who may prevent it from being forwarded, then "close".
RealFails(c) ==
  /\ Idle /\ real[c].state \in {"CONNECTING", "OPEN", "CLOSING"}
  /\ real' = [real EXCEPT ![c].state = "CLOSED"]
  /\ \/ seen' = Told("error")
     \/ hasListeners /\ UNCHANGED seen
  /\ YieldTo(CloseCalls(c))
  /\ UNCHANGED <<setting, connection, client, jobs, opening, made, aborted, queued,
                 used, history>>

\* handleRealClose(), unless the listener was removed in the meantime: the
\* client's closure is not the concern of the real one any more, and the client
\* is closed unless the developer prevents it.
RealClose ==
  /\ Calling("realClose")
  /\ GoOn(Tail(calls))
  /\ \/ /\ "real" \in aborted
        /\ UNCHANGED <<client, jobs, real, aborted, blame>>
     \/ /\ "real" \notin aborted
        /\ aborted' = aborted \cup {"mock"}
        /\ real' = [real EXCEPT ![Head(calls).conn].closes = @ + 1]
        /\ \/ /\ KClose(jobs)
              /\ blame' = IF client \in Shut THEN blame ELSE Head(calls).conn
           \/ hasListeners /\ UNCHANGED <<client, jobs, blame>>
  /\ UNCHANGED <<setting, connection, opening, made, queued, used, late, seen>>

-----------------------------------------------------------------------------

Microtask ==
  \/ RunConnection \/ ProceedMocked \/ ProceedPassthrough \/ RunThrew \/ Open
  \/ RunOnSend \/ RunForward \/ RunClose \/ RunServerClose \/ RunClientSend

Listener == MockClose \/ Flush \/ Deliver \/ RealClose

Developer ==
  \/ ListenersReturn \/ \E isError \in {0, 1} : ListenersThrow(isError)
  \/ ServerConnect \/ ServerSend \/ ServerClose \/ ClientSend \/ ClientClose

Server ==
  \E c \in Sockets : RealOpen(c) \/ RealMessage(c) \/ RealCloses(c) \/ RealFails(c)

Next == Microtask \/ Listener \/ AppSend \/ AppClose \/ Developer \/ Server

\* The platform runs what is queued.
Fairness == WF_vars(Microtask) /\ WF_vars(Listener)

Spec == Init /\ [][Next]_vars /\ Fairness

-----------------------------------------------------------------------------
(* Properties.                                                             *)

\* The socket of the application keeps the promises of a ClientSocket: its
\* readyState only advances, "open" comes at most once and not after a closure
\* has begun, "close" exactly once.  WebSocketOverride has three places that
\* close it and one that opens it, all of them deferred.  In passthrough "open"
\* is forwarded from the real WebSocket without a change of readyState, and
\* does not count.
Socket == INSTANCE ClientSocket
  WITH readyState <- client,
       opens <- IF hasListeners THEN seen.opens ELSE 0,
       closes <- seen.closes
ImplementsClientSocket == Socket!Spec

Increasing(s) == \A i, j \in DOMAIN s : i < j => s[i] < s[j]
AppIncreasing(s) ==
  \A i, j \in DOMAIN s : i < j /\ s[i] > 0 /\ s[j] > 0 => s[i] < s[j]

\* kSend() delegates to "open" listeners while a real WebSocket connects, and
\* sends at once afterwards.  Where all the listeners of "open" run before any
\* microtask, the application's messages still leave in the order it sent them.
AppMessagesInOrder ==
  platform = "node" =>
    \A c \in Sockets : AppIncreasing(real[c].sent \o real[c].pending)

\* A message of the application is forwarded by a later microtask than the one
\* that found a real WebSocket: whatever is connected, closed and reconnected
\* in between, it is sent at most once.
AppMessagesSentOnce ==
  \A c, d \in Sockets :
    \A i \in DOMAIN real[c].sent, j \in DOMAIN real[d].sent :
      real[c].sent[i] = real[d].sent[j] /\ real[c].sent[i] > 0 => c = d /\ i = j

\* client.send() "buffers client sends until the connection is open": its
\* messages reach the application in the order they were sent, and only after
\* "open", whether they were queued or not.
MockMessagesInOrder ==
  /\ Increasing(seen.got)
  /\ seen.got # <<>> => seen.opens = 1

\* After "close" the application is told nothing more than the "error" of a
\* real WebSocket closed while it was connecting.  This needs handleMockClose():
\* a real WebSocket left open would go on delivering.
QuietAfterClose ==
  made <= 1 /\ ~late => seen.after \subseteq {"error"}

\* "Close the original connection when the mock client closes": it holds of the
\* only connection made, if that was made before the client closed.
LoneOriginalCloses ==
  made = 1 /\ ~late /\ seen.closes = 1 /\ calls = <<>> => real[1].state \in Shut

\* server.close() "doesn't close the underlying WebSocket client", and the
\* "close" event of a server connection is never dispatched twice, although it
\* has two sources that race: server.close() and the real WebSocket.
ServerCloseIsQuiet ==
  /\ \A c \in Sockets : real[c].closes <= 1
  /\ \A c \in Sockets : real[c].shut => blame # c

\* A comment in connect(): "Close the original connection when the mock client
\* closes."  In passthrough there is no developer who could interfere.
CloseTakesOriginal ==
  ~hasListeners /\ seen.closes = 1 /\ calls = <<>> =>
    \A c \in 1..made : real[c].state \in Shut
=============================================================================
