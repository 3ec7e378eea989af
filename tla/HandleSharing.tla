---------------------------- MODULE HandleSharing ----------------------------
(***************************************************************************)
(* Who owns the connection handle of a request that is performed as-is.    *)
(*                                                                         *)
(* MockHttpSocket.passthrough() creates the original socket and aliases    *)
(* its "_handle" onto the mock socket.  Both are net.Sockets, so both may  *)
(* start reading on that handle and both close it when they are destroyed. *)
(* Meanwhile the original socket may replace its own handle: when a        *)
(* connection attempt takes too long, Node closes it and retries with the  *)
(* next address ("Happy Eyeballs").                                        *)
(*                                                                         *)
(* The module follows the handles only; request and response bytes are     *)
(* not modelled here.  What net.Socket does with a handle is external to   *)
(* the repository and is modelled from how the mock socket relies on it.   *)
(***************************************************************************)
EXTENDS Integers, Sequences, FiniteSets

CONSTANTS
  Attempts,   \* how many addresses the original socket may try to connect to
  Builds,     \* the variants of the mock socket: records of two flags
  MaxPushes,  \* bound: chunks the original socket delivers
  MaxHeads    \* bound: response heads the mock socket finds in them

ASSUME AttemptsAssumption == Attempts \in Nat \ {0}
ASSUME MaxPushesAssumption == MaxPushes \in Nat
ASSUME MaxHeadsAssumption == MaxHeads \in Nat
ASSUME BuildsAssumption == Builds \subseteq [readNoop : BOOLEAN, alias : BOOLEAN]

VARIABLES
  build,        \* readNoop: "_read" does nothing in passthrough;
                \* alias: the mock socket borrows the original's handle
  socketState,  \* "unknown" until passthrough() is called
  attempt,      \* the latest connection attempt, 0 before the first; its
                \* number also names the handle the original socket holds
  orig,         \* the original socket
  closed,       \* the handles closed so far
  reading,      \* the handles whose "reading" flag is set
  inFlight,     \* a write is pending on the original's current handle
  origEvents,   \* events of the original socket still to be emitted
  mockHandle,   \* the mock socket's "_handle", 0 when it has none
  connecting,   \* the mock socket's "connecting"
  destroyed,    \* the mock socket's "destroyed"
  wantsRead,    \* the mock's stream may call "_read" (no read outstanding)
  listeners,    \* "connect" listeners that "_read" left on the mock socket
  armed,        \* the once("error") listener set by passthrough() is there
  closePending, \* the mock socket is about to emit its own "close"
  closeEmitted, \* the mock socket has emitted "close"
  faults,       \* error codes caused by the handle, not by the network
  pushes,       \* chunks delivered so far
  heads,        \* response heads found in them; the promise of the latest one's
                \* listeners is "responseListenersPromise"
  returned,     \* the heads whose "response" listeners have returned
  deferred      \* events of the mock socket that wait for such listeners

vars == <<build, socketState, attempt, orig, closed, reading, inFlight,
          origEvents, mockHandle, connecting, destroyed, wantsRead, listeners,
          armed, closePending, closeEmitted, faults, pushes, heads, returned,
          deferred>>

Alive == {"connecting", "connected"}
Handles == 1..Attempts
Heads == 1..MaxHeads
Deferrable == [event : {"error", "close"}, behind : Heads]

TypeOK ==
  /\ build \in Builds
  /\ socketState \in {"unknown", "passthrough"}
  /\ attempt \in 0..Attempts
  /\ orig \in Alive \cup {"none", "destroyed"}
  /\ closed \subseteq Handles
  /\ reading \subseteq Handles
  /\ inFlight \in BOOLEAN
  /\ origEvents \in Seq({"error", "close"})
  /\ mockHandle \in 0..Attempts
  /\ connecting \in BOOLEAN
  /\ destroyed \in BOOLEAN
  /\ wantsRead \in BOOLEAN
  /\ listeners \in Nat
  /\ armed \in BOOLEAN
  /\ closePending \in BOOLEAN
  /\ closeEmitted \in BOOLEAN
  /\ faults \subseteq {"EINVAL", "ECANCELED"}
  /\ pushes \in 0..MaxPushes
  /\ heads \in 0..MaxHeads
  /\ returned \subseteq Heads
  /\ deferred \subseteq Deferrable

\* A socket just built by the agent: connect() has set "connecting".
Init ==
  /\ build \in Builds
  /\ socketState = "unknown"
  /\ attempt = 0
  /\ orig = "none"
  /\ closed = {}
  /\ reading = {}
  /\ inFlight = FALSE
  /\ origEvents = <<>>
  /\ mockHandle = 0
  /\ connecting = TRUE
  /\ destroyed = FALSE
  /\ wantsRead = TRUE
  /\ listeners = 0
  /\ armed = FALSE
  /\ closePending = FALSE
  /\ closeEmitted = FALSE
  /\ faults = {}
  /\ pushes = 0
  /\ heads = 0
  /\ returned = {}
  /\ deferred = {}

-----------------------------------------------------------------------------
(* Events of the mock socket.                                              *)

\* emit() lets an event through until the first response head.  From then on
\* every event waits for the listeners of the latest head: the promise is
\* never cleared.
EmitsAtOnce == heads = 0
Later(event) == IF EmitsAtOnce THEN {} ELSE {[event |-> event, behind |-> heads]}

-----------------------------------------------------------------------------
(* Destroying the two sockets.                                             *)

\* The original socket emits "close" from the callback of handle.close(), which
\* a handle that is closed already never calls.
EventsOfDestroy(hasError) ==
  (IF hasError THEN <<"error">> ELSE <<>>)
    \o (IF attempt \in closed THEN <<>> ELSE <<"close">>)

DestroyOriginal(hasError) ==
  /\ orig' = "destroyed"
  /\ closed' = closed \cup {attempt}
  /\ inFlight' = FALSE
  /\ origEvents' = origEvents \o EventsOfDestroy(hasError)

\* A variant of TakesOriginal without the error listener.
TakesOriginalNever(hasError) == FALSE

\* The error listener set by passthrough() destroys the original socket, when
\* the mock socket emits "error".
TakesOriginal(hasError) == hasError /\ EmitsAtOnce /\ armed /\ orig \in Alive

\* A variant of DestroyMock that lets go of the original socket instead of
\* destroying it.
DestroyMockLetsGo(hasError) ==
  /\ orig' = IF TakesOriginal(hasError) THEN "destroyed" ELSE orig
  /\ closed' = closed \cup ({mockHandle} \ {0})
  /\ armed' = (armed /\ ~(hasError /\ EmitsAtOnce))
  /\ deferred' = IF hasError THEN deferred \cup Later("error") ELSE deferred
  /\ closePending' = (closePending \/ (~destroyed /\ mockHandle \notin closed))
  /\ destroyed' = TRUE
  /\ mockHandle' = 0
  /\ connecting' = FALSE
  /\ UNCHANGED <<inFlight, origEvents>>

\* destroy(error) of the mock socket: emit "error" first, then let net.Socket
\* close whichever handle the mock socket holds.  A second call of destroy()
\* can still emit "error", but there is no handle left to close.  Where "error"
\* has to wait, so does the end of the original socket.
DestroyMock(hasError) ==
  LET handleGone == \/ mockHandle \in closed
                    \/ TakesOriginal(hasError) /\ mockHandle = attempt
      borrowed   == IF mockHandle = 0 THEN {} ELSE {mockHandle}
  IN /\ IF TakesOriginal(hasError)
          THEN /\ orig' = "destroyed"
               /\ closed' = closed \cup {attempt} \cup borrowed
               /\ inFlight' = FALSE
               /\ origEvents' =
                    origEvents \o EventsOfDestroy(TRUE)
          ELSE /\ closed' = closed \cup borrowed
               /\ UNCHANGED <<orig, inFlight, origEvents>>
     /\ armed' = (armed /\ ~(hasError /\ EmitsAtOnce))
     /\ deferred' = IF hasError THEN deferred \cup Later("error") ELSE deferred
     /\ closePending' = (closePending \/ (~destroyed /\ ~handleGone))
     /\ destroyed' = TRUE
     /\ mockHandle' = 0
     /\ connecting' = FALSE

-----------------------------------------------------------------------------
(* What the mock socket does.                                              *)

\* The stream asks for data.  "_read" registers a "connect" listener when
\* there is nothing to read from yet.
ReadLater ==
  /\ connecting \/ mockHandle = 0
  /\ listeners' = listeners + 1
  /\ UNCHANGED <<orig, closed, reading, inFlight, origEvents, armed,
                 closePending, destroyed, mockHandle, connecting, faults,
                 deferred>>

\* "_read" starts the handle unless its "reading" flag says it is started;
\* starting a closed handle fails and destroys the mock socket.
ReadHandle ==
  /\ ~connecting
  /\ mockHandle # 0
  /\ reading' = reading \cup {mockHandle}
  /\ IF mockHandle \in closed \ reading
       THEN DestroyMock(TRUE) /\ faults' = faults \cup {"EINVAL"}
       ELSE UNCHANGED <<orig, closed, inFlight, origEvents, armed, closePending,
                        destroyed, mockHandle, connecting, faults, deferred>>

\* A variant of ReadIsNoop that looks for the wrong state.
ReadIsNoopTooEarly == build.readNoop /\ socketState = "unknown"

ReadIsNoop == build.readNoop /\ socketState = "passthrough"

Read ==
  /\ wantsRead
  /\ ~destroyed
  /\ wantsRead' = FALSE
  /\ \/ /\ ReadIsNoop
        /\ UNCHANGED <<orig, closed, reading, inFlight, origEvents, armed,
                       closePending, destroyed, mockHandle, connecting,
                       listeners, faults, deferred>>
     \/ ~ReadIsNoop /\ ReadLater
     \/ ~ReadIsNoop /\ ReadHandle /\ UNCHANGED listeners
  /\ UNCHANGED <<build, socketState, attempt, closeEmitted, pushes, heads, returned>>

\* A variant of Passthrough that borrows the handle in every build.
PassthroughAlwaysBorrows ==
  /\ socketState = "unknown"
  /\ socketState' = "passthrough"
  /\ IF destroyed
       THEN UNCHANGED <<attempt, orig, mockHandle, armed>>
       ELSE attempt' = 1 /\ orig' = "connecting" /\ mockHandle' = 1 /\ armed' = TRUE
  /\ UNCHANGED <<build, closed, reading, inFlight, origEvents, connecting,
                 destroyed, wantsRead, listeners, closePending, closeEmitted,
                 faults, pushes, heads, returned, deferred>>

\* passthrough() gives up on a socket that is destroyed already.
Passthrough ==
  /\ socketState = "unknown"
  /\ socketState' = "passthrough"
  /\ IF destroyed
       THEN UNCHANGED <<attempt, orig, mockHandle, armed>>
       ELSE /\ attempt' = 1
            /\ orig' = "connecting"
            /\ mockHandle' = IF build.alias THEN 1 ELSE 0
            /\ armed' = TRUE
  /\ UNCHANGED <<build, closed, reading, inFlight, origEvents, connecting,
                 destroyed, wantsRead, listeners, closePending, closeEmitted,
                 faults, pushes, heads, returned, deferred>>

\* The developer, or http.ClientRequest on their behalf, destroys the socket.
Destroy ==
  \E hasError \in BOOLEAN :
    /\ DestroyMock(hasError)
    /\ UNCHANGED <<build, socketState, attempt, reading, wantsRead, listeners,
                   closeEmitted, faults, pushes, heads, returned>>

\* A variant of EmitClose that waits for an original socket.
EmitCloseOfOriginal ==
  /\ closePending /\ orig # "none"
  /\ closePending' = FALSE
  /\ closeEmitted' = (closeEmitted \/ EmitsAtOnce)
  /\ deferred' = deferred \cup Later("close")
  /\ UNCHANGED <<build, socketState, attempt, orig, closed, reading, inFlight,
                 origEvents, mockHandle, connecting, destroyed, wantsRead,
                 listeners, armed, faults, pushes, heads, returned>>

\* The mock socket's own "close", a tick after it was destroyed; it goes through
\* emit() as well.
EmitClose ==
  /\ closePending
  /\ closePending' = FALSE
  /\ closeEmitted' = (closeEmitted \/ EmitsAtOnce)
  /\ deferred' = deferred \cup Later("close")
  /\ UNCHANGED <<build, socketState, attempt, orig, closed, reading, inFlight,
                 origEvents, mockHandle, connecting, destroyed, wantsRead,
                 listeners, armed, faults, pushes, heads, returned>>

-----------------------------------------------------------------------------
(* What the original socket does, and how the mock socket follows it.      *)

\* The attempt timed out: its handle is closed and the next one takes over.
NextAttempt ==
  /\ orig = "connecting"
  /\ attempt < Attempts
  /\ closed' = closed \cup {attempt}
  /\ attempt' = attempt + 1
  /\ UNCHANGED <<build, socketState, orig, reading, inFlight, origEvents,
                 mockHandle, connecting, destroyed, wantsRead, listeners, armed,
                 closePending, closeEmitted, faults, pushes, heads, returned,
                 deferred>>

\* A variant of StaleOnConnect that does not need a "connect" listener.
StaleOnConnectUnheard ==
  ~ReadIsNoop /\ mockHandle # 0 /\ mockHandle \in closed \ reading

\* A "connect" listener left by "_read" is about to start a handle that the
\* original socket has replaced and closed.
StaleOnConnect ==
  listeners > 0 /\ ~ReadIsNoop /\ mockHandle # 0 /\ mockHandle \in closed \ reading

\* The "connect" listeners of the mock socket call "_read" once more.
ReadOnConnect ==
  \/ /\ ~StaleOnConnect
     /\ orig' = "connected"
     /\ connecting' = FALSE
     /\ \/ /\ listeners = 0 \/ ReadIsNoop
           /\ listeners' = 0
           /\ reading' = reading \cup {attempt}
        \* No handle: every listener registers itself again.
        \/ /\ listeners > 0 /\ ~ReadIsNoop /\ mockHandle = 0
           /\ listeners' = listeners
           /\ reading' = reading \cup {attempt}
        \* The first listener starts the handle, the others find it started.
        \/ /\ listeners > 0 /\ ~ReadIsNoop /\ mockHandle # 0
           /\ listeners' = 0
           /\ reading' = reading \cup {mockHandle, attempt}
     /\ UNCHANGED <<closed, inFlight, origEvents, armed, closePending, destroyed,
                    mockHandle, faults, deferred>>
  \* The first listener finds the handle closed and destroys the mock socket;
  \* the others find no handle and register themselves again.
  \/ /\ StaleOnConnect
     /\ listeners' = listeners - 1
     /\ reading' = reading \cup {mockHandle}
     /\ DestroyMock(TRUE)
     /\ faults' = faults \cup {"EINVAL"}

\* The current attempt succeeds.  "connect" is forwarded to the mock socket
\* before the original socket starts reading.
Connect ==
  /\ orig = "connecting"
  /\ attempt \notin closed
  /\ ReadOnConnect
  /\ UNCHANGED <<build, socketState, attempt, wantsRead, closeEmitted, pushes,
                 heads, returned>>

\* The response arrives in chunks, each pushed to the mock socket: its stream
\* has no read outstanding any more.  The parser may find the head of a response
\* in a chunk, or those of an informational and of the final one, and calls the
\* "response" listeners.
Data ==
  /\ orig = "connected"
  /\ attempt \in reading \ closed
  /\ pushes < MaxPushes
  /\ pushes' = pushes + 1
  /\ wantsRead' = TRUE
  /\ \E n \in 0..2 : heads' = heads + n
  /\ heads' <= MaxHeads
  /\ UNCHANGED <<build, socketState, attempt, orig, closed, reading, inFlight,
                 origEvents, mockHandle, connecting, destroyed, listeners, armed,
                 closePending, closeEmitted, faults, returned, deferred>>

\* A write stays in the TLS layer until the handshake is over.
Write ==
  /\ orig = "connected"
  /\ attempt \notin closed
  /\ inFlight' = ~inFlight
  /\ UNCHANGED <<build, socketState, attempt, orig, closed, reading, origEvents,
                 mockHandle, connecting, destroyed, wantsRead, listeners, armed,
                 closePending, closeEmitted, faults, pushes, heads, returned,
                 deferred>>

\* The handle was closed under a pending write ("Canceled because of SSL
\* destruction"), or under a pending connection attempt.
Canceled ==
  /\ orig \in Alive
  /\ attempt \in closed
  /\ orig = "connecting" \/ inFlight
  /\ DestroyOriginal(TRUE)
  /\ faults' = faults \cup {"ECANCELED"}
  /\ UNCHANGED <<build, socketState, attempt, reading, mockHandle, connecting,
                 destroyed, wantsRead, listeners, armed, closePending,
                 closeEmitted, pushes, heads, returned, deferred>>

\* The peer, or the network, ends the connection.
PeerEnds ==
  /\ orig \in Alive
  /\ attempt \notin closed
  /\ \E hasError \in BOOLEAN :
       /\ orig = "connecting" => hasError
       /\ DestroyOriginal(hasError)
  /\ UNCHANGED <<build, socketState, attempt, reading, mockHandle, connecting,
                 destroyed, wantsRead, listeners, armed, closePending,
                 closeEmitted, faults, pushes, heads, returned, deferred>>

\* A variant of Forward that keeps "close" to the original socket.
ForwardErrors ==
  /\ origEvents # <<>>
  /\ origEvents' = Tail(origEvents)
  /\ IF Head(origEvents) = "error"
       THEN /\ armed' = (armed /\ ~EmitsAtOnce)
            /\ deferred' = deferred \cup Later("error")
       ELSE UNCHANGED <<armed, deferred>>
  /\ UNCHANGED <<build, socketState, attempt, orig, closed, reading, inFlight,
                 mockHandle, connecting, destroyed, wantsRead, listeners,
                 closePending, closeEmitted, faults, pushes, heads, returned>>

\* "error" and "close" of the original socket are emitted on the mock socket.
\* The error listener set by passthrough() then finds the original destroyed.
Forward ==
  /\ origEvents # <<>>
  /\ origEvents' = Tail(origEvents)
  /\ armed' = (armed /\ ~(EmitsAtOnce /\ Head(origEvents) = "error"))
  /\ closeEmitted' = (closeEmitted \/ (EmitsAtOnce /\ Head(origEvents) = "close"))
  /\ deferred' = deferred \cup Later(Head(origEvents))
  /\ UNCHANGED <<build, socketState, attempt, orig, closed, reading, inFlight,
                 mockHandle, connecting, destroyed, wantsRead, listeners,
                 closePending, faults, pushes, heads, returned>>

-----------------------------------------------------------------------------
(* What the "response" listeners of the developer do.                      *)

\* All the listeners of a head have returned, or one of them has thrown.
ListenersReturn(h) ==
  /\ h \in (1..heads) \ returned
  /\ returned' = returned \cup {h}
  /\ UNCHANGED <<build, socketState, attempt, orig, closed, reading, inFlight,
                 origEvents, mockHandle, connecting, destroyed, wantsRead,
                 listeners, armed, closePending, closeEmitted, faults, pushes,
                 heads, deferred>>

\* An event whose listeners have returned is emitted after all.  "error" runs the
\* listener set by passthrough(), once; to emit an event twice is no more than to
\* emit it once, so that "deferred" is a set.
EmitDeferred(e) ==
  /\ e \in deferred
  /\ e.behind \in returned
  /\ deferred' = deferred \ {e}
  /\ armed' = (armed /\ e.event # "error")
  /\ closeEmitted' = (closeEmitted \/ e.event = "close")
  /\ IF e.event = "error" /\ armed /\ orig \in Alive
       THEN DestroyOriginal(TRUE)
       ELSE UNCHANGED <<orig, closed, inFlight, origEvents>>
  /\ UNCHANGED <<build, socketState, attempt, reading, mockHandle, connecting,
                 destroyed, wantsRead, listeners, closePending, faults, pushes,
                 heads, returned>>

Next ==
  \/ Read
  \/ Passthrough
  \/ Destroy
  \/ EmitClose
  \/ NextAttempt
  \/ Connect
  \/ Data
  \/ Write
  \/ Canceled
  \/ PeerEnds
  \/ Forward
  \/ \E h \in Heads : ListenersReturn(h)
  \/ \E e \in Deferrable : EmitDeferred(e)

\* Events scheduled on the event loop are emitted, and so are the callbacks of
\* what a closed handle cancels and of promises that have settled; nothing is
\* assumed of the peer, of the network or of the developer.
Fairness ==
  /\ WF_vars(EmitClose)
  /\ WF_vars(Forward)
  /\ WF_vars(Canceled)
  /\ \A e \in Deferrable : WF_vars(EmitDeferred(e))

Spec == Init /\ [][Next]_vars /\ Fairness

-----------------------------------------------------------------------------
(* Properties.                                                             *)

\* As long as the original socket is in use, nobody else has closed the handle
\* it works with; only a mock socket that borrowed the handle and was then
\* destroyed could have done it.  (Dropping the alias makes the original
\* socket the only owner.)
OwnerKeepsHandle ==
  orig \in Alive /\ attempt \in closed => build.alias /\ destroyed

\* "write ECANCELED" needs the alias.  "read EINVAL" needs the alias, the
\* inherited "_read" and a handle that was replaced by a later connection
\* attempt: any one of the three missing rules it out.
FaultsNeedTheAlias ==
  /\ faults # {} => build.alias
  /\ "EINVAL" \in faults => ~build.readNoop /\ attempt > 1

\* However many chunks arrive, at most one "connect" listener is left on the
\* mock socket, unless it neither borrows a handle nor ignores "_read".
ListenersBounded ==
  build.alias \/ build.readNoop => listeners <= 1

\* No connection is abandoned: an open handle is the current one of an
\* original socket that is still in use, whoever destroyed what before.
NoOrphanHandle ==
  \A h \in 1..attempt : h \notin closed => h = attempt /\ orig \in Alive

\* Once the error listener of passthrough() has run, or was never needed
\* because no connection was made, no connection is in use: an error that the
\* mock socket emits, at once or late, always takes the original socket with it.
ErrorTakesOriginal ==
  orig \in Alive => armed

\* What the two liveness properties assume of the developer: no "response"
\* listener hangs.  If one does, "close" waits for it for ever.
OthersAreLive == \A h \in Heads : WF_vars(ListenersReturn(h))

\* A mock socket that owns no handle acknowledges its destruction with "close",
\* if "response" listeners return: emit() holds the event back for them.
DestroyIsAcknowledged ==
  OthersAreLive => (destroyed /\ ~build.alias ~> closeEmitted)

\* If "response" listeners return, the consumer is told that the original
\* connection is gone, even if the shared handle was closed by the other socket.
CloseReachesConsumer ==
  OthersAreLive => (orig = "destroyed" ~> closeEmitted)

\* Facts the safety properties rest on: when the mock socket holds a handle, and
\* how the two sockets' views of the connection relate.
Bookkeeping ==
  /\ orig = "none" <=> attempt = 0
  /\ socketState = "unknown" => orig = "none"
  /\ mockHandle \in {0, 1}
  /\ mockHandle # 0 => build.alias /\ ~destroyed /\ attempt # 0
  /\ build.alias /\ ~destroyed /\ socketState = "passthrough" => mockHandle # 0
  /\ orig = "connected" => attempt \in reading
  /\ orig = "connecting" => attempt \notin reading
  /\ reading \subseteq 1..attempt
  /\ closed \subseteq 1..attempt
  /\ origEvents # <<>> => orig = "destroyed"
  /\ destroyed => ~connecting
  /\ ~destroyed =>
       (~connecting <=> orig \in {"connected", "destroyed"} /\ attempt \in reading)
  /\ (build.alias \/ build.readNoop) /\ connecting /\ listeners = 1 => ~wantsRead

\* The inductive invariant: its conjuncts imply each other's preservation.
IInv ==
  /\ TypeOK
  /\ Bookkeeping
  /\ OwnerKeepsHandle
  /\ FaultsNeedTheAlias
  /\ ListenersBounded
  /\ NoOrphanHandle
  /\ ErrorTakesOriginal

\* The comment in passthrough(): "If the developer destroys the socket, destroy
\* the original connection."
DestroyTakesOriginal ==
  destroyed ~> orig \notin Alive
=============================================================================
