---------------------------- MODULE SocketPipeline ----------------------------
(***************************************************************************)
(* What the mock socket of a ClientRequest does with the writes of the     *)
(* request and with the response, until the request is mocked or passed on.*)
(*                                                                         *)
(* Writes are buffered with their callbacks.  The callbacks are called     *)
(* when somebody reads the body of the request or the request is mocked;   *)
(* in passthrough the chunks and the callbacks left go to the original     *)
(* socket.  A response, mocked or original, is pushed: a parser sees it    *)
(* first and announces it, and every event of the socket is held back      *)
(* until the "response" listeners of the last one announced have returned. *)
(* What is pushed while the stream does not flow waits in it, and becomes  *)
(* an event when somebody reads on.  The handle and the end of the         *)
(* connection are the matter of HandleSharing, the outcome of a request    *)
(* that of RequestHandling.  A socket serves one request: the agent that   *)
(* makes it does not keep it alive.                                        *)
(***************************************************************************)
EXTENDS Integers, SequencesExt

CONSTANTS
  MaxWrites,   \* bound: writes of the request
  MaxHeads,    \* bound: heads of responses, informational ones included
  MaxPushes    \* bound: chunks pushed

ASSUME BoundsAssumption ==
  MaxWrites \in Nat /\ MaxHeads \in Nat /\ MaxPushes \in Nat

Writes == 1..MaxWrites
Heads == 1..MaxHeads

VARIABLES
  written,      \* the number of writes made
  buffer,       \* writeBuffer: the writes in it
  uncalled,     \* those that still have their callback
  called,       \* history: how often each callback has been called
  forwarded,    \* history: the writes handed to the original socket
  owed,         \* those whose callback the original socket has to call
  dropped,      \* history: empty writes made in passthrough
  socketState,
  destroyed,
  original,     \* the original socket has been created
  request,      \* how far the handling of the request is
  responding,   \* how far respondWith() is
  headSent,     \* its ServerResponse has sent its head
  garbled,      \* a head has been pushed in the middle of a response
  pushes,       \* the number of chunks pushed
  heads,        \* the number of response heads parsed
  returned,     \* the heads whose "response" listeners have returned
  unread,       \* the stream: what has been pushed and is not yet an event
  raised,       \* history: the events raised
  seen          \* history: those emitted, by their number

writeVars == <<written, buffer, uncalled, called, forwarded, owed, dropped>>
responseVars == <<responding, headSent, garbled>>
parserVars == <<pushes, heads, returned, unread>>
eventVars == <<raised, seen>>
stateVars == <<socketState, destroyed, original, request>>
vars == <<writeVars, stateVars, responseVars, parserVars, eventVars>>

Names == {"lookup", "connect", "ready", "data", "end", "error", "close"}

\* An event: the last response it has a part of, and the one whose listeners it
\* waits for.
Event == [name : Names, of : 0..MaxHeads, behind : 0..MaxHeads]

TypeOK ==
  /\ written \in 0..MaxWrites
  /\ buffer \in Seq(Writes)
  /\ uncalled \subseteq ToSet(buffer)
  /\ called \in [Writes -> Nat]
  /\ forwarded \in Seq(Writes)
  /\ owed \subseteq ToSet(forwarded)
  /\ dropped \subseteq Writes
  /\ socketState \in {"unknown", "mock", "passthrough"}
  /\ destroyed \in BOOLEAN
  /\ original \in BOOLEAN
  /\ request \in {"none", "asking", "internal", "decided", "stuck"}
  /\ responding \in {"no", "reading", "retrying", "done"}
  /\ headSent \in BOOLEAN
  /\ garbled \in BOOLEAN
  /\ pushes \in 0..MaxPushes
  /\ heads \in 0..MaxHeads
  /\ returned \subseteq 1..heads
  /\ unread \in Seq([name : Names, of : 0..MaxHeads])
  /\ raised \in Seq(Event)
  /\ seen \in Seq(DOMAIN raised)

Init ==
  /\ written = 0
  /\ buffer = <<>>
  /\ uncalled = {}
  /\ called = [w \in Writes |-> 0]
  /\ forwarded = <<>>
  /\ owed = {}
  /\ dropped = {}
  /\ socketState = "unknown"
  /\ destroyed = FALSE
  /\ original = FALSE
  /\ request = "none"
  /\ responding = "no"
  /\ headSent = FALSE
  /\ garbled = FALSE
  /\ pushes = 0
  /\ heads = 0
  /\ returned = {}
  /\ unread = <<>>
  /\ raised = <<>>
  /\ seen = <<>>

-----------------------------------------------------------------------------
(* Events.                                                                 *)

\* emit(): once a response has been announced, events wait for its listeners.
Raise(names, of, behind) ==
  /\ raised' = raised \o [i \in 1..Len(names) |->
                            [name |-> names[i], of |-> of, behind |-> behind]]
  /\ seen' = IF behind # 0 THEN seen
             ELSE seen \o [i \in 1..Len(names) |-> Len(raised) + i]

Emit(names) == Raise(names, 0, heads)

\* The listeners of a response return, or one of them throws.
ListenersReturn(h) ==
  /\ h \in (1..heads) \ returned
  /\ returned' = returned \cup {h}
  /\ UNCHANGED <<writeVars, stateVars, responseVars, pushes, heads, unread, eventVars>>

\* Events that wait for the same listeners are emitted in the order raised.
EmitDeferred(n) ==
  /\ n \in DOMAIN raised \ ToSet(seen)
  /\ raised[n].behind \in returned
  /\ \A m \in 1..(n - 1) : m \in ToSet(seen) \/ raised[m].behind # raised[n].behind
  /\ seen' = Append(seen, n)
  /\ UNCHANGED <<writeVars, stateVars, responseVars, parserVars, raised>>

\* The stream takes what is pushed, unless it is destroyed.
Queue(names, of) ==
  unread' = IF destroyed THEN unread
            ELSE unread \o [i \in 1..Len(names) |-> [name |-> names[i], of |-> of]]

\* push(): the parser sees a chunk before the stream does, which raises it at once
\* if it flows and is empty.  The heads found are announced one after the other, the
\* last one is waited for, unless another interceptor handles the request.
PushBeforeParsing(n, tail) ==
  /\ pushes < MaxPushes
  /\ pushes' = pushes + 1
  /\ heads' = IF request = "internal" THEN heads ELSE heads + n
  /\ heads' <= MaxHeads
  /\ \/ /\ ~destroyed /\ unread = <<>>
        /\ Raise(<<"data">>, heads', heads)
        /\ Queue(tail, heads')
     \/ Queue(<<"data">> \o tail, heads') /\ UNCHANGED eventVars
  /\ UNCHANGED returned
Push(n, tail) ==
  /\ pushes < MaxPushes
  /\ pushes' = pushes + 1
  /\ heads' = IF request = "internal" THEN heads ELSE heads + n
  /\ heads' <= MaxHeads
  /\ \/ /\ ~destroyed /\ unread = <<>>
        /\ Raise(<<"data">>, heads', heads')
        /\ Queue(tail, heads')
     \/ Queue(<<"data">> \o tail, heads') /\ UNCHANGED eventVars
  /\ UNCHANGED returned

\* The stream flows, or flows again; its end is an event of a later tick.
Read ==
  /\ ~destroyed
  /\ unread # <<>>
  /\ Raise(<<Head(unread).name>>, Head(unread).of, heads)
  /\ unread' = Tail(unread)
  /\ UNCHANGED <<writeVars, stateVars, responseVars, pushes, heads, returned>>

-----------------------------------------------------------------------------
(* The writes of the request.                                              *)

\* The client writes nothing to a destroyed socket.
Room == IF destroyed THEN 0 ELSE MaxWrites - written

\* flushWriteBuffer(): every callback is called and forgotten.  A callback may write
\* again; what it writes is in the buffer and reached by the same loop.
FlushKeepingCallbacks(old, left) ==
  \E n \in 0..Room :
    LET new == [i \in 1..n |-> written + i] IN
    /\ written' = written + n
    /\ buffer' = old \o new
    /\ called' = [w \in Writes |->
                    IF w \in left \cup ToSet(new) THEN called[w] + 1 ELSE called[w]]
    /\ uncalled' = left
FlushWriteBuffer(old, left) ==
  \E n \in 0..Room :
    LET new == [i \in 1..n |-> written + i] IN
    /\ written' = written + n
    /\ buffer' = old \o new
    /\ called' = [w \in Writes |->
                    IF w \in left \cup ToSet(new) THEN called[w] + 1 ELSE called[w]]
    /\ uncalled' = {}

\* passthrough(): the buffer is handed to the original socket, with the callbacks
\* that are left.
ForwardInto(old, left) ==
  /\ socketState' = "passthrough"
  /\ \/ /\ destroyed
        /\ buffer' = old
        /\ uncalled' = left
        /\ UNCHANGED <<forwarded, owed, original>>
     \/ /\ ~destroyed
        /\ original' = TRUE
        /\ forwarded' = forwarded \o old
        /\ owed' = owed \cup left
        /\ buffer' = <<>>
        /\ uncalled' = {}

\* The client writes before the socket is in passthrough.  The write may complete the
\* head of the request: the request is handled, or, if another interceptor handles
\* it already, passed on at once.
WriteBuffered ==
  /\ Room > 0
  /\ socketState # "passthrough"
  /\ written' = written + 1
  /\ LET new == Append(buffer, written + 1)
         left == uncalled \cup {written + 1}
     IN  \/ /\ buffer' = new
            /\ uncalled' = left
            /\ \/ request = "none" /\ request' = "asking"
               \/ UNCHANGED request
            /\ UNCHANGED <<forwarded, owed, original, socketState>>
         \/ /\ request = "none"
            /\ request' = "internal"
            /\ ForwardInto(new, left)
  /\ UNCHANGED <<called, dropped, destroyed, responseVars, parserVars, eventVars>>

\* In passthrough a chunk is forwarded.  An empty one is not: its callback is lost.
WriteForwardedAndBuffered ==
  /\ Room > 0
  /\ socketState = "passthrough"
  /\ written' = written + 1
  /\ forwarded' = Append(forwarded, written + 1)
  /\ owed' = owed \cup {written + 1}
  /\ buffer' = Append(buffer, written + 1)
  /\ uncalled' = uncalled \cup {written + 1}
  /\ UNCHANGED <<called, dropped, stateVars, responseVars, parserVars, eventVars>>
WriteForwarded ==
  /\ Room > 0
  /\ socketState = "passthrough"
  /\ written' = written + 1
  /\ \/ /\ forwarded' = Append(forwarded, written + 1)
        /\ owed' = owed \cup {written + 1}
        /\ UNCHANGED dropped
     \/ /\ dropped' = dropped \cup {written + 1}
        /\ UNCHANGED <<forwarded, owed>>
  /\ UNCHANGED <<buffer, uncalled, called, stateVars, responseVars, parserVars,
                 eventVars>>

\* Somebody reads the stream of the request body.
ReadRequestBody ==
  /\ request # "none"
  /\ socketState # "passthrough"
  /\ FlushWriteBuffer(buffer, uncalled)
  /\ UNCHANGED <<forwarded, owed, dropped, stateVars, responseVars, parserVars,
                 eventVars>>
\* In passthrough the buffer is empty unless the socket was destroyed before.
ReadRequestBodyLate ==
  /\ request # "none"
  /\ socketState = "passthrough"
  /\ called' = [w \in Writes |-> IF w \in uncalled THEN called[w] + 1 ELSE called[w]]
  /\ uncalled' = {}
  /\ UNCHANGED <<written, buffer, forwarded, owed, dropped, stateVars, responseVars,
                 parserVars, eventVars>>

-----------------------------------------------------------------------------
(* The outcome of the request.                                             *)

\* onRequest(): nobody has answered.
PassThrough ==
  /\ request = "asking"
  /\ request' = "decided"
  /\ ForwardInto(buffer, uncalled)
  /\ UNCHANGED <<written, called, dropped, destroyed, responseVars, parserVars,
                 eventVars>>

\* errorWith(), with an error: "error" is raised before the socket is destroyed,
\* and again if it was.
DestroyWithError ==
  /\ destroyed' = TRUE
  /\ Emit(IF destroyed THEN <<"error">> ELSE <<"error", "close">>)
  /\ UNCHANGED <<writeVars, socketState, original, responseVars, parserVars>>

\* onError(); a mocked Response.error() is ignored on a destroyed socket.
ErrorWith ==
  /\ request = "asking"
  /\ request' = "decided"
  /\ DestroyWithError

\* onError() with anything but an Error does nothing at all.
IgnoreError ==
  /\ request = "asking"
  /\ request' = "stuck"
  /\ UNCHANGED <<writeVars, socketState, destroyed, original, responseVars,
                 parserVars, eventVars>>

\* respondWith(): the connection is made up and the buffer flushed; then the body
\* is read, once more after a failure.
StartUnflushed(next) ==
  /\ ~destroyed
  /\ Emit(<<"lookup", "connect", "ready">>)
  /\ socketState' = "mock"
  /\ responding' = next
  /\ headSent' = FALSE
  /\ garbled' = headSent
  /\ UNCHANGED <<writeVars, destroyed, original, parserVars>>
Start(next) ==
  /\ ~destroyed
  /\ Emit(<<"lookup", "connect", "ready">>)
  /\ socketState' = "mock"
  /\ FlushWriteBuffer(buffer, uncalled)
  /\ responding' = next
  /\ headSent' = FALSE
  /\ garbled' = headSent
  /\ UNCHANGED <<forwarded, owed, dropped, destroyed, original, parserVars>>

RespondWith ==
  /\ request = "asking"
  /\ request' = "decided"
  /\ \/ Start("reading")
     \/ destroyed /\ UNCHANGED <<writeVars, socketState, destroyed, original,
                                 responseVars, parserVars, eventVars>>

Decide == PassThrough \/ ErrorWith \/ IgnoreError \/ RespondWith

\* "error" destroys the ServerResponse, when it is emitted: what is written to it
\* then goes nowhere.
Severed == \E i \in DOMAIN seen : raised[seen[i]].name = "error"

\* A write to the ServerResponse is pushed, the first one with the head.  A head in
\* the middle of another response is no head to the parser.  A destroyed socket
\* still parses what is pushed.
ServerWrite(tail) ==
  \/ Severed /\ UNCHANGED <<parserVars, eventVars, headSent>>
  \/ /\ ~Severed
     /\ headSent' = TRUE
     /\ Push(IF headSent \/ garbled THEN 0 ELSE 1, tail)

RespondChunk ==
  /\ responding \in {"reading", "retrying"}
  /\ ServerWrite(<<>>)
  /\ UNCHANGED <<writeVars, stateVars, responding, garbled>>

\* The end of the body: what is left is written, the head if there was no chunk, and
\* the socket is closed unless the connection is to be kept alive.
RespondEnd ==
  /\ responding \in {"reading", "retrying"}
  /\ responding' = "done"
  /\ \E tail \in {<<>>, <<"end">>} :
       \/ ServerWrite(tail)
       \/ /\ headSent
          /\ Queue(tail, heads)
          /\ UNCHANGED <<pushes, heads, returned, eventVars, headSent>>
  /\ UNCHANGED <<writeVars, stateVars, garbled>>

\* The body fails: respondWith() starts over with a response of its own, whatever
\* has been sent.
RespondFails ==
  /\ responding = "reading"
  /\ \/ Start("retrying")
     \/ /\ destroyed
        /\ responding' = "done"
        /\ UNCHANGED <<writeVars, socketState, destroyed, original, headSent, garbled,
                       parserVars, eventVars>>
  /\ UNCHANGED request

\* The application destroys the socket, by aborting the request for example.
Destroy ==
  /\ ~destroyed
  /\ \/ DestroyWithError
     \/ /\ destroyed' = TRUE
        /\ Emit(<<"close">>)
        /\ UNCHANGED <<writeVars, socketState, original, responseVars, parserVars>>
  /\ UNCHANGED request

-----------------------------------------------------------------------------
(* The original socket (external).                                         *)

OriginalCallsBack(w) ==
  /\ w \in owed
  /\ owed' = owed \ {w}
  /\ called' = [called EXCEPT ![w] = @ + 1]
  /\ UNCHANGED <<written, buffer, uncalled, forwarded, dropped, stateVars,
                 responseVars, parserVars, eventVars>>

\* Its data is pushed.  A chunk may have a part of a head only, or more than one, as
\* a response may follow informational ones.
OriginalData ==
  /\ original
  /\ \E n \in 0..2 : Push(n, <<>>)
  /\ UNCHANGED <<writeVars, stateVars, responseVars>>

\* Its events are emitted.
OriginalEnds ==
  /\ original
  /\ ~ \E n \in DOMAIN raised : raised[n].name = "end"
  /\ Raise(<<"end", "close">>, heads, heads)
  /\ UNCHANGED <<writeVars, stateVars, responseVars, parserVars>>

Client == WriteBuffered \/ WriteForwarded \/ Destroy
Response == RespondChunk \/ RespondEnd \/ RespondFails
Original == OriginalData \/ OriginalEnds \/ \E w \in Writes : OriginalCallsBack(w)

Next ==
  \/ Client
  \/ ReadRequestBody \/ ReadRequestBodyLate
  \/ Decide
  \/ Response
  \/ Original
  \/ Read
  \/ \E h \in Heads : ListenersReturn(h)
  \/ \E n \in DOMAIN raised : EmitDeferred(n)

Spec == Init /\ [][Next]_vars

-----------------------------------------------------------------------------
(* Properties.                                                             *)

\* A write callback is called at most once, though the buffer is flushed when the
\* body is read, when the request is mocked, and into the original socket.
CallbackOnce == \A w \in Writes : called[w] <= 1

\* The original socket gets every write, in order and once: those buffered before
\* the request was passed on, those made by callbacks, and those made since.
PassedOnComplete ==
  original =>
    /\ buffer = <<>>
    /\ ToSet(forwarded) = (1..written) \ dropped
    /\ \A i, j \in DOMAIN forwarded : i < j => forwarded[i] < forwarded[j]

\* What has a part of a response is seen when the listeners of that response have
\* returned.  The exception is a later response announced before the stream made an
\* event of it, by the same chunk or while it was not read: then only the listeners of
\* the later one have.  Events are seen in the order raised unless the listeners of a
\* later response return first.
ListenersFirst ==
  /\ \A i \in DOMAIN seen :
       LET e == raised[seen[i]]
       IN  e.of \in returned \cup {0} \/ (e.of < e.behind /\ e.behind \in returned)
  /\ \A i, j \in DOMAIN seen :
       i < j /\ seen[j] < seen[i] => raised[seen[j]].behind < raised[seen[i]].behind

\* A callback of a write made before the request is decided is called in the end, if
\* the request is decided with an outcome and the socket not destroyed.
OthersAreLive ==
  WF_vars(Decide) /\ \A w \in Writes : WF_vars(OriginalCallsBack(w))
CallbacksCome ==
  OthersAreLive =>
    \A w \in Writes :
      w \in uncalled /\ request = "asking" ~>
        called[w] > 0 \/ destroyed \/ request = "stuck"
=============================================================================
