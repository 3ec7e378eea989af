# TLA+ models of @mswjs/interceptors and its #753 testbed

The repository is a fork of `@mswjs/interceptors`, a library that intercepts
outgoing requests (`http.ClientRequest`, `fetch`, `XMLHttpRequest`, `WebSocket`) and
lets a developer answer them, together with a testbed for issue #753: `read EINVAL`
and `write ECANCELED` when a request is performed as-is. This directory holds TLA+
modules of its core logic, the configurations that model-check them and proofs of
their main invariants.

Paths below are relative to the repository.

## Inventory

| component | state | operations | talks to |
|---|---|---|---|
| Interceptor (`src/Interceptor.ts`) | `readyState`, `subscriptions`, `emitter`, the global symbol, the overridden `on` | `apply`, `dispose`, `on`, `once`, `off`, `removeAllListeners` | the patched global; other instances of the class through the symbol |
| Request handling (`src/utils/handleRequest.ts`, `src/RequestController.ts`, `src/utils/emitAsync.ts`) | `kRequestHandled`, `kResponsePromise`, the emitter's listeners, the abort promise | `handleRequest`, `respondWith`, `errorWith` | the developer's listeners; the callbacks of an interceptor |
| Mock socket (`src/interceptors/ClientRequest/MockHttpSocket.ts`, `src/interceptors/Socket/MockSocket.ts`) | `socketState`, `writeBuffer`, `originalSocket`, the borrowed `_handle`, `responseListenersPromise`, two parsers | `write`, `push`, `_read`, `emit`, `destroy`, `passthrough`, `respondWith`, `errorWith` | Node's `net`/`tls` socket, `http.ClientRequest`, request handling |
| ClientRequest interceptor and agents | none of their own | `setup`, `onRequest`, `onResponse`, `createConnection` | mock socket, request handling |
| fetch (`src/interceptors/fetch`) | the response promise of a call, the redirect count of a request | the patched `fetch`, `followFetchRedirect`, decompression | request handling |
| XMLHttpRequest (`src/interceptors/XMLHttpRequest`) | `kIsRequestHandled`, `readyState`, `responseBuffer`, the recorded listeners | `open`, `send`, `respondWith`, `errorWith`, `trigger` | request handling |
| WebSocket (`src/interceptors/WebSocket`) | `readyState` of the client, the real socket, two abort controllers, the passthrough promise | `send`, `close`, `connect`, the forwarding of messages and closures | the developer's connection listeners, the real server |
| BatchInterceptor (`src/BatchInterceptor.ts`) | its children | forwards everything to its children | interceptors |
| Remote interceptor and resolver (`src/RemoteHttpInterceptor.ts`) | the message listeners of two processes | request and response messages | IPC channel, request handling |
| Raw headers (`src/interceptors/ClientRequest/utils/recordRawHeaders.ts`) | a recorded list for each `Headers` instance | the patched `Headers`, `Request`, `Response` | ClientRequest |
| Candidate fixes (`latest/apply-fix.mjs`) | – | `readnoop`, `readnoop-noalias`, `noalias-only`, `getter`, `revert757` | mock socket |

What makes it hard, and what each part must get right:

* **Mock socket.** In passthrough a second, original socket does the work, and the mock
  socket borrows its handle. Both may read from it and both close it; the original
  replaces it when a connection attempt times out. Correct: neither closes the handle
  the other works with, no connection is abandoned, no listeners pile up, and the
  consumer learns the end of the connection, unless a `response` listener hangs.
* **Request handling.** Concurrent requests share one emitter; listeners are added and
  removed while emissions are under way; abortion, an answer, a throw and the end of
  the listeners race. Correct: a request passes through only when all its listeners
  have declined, the first answer decides, and every request settles.
* **Life cycle.** Instances come and go in any order around one global symbol and one
  patched global. Correct: the patch follows the running instance, disposing undoes it,
  and takes away the listeners an instance has added to others.
* **WebSocket.** Messages and closures travel in both directions between the
  application's socket and any number of real ones, most of them through microtasks, and
  everybody may close or connect again in between. Correct: the application's socket
  behaves like a WebSocket, messages are neither reordered nor doubled, and a closure
  reaches the other side once.
* **Writes and responses of the mock socket.** Writes are buffered until the request is
  decided, and their callbacks, which may write again, are called by whoever comes first:
  a reader of the body, a mocked response, the original socket. Events are held back
  while `response` listeners run. Correct: a callback is called once, the original
  socket gets every write in order, and the application sees a response after the listeners.
  Two responses in one chunk, or a stream read late, weaken the last.
* **XMLHttpRequest.** A mocked response is played back across several awaits while the
  application may abort or open the object; a flag decides whether the request is also
  performed. Correct: one outcome, events in the order of the standard, and an end.
* **fetch.** Mocked redirects make further calls of `fetch()`. Correct: credentials stay
  with their origin and the promise settles.
* **Remote interceptor.** Two processes, a channel in each direction, listeners that are
  never removed. Correct: a request gets the response made for it, once.

## Modules

| module | models | composed with |
|---|---|---|
| `HandleSharing` | the handle of a request performed as-is: `MockHttpSocket.passthrough`, `_read`, `destroy`, the forwarded events; `net.Socket` as the environment | – |
| `RequestHandling` | `handleRequest`, `RequestController`, `emitAsync` for concurrent requests on one emitter | – |
| `InterceptorLifecycle` | `Interceptor.apply`, `dispose` and listening, for all the instances of a class | – |
| `WebSocketBridge` | one intercepted WebSocket: `WebSocketOverride`, `WebSocketClassTransport`, the client and server connections, the real WebSockets | implements `ClientSocket` |
| `ClientSocket` | what the socket of the application promises, whatever goes on behind it | – |
| `SocketPipeline` | one request on the mock socket: write buffer, `passthrough`, `respondWith`, deferred events, `onRequest` and `onResponse` of the interceptor | takes the outcomes of `RequestHandling` as its `Decide` |
| `XhrController` | one `XMLHttpRequest`: `XMLHttpRequestController` and the callbacks of `XMLHttpRequestProxy` | the same |
| `FetchResponse` | one `fetch()` and the calls its mocked redirects make | the same |
| `RemoteIPC` | children with `RemoteHttpInterceptor`, their channels, a `RemoteHttpResolver` for each | implements `RemoteRequest` |
| `RemoteRequest` | what a request answered by another process may come to | – |
| `HandleSharingProofs`, `RequestHandlingProofs`, `InterceptorLifecycleProofs`, `WebSocketBridgeProofs`, `SocketPipelineProofs`, `FetchResponseProofs`, `RemoteIPCProofs`, `XhrControllerProofs` | the theorems about them | extend their module |
| `MCHandleSharing`, `MCRequestHandling`, `MCInterceptorLifecycle`, `MCWebSocketBridge`, `MCSocketPipeline`, `MCXhrController`, `MCFetchResponse`, `MCRemoteIPC` | small instances for TLC | extend their module |

### HandleSharing

`attempt` numbers the connection attempts of the original socket; an attempt's number
also names its handle, so that the handle the original works with is always `attempt`.
`closed` and `reading` are the states of the native handles. `mockHandle` is the
mock's `_handle`, read once in `passthrough()`. `wantsRead` says that the
stream may call `_read`; it is restored by every pushed chunk. `origEvents` are events the
original socket has scheduled but not emitted. The actions are `Read` (`_read`),
`Passthrough`, `Destroy` and `EmitClose` on the side of the mock socket, `NextAttempt`
(Happy Eyeballs replaces the handle), `Connect`, `Data`, `Write`, `Canceled`, `PeerEnds` on
the side of the original one, and `Forward`, the `error` and `close` listeners that
`passthrough()` adds to it. `build` selects the code: `readNoop` is the branch of
`MSW_USE_FIX` in `_read`; `alias` is true for the code as it is and false for
what `latest/apply-fix.mjs` makes of it with `readnoop-noalias` and `noalias-only`.
`heads` counts the response heads the mock socket has found, `returned` those whose `response`
listeners have returned, and `deferred` holds the events that wait for them: from the first
head on `emit()` puts every event, so `error` and `close` too, behind the promise of the latest
head's listeners, which is never cleared. `EmitClose`, `Forward` and the `error` of a destroyed
mock socket go through `EmitsAtOnce` and `Later`; `EmitDeferred` emits what was held back.
The behaviour of `net.Socket` and of the TLS layer is external and modelled as far as the
mock socket depends on it: `_read` without a handle waits for `connect`, starting a
closed handle is `EINVAL`, closing a handle under a pending write is `ECANCELED`.

### RequestHandling

`handleRequest()` registers a one-time listener, the *sentinel*, after all the others;
`registered` is the emitter's list, in which a request stands for its own sentinel.
`todo` is the copy of the list that `emitAsync()` walks; its head is the listener that
runs. `Start` registers the sentinel and takes the copy in one step, since there is no
`await` in between. `ListenerReturns`, `ListenerThrows`, `Answer`, `Abort`, `On` and `Off`
belong to the developer; `RunSentinel`, `Wake` (after `Promise.race()`) and
`WakeFromException` to the library. The second controller and the emission of
`unhandledException` are `xTodo`, `xHandled` and `xResponse`. `outcome` is the callback
`handleRequest()` has called, or its result: `passthrough` stands for `false`.

### InterceptorLifecycle

`running` is the instance stored under the global symbol. `installed` is the stack of
patches the global goes through, and `undos` what the subscriptions of an instance would
restore. `proxy` records whose emitter an overridden `on()` adds to, `appended` the
subscriptions that take those listeners away again. `given`, `foreign` and `late` are history
variables. `late` is for a gap the model shows: `on()` stays overridden after `dispose()`, so
that a disposed instance can still be listened with. It adds a listener to the instance it proxies to
and a subscription, and `dispose()` of a disposed instance returns before it runs any. The
comment at `Interceptor.ts:113`, "once this interceptor instance is disposed, it removes all
listeners it has appended", does not hold for these. `style` tells apart how a class reacts to a global that is patched already:
ClientRequest and WebSocket wrap it (`stack`), XMLHttpRequest throws (`throw`), and fetch
rejects a promise nobody looks at (`reject`). Every method is synchronous, so that every
action is a whole call.

### WebSocketBridge

`client` is the `readyState` of the `WebSocketOverride`, `real` the WebSockets that
`createConnection()` makes, of which the last is `realWebSocket`; `pending` are the
messages delegated to its `open` listeners. `jobs` is the microtask queue: everything
the code defers with `queueMicrotask()`, and the continuations of `emitAsync()`. `calls`
is what is left of the listeners of the event being dispatched, in the order in which they
were added: `flush` sends a pending message, `deliver` fires the client's `message`,
`mockClose` and `realClose` are `handleMockClose()` and `handleRealClose()`. `opening`
is the continuation that waits for `kPassthroughPromise`; `aborted` holds the aborted
ones of `mockCloseController` and `realCloseController`. `late`, `blame` and `seen` are
history: a connection made for a closed client, whose closure closed the client, and
what the application was told.

`UserTurn` says when the application or the developer acts: in a task or microtask of
their own, or in a listener of theirs, which is why `YieldTo` lets them in between two
listeners. `Run...` and `Proceed...` are microtasks, `MockClose`, `Flush`, `Deliver` and
`RealClose` listeners, `RealOpen`, `RealMessage`, `RealCloses` and `RealFails` events of the
network. A developer can prevent an event from being forwarded; each action that would
forward one has both outcomes.
The real WebSocket is external: it follows the WHATWG standard, delivers no message while
it is closing, and reports a failure by `error` and `close`. `platform` tells apart
who runs microtasks between the listeners of its events: a browser does, Node.js, whose
WebSocket is written in JavaScript, does not.

`ClientSocket` has three actions. `ImplementsClientSocket` maps `client` to its
`readyState` and what the application has seen to its counters. When nobody listens,
`open` comes from the real WebSocket and the `readyState` of the client stays `CONNECTING`,
so that this `open` is not counted.

### SocketPipeline

Writes are numbered in the order in which they are made. `buffer` is `writeBuffer`, `uncalled` the
entries that still have their callback, `owed` the callbacks handed to the original
socket. `FlushWriteBuffer` calls all of them and lets each write again: the loop of the code walks
the array it appends to, so that new entries are reached as well. `ForwardInto` is `passthrough()`,
which stops early on a destroyed socket; `WriteBuffered` includes `onRequestStart()`, which
the request parser may call within a write, and which passes a request of another
interceptor (`internal`) on at once.

An event is raised by `emit()` and emitted at once, or when the listeners it waits for have
returned. `behind` is the response whose promise `responseListenersPromise` was when the event was raised, `of`
the response it belongs to. `Push` lets the parser see a chunk first, as `MockSocket.push`
does: a head it announces is what the chunk's own `data` event then waits for. A chunk may hold
two heads, of an informational response and the final one: each is announced, and the second
promise replaces the first (`MockHttpSocket.ts:966`), so that the data waits for the listeners of the
second only. `unread` is the buffer of the stream: what is pushed while it does not flow becomes
an event in `Read`, and waits for whatever response is the last by then. This is the exception
in `ListenersFirst`: data may reach the application before the listeners of its own response
have returned if a later one was announced before the data became an event. The comment in
`onResponseStart()` (`MockHttpSocket.ts:934`), "delays the emission of "end" and other events until
those response listeners are finished", holds for the last response only.
`Start` is the beginning of `respondWith()`, `RespondChunk`, `RespondEnd` and `RespondFails` the
loop that reads the body, its end, and its `catch`, which calls `respondWith()` again;
`headSent` and `garbled` say whether a second head falls into the middle of the first response.
One socket serves one request, as the agents are made without `keepAlive`.

### XhrController

`native` is the ready state of the object the proxy wraps. `shadow` is the property that
`define()` puts over it, which stays from the first mocked ready state on. `phase` is kept for
each call of `send()`: `asking` while `handleRequest()` runs; `upload`, `measuring` and
`streaming` are the awaits of `respondWith()`; `settling` means that the request callback
returned without an answer. `Perform` is the `finally()` callback and may run during the
playback of the body, which nobody awaits. `Play` triggers the events of one step and stops at a
listener that throws. `Announced` is the `load` listener each `send()` adds, which announces the response
to the developer. The native request is external: `NativeHeaders`, `NativeBody`, `NativeLoad`
and `NativeFails` follow the standard.

`open()` and `abort()` may be called at any time, also while a use is under way. `EventOrder`,
`NativeStaysOut` and `EverySendEnds` have one condition, `clean`: whenever `send()` is called, the
uses before it are over, all of them were performed as-is, and the object is open. Without it the code
violates them, in these ways:

* A use is under way: `open()`, `send()` with a slow listener, `open()`, `send()`. If the listeners
  decline the first use its `finally()` performs the native request, as the object is open; if they mock
  the second one, it is played back too, and the events of both mix.
* A use was mocked: `kIsRequestHandled` is never reset, so that a second request nobody
  answers is dropped without any event; and a second mocked response fails where it redefines the
  getters, which are not configurable.

`EverySendEnds` also excuses a use whose native request is taken back by `open()` before an answer. An
error that is no `Error` is not reported, and the request is performed as-is.

### FetchResponse

`calls` is the chain of calls: the first is the application's, each other one was made by
`followFetchRedirect()`. A call is `asking` in `handleRequest()`, then `answering` (the
`response` listeners are awaited), `excusing` (they are not: `handleRequest()` hands out the
500 response of an exception without waiting), `following`, or `native`. After `dispose()`
the next call of a chain is `plain`: it goes to the original `fetch()`.

The request that follows a redirect is new and keeps only the headers: mode, redirect mode and
signal are the defaults, and the method is `GET`, for a redirected `PUT` without a body too. The count of redirects is
kept on the request, which is never seen again, so that the limit of 20 is never met: a
chain of mocked redirects that never ends is followed for ever, and its promise never settles. The
model follows `MaxCalls` calls; a redirect from the last is `beyond`, which
`EveryCallSettles` excuses by name.
If a `request` listener throws and a `response` listener throws for the 500 response that
follows, nothing settles the promise (`hanging`).

### RemoteIPC and RemoteRequest

`stage` is how far the interceptor's `request` listener is with a request (`released`: a message
that is no answer has ended its wait), `outcome` what came of the request, `own` and
`mocked` the two ways in which its controller has been used. `listening` are the message
listeners of the child, `latest` the one variable that `dispose()` removes. `toParent` and `toChild` are the
channels. In the parent, `attached` counts the listeners of a resolver; it may be 0, because resolvers share
one symbol and a second one only proxies, or 2, after the symbol was freed in between
(see `InterceptorLifecycle`). `asking` counts the calls of `handleRequest()` for a request,
which end in `Reply` or, without telling the child, in `Leave` (nobody answers) or `Reject`
(`onRequestError()` and `onError()` throw "Not implemented", or the body of a response fails).
Nobody awaits `handleChildMessage()`, so that a rejection is unhandled: it ends the parent
(`parentUp`), unless the application handles such rejections. What then becomes of the children,
whose channel closes, is left out.
`DeliverTwice` is a message event in which `respondWith()` throws, which ends the process.

`RemoteRequest` allows a request one end: mocked by its own response, ended elsewhere, or
performed as-is after a message that is no answer. `ImplementsRemoteRequest` maps
`spoiled` to the released requests. An answer is recognised by `startsWith()` without the colon that
ends the id (`RemoteHttpInterceptor.ts:79`). `Concerns` compares ids as wholes: that one id is the
beginning of another is left out, since ids are random and about a dozen digits long.

## Runs

| run | question | result |
|---|---|---|
| `handle_sharing` | Which variants of the mock socket fail, leak or stay silent? | `EINVAL` needs alias, inherited `_read` and a replaced handle; `ECANCELED` needs the alias only; without alias *and* without the no-op `_read` the listeners pile up; no variant abandons a connection; the consumer is told that the original connection is gone, unless a `response` listener hangs |
| `request_handling` | Can concurrent requests disturb each other? | no: sentinels of other requests are run and removed without effect; every request settles unless a listener hangs |
| `interceptor_lifecycle` | Does the patch follow the running instance? | yes, unless an instance that has patched nothing is disposed while another one runs; the listeners an instance adds to others go with its `dispose()`, except those added afterwards |
| `websocket_bridge` | Is the application's socket a WebSocket, and do messages and closures get across? | yes: its state only advances and every closure is finished; messages keep their order (in Node.js) and are sent once; the only connection closes with the client; `server.close()` does not close it |
| `socket_pipeline` | Are writes and events of the mock socket kept in order? | yes: a callback is called once at most, and once if the request is decided and the socket stays; the original socket gets every write but empty ones made in passthrough, whose callbacks are lost; what belongs to a response follows its listeners, or those of a later response announced before it was read |
| `xhr_controller` | Does the application see a proper XMLHttpRequest? | yes on first use, and on further uses after requests that are over and were performed as-is; not if `send()` is called again while a use is under way or after a mocked one (see above) |
| `fetch_response` | Do credentials stay, and does the promise settle? | credentials stay; the promise settles unless listeners of both events throw or mocked redirects go on for ever |
| `remote_ipc` | Does a request get its own response, once? | yes; a child crashes only if a request has been answered twice, and a request waits for ever only if the parent did not answer it or has ended, or the child is gone or disposed, provided that bodies end and listeners of both processes return |
| `handle_destroy` | Does destroying the mock socket destroy the original? | not without an error (finding) |
| `error_without_reason` | Is `errorWith()` honoured? | not without a reason (finding) |
| `interceptor_dispose` | Does `dispose()` undo the patch? | not after another instance freed the symbol (finding) |
| `websocket_close` | Does closing the client close the original connection? | not if the client closed before the connection was made (finding) |

**Bounds.** `handle_sharing` has three addresses, so that the handle is replaced twice, and
three chunks, enough to tell one `connect` listener from a growing number; all four builds
are checked in one run. `MaxHeads = 2` lets an event wait for the second of two responses;
`handle_destroy` needs none. `request_handling` has two requests and one listener that comes and
goes: a third request would only be one more foreign sentinel. Answers are a response and
`errorWith()` without a reason, which are the two classes `handleResponse()` tells apart as
far as the flow goes; what is thrown is a second answer's `InterceptorError` or an
exception, the two that leave the normal flow; there is at most one `unhandledException`
listener. `interceptor_lifecycle` has three instances, one that runs and two that proxy;
`MaxPatches = 2` lets patches pile up, `MaxListeners = 2` lets each proxying instance add a
listener, `MaxUndos` and `MaxGiven` are 1. Instances are interchangeable, hence the
symmetry set; no liveness property is checked under it. `websocket_bridge` has two real
WebSockets, the least that lets a developer connect again while the first one closes, and
two calls of `send()` altogether, enough for two messages of the same kind to overtake each
other or for one to fall on either side of a closure. Three calls were explored once, without
an error; that takes too long for a routine run.

`socket_pipeline` has three writes, so that one is buffered, one made by a callback and one
forwarded; two heads, an informational response and a final one, or a response and the 500 that
replaces it, which may come in one chunk; and three pushes. `xhr_controller` has two uses and two chunks. `fetch_response` has four
calls, so that a chain can leave its origin, return and leave again; that a chain is longer is seen
and marked, not cut off. `remote_ipc` has two requests of
one child, whose answers may overtake each other, and a resolver that listens up to twice; children share
nothing, so that a second one adds interleavings only. `TypeOK` of these modules is
not an invariant of the run but of the proof.

In a browser the order of the application's messages is not promised: it runs microtasks
between the `open` listeners that send the delegated messages, and a message sent in such a
microtask finds the connection open and overtakes them. `AppMessagesInOrder` is stated of
Node.js only for that reason.

**Deadlock.** A closed socket and a settled request have nothing left to do, so
`handle_sharing`, `request_handling`, `websocket_bridge`, `socket_pipeline`, `xhr_controller`,
`fetch_response` and `remote_ipc` switch the deadlock check off. The life cycle never
ends and is checked for deadlock.

**Fairness.** In `HandleSharing` events that Node has scheduled are emitted, and a canceled
write or connection attempt is reported, and what `emit()` has deferred follows when its promise
settles (`WF` of `EmitClose`, `Forward`, `Canceled`, `EmitDeferred`); nothing is assumed of
the peer and the network. That `response` listeners return is assumed by the two liveness
properties (`OthersAreLive`): a hanging one holds `close` back for ever. In `RequestHandling` the
continuations of promises run (`WF` of `RunSentinel`, `Wake`, `WakeFromException`);
`EveryRequestSettles` assumes in addition, as part of the property, that listeners
return. In `WebSocketBridge` the platform runs queued microtasks and the listeners of an
event (`WF` of `Microtask` and of `Listener`), which is what makes a closure complete; nothing
is assumed of the developer, the application and the network. In `XhrController` and
`FetchResponse` continuations of promises run; in `RemoteIPC` messages under way are delivered
while the process they go to is alive. What has to come from others (listeners that return, in
`RemoteIPC` those of the child and of the parent; streams and bodies of requests that end; a
network that answers) is in each module the formula
`OthersAreLive`, which the liveness property assumes. `SocketPipeline` needs nothing but that. `InterceptorLifecycle` has no liveness property and no fairness.

## Findings

1. `MockHttpSocket.ts:376` says "If the developer destroys the socket, destroy the original
   connection." The listener below waits for `error`, which `destroy()` emits only when it is
   given one. Without an error the original socket stays in use; in the shipped code
   its handle is closed under it, which surfaces as `ECANCELED` only if something was
   pending. Run `handle_destroy`.
2. `RequestController.ts:60` documents `controller.errorWith()`, without a reason, as a way
   to error a request. `handleRequest()` cannot tell it from no answer and performs the request
   as-is. Run `error_without_reason`.
3. `Interceptor.ts:192` promises that `dispose()` disposes of the side-effects of an
   instance. If an instance that has patched nothing, because it proxies or was never applied, was
   disposed first, the running one returns early and its patch stays. Run `interceptor_dispose`.

4. `WebSocketServerConnection.ts:163` says "Close the original connection when the mock
   client closes." The listener is added by `connect()`; in passthrough that happens in a
   microtask after `new WebSocket()` returned, and a client closed by then has had its
   `close` event. The original connection is made all the same, and stays open. Run
   `websocket_close`. `LoneOriginalCloses` and `QuietAfterClose` exclude the case with
   `~late`.

## Proofs

Each `*Proofs` module follows one scheme: `Init => IInv`, `IInv /\ [Next]_vars => IInv'`
with one step per action, and the theorems for the conjuncts of `IInv`.

* **HandleSharing** (any number of addresses and chunks, any set of builds). `IInv` adds
  `Bookkeeping` to the properties: when the mock socket holds a handle, and that it is the
  first one; how `connecting`, `reading` and `orig` relate; and that a stream which waits
  for `connect` has no further read to make, which is what bounds the listeners.
  `CloseIsComing` needs only `TypeOK` and `ClosedByMock`: who has closed the handle, and that
  the callback or the event which leads to `close` is queued, or held
  back by `emit()`, from then on.
* **RequestHandling** (any requests, listeners, answers). `Bookkeeping` says that the own
  sentinel of a request is the last of its emission and occurs once, so that nothing can
  resolve the promise with `undefined` before the last listener returned, and that each
  promise which is awaited has somebody who resolves it. The lemmas on
  `Append`, `Tail` and `RemoveAt` say which elements remain, and that distinct ones stay so.
* **InterceptorLifecycle** (any instances, styles and bounds). `UndosFollowRunning` is the
  strengthening: as long as nobody interferes only the running instance has something to
  restore, and it restores the original. `ListenersAccountedFor` counts subscriptions, and is inductive
  with the finiteness of what it counts (`ListenersOK`): the overridden `on()` adds one
  listener and one subscription, and `dispose()` removes at least as many listeners as subscriptions.
  Subscriptions made after a `dispose()` count for the instances in `late`.

* **WebSocketBridge** (any number of messages and connections). What is queued is the
  strengthening: `JobOK` and `CallOK` say what holds as long as a microtask or a listener
  waits (the client is `CLOSING` while a `close` is queued, a server connection has not yet
  reported the closure that is queued), and `Clash` which microtasks are never queued
  together. From these follow that the application's socket takes only steps of a
  `ClientSocket` (`ClientSocketSafety`), that a server connection reports one closure, and
  that the only connection follows the client. The lemmas about queues say what `Append`,
  `Tail` and concatenation do to them; `MovesIInv`, `CloseIInv`, `EndIInv` and `NetworkIInv`
  treat the actions of one shape together.
  A message passes through a queue of microtasks, a queue of calls, the connection's list of held messages
  and what was sent, and a property of the last place alone is not inductive. `MInv` says of
  every place that its messages rise, and of every two that those in the one come before
  those in the other (`JobsInOrder`, `CallsInOrder`, `MockOrder`, `AppOrder`), and that a socket
  that reported its closure has nothing left that would tell the application something (`Quiet`).
  `DInv` has the two ways of waiting: `ConnectionGoesOn` and `ClosureGoesOn`.

* **SocketPipeline** (any number of writes, heads and pushes). Two invariants that do not depend
  on each other. `WInv`: until the original socket exists the buffer holds every write, from
  then on none (`Buffered`); a request is mocked or passed on, never both (`Stages`); and a
  callback that has been called is neither kept nor owed (`Calls`). `EInv` relates each event
  emitted to those raised before it; with `StreamOK`, by which the stream holds nothing of a response
  that was not announced, it is inductive. `Kept`, which builds on the first, says where the
  callback of each write is.
* **FetchResponse** (any origins, chains of any length). `CredentialsStay` is inductive once only the
  last call is known to be under way (`OnlyLastUnderWay`): the request that follows is
  made from the last one. `Outcomes` and `FrontAt` give the chain its shape: calls that
  follow a redirect, one that does not, and settled ones after it.
* **RemoteIPC** (any number of children and requests). `Orderly` says that a request is in
  one place: not sent, on its way, with one listener of the parent, in one answer on
  its way, or answered. It holds as long as no resolver has listened twice (`SentOnce`), and
  `CrashNeedsTwoAnswers` follows. `Addressed` says that messages travel on the channel of the
  child that made the request and answer the request they were made for; with it and `NotMade` every step is
  one of `RemoteRequest` or a stutter, which gives `Spec => ImplementsRemoteRequest`.
  Most steps only lose messages (`Losing`), and are treated together. `Awaited` says of a
  request that waits that it is listened for, unless the interceptor was disposed of, and is
  somewhere, unless it was lost; `OwnLatest` that `dispose()` removes no other's listener.
* **XhrController** (any number of uses and chunks). `NativeStaysOut` speaks of what is played
  back, which comes after two awaits. `Marked` says that only a request marked as handled is played back;
  `LastUse` that in an XMLHttpRequest used properly the uses before the last were performed,
  that the native request waits until the last one is, and that a handled one never is. With
  `UsesInOrder`, which says that a use is not under way before its `send()`, they are inductive.
  `EventOrder` and `AnnouncedAsAnswered` need to know how far the last use is: `LogOK` bounds the rank
  of the events seen by the phase of the use or the ready state of the native request, so that
  what a step appends comes after them; `ShadowOK` says in which phases the controller has
  set which ready state, and so which events `Transition` skips; `Prepared`, that `finally()` performs
  none that was played. `OrderedConcat` and `OrderedPrefix` put sequences together, the latter for the
  events seen before a listener throws; `PlayEInv` treats all playbacks, `NativeEInv` all
  events of the native request and `SilentEInv` the steps nobody sees. `DInv` adds how each
  use ended and what its next step waits for.

They rest on the assumptions named in the modules, which the runs evaluate. Every safety
invariant a run checks is stated by a theorem.

Left to TLC: the liveness properties (with them the promise of a `ClientSocket` to finish a
closure). They rest on fairness, which is defined by `ENABLED`, and the prover does not reason
about that. Their safe half is proved, with the guards written out: whoever waits does not
wait in vain. Either somebody has a step to make, or what was promised is queued where no
step takes it away.

| liveness property (TLC) | its safe half (TLAPS) |
| --- | --- |
| `HandleSharing`: `DestroyIsAcknowledged`, `CloseReachesConsumer` | `NoCloseLost` |
| `RequestHandling`: `AnsweredRequestsWakeUp`, `EveryRequestSettles` | `NobodyWaitsInVain` |
| `SocketPipeline`: `CallbacksCome` | `NoCallbackForgotten` |
| `FetchResponse`: `EveryCallSettles` | `NobodyWaitsInVain` |
| `RemoteIPC`: `EveryRequestIsAnswered` | `NobodyWaitsInVain` |
| `XhrController`: `EverySendEnds` | `NobodyWaitsInVain` |
| `WebSocketBridge`: liveness of `ImplementsClientSocket` | `NobodyWaitsInVain` |

What these add to the runs is that no number of messages, calls, children or chunks makes a
dead end. What they leave open is that those who can act do, and that they get somewhere.

## Not modelled, and what is left

Left out on purpose: logging, timing, the bytes of requests and responses, memory (the
parser leak of #757), and pure conversions (arguments, URLs, decompression, serialisation).
In particular:

* `HandleSharing`: the `getter` and `revert757` variants of the fix. It is not composed with
  `SocketPipeline`: they share `passthrough()`, `destroy()` and the deferral of events, of which each
  has what its properties depend on.
* `SocketPipeline`: writes to a destroyed mock socket, which `http` does not make; the
  request parser failing on bytes that are no HTTP; data a stream still emits in the tick in which it is
  destroyed.
* `WebSocketBridge`: the codes and reasons of closures, `bufferedAmount`, `binaryType`, the
  sub-protocol, the `on...` setters, and listeners that are removed.
* `XhrController`: the events of `upload`, except that their listeners may throw; `timeout`;
  a native request that is synchronous.
* `RemoteIPC`: the children after the end of their parent; ids that begin alike; a process without a parent, where `process.send` does not exist and the request
  waits for ever; errors of the channel itself.
* `BatchInterceptor` is an `Interceptor` that calls its children, and each of them is an
  `InterceptorLifecycle`; a child that throws leaves the ones before it applied. Raw
  header recording is sequential and about object identity. The reproduction harnesses only
  drive what `HandleSharing` models.

Worth adding: a composition of `RequestHandling` with one of the modules that take its
outcomes.
