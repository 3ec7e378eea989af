--------------------------- MODULE RequestHandling ---------------------------
(***************************************************************************)
(* How an intercepted request gets its outcome.                            *)
(*                                                                         *)
(* handleRequest() registers a last, one-time "request" listener (here     *)
(* called the sentinel) on the interceptor's emitter and emits "request".  *)
(* emitAsync() awaits the listeners one by one.  A listener, or anything   *)
(* it has handed the request controller to, may answer the request.  The   *)
(* sentinel resolves the response promise with undefined, so that a        *)
(* request nobody has answered is performed as-is.  The emission races     *)
(* with the response promise and with the abort signal of the request.     *)
(*                                                                         *)
(* Requests are concurrent and share one emitter: while a request waits    *)
(* for its listeners its sentinel is registered, and is part of what the   *)
(* requests started in the meantime emit to.                               *)
(***************************************************************************)
EXTENDS Naturals, SequencesExt

CONSTANTS
  Requests,          \* the requests
  Listeners,         \* the "request" listeners the developer may add
  Answers,           \* what the developer may answer a request with
  Throwables,        \* what a listener may throw
  ExceptionListeners \* bound: how many "unhandledException" listeners there are

\* respondWith() takes a response or Response.error(); errorWith() takes an
\* Error, any other object, or nothing.
ASSUME AnswersAssumption ==
  Answers \subseteq {"response", "networkError", "error", "object", "nothing"}

\* The InterceptorError of a second answer, a Node.js-like error, a response,
\* Response.error(), or anything else.
ASSUME ThrowablesAssumption ==
  Throwables \subseteq {"interceptorError", "nodeError", "response",
                        "networkError", "exception"}

ASSUME RequestsAssumption == Requests \cap Listeners = {}
ASSUME ExceptionListenersAssumption == ExceptionListeners \in Nat

VARIABLES
  registered,  \* the emitter's "request" listeners, sentinels included: the
               \* sentinel of a request is represented by that request
  xListeners,  \* the number of "unhandledException" listeners
  phase,       \* of each request: where handleRequest() is
  todo,        \* of each request: the listeners emitAsync() has yet to await,
               \* the head being the one that runs
  thrown,      \* what ended the emission of the request
  reached,     \* some listener of the request has had its turn
  handled,     \* the controller's kRequestHandled
  response,    \* the controller's kResponsePromise
  aborted,     \* the request's signal is aborted
  xTodo,       \* the "unhandledException" listeners yet to be awaited
  xHandled,    \* kRequestHandled of the controller made for the exception
  xResponse,   \* kResponsePromise of the controller made for the exception
  outcome      \* what the interceptor was told to do with the request

vars == <<registered, xListeners, phase, todo, thrown, reached, handled,
          response, aborted, xTodo, xHandled, xResponse, outcome>>
xVars == <<xTodo, xHandled, xResponse>>

\* What the interceptor's callbacks and the result of handleRequest() amount to.
Outcomes == {"response", "serverError", "networkError", "error", "object",
             "abort", "passthrough", "rejected"}

TypeOK ==
  /\ registered \in Seq(Listeners \cup Requests)
  /\ xListeners \in 0..ExceptionListeners
  /\ phase \in [Requests -> {"idle", "racing", "exception", "settled"}]
  /\ todo \in [Requests -> Seq(Listeners \cup Requests)]
  /\ thrown \in [Requests -> Throwables \cup {"none"}]
  /\ reached \in [Requests -> BOOLEAN]
  /\ handled \in [Requests -> BOOLEAN]
  /\ response \in [Requests -> Answers \cup {"pending", "undefined"}]
  /\ aborted \in [Requests -> BOOLEAN]
  /\ xTodo \in [Requests -> 0..ExceptionListeners]
  /\ xHandled \in [Requests -> BOOLEAN]
  /\ xResponse \in [Requests -> Answers \cup {"pending", "undefined"}]
  /\ outcome \in [Requests -> Outcomes \cup {"pending"}]

Init ==
  /\ registered = <<>>
  /\ xListeners \in 0..ExceptionListeners
  /\ phase = [r \in Requests |-> "idle"]
  /\ todo = [r \in Requests |-> <<>>]
  /\ thrown = [r \in Requests |-> "none"]
  /\ reached = [r \in Requests |-> FALSE]
  /\ handled = [r \in Requests |-> FALSE]
  /\ response = [r \in Requests |-> "pending"]
  /\ aborted = [r \in Requests |-> FALSE]
  /\ xTodo = [r \in Requests |-> 0]
  /\ xHandled = [r \in Requests |-> FALSE]
  /\ xResponse = [r \in Requests |-> "pending"]
  /\ outcome = [r \in Requests |-> "pending"]

-----------------------------------------------------------------------------
(* The emitter.                                                            *)

\* interceptor.on("request", l)
On(l) ==
  /\ l \notin ToSet(registered)
  /\ registered' = Append(registered, l)
  /\ UNCHANGED <<xListeners, phase, todo, thrown, reached, handled, response,
                 aborted, xVars, outcome>>

\* removeListener() takes out one registration of the listener, if there is one.
Unregister(l) ==
  \/ \E i \in DOMAIN registered :
       registered[i] = l /\ registered' = RemoveAt(registered, i)
  \/ l \notin ToSet(registered) /\ UNCHANGED registered

\* interceptor.off("request", l): emissions under way still reach l.
Off(l) ==
  /\ l \in ToSet(registered)
  /\ Unregister(l)
  /\ UNCHANGED <<xListeners, phase, todo, thrown, reached, handled, response,
                 aborted, xVars, outcome>>

-----------------------------------------------------------------------------
(* The emission of "request".                                              *)

\* A variant of Start that puts the sentinel before the other listeners.
StartPrepends(r) ==
  /\ phase[r] = "idle"
  /\ phase' = [phase EXCEPT ![r] = "racing"]
  /\ registered' = <<r>> \o registered
  /\ todo' = [todo EXCEPT ![r] = <<r>> \o registered]
  /\ UNCHANGED <<xListeners, thrown, reached, handled, response, aborted, xVars,
                 outcome>>

\* A variant of Start that emits to the developer's listeners only.
StartWithoutSentinel(r) ==
  /\ phase[r] = "idle"
  /\ phase' = [phase EXCEPT ![r] = "racing"]
  /\ todo' = [todo EXCEPT ![r] = registered]
  /\ UNCHANGED <<registered, xListeners, thrown, reached, handled, response,
                 aborted, xVars, outcome>>

\* handleRequest() is called.  The sentinel is registered and emitAsync() takes
\* its copy of the listeners without giving anyone else a turn in between.
Start(r) ==
  /\ phase[r] = "idle"
  /\ phase' = [phase EXCEPT ![r] = "racing"]
  /\ registered' = Append(registered, r)
  /\ todo' = [todo EXCEPT ![r] = Append(registered, r)]
  /\ UNCHANGED <<xListeners, thrown, reached, handled, response, aborted, xVars,
                 outcome>>

Running(r) == todo[r] # <<>> /\ Head(todo[r]) \in Listeners

\* The listener's promise resolves: the next listener gets its turn.
ListenerReturns(r) ==
  /\ Running(r)
  /\ todo' = [todo EXCEPT ![r] = Tail(@)]
  /\ reached' = [reached EXCEPT ![r] = TRUE]
  /\ UNCHANGED <<registered, xListeners, phase, thrown, handled, response,
                 aborted, xVars, outcome>>

\* The listener throws: the listeners after it, the sentinel included, are not
\* reached.  An InterceptorError comes from answering a second time.
ListenerThrows(r, e) ==
  /\ Running(r)
  /\ e = "interceptorError" => handled[r]
  /\ todo' = [todo EXCEPT ![r] = <<>>]
  /\ thrown' = [thrown EXCEPT ![r] = e]
  /\ reached' = [reached EXCEPT ![r] = TRUE]
  /\ UNCHANGED <<registered, xListeners, phase, handled, response, aborted,
                 xVars, outcome>>

\* A variant of RunSentinel for a sentinel that is no one-time listener.
RunSentinelAgain(r) ==
  /\ todo[r] # <<>>
  /\ Head(todo[r]) \in Requests
  /\ response' = IF Head(todo[r]) = r /\ response[r] = "pending"
                   THEN [response EXCEPT ![r] = "undefined"]
                   ELSE response
  /\ todo' = [todo EXCEPT ![r] = Tail(@)]
  /\ UNCHANGED <<registered, xListeners, phase, thrown, reached, handled, aborted,
                 xVars, outcome>>

\* A sentinel is called, by its own emission or by that of another request.
\* Being a one-time listener it unregisters itself first; it ignores the
\* events of other requests.
RunSentinel(r) ==
  /\ todo[r] # <<>>
  /\ Head(todo[r]) \in Requests
  /\ Unregister(Head(todo[r]))
  /\ response' = IF Head(todo[r]) = r /\ response[r] = "pending"
                   THEN [response EXCEPT ![r] = "undefined"]
                   ELSE response
  /\ todo' = [todo EXCEPT ![r] = Tail(@)]
  /\ UNCHANGED <<xListeners, phase, thrown, reached, handled, aborted, xVars,
                 outcome>>

\* A variant of Answer for a promise that can be resolved twice.
AnswerOverwrites(r, a) ==
  /\ Running(r) \/ reached[r]
  /\ ~handled[r]
  /\ handled' = [handled EXCEPT ![r] = TRUE]
  /\ response' = [response EXCEPT ![r] = a]
  /\ UNCHANGED <<registered, xListeners, phase, todo, thrown, reached, aborted,
                 xVars, outcome>>

\* respondWith() or errorWith(), called by the running listener or, later, by
\* something a listener did not await.  Only the first call is accepted, and
\* it resolves a promise that may be resolved already.
Answer(r, a) ==
  /\ Running(r) \/ reached[r]
  /\ ~handled[r]
  /\ handled' = [handled EXCEPT ![r] = TRUE]
  /\ response' = IF response[r] = "pending"
                   THEN [response EXCEPT ![r] = a] ELSE response
  /\ UNCHANGED <<registered, xListeners, phase, todo, thrown, reached, aborted,
                 xVars, outcome>>

\* The request's signal is aborted, possibly before handleRequest() is called.
Abort(r) ==
  /\ outcome[r] = "pending"
  /\ ~aborted[r]
  /\ aborted' = [aborted EXCEPT ![r] = TRUE]
  /\ UNCHANGED <<registered, xListeners, phase, todo, thrown, reached, handled,
                 response, xVars, outcome>>

-----------------------------------------------------------------------------
(* handleRequest() after the race.                                         *)

Settle(r, o) ==
  /\ phase' = [phase EXCEPT ![r] = "settled"]
  /\ outcome' = [outcome EXCEPT ![r] = o]
  /\ UNCHANGED xVars

\* A variant of OutcomeOf that takes no answer for an answer.
OutcomeOfAnything(answer) == IF answer = "nothing" THEN "passthrough" ELSE answer

\* handleResponse(), where "undefined" stands for no data at all.
OutcomeOf(answer) ==
  IF answer \in {"undefined", "nothing"} THEN "passthrough" ELSE answer

\* handleResponseError(): an InterceptorError is thrown to the caller, a
\* Node.js-like error and a thrown response are used.
OutcomeOfThrown(e) ==
  CASE e = "interceptorError" -> "rejected"
    [] e = "nodeError"        -> "error"
    [] OTHER                  -> e

\* A variant of RaceIsSettled without the abort promise.
RaceWithoutAbort(r) == thrown[r] # "none" \/ response[r] # "pending"

\* Promise.race() is settled.  Being aborted comes first; then what a listener
\* threw, if it did so before the answer was seen; then the answer.
RaceIsSettled(r) == aborted[r] \/ thrown[r] # "none" \/ response[r] # "pending"

Wake(r) ==
  /\ phase[r] = "racing"
  /\ RaceIsSettled(r)
  /\ \/ /\ aborted[r]
        /\ Settle(r, "abort")
     \/ /\ ~aborted[r] /\ thrown[r] \notin {"none", "exception"}
        /\ Settle(r, OutcomeOfThrown(thrown[r]))
     \/ /\ ~aborted[r] /\ thrown[r] = "exception" /\ xListeners = 0
        /\ Settle(r, "serverError")
     \/ /\ ~aborted[r] /\ thrown[r] = "exception" /\ xListeners > 0
        /\ phase' = [phase EXCEPT ![r] = "exception"]
        /\ xTodo' = [xTodo EXCEPT ![r] = xListeners]
        /\ UNCHANGED <<xHandled, xResponse, outcome>>
     \/ /\ ~aborted[r] /\ thrown[r] = "none"
        /\ Settle(r, OutcomeOf(response[r]))
  /\ UNCHANGED <<registered, xListeners, todo, thrown, reached, handled,
                 response, aborted>>

\* An "unhandledException" listener is done; after the last one an unanswered
\* controller is resolved with undefined.
ExceptionListenerReturns(r) ==
  /\ phase[r] = "exception"
  /\ xTodo[r] > 0
  /\ xTodo' = [xTodo EXCEPT ![r] = @ - 1]
  /\ xResponse' = IF xTodo[r] = 1 /\ xResponse[r] = "pending"
                    THEN [xResponse EXCEPT ![r] = "undefined"] ELSE xResponse
  /\ UNCHANGED <<registered, xListeners, phase, todo, thrown, reached, handled,
                 response, aborted, xHandled, outcome>>

\* What an "unhandledException" listener throws is forwarded as-is.
ExceptionListenerThrows(r) ==
  /\ phase[r] = "exception"
  /\ xTodo[r] > 0
  /\ Settle(r, "rejected")
  /\ UNCHANGED <<registered, xListeners, todo, thrown, reached, handled,
                 response, aborted>>

\* The controller made for the exception is answered.
AnswerException(r, a) ==
  /\ phase[r] = "exception"
  /\ ~xHandled[r]
  /\ xHandled' = [xHandled EXCEPT ![r] = TRUE]
  /\ xResponse' = IF xResponse[r] = "pending"
                    THEN [xResponse EXCEPT ![r] = a] ELSE xResponse
  /\ UNCHANGED <<registered, xListeners, phase, todo, thrown, reached, handled,
                 response, aborted, xTodo, outcome>>

\* All "unhandledException" listeners are done.  An exception nobody has
\* translated becomes a 500 response.
WakeFromException(r) ==
  /\ phase[r] = "exception"
  /\ xTodo[r] = 0
  /\ Settle(r, IF OutcomeOf(xResponse[r]) = "passthrough"
                 THEN "serverError" ELSE OutcomeOf(xResponse[r]))
  /\ UNCHANGED <<registered, xListeners, todo, thrown, reached, handled,
                 response, aborted>>

Library(r) == RunSentinel(r) \/ Wake(r) \/ WakeFromException(r)

Developer(r) ==
  \/ Start(r)
  \/ Abort(r)
  \/ ListenerReturns(r)
  \/ ExceptionListenerReturns(r)
  \/ ExceptionListenerThrows(r)
  \/ \E e \in Throwables : ListenerThrows(r, e)
  \/ \E a \in Answers : Answer(r, a) \/ AnswerException(r, a)

Next ==
  \/ \E l \in Listeners : On(l) \/ Off(l)
  \/ \E r \in Requests : Library(r) \/ Developer(r)

\* The library's continuations run; the developer's listeners may hang.
Fairness ==
  \A r \in Requests :
    WF_vars(RunSentinel(r)) /\ WF_vars(Wake(r)) /\ WF_vars(WakeFromException(r))

Spec == Init /\ [][Next]_vars /\ Fairness

-----------------------------------------------------------------------------
(* Properties.                                                             *)

\* The response promise is resolved with undefined only when all the listeners
\* that were there when the request started have returned: no other request,
\* and no sentinel of another request, can make a request pass through while
\* one of its own listeners might still answer it.
UndefinedMeansAllReturned ==
  \A r \in Requests :
    response[r] = "undefined" => todo[r] = <<>> /\ thrown[r] = "none"

\* A sentinel is registered once, and only as long as its request is waiting for
\* its listeners; only a listener that threw can leave one behind.
SentinelsAccountedFor ==
  /\ \A r \in Requests : r \in ToSet(registered) =>
       phase[r] # "idle" /\ (todo[r] # <<>> \/ thrown[r] # "none")
  /\ \A i, j \in DOMAIN registered : registered[i] = registered[j] => i = j

\* A request that has been aborted or answered is not held up by a listener that
\* never returns.
AnsweredRequestsWakeUp ==
  \A r \in Requests :
    phase[r] = "racing" /\ (aborted[r] \/ response[r] # "pending")
      ~> phase[r] # "racing"

\* If no listener hangs, every request that was started gets an outcome.
ListenersAreLive ==
  \A r \in Requests :
    WF_vars(ListenerReturns(r)) /\ WF_vars(ExceptionListenerReturns(r))

EveryRequestSettles ==
  ListenersAreLive =>
    \A r \in Requests : phase[r] = "racing" ~> outcome[r] # "pending"

\* A controller that was answered in time decides: the request is not performed
\* as-is unless errorWith() was given no reason, and its outcome differs from
\* the answer only if it was aborted or a listener threw.
AnswerDecides ==
  \A r \in Requests :
    outcome[r] # "pending" /\ ~aborted[r] /\ thrown[r] = "none" =>
      outcome[r] = OutcomeOf(response[r])

\* Facts the safety properties rest on: before it starts a request has left no
\* trace, its own sentinel is the last listener of its emission, and somebody has
\* resolved each promise that is awaited after the listeners.
Bookkeeping ==
  \A r \in Requests :
    /\ phase[r] = "idle" => /\ todo[r] = <<>>
                            /\ thrown[r] = "none"
                            /\ response[r] = "pending"
    /\ phase[r] # "idle" /\ todo[r] = <<>> /\ thrown[r] = "none" =>
         response[r] # "pending"
    /\ todo[r] # <<>> => todo[r][Len(todo[r])] = r /\ thrown[r] = "none"
    /\ \A i \in DOMAIN todo[r] : todo[r][i] = r => i = Len(todo[r])
    /\ reached[r] => phase[r] # "idle"
    /\ phase[r] = "exception" => thrown[r] = "exception"
    /\ phase[r] = "exception" /\ xTodo[r] = 0 => xResponse[r] # "pending"
    /\ phase[r] = "settled" <=> outcome[r] # "pending"
    /\ outcome[r] # "pending" /\ ~aborted[r] /\ thrown[r] = "none" =>
         response[r] # "pending"

\* The inductive invariant.
IInv ==
  /\ TypeOK
  /\ Bookkeeping
  /\ UndefinedMeansAllReturned
  /\ SentinelsAccountedFor
  /\ AnswerDecides

\* The documentation of RequestController.errorWith(): "Error this request with
\* the given reason", with errorWith() as its first example.
ErrorWithIsHonoured ==
  \A r \in Requests : response[r] = "nothing" => outcome[r] # "passthrough"
=============================================================================
