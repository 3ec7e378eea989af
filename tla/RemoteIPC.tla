------------------------------ MODULE RemoteIPC ------------------------------
(***************************************************************************)
(* Requests made in child processes and mocked in their parent.            *)
(*                                                                         *)
(* A child that has applied RemoteHttpInterceptor sends every request to   *)
(* its parent and waits for a message that answers it; the message         *)
(* listener of a request is never removed.  In the parent there is one     *)
(* RemoteHttpResolver for each child.  It handles what its child sends and *)
(* sends back the responses, in the order they are ready.  When a resolver *)
(* is set up and disposed is the matter of InterceptorLifecycle: as all of *)
(* them share one symbol, it may be not set up at all, or twice.           *)
(* Channels keep the order of messages.                                    *)
(***************************************************************************)
EXTENDS Integers, SequencesExt

CONSTANTS
  Children,     \* the child processes
  Requests,     \* the requests made in them
  ChildOf,      \* the child process of each request
  MaxAttached   \* bound: message listeners of a resolver

ASSUME ChildOfAssumption == ChildOf \in [Requests -> Children]
ASSUME MaxAttachedAssumption == MaxAttached \in Nat

VARIABLES
  running,        \* the child processes that are alive
  intercepting,   \* the children whose RemoteHttpInterceptor is applied
  latest,         \* handleParentMessage of each child: of its last request
  listening,      \* the requests whose message listener is attached
  stage,          \* of each request: how far its "request" listener is
  own,            \* the requests another listener of the child has answered
  mocked,         \* the requests the remote listener has answered
  outcome,        \* of each request: what it came to
  response,       \* history: whose responses answered each request
  toParent,       \* the messages under way from each child
  toChild,        \* the messages under way to each child
  parentUp,       \* the parent is alive
  attached,       \* the message listeners of the resolver of each child
  asking,         \* the calls of handleRequest() under way for each request
  lost,           \* history: requests the parent has not answered
  doubled,        \* history: two listeners of the parent have received a request
  crashed         \* history: requests whose answer took the child down

childVars == <<running, intercepting, latest, listening>>
requestVars == <<stage, own, mocked, outcome, response>>
channelVars == <<toParent, toChild>>
historyVars == <<lost, doubled, crashed>>
parentVars == <<parentUp, attached, asking>>
vars == <<childVars, requestVars, channelVars, parentVars, historyVars>>

\* A message to a child: the response made for a request, under an id.
Message == [id : Requests, made : Requests]

TypeOK ==
  /\ running \subseteq Children
  /\ intercepting \subseteq Children
  /\ latest \in [Children -> SUBSET Requests]
  /\ listening \subseteq Requests
  /\ stage \in [Requests -> {"idle", "reading", "waiting", "released", "over"}]
  /\ own \subseteq Requests
  /\ mocked \subseteq Requests
  /\ outcome \in [Requests -> {"new", "pending", "mocked", "elsewhere", "asis"}]
  /\ response \in [Requests -> SUBSET Requests]
  /\ toParent \in [Children -> Seq(Requests)]
  /\ toChild \in [Children -> Seq(Message)]
  /\ parentUp \in BOOLEAN
  /\ attached \in [Children -> 0..MaxAttached]
  /\ asking \in [Requests -> Nat]
  /\ lost \subseteq Requests
  /\ doubled \in BOOLEAN
  /\ crashed \subseteq Requests

\* The children apply the interceptor as they start; the resolvers are made.
Init ==
  /\ running = Children
  /\ intercepting = Children
  /\ latest = [c \in Children |-> {}]
  /\ listening = {}
  /\ stage = [r \in Requests |-> "idle"]
  /\ own = {}
  /\ mocked = {}
  /\ outcome = [r \in Requests |-> "new"]
  /\ response = [r \in Requests |-> {}]
  /\ toParent = [c \in Children |-> <<>>]
  /\ toChild = [c \in Children |-> <<>>]
  /\ parentUp = TRUE
  /\ attached = [c \in Children |-> 0]
  /\ asking = [r \in Requests |-> 0]
  /\ lost = {}
  /\ doubled = FALSE
  /\ crashed = {}

-----------------------------------------------------------------------------
(* A request in its child.                                                 *)

\* kRequestHandled of the controller of a request.
handled == own \cup mocked

\* The "request" listener of the interceptor is called and reads the body.
Request(r) ==
  /\ ChildOf[r] \in intercepting \cap running
  /\ stage[r] = "idle"
  /\ stage' = [stage EXCEPT ![r] = "reading"]
  /\ outcome' = [outcome EXCEPT ![r] = "pending"]
  /\ UNCHANGED <<childVars, own, mocked, response, channelVars, parentVars,
                 historyVars>>

\* The body cannot be read: the listener throws, and the child answers with an error
\* of its own.
ReadFails(r) ==
  /\ stage[r] = "reading" /\ ChildOf[r] \in running
  /\ stage' = [stage EXCEPT ![r] = "over"]
  /\ outcome' = [outcome EXCEPT ![r] = IF @ = "pending" THEN "elsewhere" ELSE @]
  /\ UNCHANGED <<childVars, own, mocked, response, channelVars, parentVars,
                 historyVars>>

\* The request is sent and a message listener of its own is added.  One variable
\* holds the listener of the last request only.
SendReplacing(r) ==
  LET c == ChildOf[r] IN
  /\ stage[r] = "reading" /\ c \in running
  /\ stage' = [stage EXCEPT ![r] = "waiting"]
  /\ toParent' = [toParent EXCEPT ![c] = Append(@, r)]
  /\ latest' = [latest EXCEPT ![c] = {r}]
  /\ listening' = (listening \ latest[c]) \cup {r}
  /\ UNCHANGED <<running, intercepting, own, mocked, outcome, response,
                 toChild, parentVars, historyVars>>
SendTwice(r) ==
  LET c == ChildOf[r] IN
  /\ stage[r] = "reading" /\ c \in running
  /\ stage' = [stage EXCEPT ![r] = "waiting"]
  /\ toParent' = [toParent EXCEPT ![c] = @ \o <<r, r>>]
  /\ latest' = [latest EXCEPT ![c] = {r}]
  /\ listening' = listening \cup {r}
  /\ UNCHANGED <<running, intercepting, own, mocked, outcome, response,
                 toChild, parentVars, historyVars>>
Send(r) ==
  LET c == ChildOf[r] IN
  /\ stage[r] = "reading" /\ c \in running
  /\ stage' = [stage EXCEPT ![r] = "waiting"]
  /\ toParent' = [toParent EXCEPT ![c] = Append(@, r)]
  /\ latest' = [latest EXCEPT ![c] = {r}]
  /\ listening' = listening \cup {r}
  /\ UNCHANGED <<running, intercepting, own, mocked, outcome, response,
                 toChild, parentVars, historyVars>>

\* Meanwhile, or later, another listener of the child answers the request ...
AnswerOwn(r) ==
  /\ outcome[r] # "new" /\ r \notin handled /\ ChildOf[r] \in running
  /\ own' = own \cup {r}
  /\ outcome' = [outcome EXCEPT ![r] = IF @ = "pending" THEN "elsewhere" ELSE @]
  /\ UNCHANGED <<childVars, stage, mocked, response, channelVars, parentVars,
                 historyVars>>

\* ... or the application aborts it.
Abort(r) ==
  /\ outcome[r] = "pending" /\ ChildOf[r] \in running
  /\ outcome' = [outcome EXCEPT ![r] = "elsewhere"]
  /\ UNCHANGED <<childVars, stage, own, mocked, response, channelVars, parentVars,
                 historyVars>>

\* All listeners have returned and none has answered: the request is performed.
Settle(r) ==
  /\ stage[r] = "released" /\ outcome[r] = "pending" /\ ChildOf[r] \in running
  /\ outcome' = [outcome EXCEPT ![r] = "asis"]
  /\ UNCHANGED <<childVars, stage, own, mocked, response, channelVars, parentVars,
                 historyVars>>

-----------------------------------------------------------------------------
(* The messages a child receives.                                          *)

\* message.startsWith(`response:${requestId}`).  No id is the beginning of another
\* one: they are random, of a dozen digits.
ConcernsAny(m, r) == m.id \in Requests
Concerns(m, r) == m.id = r

ListenersIn(c) == {r \in listening : ChildOf[r] = c}
Resolve(R, how) ==
  stage' = [r \in Requests |-> IF r \in R /\ stage[r] = "waiting" THEN how ELSE stage[r]]

\* A message that is no string, sent by the application of the parent, lets every
\* request of the child go.
DeliverForeign(c) ==
  /\ c \in running
  /\ Resolve(ListenersIn(c), "released")
  /\ UNCHANGED <<childVars, own, mocked, outcome, response, channelVars, parentVars,
                 historyVars>>

\* A response answers the request unless its controller has been used: then
\* respondWith() throws in the message event, which ends the process.
DeliverResponse(c) ==
  /\ c \in running /\ toChild[c] # <<>>
  /\ LET m == Head(toChild[c])
         R == {r \in ListenersIn(c) : Concerns(m, r)}
     IN  /\ R \cap handled = {}
         /\ Resolve(R, "over")
         /\ mocked' = mocked \cup R
         /\ outcome' = [r \in Requests |->
                          IF r \in R /\ outcome[r] = "pending" THEN "mocked"
                          ELSE outcome[r]]
         /\ response' = [r \in Requests |->
                           IF r \in R /\ outcome[r] = "pending" THEN {m.made}
                           ELSE response[r]]
  /\ toChild' = [toChild EXCEPT ![c] = Tail(@)]
  /\ UNCHANGED <<childVars, own, toParent, parentVars, historyVars>>

\* The pattern does not match a response whose text holds a line separator.
DeliverUnreadable(c) ==
  /\ c \in running /\ toChild[c] # <<>>
  /\ LET m == Head(toChild[c])
     IN  Resolve({r \in ListenersIn(c) : Concerns(m, r)}, "released")
  /\ toChild' = [toChild EXCEPT ![c] = Tail(@)]
  /\ UNCHANGED <<childVars, own, mocked, outcome, response, toParent,
                 parentVars, historyVars>>

DeliverTwice(c) ==
  /\ c \in running /\ toChild[c] # <<>>
  /\ LET m == Head(toChild[c])
         R == {r \in ListenersIn(c) : Concerns(m, r)}
     IN  /\ R \cap handled # {}
         /\ crashed' = crashed \cup (R \cap handled)
  /\ running' = running \ {c}
  /\ toChild' = [toChild EXCEPT ![c] = <<>>]
  /\ UNCHANGED <<intercepting, latest, listening, requestVars, toParent,
                 parentVars, lost, doubled>>

Deliver(c) == DeliverResponse(c) \/ DeliverUnreadable(c) \/ DeliverTwice(c)

-----------------------------------------------------------------------------
(* The life of a child.                                                    *)

\* dispose() of the interceptor removes one message listener.  Without any it
\* throws, after the interception is undone.
DisposeChild(c) ==
  /\ c \in intercepting \cap running
  /\ intercepting' = intercepting \ {c}
  /\ listening' = listening \ latest[c]
  /\ UNCHANGED <<running, latest, requestVars, channelVars, parentVars,
                 historyVars>>

Exit(c) ==
  /\ c \in running
  /\ running' = running \ {c}
  /\ toChild' = [toChild EXCEPT ![c] = <<>>]
  /\ UNCHANGED <<intercepting, latest, listening, requestVars, toParent,
                 parentVars, historyVars>>

-----------------------------------------------------------------------------
(* A resolver in the parent.                                               *)

\* setup() listens to the messages of the child, which is alive.
SetUp(c) ==
  /\ parentUp /\ c \in running /\ attached[c] < MaxAttached
  /\ attached' = [attached EXCEPT ![c] = @ + 1]
  /\ UNCHANGED <<childVars, requestVars, channelVars, parentUp, asking, historyVars>>

\* dispose() removes the message listeners of one resolver of the child; its exit
\* disposes all of them.
Dispose(c) ==
  /\ parentUp
  /\ \E n \in 0..MaxAttached :
       n < attached[c] /\ attached' = [attached EXCEPT ![c] = n]
  /\ UNCHANGED <<childVars, requestVars, channelVars, parentUp, asking, historyVars>>

-----------------------------------------------------------------------------
(* A request in the parent.                                                *)

\* handleChildMessage(), once for each listener: nobody may listen, and a request
\* the pattern cannot take apart is ignored.
Receive(c) ==
  /\ parentUp /\ toParent[c] # <<>>
  /\ LET r == Head(toParent[c])
     IN  \/ /\ lost' = lost \cup {r}
            /\ UNCHANGED <<asking, doubled>>
         \/ /\ attached[c] > 0
            /\ asking' = [asking EXCEPT ![r] = @ + attached[c]]
            /\ doubled' = (doubled \/ attached[c] > 1)
            /\ UNCHANGED lost
  /\ toParent' = [toParent EXCEPT ![c] = Tail(@)]
  /\ UNCHANGED <<childVars, requestVars, toChild, parentUp, attached, crashed>>

\* Nobody answers, and the child is not told.
Leave(r) ==
  /\ parentUp /\ asking[r] > 0
  /\ asking' = [asking EXCEPT ![r] = @ - 1]
  /\ lost' = lost \cup {r}
  /\ UNCHANGED <<childVars, requestVars, channelVars, parentUp, attached, doubled,
                 crashed>>

\* onRequestError() and onError() throw "Not implemented", or the body of the response
\* fails: nobody awaits handleChildMessage(), so its rejection is unhandled and ends
\* the parent, unless the application handles such rejections.
Reject(r) ==
  /\ parentUp /\ asking[r] > 0
  /\ parentUp' \in BOOLEAN
  /\ asking' = [asking EXCEPT ![r] = @ - 1]
  /\ lost' = lost \cup {r}
  /\ UNCHANGED <<childVars, requestVars, channelVars, attached, doubled, crashed>>

\* A listener answers: onResponse() reads the text of the response and sends it.  The
\* channel to a child that has gone drops it.
Reply(r) ==
  LET c == ChildOf[r] IN
  /\ parentUp /\ asking[r] > 0
  /\ asking' = [asking EXCEPT ![r] = @ - 1]
  /\ \/ /\ c \in running
        /\ toChild' = [toChild EXCEPT ![c] = Append(@, [id |-> r, made |-> r])]
     \/ c \notin running /\ UNCHANGED toChild
  /\ UNCHANGED <<childVars, requestVars, toParent, parentUp, attached, historyVars>>

InChild(r) ==
  Request(r) \/ ReadFails(r) \/ Send(r) \/ AnswerOwn(r) \/ Abort(r) \/ Settle(r)
InParent(r) == Leave(r) \/ Reject(r) \/ Reply(r)

Next ==
  \/ \E r \in Requests : InChild(r) \/ InParent(r)
  \/ \E c \in Children :
       \/ Deliver(c) \/ DisposeChild(c) \/ Exit(c)
       \/ SetUp(c) \/ Dispose(c)
       \/ Receive(c) \/ DeliverForeign(c)

\* Messages under way are delivered as long as the process they go to is alive.
Fairness == \A c \in Children : WF_vars(Deliver(c)) /\ WF_vars(Receive(c))

Spec == Init /\ [][Next]_vars /\ Fairness

-----------------------------------------------------------------------------
(* Properties.                                                             *)

\* Each request is answered at most once, by the response made for it, whatever
\* the order of messages; and only a message that is no answer lets it pass.
Remote == INSTANCE RemoteRequest
  WITH spoiled <- {r \in Requests : stage[r] = "released"}
ImplementsRemoteRequest == Remote!Spec

\* An answer takes a child down only if the child has answered the request itself,
\* before or after it ended otherwise, or the resolver has listened twice.
CrashNeedsTwoAnswers == \A r \in crashed : r \in own \/ doubled

\* A request waits for ever only when the parent has ended or did not answer it, or
\* its child is gone or has disposed the interceptor; provided that the bodies of
\* requests end, and that the other "request" listeners of the children and those of
\* the parent return.
OthersAreLive ==
  /\ WF_vars(\E r \in Requests : Send(r))
  /\ WF_vars(\E r \in Requests : Settle(r))
  /\ WF_vars(\E r \in Requests : Reply(r))
EveryRequestIsAnswered ==
  OthersAreLive =>
    \A r \in Requests :
      outcome[r] = "pending" ~>
        \/ outcome[r] # "pending" \/ r \in lost
        \/ ~parentUp \/ ChildOf[r] \notin running \cap intercepting
=============================================================================
