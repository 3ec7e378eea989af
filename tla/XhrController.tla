---------------------------- MODULE XhrController ----------------------------
(***************************************************************************)
(* One intercepted XMLHttpRequest: its ready state, the events the         *)
(* application sees, and the requests it is used for one after the other.  *)
(*                                                                         *)
(* send() does not send.  It asks handleRequest() for an outcome: a mocked *)
(* response, which the controller plays back through events of its own; an *)
(* error; or nothing, in which case the native send() is called.  The      *)
(* playback awaits the length of the request body, the length of the       *)
(* response body, and each chunk of it; the application may open(), send() *)
(* and abort() in between.  The ready state the controller sets is a       *)
(* property that hides the native one from then on.                        *)
(***************************************************************************)
EXTENDS Integers, SequencesExt

CONSTANTS
  MaxSends,   \* bound: how many times the application calls send()
  MaxChunks   \* bound: the chunks of a response body

ASSUME MaxSendsAssumption == MaxSends \in Nat \ {0}
ASSUME MaxChunksAssumption == MaxChunks \in Nat

Sends == 1..MaxSends

\* Ready states.
UNSENT == 0
OPENED == 1
HEADERS_RECEIVED == 2
LOADING == 3
DONE == 4

VARIABLES
  native,     \* the ready state of the native request
  inFlight,   \* the native send() has been called and has not finished
  shadow,     \* the ready state the controller has set, or -1
  opened,     \* open() has been called and send() not yet
  sends,      \* the number of calls of send()
  phase,      \* of each send(): how far its request is
  finally,    \* the sends whose finally() callback has run
  handled,    \* kIsRequestHandled
  defined,    \* the getters of the response have been redefined
  buffer,     \* responseBuffer: the chunks of the mocked body read so far
  threw,      \* a listener of the application has thrown
  failed,     \* the stream of a mocked body has failed
  log,        \* history: the events the application has seen since open()
  responses,  \* history: the "response" events of the interceptor
  clean       \* history: at each send() the uses before it were over, all of
              \* them had been performed as-is, and the request was open

vars == <<native, inFlight, shadow, opened, sends, phase, finally, handled,
          defined, buffer, threw, failed, log, responses, clean>>
nativeVars == <<native, inFlight>>
useVars == <<opened, sends, clean>>

Phases == {"idle", "asking", "upload", "measuring", "streaming", "settling",
           "performed", "over", "dropped", "failed"}

\* A "readystatechange" event is named after the state it announces.
StateEvents == {"opened", "headers", "loading", "done"}
Events == StateEvents \cup
          {"loadstart", "progress", "load", "error", "abort", "loadend"}
StateOf == [opened |-> OPENED, headers |-> HEADERS_RECEIVED,
            loading |-> LOADING, done |-> DONE]

\* A "response" event; the body as the number of its chunks, or -1 for null.
Announcement == [request : Sends, mocked : BOOLEAN, body : Nat \cup {-1}]

TypeOK ==
  /\ native \in UNSENT..DONE
  /\ inFlight \in BOOLEAN
  /\ shadow \in -1..DONE
  /\ opened \in BOOLEAN
  /\ sends \in 0..MaxSends
  /\ phase \in [Sends -> Phases]
  /\ finally \subseteq Sends
  /\ handled \in BOOLEAN
  /\ defined \in BOOLEAN
  /\ buffer \in Nat
  /\ threw \in BOOLEAN
  /\ failed \in BOOLEAN
  /\ log \in Seq(Events)
  /\ responses \in Seq(Announcement)
  /\ clean \in BOOLEAN

Init ==
  /\ native = UNSENT
  /\ inFlight = FALSE
  /\ shadow = -1
  /\ opened = FALSE
  /\ sends = 0
  /\ phase = [s \in Sends |-> "idle"]
  /\ finally = {}
  /\ handled = FALSE
  /\ defined = FALSE
  /\ buffer = 0
  /\ threw = FALSE
  /\ failed = FALSE
  /\ log = <<>>
  /\ responses = <<>>
  /\ clean = TRUE

-----------------------------------------------------------------------------
(* Ready state and events.                                                 *)

\* What request.readyState reads.
readyState == IF shadow = -1 THEN native ELSE shadow

\* What request.response reads in a given ready state: the number of chunks of
\* a mocked body, -1 for null.  A native body is not followed.
ResponseIn(state) == IF ~defined THEN 0 ELSE IF state = DONE THEN buffer ELSE -1

\* setReadyState(): an identical state is skipped.
Transition(e) == IF readyState = StateOf[e] THEN <<>> ELSE <<e>>

\* The ready state after the given events: what the last one of a change announces.
StateAfter(events, old) ==
  LET IsLast(i) ==
        /\ events[i] \in StateEvents
        /\ \A j \in DOMAIN events : j > i => events[j] \notin StateEvents
  IN  IF \E i \in DOMAIN events : IsLast(i)
      THEN StateOf[events[CHOOSE i \in DOMAIN events : IsLast(i)]]
      ELSE old

\* Each send() has added a listener of "load" of its own, which announces the
\* response under the request of that send().
Announced(events, state) ==
  IF "load" \notin ToSet(events) THEN <<>>
  ELSE [s \in 1..sends |-> [request |-> s, mocked |-> handled,
                            body |-> ResponseIn(state)]]

\* The ready state when "load" is triggered.
StateAtLoad(events) ==
  StateAfter(SubSeq(events, 1, SelectInSeq(events, LAMBDA e : e = "load")), shadow)

\* trigger(), for one event after the other.
Trigger(events) ==
  /\ log' = log \o events
  /\ shadow' = StateAfter(events, shadow)
  /\ responses' = responses \o Announced(events, StateAtLoad(events))

\* The controller triggers events for the request of s and goes on to next,
\* unless a listener throws: then the events after that one are left out.  The
\* listener that announces a response may be before or after the one that throws.
Play(s, events, next) ==
  \/ /\ Trigger(events)
     /\ phase' = [phase EXCEPT ![s] = next]
     /\ UNCHANGED threw
  \/ \E n \in 1..Len(events) :
       LET seen == SubSeq(events, 1, n) IN
       /\ log' = log \o seen
       /\ shadow' = StateAfter(seen, shadow)
       /\ \/ UNCHANGED responses
          \/ responses' = responses \o Announced(seen, StateAtLoad(seen))
       /\ phase' = [phase EXCEPT ![s] = "failed"]
       /\ threw' = TRUE

-----------------------------------------------------------------------------
(* The application.                                                        *)

\* open() is forwarded; it ends the native request, silently.  The application may
\* call it again at any time, a playback goes on.
Open ==
  /\ native' = OPENED
  /\ inFlight' = FALSE
  /\ opened' = TRUE
  /\ log' = IF native = OPENED THEN <<>> ELSE <<"opened">>
  /\ UNCHANGED <<shadow, sends, clean, phase, finally, handled, defined, buffer,
                 threw, failed, responses>>

\* The uses of the request so far are over, none of them was answered, and the
\* request is open again.
AllPerformed ==
  /\ ~handled /\ ~inFlight
  /\ native = OPENED
  /\ \A s \in 1..sends : phase[s] = "performed"

\* send() adds the listener that announces the response, makes the Fetch API
\* request and asks for its outcome.
Send ==
  /\ opened
  /\ sends < MaxSends
  /\ sends' = sends + 1
  /\ opened' = FALSE
  /\ clean' = (clean /\ AllPerformed)
  /\ phase' = [phase EXCEPT ![sends + 1] = "asking"]
  /\ UNCHANGED <<nativeVars, shadow, finally, handled, defined, buffer, threw,
                 failed, log, responses>>

\* abort() is forwarded: a mocked request is none of the native one's business.
Abort ==
  /\ inFlight \/ native = DONE
  /\ native' = UNSENT
  /\ inFlight' = FALSE
  /\ log' = IF inFlight THEN log \o <<"done", "abort", "loadend">> ELSE log
  /\ UNCHANGED <<shadow, useVars, phase, finally, handled, defined, buffer, threw,
                 failed, responses>>

-----------------------------------------------------------------------------
(* The outcome of a request; see RequestHandling.                          *)

\* onResponse(): respondWith() marks the request and awaits the length of the
\* request body.
RespondUnmarked(s) ==
  /\ phase[s] = "asking"
  /\ phase' = [phase EXCEPT ![s] = "upload"]
  /\ UNCHANGED <<nativeVars, shadow, useVars, finally, handled, defined, buffer,
                 threw, failed, log, responses>>
Respond(s) ==
  /\ phase[s] = "asking"
  /\ handled' = TRUE
  /\ phase' = [phase EXCEPT ![s] = "upload"]
  /\ UNCHANGED <<nativeVars, shadow, useVars, finally, defined, buffer, threw,
                 failed, log, responses>>

\* onRequestError(), and onError() with an Error: errorWith().
ErrorWith(s) ==
  /\ phase[s] = "asking"
  /\ handled' = TRUE
  /\ Play(s, Transition("done") \o <<"error", "loadend">>, "over")
  /\ UNCHANGED <<nativeVars, useVars, finally, defined, buffer, failed>>

\* Nobody has answered; or onError() was given something that is no Error; or
\* handleRequest() rejects.
NotAnsweredMarked(s) ==
  /\ phase[s] = "asking"
  /\ phase' = [phase EXCEPT ![s] = "settling"]
  /\ handled' = TRUE
  /\ UNCHANGED <<nativeVars, shadow, useVars, finally, defined, buffer, threw,
                 failed, log, responses>>
NotAnswered(s) ==
  /\ phase[s] = "asking"
  /\ phase' = [phase EXCEPT ![s] = "settling"]
  /\ UNCHANGED <<nativeVars, shadow, useVars, finally, handled, defined, buffer,
                 threw, failed, log, responses>>

Decide(s) == Respond(s) \/ ErrorWith(s) \/ NotAnswered(s)

\* The request callback has settled, and finally() runs: the request is performed
\* as-is unless this XMLHttpRequest has been answered.  The native send() throws if
\* the request is not open, or is sent.  The answer to a thrown error is not awaited,
\* so that finally() may run while it is prepared.
Settled == {"settling", "upload", "measuring", "streaming", "over", "failed"}

PerformUnasked(s) ==
  /\ s \notin finally
  /\ phase[s] \in Settled
  /\ finally' = finally \cup {s}
  /\ \/ /\ native # OPENED \/ inFlight
        /\ UNCHANGED <<phase, inFlight, log>>
     \/ /\ native = OPENED /\ ~inFlight
        /\ phase' = [phase EXCEPT ![s] = IF @ = "settling" THEN "performed" ELSE @]
        /\ inFlight' = TRUE
        /\ log' = Append(log, "loadstart")
  /\ UNCHANGED <<native, shadow, useVars, handled, defined, buffer, threw,
                 failed, responses>>
Perform(s) ==
  /\ s \notin finally
  /\ phase[s] \in Settled
  /\ finally' = finally \cup {s}
  /\ \/ /\ handled
        /\ phase' = [phase EXCEPT ![s] = IF @ = "settling" THEN "dropped" ELSE @]
        /\ UNCHANGED <<inFlight, log>>
     \/ /\ ~handled
        /\ native # OPENED \/ inFlight
        /\ phase' = [phase EXCEPT ![s] = "failed"]
        /\ UNCHANGED <<inFlight, log>>
     \/ /\ ~handled
        /\ native = OPENED /\ ~inFlight
        /\ phase' = [phase EXCEPT ![s] = "performed"]
        /\ inFlight' = TRUE
        /\ log' = Append(log, "loadstart")
  /\ UNCHANGED <<native, shadow, useVars, handled, defined, buffer, threw,
                 failed, responses>>

-----------------------------------------------------------------------------
(* The playback of a mocked response.                                      *)

\* The length of the request body is known: the events of the upload fire, and
\* the properties of the response are redefined, which can be done only once.
\* The application's listeners of the upload may throw, too.
Upload(s) ==
  /\ phase[s] = "upload"
  /\ \/ /\ ~defined
        /\ defined' = TRUE
        /\ phase' = [phase EXCEPT ![s] = "measuring"]
        /\ UNCHANGED threw
     \/ /\ defined
        /\ phase' = [phase EXCEPT ![s] = "failed"]
        /\ UNCHANGED <<defined, threw>>
     \/ /\ phase' = [phase EXCEPT ![s] = "failed"]
        /\ threw' = TRUE
        /\ UNCHANGED defined
  /\ UNCHANGED <<nativeVars, shadow, useVars, finally, handled, buffer, failed, log,
                 responses>>

Headers == <<"loadstart">> \o Transition("headers") \o <<"loading">>
EndingLoadFirst(state) ==
  <<"load">> \o (IF state = DONE THEN <<>> ELSE <<"done">>) \o <<"loadend">>
Ending(state) == (IF state = DONE THEN <<>> ELSE <<"done">>) \o <<"load", "loadend">>

\* The length of the response body is known: from a header, or because a copy of the
\* body has been read to its end.  Without a body the response is
\* finalized at once.
Measure(s) ==
  /\ phase[s] = "measuring"
  /\ \/ Play(s, Headers, "streaming")
     \/ Play(s, Headers \o Ending(LOADING), "over")
  /\ UNCHANGED <<nativeVars, useVars, finally, handled, defined, buffer, failed>>

\* The next chunk of the body.
Read(s) ==
  /\ phase[s] = "streaming"
  /\ buffer < MaxChunks
  /\ buffer' = buffer + 1
  /\ Play(s, <<"progress">>, "streaming")
  /\ UNCHANGED <<nativeVars, useVars, finally, handled, defined, failed>>

\* finalizeResponse() at the end of the body.
Finalize(s) ==
  /\ phase[s] = "streaming"
  /\ Play(s, Ending(readyState), "over")
  /\ UNCHANGED <<nativeVars, useVars, finally, handled, defined, buffer, failed>>

\* The stream fails, while a copy of it is read for its length or, when the length
\* is in a header, while it is played: nobody awaits the promise that rejects.
StreamFails(s) ==
  /\ phase[s] \in {"measuring", "streaming"}
  /\ phase' = [phase EXCEPT ![s] = "failed"]
  /\ failed' = TRUE
  /\ UNCHANGED <<nativeVars, shadow, useVars, finally, handled, defined, buffer, threw,
                 log, responses>>

-----------------------------------------------------------------------------
(* The native request (external).                                          *)

NativeEvents(events, state) ==
  /\ inFlight
  /\ native' = state
  /\ inFlight' = (state # DONE)
  /\ log' = log \o events
  /\ responses' = responses \o Announced(events, IF shadow = -1 THEN state ELSE shadow)
  /\ UNCHANGED <<shadow, useVars, phase, finally, handled, defined, buffer, threw,
                 failed>>

NativeHeaders ==
  /\ native = OPENED
  /\ NativeEvents(<<"headers">>, HEADERS_RECEIVED)
NativeBody ==
  /\ native = HEADERS_RECEIVED
  /\ NativeEvents(<<"loading", "progress">>, LOADING)
NativeLoad ==
  /\ native \in {HEADERS_RECEIVED, LOADING}
  /\ NativeEvents(<<"done", "load", "loadend">>, DONE)
NativeFails == NativeEvents(<<"done", "error", "loadend">>, DONE)
NativeEnds == NativeLoad \/ NativeFails

Application == Open \/ Send \/ Abort
Network == NativeHeaders \/ NativeBody \/ NativeEnds

Next ==
  \/ Application
  \/ Network
  \/ \E s \in Sends :
       \/ Decide(s) \/ Perform(s)
       \/ Upload(s) \/ Measure(s)
       \/ Read(s) \/ Finalize(s) \/ StreamFails(s)

\* The continuations of promises run.
Fairness ==
  \A s \in Sends : WF_vars(Perform(s)) /\ WF_vars(Upload(s))

Spec == Init /\ [][Next]_vars /\ Fairness

-----------------------------------------------------------------------------
(* Properties.                                                             *)

Rank == [opened |-> 0, loadstart |-> 1, headers |-> 2, loading |-> 3,
         progress |-> 3, done |-> 4, load |-> 5, error |-> 5, abort |-> 5,
         loadend |-> 6]

\* The events of a request, be it mocked or performed as-is, come in the order of
\* the standard: one outcome, right after the request is done, and "loadend" after
\* it, once.  Nothing follows: a mocked request is not performed as well, however
\* often the application calls open() and abort() while its response is prepared.
\* The condition is that the application calls send() again only when the uses before
\* are over and none was answered: an earlier send() that is declined is performed
\* even if a later one is mocked, and then the events of both mix.
EventOrder ==
  clean =>
    /\ \A i, j \in DOMAIN log : i < j =>
         Rank[log[i]] < Rank[log[j]] \/ (Rank[log[i]] = 3 /\ Rank[log[j]] = 3)
    /\ \A i \in DOMAIN log :
         /\ log[i] = "loadend" => i > 1 /\ Rank[log[i - 1]] = 5
         /\ Rank[log[i]] = 5 => i > 1 /\ log[i - 1] = "done"

\* Once a mocked response or an error is played back, the native request has not
\* been sent since open(), and never will be, whenever open(), abort() and finally()
\* come: under the same condition on send().
NativeStaysOut ==
  clean /\ (defined \/ shadow # -1) => native = OPENED /\ ~inFlight

\* The response of an XMLHttpRequest that is used once is announced at most once,
\* as a mocked one if and only if it was, and with all of its body.
AnnouncedAsAnswered ==
  sends = 1 =>
    /\ Len(responses) <= 1
    /\ \A i \in DOMAIN responses :
         /\ responses[i].mocked <=> phase[1] # "performed"
         /\ responses[i].mocked => responses[i].body = buffer

\* What a request needs from others: the listeners of "request" return, the stream
\* of a mocked body ends, and the network answers.
OthersAreLive ==
  /\ \A s \in Sends :
       WF_vars(Decide(s)) /\ WF_vars(Measure(s)) /\ WF_vars(Finalize(s))
  /\ WF_vars(NativeEnds)

\* Then a request gets its "loadend", unless the application throws, a stream fails,
\* or open() is called again before an answer, which ends the native request.  The
\* condition on send() is the one of EventOrder: after an answer a second mocked
\* response cannot be played, and an unanswered request is never performed.
EverySendEnds ==
  OthersAreLive =>
    \A s \in Sends :
      phase[s] = "asking" /\ clean ~>
        "loadend" \in ToSet(log) \/ threw \/ failed \/ (opened /\ ~handled) \/ ~clean
=============================================================================
