---------------------------- MODULE FetchResponse ----------------------------
(***************************************************************************)
(* How the promise of an intercepted fetch() settles.                      *)
(*                                                                         *)
(* The patched fetch() asks handleRequest() for an outcome (see            *)
(* RequestHandling).  A mocked response is handed out when the "response"  *)
(* listeners have returned; a mocked redirect is followed by a fetch() of  *)
(* its own, with a new request that keeps little of the first one; a       *)
(* request nobody answers is performed.  The model has one fetch() of the  *)
(* application and the chain of calls its redirects make.                  *)
(***************************************************************************)
EXTENDS Integers, SequencesExt

CONSTANTS
  Origins,    \* the origins a URL may have
  MaxCalls    \* bound: calls of fetch() in the chain

ASSUME MaxCallsAssumption == MaxCalls \in Nat \ {0}

VARIABLES
  calls,      \* the chain: call i + 1 follows a redirect of call i
  patched     \* the global fetch() is the patched one

vars == <<calls, patched>>

Phases == {"asking",     \* handleRequest() has not decided
           "answering",  \* the "response" listeners run, awaited
           "excusing",   \* they run for the 500 response of an exception, not awaited
           "following",  \* the next call has been made
           "native",     \* performed by the original fetch()
           "plain",      \* made when fetch() was not patched any more
           "settled", "hanging",
           "beyond"}     \* redirected once more, after MaxCalls calls

Request ==
  [origin : Origins,
   credentials : BOOLEAN,      \* has an authorization, proxy-authorization, cookie or
                               \* host header
   redirect : {"follow", "manual", "error"},
   body : BOOLEAN]

Call == [request : Request, phase : Phases, result : {"none", "response", "error"}]

TypeOK ==
  /\ calls \in Seq(Call)
  /\ Len(calls) <= MaxCalls
  /\ patched \in BOOLEAN

Init ==
  /\ calls = <<>>
  /\ patched = TRUE

\* What a redirect says: its status and where its location points to.
Location ==
  [see_other : BOOLEAN,        \* 303
   valid : BOOLEAN,            \* a URL with the scheme HTTP(S)
   origin : Origins,
   userinfo : BOOLEAN]         \* a user name or password

-----------------------------------------------------------------------------
(* A call.                                                                 *)

Made(request) ==
  [request |-> request, phase |-> IF patched THEN "asking" ELSE "plain",
   result |-> "none"]

Settled(i, result) == [calls[i] EXCEPT !.phase = "settled", !.result = result]
Settle(i, result) == calls' = [calls EXCEPT ![i] = Settled(i, result)]
Enter(i, phase) == calls' = [calls EXCEPT ![i].phase = phase]
In(i, phase) == i \in DOMAIN calls /\ calls[i].phase = phase

\* The application calls fetch().
Fetch ==
  /\ calls = <<>>
  /\ \E request \in Request : calls' = <<Made(request)>>
  /\ UNCHANGED patched

\* dispose() restores the original fetch(); calls under way go on.
Dispose ==
  /\ patched
  /\ patched' = FALSE
  /\ UNCHANGED calls

-----------------------------------------------------------------------------
(* The outcomes of handleRequest().                                        *)

\* onResponse() with a response that is not to be followed: no redirect, or one in
\* the mode "manual".
Answer(i) ==
  /\ In(i, "asking")
  /\ Enter(i, "answering")
  /\ UNCHANGED patched

\* onResponse() with the response an exception is turned into.
Excuse(i) ==
  /\ In(i, "asking")
  /\ Enter(i, "excusing")
  /\ UNCHANGED patched

\* onRequestError(), onError(), or handleRequest() rejects; a mocked redirect in the
\* mode "error".
Fail(i) ==
  /\ In(i, "asking")
  /\ Settle(i, "error")
  /\ UNCHANGED patched

PerformAsIs(i) ==
  /\ In(i, "asking")
  /\ Enter(i, "native")
  /\ UNCHANGED patched

\* followFetchRedirect() rejects: the body cannot be sent again, there is nowhere to
\* go, or there are credentials in the URL, with which no request can be made.
Refuses(request, to) ==
  \/ ~to.see_other /\ request.body
  \/ ~to.valid
  \/ to.userinfo

\* The request that follows: a GET without a body, with a signal of its own, and
\* the headers of the first one, less those that must not leave the origin.
NextRequestWithAllHeaders(request, to) ==
  [origin |-> to.origin, credentials |-> request.credentials,
   redirect |-> "follow", body |-> FALSE]
NextRequest(request, to) ==
  [origin |-> to.origin,
   credentials |-> request.credentials /\ request.origin = to.origin,
   redirect |-> "follow", body |-> FALSE]

\* The limit on redirects is never met: the property that counts them stays with the
\* request that was redirected.
Follow(i) ==
  /\ In(i, "asking")
  /\ calls[i].request.redirect = "follow"
  /\ \E to \in Location :
       \/ /\ Refuses(calls[i].request, to)
          /\ Settle(i, "error")
       \/ /\ ~Refuses(calls[i].request, to)
          /\ Len(calls) < MaxCalls
          /\ calls' = Append([calls EXCEPT ![i].phase = "following"],
                             Made(NextRequest(calls[i].request, to)))
       \/ /\ ~Refuses(calls[i].request, to)
          /\ Len(calls) = MaxCalls
          /\ Enter(i, "beyond")
  /\ UNCHANGED patched

Decide(i) == Answer(i) \/ Excuse(i) \/ Fail(i) \/ PerformAsIs(i) \/ Follow(i)

-----------------------------------------------------------------------------
(* Settling.                                                               *)

\* The "response" listeners return, or one of them throws: emitAsync() rejects, and
\* with it fetch(), unless nobody awaits onResponse().
ListenersEnd(i) ==
  /\ \/ /\ In(i, "answering")
        /\ \E result \in {"response", "error"} : Settle(i, result)
     \/ /\ In(i, "excusing")
        /\ Settle(i, "response") \/ Enter(i, "hanging")
  /\ UNCHANGED patched

\* The original fetch() settles; the "response" listeners are awaited.
NativeEnds(i) ==
  /\ \/ In(i, "native") /\ (Enter(i, "answering") \/ Settle(i, "error"))
     \/ In(i, "plain") /\ \E result \in {"response", "error"} : Settle(i, result)
  /\ UNCHANGED patched

\* The call a redirect has made has settled.
ReturnResponse(i) ==
  /\ In(i, "following") /\ In(i + 1, "settled")
  /\ calls[i + 1].result = "response"
  /\ Settle(i, "response")
  /\ UNCHANGED patched
Return(i) ==
  /\ In(i, "following") /\ In(i + 1, "settled")
  /\ Settle(i, calls[i + 1].result)
  /\ UNCHANGED patched

Next ==
  \/ Fetch \/ Dispose
  \/ \E i \in 1..MaxCalls :
       Decide(i) \/ ListenersEnd(i) \/ NativeEnds(i) \/ Return(i)

\* The continuations of promises run.
Fairness == \A i \in 1..MaxCalls : WF_vars(Return(i))

Spec == Init /\ [][Next]_vars /\ Fairness

-----------------------------------------------------------------------------
(* Properties.                                                             *)

\* Headers that carry credentials are sent to the origin the application has sent
\* them to, and do not come back once a redirect has left it.
CredentialsStay ==
  \A i \in DOMAIN calls :
    calls[i].request.credentials =>
      \A j \in 1..i : calls[j].request.origin = calls[1].request.origin

\* If the listeners return and the network answers, fetch() settles, unless
\* listeners of both "request" and "response" throw, or the chain of mocked redirects
\* goes on beyond MaxCalls calls: one that never ends is followed for ever.
OthersAreLive ==
  \A i \in 1..MaxCalls :
    WF_vars(Decide(i)) /\ WF_vars(ListenersEnd(i)) /\ WF_vars(NativeEnds(i))
EveryCallSettles ==
  OthersAreLive =>
    (calls # <<>> ~>
       \/ In(1, "settled")
       \/ In(Len(calls), "hanging")
       \/ In(Len(calls), "beyond"))
=============================================================================
