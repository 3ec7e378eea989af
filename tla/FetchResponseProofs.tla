------------------------- MODULE FetchResponseProofs -------------------------
(***************************************************************************)
(* Credentials stay where the application has sent them, and nobody waits  *)
(* in vain, for any set of origins and a chain of redirects of any length. *)
(***************************************************************************)
EXTENDS FetchResponse, TLAPS

\* Only the last call is under way: the others wait for the next one or are over.
OnlyLastUnderWay ==
  \A i \in DOMAIN calls : i < Len(calls) => calls[i].phase \in {"following", "settled"}

IInv == TypeOK /\ OnlyLastUnderWay /\ CredentialsStay

-----------------------------------------------------------------------------

\* A call that settles or goes on to another phase is still a call, and its request
\* is the same; the others are what they were.
LEMMA ChangeOneCall ==
  ASSUME TypeOK, NEW i \in DOMAIN calls, NEW call \in Call,
         call.request = calls[i].request,
         calls' = [calls EXCEPT ![i] = call]
  PROVE  /\ calls' \in Seq(Call)
         /\ Len(calls') = Len(calls)
         /\ DOMAIN calls' = DOMAIN calls
         /\ \A j \in DOMAIN calls : calls'[j].request = calls[j].request
         /\ \A j \in DOMAIN calls : j # i => calls'[j] = calls[j]
         /\ calls'[i] = call
<1>1. calls \in Seq(Call)
  BY DEF TypeOK
<1>2. QED
  BY <1>1

\* What a call becomes is a call.
LEMMA CallTypes ==
  ASSUME TypeOK, NEW i \in DOMAIN calls
  PROVE  /\ \A result \in {"none", "response", "error"} :
              /\ Settled(i, result) \in Call
              /\ Settled(i, result).request = calls[i].request
              /\ Settled(i, result).phase = "settled"
         /\ \A phase \in Phases :
              /\ [calls[i] EXCEPT !.phase = phase] \in Call
              /\ [calls[i] EXCEPT !.phase = phase].request = calls[i].request
              /\ [calls[i] EXCEPT !.phase = phase].phase = phase
<1>1. calls[i] \in Call
  BY DEF TypeOK
<1>2. "settled" \in Phases
  BY DEF Phases
<1> HIDE DEF Phases
<1>3. QED
  BY <1>1, <1>2 DEF Call, Settled

\* The invariant is kept when one call changes, if it is over or it was the last one.
LEMMA ChangeKeeps ==
  ASSUME IInv, NEW i \in DOMAIN calls, NEW call \in Call,
         call.request = calls[i].request,
         call.phase \in {"following", "settled"} \/ i = Len(calls),
         calls' = [calls EXCEPT ![i] = call],
         patched' \in BOOLEAN
  PROVE  IInv'
<1>1. /\ calls' \in Seq(Call)
      /\ Len(calls') = Len(calls)
      /\ DOMAIN calls' = DOMAIN calls
      /\ \A j \in DOMAIN calls : calls'[j].request = calls[j].request
      /\ \A j \in DOMAIN calls : j # i => calls'[j] = calls[j]
      /\ calls'[i] = call
  BY ChangeOneCall DEF IInv
<1>2. TypeOK'
  BY <1>1 DEF TypeOK, IInv
<1>3. OnlyLastUnderWay'
  BY <1>1 DEF OnlyLastUnderWay, IInv
<1>4. CredentialsStay'
  <2>1. \A j \in DOMAIN calls : 1 \in DOMAIN calls /\ 1..j \subseteq DOMAIN calls
    BY DEF TypeOK, IInv
  <2>2. QED
    BY <1>1, <2>1 DEF CredentialsStay, IInv
<1>5. QED
  BY <1>2, <1>3, <1>4 DEF IInv

\* A call in any phase but these two is the last one.
LEMMA UnderWayIsLast ==
  ASSUME IInv, NEW i, NEW phase \in Phases \ {"following", "settled"}, In(i, phase)
  PROVE  i \in DOMAIN calls /\ i = Len(calls)
<1>1. i \in DOMAIN calls /\ calls[i].phase = phase
  BY DEF In
<1>2. i \in 1..Len(calls)
  BY <1>1 DEF IInv, TypeOK
<1>3. ~(i < Len(calls))
  BY <1>1 DEF IInv, OnlyLastUnderWay
<1>4. QED
  BY <1>1, <1>2, <1>3 DEF IInv, TypeOK

-----------------------------------------------------------------------------

LEMMA MadeType ==
  ASSUME NEW request \in Request
  PROVE  Made(request) \in Call /\ Made(request).request = request
BY DEF Made, Call, Phases

LEMMA NextRequestType ==
  ASSUME NEW request \in Request, NEW to \in Location
  PROVE  /\ NextRequest(request, to) \in Request
         /\ NextRequest(request, to).credentials =>
              /\ request.credentials
              /\ NextRequest(request, to).origin = request.origin
<1>1. to.origin \in Origins /\ request.credentials \in BOOLEAN
  BY DEF Request, Location
<1>2. QED
  BY <1>1, Zenon DEF Request, NextRequest

LEMMA InitIInv == Init => IInv
<1> SUFFICES ASSUME Init PROVE IInv
  OBVIOUS
<1>1. Len(calls) = 0 /\ DOMAIN calls = {}
  BY DEF Init
<1>2. calls \in Seq(Call)
  BY DEF Init
<1>3. patched \in BOOLEAN
  BY DEF Init
<1>4. TypeOK
  BY <1>1, <1>2, <1>3, MaxCallsAssumption DEF TypeOK
<1>5. QED
  BY <1>1, <1>4 DEF IInv, OnlyLastUnderWay, CredentialsStay

LEMMA FetchKeeps == IInv /\ Fetch => IInv'
<1> SUFFICES ASSUME IInv, Fetch PROVE IInv'
  OBVIOUS
<1>1. PICK request \in Request : calls' = <<Made(request)>>
  BY DEF Fetch
<1> DEFINE call == Made(request)
<1>2. call \in Call /\ call.request = request
  BY MadeType
<1>p. patched' \in BOOLEAN
  BY DEF Fetch, IInv, TypeOK
<1> HIDE DEF call
<1>3. calls' = <<call>>
  BY <1>1 DEF call
<1>4. Len(calls') = 1 /\ DOMAIN calls' = {1} /\ calls'[1] = call
  BY <1>3
<1>5. calls' \in Seq(Call)
  BY <1>2, <1>3
<1>6. TypeOK'
  BY <1>4, <1>5, <1>p, MaxCallsAssumption DEF TypeOK
<1>7. OnlyLastUnderWay'
  BY <1>4 DEF OnlyLastUnderWay
<1>8. CredentialsStay'
  BY <1>4 DEF CredentialsStay
<1>9. QED
  BY <1>6, <1>7, <1>8 DEF IInv

\* Every step of a call but a redirect that is followed changes that call only.
LEMMA SettleKeeps ==
  ASSUME IInv, NEW i \in DOMAIN calls, NEW result \in {"none", "response", "error"},
         Settle(i, result), patched' = patched
  PROVE  IInv'
<1>1. /\ Settled(i, result) \in Call
      /\ Settled(i, result).request = calls[i].request
      /\ Settled(i, result).phase = "settled"
  BY CallTypes DEF IInv
<1>2. calls' = [calls EXCEPT ![i] = Settled(i, result)]
  BY DEF Settle
<1>3. patched' \in BOOLEAN
  BY DEF IInv, TypeOK
<1>4. QED
  BY <1>1, <1>2, <1>3, ChangeKeeps

LEMMA EnterKeeps ==
  ASSUME IInv, NEW i \in DOMAIN calls, i = Len(calls), NEW phase \in Phases,
         Enter(i, phase), patched' = patched
  PROVE  IInv'
<1> DEFINE call == [calls[i] EXCEPT !.phase = phase]
<1>1. call \in Call /\ call.request = calls[i].request
  BY CallTypes DEF IInv
<1>2. calls' = [calls EXCEPT ![i] = call]
  BY DEF Enter
<1>3. patched' \in BOOLEAN
  BY DEF IInv, TypeOK
<1> HIDE DEF call
<1>4. QED
  BY <1>1, <1>2, <1>3, ChangeKeeps

LEMMA FollowKeeps ==
  ASSUME IInv, NEW i, Follow(i)
  PROVE  IInv'
<1>1. i \in DOMAIN calls /\ i = Len(calls)
  BY UnderWayIsLast DEF Follow, Phases
<1>2. PICK to \in Location :
        \/ Settle(i, "error")
        \/ /\ Len(calls) < MaxCalls
           /\ calls' = Append([calls EXCEPT ![i].phase = "following"],
                              Made(NextRequest(calls[i].request, to)))
        \/ Enter(i, "beyond")
  BY DEF Follow
<1>3. patched' = patched
  BY DEF Follow
<1>4. CASE Settle(i, "error")
  BY <1>1, <1>3, <1>4, SettleKeeps
<1>5. CASE /\ Len(calls) < MaxCalls
           /\ calls' = Append([calls EXCEPT ![i].phase = "following"],
                              Made(NextRequest(calls[i].request, to)))
  <2> DEFINE waiting == [calls[i] EXCEPT !.phase = "following"]
             next == Made(NextRequest(calls[i].request, to))
  <2>1. /\ waiting \in Call
        /\ waiting.request = calls[i].request
        /\ waiting.phase = "following"
    <3>1. "following" \in Phases
      BY DEF Phases
    <3>2. QED
      BY <1>1, <3>1, CallTypes DEF IInv
  <2>2. calls[i].request \in Request
    <3>1. calls[i] \in Call
      BY <1>1 DEF IInv, TypeOK
    <3>2. QED
      BY <3>1 DEF Call
  <2>3. /\ next \in Call
        /\ next.request.credentials =>
             /\ calls[i].request.credentials
             /\ next.request.origin = calls[i].request.origin
    BY <2>2, NextRequestType, MadeType
  <2>4. calls' = Append([calls EXCEPT ![i] = waiting], next)
    BY <1>5
  <2> HIDE DEF waiting, next
  <2>5. calls \in Seq(Call)
    BY DEF IInv, TypeOK
  <2> DEFINE n == Len(calls)
  <2>6. n \in Nat /\ i = n /\ n >= 1
    BY <1>1, <2>5
  <2>7. /\ calls' \in Seq(Call)
        /\ Len(calls') = n + 1
        /\ \A j \in 1..(n - 1) : calls'[j] = calls[j]
        /\ calls'[n] = waiting
        /\ calls'[n + 1] = next
        /\ DOMAIN calls' = 1..(n + 1)
        /\ DOMAIN calls = 1..n
    BY <2>1, <2>3, <2>4, <2>5, <2>6
  <2>8. TypeOK'
    <3>1. patched' \in BOOLEAN
      BY <1>3 DEF IInv, TypeOK
    <3>2. Len(calls') <= MaxCalls
      BY <1>5, <2>6, <2>7, MaxCallsAssumption
    <3>3. QED
      BY <2>7, <3>1, <3>2 DEF TypeOK
  <2>9. OnlyLastUnderWay'
    <3> SUFFICES ASSUME NEW j \in 1..(n + 1), j < n + 1
                 PROVE  calls'[j].phase \in {"following", "settled"}
      BY <2>7 DEF OnlyLastUnderWay
    <3>1. CASE j = n
      BY <3>1, <2>7, <2>1
    <3>2. CASE j # n
      <4>1. j \in 1..(n - 1) /\ j \in DOMAIN calls /\ j < Len(calls)
        BY <3>2, <2>6, <2>7
      <4>2. QED
        BY <4>1, <2>7 DEF IInv, OnlyLastUnderWay
    <3>3. QED
      BY <3>1, <3>2
  <2>10. CredentialsStay'
    <3>1. \A j \in 1..n : calls'[j].request = calls[j].request
      <4> TAKE j \in 1..n
      <4>1. j = n \/ j \in 1..(n - 1)
        BY <2>6
      <4>2. QED
        BY <4>1, <2>7, <2>1, <2>6
    <3>2. \A k \in 1..n : calls[k].request.credentials =>
            \A j \in 1..k : calls[j].request.origin = calls[1].request.origin
      BY <2>7 DEF IInv, CredentialsStay
    <3> SUFFICES ASSUME NEW k \in 1..(n + 1), calls'[k].request.credentials,
                        NEW j \in 1..k
                 PROVE  calls'[j].request.origin = calls'[1].request.origin
      BY <2>7 DEF CredentialsStay
    <3>3. 1 \in 1..n
      BY <2>6
    <3>4. CASE k \in 1..n
      <4>1. j \in 1..n
        BY <3>4, <2>6
      <4>2. QED
        BY <4>1, <3>1, <3>2, <3>3, <3>4
    <3>5. CASE k = n + 1
      <4>1. /\ calls[n].request.credentials
            /\ next.request.origin = calls[n].request.origin
        BY <3>5, <2>3, <2>6, <2>7
      <4>2. \A m \in 1..n : calls[m].request.origin = calls[1].request.origin
        BY <4>1, <3>2, <2>6
      <4>3. CASE j \in 1..n
        BY <4>3, <4>2, <3>1, <3>3
      <4>4. CASE j = n + 1
        <5>1. n \in 1..n
          BY <2>6
        <5>2. QED
          BY <5>1, <4>1, <4>2, <4>4, <2>7, <3>1, <3>3
      <4>5. QED
        BY <4>3, <4>4, <3>5, <2>6
    <3>6. QED
      BY <3>4, <3>5, <2>6
  <2>11. QED
    BY <2>8, <2>9, <2>10 DEF IInv
<1>6. CASE Enter(i, "beyond")
  BY <1>1, <1>3, <1>6, EnterKeeps DEF Phases
<1>7. QED
  BY <1>2, <1>4, <1>5, <1>6

LEMMA CallStepKeeps ==
  ASSUME IInv, NEW i, Decide(i) \/ ListenersEnd(i) \/ NativeEnds(i) \/ Return(i)
  PROVE  IInv'
<1>1. ASSUME Answer(i) \/ Excuse(i) \/ PerformAsIs(i)
      PROVE  IInv'
  <2>1. In(i, "asking") /\ patched' = patched
    BY <1>1 DEF Answer, Excuse, PerformAsIs
  <2>2. i \in DOMAIN calls /\ i = Len(calls)
    BY <2>1, UnderWayIsLast DEF Phases
  <2>3. PICK phase \in Phases : Enter(i, phase)
    BY <1>1 DEF Answer, Excuse, PerformAsIs, Phases
  <2>4. QED
    BY <2>1, <2>2, <2>3, EnterKeeps
<1>2. ASSUME Fail(i)
      PROVE  IInv'
  <2>1. In(i, "asking") /\ patched' = patched /\ Settle(i, "error")
    BY <1>2 DEF Fail
  <2>2. i \in DOMAIN calls
    BY <2>1 DEF In
  <2>3. QED
    BY <2>1, <2>2, SettleKeeps
<1>3. ASSUME ListenersEnd(i) \/ NativeEnds(i)
      PROVE  IInv'
  <2>1. PICK phase \in {"answering", "excusing", "native", "plain"} : In(i, phase)
    BY <1>3 DEF ListenersEnd, NativeEnds
  <2>2. i \in DOMAIN calls /\ i = Len(calls)
    BY <2>1, UnderWayIsLast DEF Phases
  <2>3. \/ \E result \in {"none", "response", "error"} : Settle(i, result)
        \/ \E next \in Phases : Enter(i, next)
    BY <1>3 DEF ListenersEnd, NativeEnds, Phases
  <2>4. patched' = patched
    BY <1>3 DEF ListenersEnd, NativeEnds
  <2>5. QED
    BY <2>2, <2>3, <2>4, SettleKeeps, EnterKeeps
<1>4. ASSUME Return(i)
      PROVE  IInv'
  <2>1. /\ i \in DOMAIN calls
        /\ i + 1 \in DOMAIN calls
        /\ Settle(i, calls[i + 1].result)
        /\ patched' = patched
    BY <1>4 DEF Return, In
  <2>2. calls[i + 1].result \in {"none", "response", "error"}
    <3>1. calls[i + 1] \in Call
      BY <2>1 DEF IInv, TypeOK
    <3>2. QED
      BY <3>1 DEF Call
  <2>3. QED
    BY <2>1, <2>2, SettleKeeps
<1>5. QED
  BY <1>1, <1>2, <1>3, <1>4, FollowKeeps DEF Decide

LEMMA StepIInv == IInv /\ [Next]_vars => IInv'
<1> SUFFICES ASSUME IInv, [Next]_vars PROVE IInv'
  OBVIOUS
<1>1. CASE Fetch
  BY <1>1, FetchKeeps
<1>2. CASE Dispose
  BY <1>2 DEF Dispose, IInv, TypeOK, OnlyLastUnderWay, CredentialsStay
<1>3. ASSUME NEW i \in 1..MaxCalls,
             Decide(i) \/ ListenersEnd(i) \/ NativeEnds(i) \/ Return(i)
      PROVE  IInv'
  BY <1>3, CallStepKeeps
<1>4. CASE UNCHANGED vars
  BY <1>4 DEF vars, IInv, TypeOK, OnlyLastUnderWay, CredentialsStay
<1>5. QED
  BY <1>1, <1>2, <1>3, <1>4 DEF Next

\* The inductive invariant.
THEOREM Invariance == Spec => []IInv
BY InitIInv, StepIInv, PTL DEF Spec

\* The variables have their types: the chain is a sequence of calls, each with a
\* request of its own.
THEOREM TypeCorrect == Spec => []TypeOK
<1>1. IInv => TypeOK
  BY DEF IInv
<1>2. QED
  BY <1>1, Invariance, PTL

\* Headers with credentials never reach an origin that the application has not sent
\* them to, whatever the redirects (followFetchRedirect()).
THEOREM CredentialsSafe == Spec => []CredentialsStay
<1>1. IInv => CredentialsStay
  BY DEF IInv
<1>2. QED
  BY <1>1, Invariance, PTL

\* A chain of redirects has one call under way (the others await it).
THEOREM OneCallUnderWay == Spec => []OnlyLastUnderWay
<1>1. IInv => OnlyLastUnderWay
  BY DEF IInv
<1>2. QED
  BY <1>1, Invariance, PTL
-----------------------------------------------------------------------------
(* Nobody waits in vain.                                                   *)

\* The chain is in three parts: calls that wait for the next one, the call k that has
\* not been told the outcome of the next one or is the last, and calls that are over.
FrontAt(k) ==
  /\ k \in DOMAIN calls
  /\ calls[k].phase # "following"
  /\ \A i \in DOMAIN calls : i < k => calls[i].phase = "following"
  /\ \A i \in DOMAIN calls : i > k => calls[i].phase = "settled"

Outcomes == \A i \in DOMAIN calls :
  calls[i].phase = "settled" => calls[i].result # "none"

DInv == Outcomes /\ (calls # <<>> => \E k \in DOMAIN calls : FrontAt(k))

\* What the application waits for: its call is over, or the last call waits for listeners
\* or for the network, or there is a settled call whose outcome the call before it has
\* not passed on.
UnderWay == {"asking", "answering", "excusing", "native", "plain"}
CanGoOn ==
  \/ calls[Len(calls)].phase \in UnderWay
  \/ \E i \in DOMAIN calls : In(i, "following") /\ In(i + 1, "settled")
NoDeadEnd ==
  calls # <<>> =>
    \/ In(1, "settled") /\ calls[1].result # "none"
    \/ In(Len(calls), "hanging")
    \/ In(Len(calls), "beyond")
    \/ CanGoOn

\* A call settles: it was the one in front, or it waited for that one.
LEMMA SettleDInv ==
  ASSUME IInv, DInv, NEW i \in DOMAIN calls, NEW result \in {"response", "error"},
         Settle(i, result),
         calls[i].phase \in {"following", "settled"} => In(i, "following") /\ In(i + 1, "settled")
  PROVE  DInv'
<1> DEFINE call == Settled(i, result)
<1>1. /\ call \in Call
      /\ call.request = calls[i].request
      /\ call.phase = "settled"
  BY CallTypes DEF IInv
<1>2. call.result = result
  <2>1. calls[i] \in Call
    BY DEF IInv, TypeOK
  <2>2. QED
    BY <2>1 DEF Call, Settled
<1>3. calls' = [calls EXCEPT ![i] = call]
  BY DEF Settle
<1> HIDE DEF call
<1>4. /\ DOMAIN calls' = DOMAIN calls
      /\ \A j \in DOMAIN calls : j # i => calls'[j] = calls[j]
      /\ calls'[i] = call
  BY <1>1, <1>3, ChangeOneCall DEF IInv
<1>5. Outcomes'
  BY <1>1, <1>2, <1>4 DEF Outcomes, DInv
<1>6. DOMAIN calls = 1..Len(calls) /\ Len(calls) \in Nat
  BY DEF IInv, TypeOK
<1>7. calls # <<>>
  BY <1>6
<1>8. PICK k \in DOMAIN calls : FrontAt(k)
  BY <1>7 DEF DInv
<1>9. i = k \/ (i + 1 = k /\ calls[k].phase = "settled")
  <2>1. CASE calls[i].phase \in {"following", "settled"}
    <3>1. /\ calls[i].phase = "following"
          /\ i + 1 \in DOMAIN calls
          /\ calls[i + 1].phase = "settled"
      BY <2>1 DEF In
    <3>2. ~(i > k) /\ ~(i = k)
      BY <3>1, <1>8 DEF FrontAt
    <3>3. ~(i + 1 < k)
      BY <3>1, <1>8 DEF FrontAt
    <3>4. i + 1 = k
      BY <3>2, <3>3, <1>6
    <3>5. QED
      BY <3>1, <3>4
  <2>2. CASE calls[i].phase \notin {"following", "settled"}
    <3>1. ~(i > k) /\ ~(i < k)
      BY <2>2, <1>8 DEF FrontAt
    <3>2. QED
      BY <3>1, <1>6
  <2>3. QED
    BY <2>1, <2>2
<1>10. FrontAt(i)'
  <2>1. \A j \in DOMAIN calls : j < i => calls[j].phase = "following"
    <3> TAKE j \in DOMAIN calls
    <3>1. j < i => j < k
      BY <1>6, <1>9
    <3>2. QED
      BY <3>1, <1>8 DEF FrontAt
  <2>2. \A j \in DOMAIN calls : j > i => calls[j].phase = "settled"
    <3> TAKE j \in DOMAIN calls
    <3>1. j > i => j > k \/ (j = k /\ calls[k].phase = "settled")
      BY <1>6, <1>9
    <3>2. QED
      BY <3>1, <1>8 DEF FrontAt
  <2>3. \A j \in DOMAIN calls : (j < i \/ j > i) => calls'[j] = calls[j]
    BY <1>4, <1>6
  <2>4. calls'[i].phase = "settled" /\ i \in DOMAIN calls'
    BY <1>1, <1>4
  <2>5. QED
    BY <1>4, <2>1, <2>2, <2>3, <2>4 DEF FrontAt
<1>11. QED
  BY <1>4, <1>5, <1>10 DEF DInv

\* The last call goes on to another phase, in which it still is the one in front.
LEMMA EnterDInv ==
  ASSUME IInv, DInv, NEW i \in DOMAIN calls, i = Len(calls),
         calls[i].phase \notin {"following", "settled"},
         NEW phase \in Phases \ {"following", "settled"}, Enter(i, phase)
  PROVE  DInv'
<1> DEFINE call == [calls[i] EXCEPT !.phase = phase]
<1>1. /\ call \in Call
      /\ call.request = calls[i].request
      /\ call.phase = phase
  BY CallTypes DEF IInv
<1>2. calls' = [calls EXCEPT ![i] = call]
  BY DEF Enter
<1> HIDE DEF call
<1>3. /\ DOMAIN calls' = DOMAIN calls
      /\ \A j \in DOMAIN calls : j # i => calls'[j] = calls[j]
      /\ calls'[i] = call
  BY <1>1, <1>2, ChangeOneCall DEF IInv
<1>4. Outcomes'
  BY <1>1, <1>3 DEF Outcomes, DInv
<1>5. DOMAIN calls = 1..Len(calls) /\ Len(calls) \in Nat
  BY DEF IInv, TypeOK
<1>6. calls # <<>>
  BY <1>5
<1>7. PICK k \in DOMAIN calls : FrontAt(k)
  BY <1>6 DEF DInv
<1>8. i = k
  BY <1>5, <1>7 DEF FrontAt
<1>9. FrontAt(i)'
  BY <1>1, <1>3, <1>5, <1>7, <1>8 DEF FrontAt
<1>10. QED
  BY <1>3, <1>4, <1>9 DEF DInv

\* A new last call is the one in front: the others wait.
LEMMA FollowDInv ==
  ASSUME IInv, DInv, NEW i, Follow(i)
  PROVE  DInv'
<1>1. i \in DOMAIN calls /\ i = Len(calls) /\ calls[i].phase = "asking"
  BY UnderWayIsLast DEF Follow, Phases, In
<1>2. PICK to \in Location :
        \/ Settle(i, "error")
        \/ calls' = Append([calls EXCEPT ![i].phase = "following"],
                           Made(NextRequest(calls[i].request, to)))
        \/ Enter(i, "beyond")
  BY DEF Follow
<1>3. CASE Settle(i, "error")
  BY <1>1, <1>3, SettleDInv
<1>4. CASE calls' = Append([calls EXCEPT ![i].phase = "following"],
                           Made(NextRequest(calls[i].request, to)))
  <2> DEFINE waiting == [calls[i] EXCEPT !.phase = "following"]
             next == Made(NextRequest(calls[i].request, to))
  <2>n. PICK n : n = Len(calls)
    OBVIOUS
  <2>1. waiting \in Call /\ waiting.phase = "following"
    <3>1. "following" \in Phases
      BY DEF Phases
    <3>2. QED
      BY <1>1, <3>1, CallTypes DEF IInv
  <2>2. calls[i].request \in Request
    <3>1. calls[i] \in Call
      BY <1>1 DEF IInv, TypeOK
    <3>2. QED
      BY <3>1 DEF Call
  <2>3. next \in Call /\ next.phase \notin {"following", "settled"}
    <3>1. next \in Call
      BY <2>2, NextRequestType, MadeType
    <3>2. next.phase \in {"asking", "plain"}
      BY DEF Made
    <3>3. QED
      BY <3>1, <3>2
  <2>4. calls' = Append([calls EXCEPT ![i] = waiting], next)
    BY <1>4
  <2> HIDE DEF waiting, next
  <2>5. calls \in Seq(Call) /\ n \in Nat /\ i = n /\ n >= 1
    BY <1>1, <2>n DEF IInv, TypeOK
  <2>6. /\ DOMAIN calls' = 1..(n + 1)
        /\ DOMAIN calls = 1..n
        /\ \A j \in 1..(n - 1) : calls'[j] = calls[j]
        /\ calls'[n] = waiting
        /\ calls'[n + 1] = next
    BY <2>n, <2>1, <2>3, <2>4, <2>5
  <2>7. calls # <<>>
    BY <2>n, <2>5
  <2>8. PICK k \in DOMAIN calls : FrontAt(k)
    BY <2>7 DEF DInv
  <2>9. k = n
    <3>1. ~(i < k) /\ ~(i > k)
      BY <1>1, <2>n, <2>8 DEF FrontAt
    <3>2. QED
      BY <2>5, <2>6, <3>1
  <2>10. \A j \in 1..n : calls'[j].phase = "following"
    <3> TAKE j \in 1..n
    <3>1. CASE j = n
      BY <2>1, <2>6, <3>1
    <3>2. CASE j # n
      <4>1. j \in 1..(n - 1) /\ j < n
        BY <2>5, <3>2
      <4>2. QED
        BY <4>1, <2>6, <2>8, <2>9 DEF FrontAt
    <3>3. QED
      BY <3>1, <3>2
  <2>11. FrontAt(n + 1)'
    <3>1. \A j \in 1..(n + 1) : (j < n + 1 => j \in 1..n) /\ ~(j > n + 1)
      BY <2>5
    <3>2. n + 1 \in 1..(n + 1)
      BY <2>5
    <3>3. QED
      BY <2>3, <2>6, <2>10, <3>1, <3>2 DEF FrontAt
  <2>12. Outcomes'
    <3> SUFFICES ASSUME NEW j \in 1..(n + 1), calls'[j].phase = "settled"
                 PROVE  FALSE
      BY <2>6 DEF Outcomes
    <3>1. j \in 1..n \/ j = n + 1
      BY <2>5
    <3>2. QED
      BY <3>1, <2>3, <2>6, <2>10
  <2>13. n + 1 \in DOMAIN calls'
    BY <2>5, <2>6
  <2>14. QED
    BY <2>11, <2>12, <2>13 DEF DInv
<1>5. CASE Enter(i, "beyond")
  BY <1>1, <1>5, EnterDInv DEF Phases
<1>6. QED
  BY <1>2, <1>3, <1>4, <1>5

LEMMA CallStepDInv ==
  ASSUME IInv, DInv, NEW i, Decide(i) \/ ListenersEnd(i) \/ NativeEnds(i) \/ Return(i)
  PROVE  DInv'
<1>1. ASSUME Answer(i) \/ Excuse(i) \/ Fail(i) \/ PerformAsIs(i)
               \/ ListenersEnd(i) \/ NativeEnds(i)
      PROVE  DInv'
  <2>1. PICK phase \in UnderWay : In(i, phase)
    BY <1>1 DEF Answer, Excuse, Fail, PerformAsIs, ListenersEnd, NativeEnds, UnderWay
  <2>2. phase \in Phases \ {"following", "settled"}
    BY DEF UnderWay, Phases
  <2>3. /\ i \in DOMAIN calls
        /\ i = Len(calls)
        /\ calls[i].phase \notin {"following", "settled"}
    BY <2>1, <2>2, UnderWayIsLast DEF In
  <2>4. \/ \E result \in {"response", "error"} : Settle(i, result)
        \/ \E next \in Phases \ {"following", "settled"} : Enter(i, next)
    BY <1>1 DEF Answer, Excuse, Fail, PerformAsIs, ListenersEnd, NativeEnds, Phases
  <2>5. QED
    BY <2>3, <2>4, SettleDInv, EnterDInv
<1>2. ASSUME Return(i)
      PROVE  DInv'
  <2>1. /\ In(i, "following") /\ In(i + 1, "settled")
        /\ Settle(i, calls[i + 1].result)
    BY <1>2 DEF Return
  <2>2. i \in DOMAIN calls /\ i + 1 \in DOMAIN calls
    BY <2>1 DEF In
  <2>3. calls[i + 1].result \in {"response", "error"}
    <3>1. calls[i + 1] \in Call
      BY <2>2 DEF IInv, TypeOK
    <3>2. calls[i + 1].result # "none"
      BY <2>1 DEF DInv, Outcomes, In
    <3>3. QED
      BY <3>1, <3>2 DEF Call
  <2>4. QED
    BY <2>1, <2>2, <2>3, SettleDInv
<1>3. QED
  BY <1>1, <1>2, FollowDInv DEF Decide

LEMMA FetchDInv == Fetch => DInv'
<1> SUFFICES ASSUME Fetch PROVE DInv'
  OBVIOUS
<1>1. PICK request \in Request : calls' = <<Made(request)>>
  BY DEF Fetch
<1> DEFINE call == Made(request)
<1>2. call.phase \in {"asking", "plain"}
  BY DEF Made
<1> HIDE DEF call
<1>3. calls' = <<call>>
  BY <1>1 DEF call
<1>4. DOMAIN calls' = {1} /\ calls'[1] = call
  BY <1>3
<1>5. FrontAt(1)'
  BY <1>2, <1>4 DEF FrontAt
<1>6. Outcomes'
  BY <1>2, <1>4 DEF Outcomes
<1>7. QED
  BY <1>4, <1>5, <1>6 DEF DInv

LEMMA StepDInv == IInv /\ DInv /\ [Next]_vars => DInv'
<1> SUFFICES ASSUME IInv, DInv, [Next]_vars PROVE DInv'
  OBVIOUS
<1>1. CASE Fetch
  BY <1>1, FetchDInv
<1>2. CASE UNCHANGED calls
  BY <1>2 DEF DInv, Outcomes, FrontAt
<1>3. ASSUME NEW i \in 1..MaxCalls,
             Decide(i) \/ ListenersEnd(i) \/ NativeEnds(i) \/ Return(i)
      PROVE  DInv'
  BY <1>3, CallStepDInv
<1>4. QED
  BY <1>1, <1>2, <1>3 DEF Next, Dispose, vars

LEMMA InitDInv == Init => DInv
BY DEF Init, DInv, Outcomes

LEMMA DInvGoesOn == IInv /\ DInv => NoDeadEnd
<1> SUFFICES ASSUME IInv, DInv, calls # <<>>,
                    ~(In(1, "settled") /\ calls[1].result # "none"),
                    ~In(Len(calls), "hanging"), ~In(Len(calls), "beyond")
             PROVE  CanGoOn
  BY DEF NoDeadEnd
<1>1. calls \in Seq(Call) /\ DOMAIN calls = 1..Len(calls) /\ Len(calls) \in Nat
  BY DEF IInv, TypeOK
<1>2. PICK k \in DOMAIN calls : FrontAt(k)
  BY DEF DInv
<1>3. k \in 1..Len(calls)
  BY <1>1
<1>4. CASE calls[k].phase = "settled"
  <2>1. k # 1
    BY <1>2, <1>4 DEF In, DInv, Outcomes
  <2>2. k - 1 \in DOMAIN calls /\ k - 1 < k /\ (k - 1) + 1 = k
    BY <1>1, <1>3, <2>1
  <2>3. In(k - 1, "following")
    BY <1>2, <2>2 DEF In, FrontAt
  <2>4. In((k - 1) + 1, "settled")
    BY <1>4, <2>2 DEF In
  <2>5. QED
    BY <2>2, <2>3, <2>4 DEF CanGoOn
<1>5. CASE calls[k].phase # "settled"
  <2>1. calls[k].phase \notin {"following", "settled"}
    BY <1>2, <1>5 DEF FrontAt
  <2>2. k = Len(calls)
    <3>1. ~(k < Len(calls))
      BY <2>1 DEF IInv, OnlyLastUnderWay
    <3>2. QED
      BY <1>1, <1>3, <3>1
  <2>3. calls[k].phase \in Phases
    <3>1. calls[k] \in Call
      BY <1>1
    <3>2. QED
      BY <3>1 DEF Call
  <2>4. calls[k].phase \notin {"hanging", "beyond"}
    BY <2>2 DEF In
  <2>5. calls[k].phase \in UnderWay
    BY <2>1, <2>3, <2>4 DEF Phases, UnderWay
  <2>6. QED
    BY <2>2, <2>5 DEF CanGoOn
<1>6. QED
  BY <1>4, <1>5

\* The safe half of EveryCallSettles: a fetch() that has been called is over, hangs with
\* its last call because listeners of both events threw, is redirected once more than
\* MaxCalls allows, or somebody can go on with it:
\* the last call's listeners or network, or the promise that a settled call has resolved.
THEOREM NobodyWaitsInVain == Spec => []NoDeadEnd
<1>1. Spec => [](IInv /\ DInv)
  <2>1. Init => IInv /\ DInv
    BY InitIInv, InitDInv
  <2>2. IInv /\ DInv /\ [Next]_vars => (IInv /\ DInv)'
    BY StepIInv, StepDInv
  <2>3. QED
    BY <2>1, <2>2, PTL DEF Spec
<1>2. IInv /\ DInv => NoDeadEnd
  BY DInvGoesOn
<1>3. QED
  BY <1>1, <1>2, PTL
=============================================================================
