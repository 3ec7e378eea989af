------------------------- MODULE HandleSharingProofs -------------------------
(***************************************************************************)
(* The safety properties of HandleSharing hold for any number of           *)
(* connection attempts, any set of variants and any number of chunks; no   *)
(* "close" that a consumer waits for is lost.                              *)
(***************************************************************************)
EXTENDS HandleSharing, TLAPS

\* The events a destroyed socket emits form a sequence of events.
LEMMA EventsOfDestroyType ==
  ASSUME NEW hasError
  PROVE  EventsOfDestroy(hasError) \in Seq({"error", "close"})
<1> DEFINE Event == {"error", "close"}
<1>1. <<"error">> \in Seq(Event) /\ <<"close">> \in Seq(Event) /\ <<>> \in Seq(Event)
  OBVIOUS
<1>2. (IF hasError THEN <<"error">> ELSE <<>>) \in Seq(Event)
  BY <1>1
<1>3. (IF attempt \in closed THEN <<>> ELSE <<"close">>) \in Seq(Event)
  BY <1>1
<1>4. \A s, t \in Seq(Event) : s \o t \in Seq(Event)
  OBVIOUS
<1> HIDE DEF Event
<1>5. EventsOfDestroy(hasError) \in Seq(Event)
  BY <1>2, <1>3, <1>4 DEF EventsOfDestroy
<1> QED
  BY <1>5 DEF Event

\* What emit() puts off is an event behind the latest head.
LEMMA LaterType ==
  ASSUME TypeOK, NEW event \in {"error", "close"}
  PROVE  Later(event) \subseteq Deferrable
<1>1. ~EmitsAtOnce => heads \in Heads
  BY MaxHeadsAssumption DEF EmitsAtOnce, TypeOK, Heads
<1> QED
  BY <1>1 DEF Later, Deferrable

\* Destroying the mock socket, whoever asks for it, preserves every part of the
\* inductive invariant that it can disturb; the error branch is the one that
\* takes the original socket along.
LEMMA DestroyMockKeeps ==
  ASSUME IInv, NEW hasError \in BOOLEAN, DestroyMock(hasError),
         NEW R, reading' = reading \cup R, R \subseteq (1..attempt),
         attempt \in R => orig # "connecting",
         build' = build, socketState' = socketState, attempt' = attempt,
         listeners' = listeners \/ (listeners > 0 /\ listeners' = listeners - 1),
         wantsRead' \in BOOLEAN, closeEmitted' = closeEmitted,
         pushes' = pushes, heads' = heads, returned' = returned,
         \/ faults' = faults
         \/ /\ faults' = faults \cup {"EINVAL"}
            /\ build.alias /\ ~build.readNoop /\ attempt > 1
  PROVE  IInv'
PROOF
<1> USE AttemptsAssumption, BuildsAssumption, MaxPushesAssumption,
        MaxHeadsAssumption
<1> DEFINE borrowed == IF mockHandle = 0 THEN {} ELSE {mockHandle}
<1>1. /\ orig' = orig \/ (orig \in Alive /\ orig' = "destroyed")
      /\ orig' # orig => TakesOriginal(hasError)
      /\ closed \subseteq closed'
      /\ closed' \subseteq closed \cup {attempt} \cup borrowed
      /\ orig' # orig => attempt \in closed'
      /\ orig' = orig => closed' = closed \cup borrowed /\ origEvents' = origEvents
      /\ TakesOriginal(hasError) => orig' = "destroyed"
      /\ inFlight' \in BOOLEAN
  BY DEF DestroyMock, TakesOriginal, IInv, TypeOK, Alive
<1>2. /\ mockHandle' = 0
      /\ destroyed' = TRUE
      /\ connecting' = FALSE
      /\ armed' = (armed /\ ~(hasError /\ EmitsAtOnce))
      /\ closePending' \in BOOLEAN
      /\ deferred' \subseteq Deferrable
  BY LaterType DEF DestroyMock, IInv, TypeOK, TakesOriginal
<1>3. origEvents' \in Seq({"error", "close"})
  <2>1. origEvents \in Seq({"error", "close"})
    BY DEF IInv, TypeOK
  <2>2. CASE TakesOriginal(hasError)
    <3>1. PICK e : e = EventsOfDestroy(TRUE)
      OBVIOUS
    <3>2. e \in Seq({"error", "close"})
      BY <3>1, EventsOfDestroyType
    <3>3. origEvents' = origEvents \o e
      BY <2>2, <3>1 DEF DestroyMock
    <3>4. origEvents \o e \in Seq({"error", "close"})
      BY <2>1, <3>2
    <3> QED
      BY <3>3, <3>4
  <2>3. CASE ~TakesOriginal(hasError)
    BY <2>1, <2>3 DEF DestroyMock
  <2> QED
    BY <2>2, <2>3
<1>4. mockHandle \in {0, 1} /\ (mockHandle # 0 => attempt \in 1..Attempts)
  BY DEF IInv, TypeOK, Bookkeeping
<1>5. TypeOK'
  <2>1. closed' \subseteq Handles
    BY <1>1, <1>4 DEF IInv, TypeOK, Bookkeeping, Handles, Alive
  <2>2. reading' \subseteq Handles
    BY DEF IInv, TypeOK, Handles
  <2>3. listeners' \in Nat
    BY DEF IInv, TypeOK
  <2>4. armed' \in BOOLEAN /\ destroyed' \in BOOLEAN /\ connecting' \in BOOLEAN
    BY <1>2
  <2>5. faults' \subseteq {"EINVAL", "ECANCELED"}
    BY DEF IInv, TypeOK
  <2>6. orig' \in Alive \cup {"none", "destroyed"}
    BY <1>1 DEF IInv, TypeOK
  <2>7. mockHandle' \in 0..Attempts
    BY <1>2
  <2> QED
    BY <1>1, <1>2, <1>3, <2>1, <2>2, <2>3, <2>4, <2>5, <2>6, <2>7
    DEF IInv, TypeOK
<1>6. Bookkeeping'
  BY <1>1, <1>2, <1>5 DEF IInv, Bookkeeping, TypeOK, Alive
<1>7. OwnerKeepsHandle'
  BY <1>1, <1>2, <1>4 DEF IInv, OwnerKeepsHandle, Bookkeeping, Alive
<1>8. FaultsNeedTheAlias'
  BY DEF IInv, FaultsNeedTheAlias
<1>9. ListenersBounded'
  BY DEF IInv, ListenersBounded, TypeOK
<1>10. NoOrphanHandle'
  BY <1>1, <1>4 DEF IInv, NoOrphanHandle, Alive
<1>11. ErrorTakesOriginal'
  BY <1>1, <1>2 DEF IInv, ErrorTakesOriginal, TakesOriginal, Alive
<1> QED
  BY <1>5, <1>6, <1>7, <1>8, <1>9, <1>10, <1>11 DEF IInv

\* The original socket destroys itself: it closes its own handle.
LEMMA DestroyOriginalKeeps ==
  ASSUME IInv, orig \in Alive, NEW hasError \in BOOLEAN,
         DestroyOriginal(hasError),
         \/ faults' = faults
         \/ (faults' = faults \cup {"ECANCELED"} /\ build.alias),
         UNCHANGED <<build, socketState, attempt, reading, mockHandle,
                     connecting, destroyed, wantsRead, listeners,
                     closePending, pushes, heads, returned>>,
         armed' = armed \/ (armed' = FALSE),
         closeEmitted' \in BOOLEAN, deferred' \subseteq deferred
  PROVE  IInv'
PROOF
<1> USE AttemptsAssumption, BuildsAssumption, MaxPushesAssumption,
        MaxHeadsAssumption
<1>1. EventsOfDestroy(hasError) \in Seq({"error", "close"})
  BY EventsOfDestroyType
<1>2. attempt \in 1..Attempts
  BY DEF IInv, TypeOK, Bookkeeping, Alive
<1>3. TypeOK'
  <2>1. origEvents' \in Seq({"error", "close"})
    BY <1>1 DEF IInv, TypeOK, DestroyOriginal
  <2> QED
  BY <1>2, <2>1 DEF IInv, TypeOK, DestroyOriginal, Handles
<1>4. Bookkeeping'
  <2>1. closed' \subseteq 1..attempt'
    BY <1>2 DEF IInv, TypeOK, Bookkeeping, DestroyOriginal
  <2> QED
    BY <1>2, <2>1 DEF IInv, TypeOK, Bookkeeping, DestroyOriginal, Alive
<1>5. OwnerKeepsHandle' /\ ListenersBounded' /\ ErrorTakesOriginal'
  BY DEF IInv, DestroyOriginal, OwnerKeepsHandle, ListenersBounded,
         ErrorTakesOriginal, Alive
<1>6. FaultsNeedTheAlias'
  BY DEF IInv, FaultsNeedTheAlias
<1>7. NoOrphanHandle'
  BY DEF IInv, NoOrphanHandle, DestroyOriginal, Alive
<1> QED
  BY <1>3, <1>4, <1>5, <1>6, <1>7 DEF IInv

\* The inductive invariant holds initially.
LEMMA InitIInv == Init => IInv
PROOF
<1> USE AttemptsAssumption, BuildsAssumption, MaxPushesAssumption,
        MaxHeadsAssumption
<1> SUFFICES ASSUME Init PROVE IInv
  OBVIOUS
<1>1. TypeOK
  <2>1. /\ attempt \in 0..Attempts /\ mockHandle \in 0..Attempts
        /\ listeners \in Nat /\ pushes \in 0..MaxPushes
    BY DEF Init
  <2>2. /\ orig \in Alive \cup {"none", "destroyed"}
        /\ closed \subseteq Handles /\ reading \subseteq Handles
    BY DEF Init
  <2>3. origEvents \in Seq({"error", "close"})
    BY DEF Init
  <2>4. /\ heads \in 0..MaxHeads /\ returned \subseteq Heads
        /\ deferred \subseteq Deferrable
    BY DEF Init
  <2> QED
    BY <2>1, <2>2, <2>3, <2>4 DEF Init, TypeOK
<1>2. Bookkeeping
  BY DEF Init, Bookkeeping
<1>3. /\ OwnerKeepsHandle /\ FaultsNeedTheAlias /\ ListenersBounded
      /\ NoOrphanHandle /\ ErrorTakesOriginal
  BY DEF Init, OwnerKeepsHandle, FaultsNeedTheAlias, ListenersBounded,
         NoOrphanHandle, ErrorTakesOriginal, Alive
<1> QED
  BY <1>1, <1>2, <1>3 DEF IInv

\* Every step preserves the inductive invariant.
LEMMA StepIInv == IInv /\ [Next]_vars => IInv'
PROOF
<1> USE AttemptsAssumption, BuildsAssumption, MaxPushesAssumption,
        MaxHeadsAssumption
<1> SUFFICES ASSUME IInv, [Next]_vars PROVE IInv'
  OBVIOUS
<1>1. CASE Read
  <2>0. wantsRead /\ ~destroyed /\ wantsRead' = FALSE
    BY <1>1 DEF Read
  <2>1. CASE ReadIsNoop /\ UNCHANGED <<orig, closed, reading, inFlight,
               origEvents, armed, closePending, destroyed, mockHandle,
               connecting, listeners, faults, deferred>>
    <3>91. TypeOK'
      BY <1>1, <2>1 DEF Read, IInv, TypeOK, Bookkeeping, Alive, Handles
    <3>92. Bookkeeping'
      BY <1>1, <2>1 DEF Read, IInv, TypeOK, Bookkeeping, ListenersBounded, Alive
    <3>93. /\ OwnerKeepsHandle' /\ FaultsNeedTheAlias' /\ ListenersBounded'
          /\ NoOrphanHandle' /\ ErrorTakesOriginal'
      BY <1>1, <2>1
      DEF Read, IInv, TypeOK, Bookkeeping, OwnerKeepsHandle,
          FaultsNeedTheAlias, ListenersBounded, NoOrphanHandle,
          ErrorTakesOriginal, Alive
    <3> QED
      BY <3>91, <3>92, <3>93 DEF IInv
  <2>2. CASE ~ReadIsNoop /\ ReadLater
    <3>1. build.alias \/ build.readNoop => listeners = 0
      BY <2>0, <2>2 DEF ReadLater, ReadIsNoop, IInv, TypeOK, Bookkeeping,
           ListenersBounded
    <3>2. listeners' \in Nat
      BY <2>2 DEF ReadLater, IInv, TypeOK
    <3>91. TypeOK'
      BY <1>1, <2>0, <2>2, <3>2 DEF Read, ReadLater, IInv, TypeOK
    <3>92. Bookkeeping'
      BY <1>1, <2>0, <2>2, <3>1 DEF Read, ReadLater, IInv, TypeOK, Bookkeeping, ListenersBounded, Alive
    <3>93. /\ OwnerKeepsHandle' /\ FaultsNeedTheAlias' /\ ListenersBounded'
          /\ NoOrphanHandle' /\ ErrorTakesOriginal'
      BY <1>1, <2>0, <2>2, <3>1
      DEF Read, ReadLater, IInv, TypeOK, Bookkeeping, OwnerKeepsHandle,
          FaultsNeedTheAlias, ListenersBounded, NoOrphanHandle,
          ErrorTakesOriginal, Alive
    <3> QED
      BY <3>91, <3>92, <3>93 DEF IInv
  <2>3. CASE ~ReadIsNoop /\ ReadHandle /\ UNCHANGED listeners
    <3>1. /\ build.alias /\ ~build.readNoop /\ mockHandle = 1
          /\ attempt \in reading /\ orig # "connecting"
          /\ reading' = reading \cup {1}
      BY <2>0, <2>3 DEF ReadHandle, ReadIsNoop, IInv, TypeOK, Bookkeeping
    <3>2. attempt \in Nat /\ attempt >= 1
      BY <3>1 DEF IInv, TypeOK, Bookkeeping
    <3>3. CASE mockHandle \in closed \ reading
      <4>1. attempt > 1
        BY <3>1, <3>2, <3>3
      <4>2. DestroyMock(TRUE) /\ faults' = faults \cup {"EINVAL"}
        BY <2>3, <3>3 DEF ReadHandle
      <4>3. /\ build' = build /\ socketState' = socketState
            /\ attempt' = attempt /\ listeners' = listeners
            /\ closeEmitted' = closeEmitted /\ pushes' = pushes
              /\ heads' = heads /\ returned' = returned
        BY <1>1, <2>3 DEF Read
      <4> QED
        <5>1. wantsRead' \in BOOLEAN
          BY <2>0
        <5>2. /\ {1} \subseteq 1..attempt
              /\ attempt \in {1} => orig # "connecting"
          BY <3>1, <3>2
        <5> QED
          BY <3>1, <4>1, <4>2, <4>3, <5>1, <5>2, DestroyMockKeeps
    <3>4. CASE mockHandle \notin closed \ reading
      <4>1. UNCHANGED <<orig, closed, inFlight, origEvents, armed,
                        closePending, destroyed, mockHandle, connecting, faults,
                        deferred>>
        BY <2>3, <3>4 DEF ReadHandle
      <4>2. reading' \subseteq 1..attempt /\ reading' \subseteq Handles
        BY <3>1, <3>2 DEF IInv, TypeOK, Bookkeeping, Handles
      <4>3. wantsRead' \in BOOLEAN
        BY <2>0
      <4>91. TypeOK'
        BY <1>1, <2>3, <4>1, <4>2, <4>3 DEF Read, IInv, TypeOK
      <4>92. Bookkeeping'
        BY <1>1, <2>0, <2>3, <3>1, <3>2, <4>1, <4>2 DEF Read, IInv, TypeOK, Bookkeeping
      <4>93. /\ OwnerKeepsHandle' /\ FaultsNeedTheAlias' /\ ListenersBounded'
            /\ NoOrphanHandle' /\ ErrorTakesOriginal'
        BY <1>1, <2>0, <2>3, <3>1, <3>2, <3>4
        DEF Read, ReadHandle, IInv, TypeOK, Bookkeeping, OwnerKeepsHandle,
            FaultsNeedTheAlias, ListenersBounded, NoOrphanHandle,
            ErrorTakesOriginal, Alive
      <4> QED
        BY <4>91, <4>92, <4>93 DEF IInv
    <3> QED
      BY <3>3, <3>4
  <2> QED
    BY <1>1, <2>1, <2>2, <2>3 DEF Read
<1>2. CASE Passthrough
  <2>1. /\ attempt' \in 0..Attempts /\ mockHandle' \in 0..Attempts
        /\ orig' \in Alive \cup {"none", "destroyed"}
        /\ armed' \in BOOLEAN
    <3>1. CASE destroyed
      BY <1>2, <3>1 DEF Passthrough, IInv, TypeOK
    <3>2. CASE ~destroyed
      <4>1. attempt' = 1 /\ orig' = "connecting" /\ armed' = TRUE
            /\ mockHandle' \in {0, 1}
        BY <1>2, <3>2 DEF Passthrough
      <4> QED
        BY <4>1 DEF Alive
    <3> QED
      BY <3>1, <3>2
  <2>91. TypeOK'
    BY <1>2, <2>1 DEF Passthrough, IInv, TypeOK
  <2>92. Bookkeeping'
    BY <1>2 DEF Passthrough, IInv, TypeOK, Bookkeeping, ListenersBounded, Alive
  <2>93. /\ OwnerKeepsHandle' /\ FaultsNeedTheAlias' /\ ListenersBounded'
        /\ NoOrphanHandle' /\ ErrorTakesOriginal'
    BY <1>2
    DEF Passthrough, IInv, TypeOK, Bookkeeping, OwnerKeepsHandle,
        FaultsNeedTheAlias, ListenersBounded, NoOrphanHandle,
        ErrorTakesOriginal, Alive
  <2> QED
    BY <2>91, <2>92, <2>93 DEF IInv
<1>3. CASE Destroy
  <2>1. PICK hasError \in BOOLEAN :
          /\ DestroyMock(hasError)
          /\ UNCHANGED <<build, socketState, attempt, reading, wantsRead,
                         listeners, closeEmitted, faults, pushes, heads,
                         returned>>
    BY <1>3 DEF Destroy
  <2>2. wantsRead' \in BOOLEAN
    BY <2>1 DEF IInv, TypeOK
  <2>3. reading' = reading \cup {}
    BY <2>1
  <2> QED
    BY <2>1, <2>2, <2>3, DestroyMockKeeps
<1>4. CASE EmitClose
  <2>1. deferred' \subseteq Deferrable
    BY <1>4, LaterType DEF EmitClose, IInv, TypeOK
  <2>91. TypeOK'
    BY <1>4, <2>1 DEF EmitClose, IInv, TypeOK, Bookkeeping, Alive, Handles
  <2>92. Bookkeeping'
    BY <1>4 DEF EmitClose, IInv, TypeOK, Bookkeeping, ListenersBounded, Alive
  <2>93. /\ OwnerKeepsHandle' /\ FaultsNeedTheAlias' /\ ListenersBounded'
        /\ NoOrphanHandle' /\ ErrorTakesOriginal'
    BY <1>4
    DEF EmitClose, IInv, TypeOK, Bookkeeping, OwnerKeepsHandle,
        FaultsNeedTheAlias, ListenersBounded, NoOrphanHandle,
        ErrorTakesOriginal, Alive
  <2> QED
    BY <2>91, <2>92, <2>93 DEF IInv
<1>5. CASE NextAttempt
  <2>91. TypeOK'
    BY <1>5 DEF NextAttempt, IInv, TypeOK, Bookkeeping, Alive, Handles
  <2>92. Bookkeeping'
    BY <1>5 DEF NextAttempt, IInv, TypeOK, Bookkeeping, ListenersBounded, Alive
  <2>93. /\ OwnerKeepsHandle' /\ FaultsNeedTheAlias' /\ ListenersBounded'
        /\ NoOrphanHandle' /\ ErrorTakesOriginal'
    BY <1>5
    DEF NextAttempt, IInv, TypeOK, Bookkeeping, OwnerKeepsHandle,
        FaultsNeedTheAlias, ListenersBounded, NoOrphanHandle,
        ErrorTakesOriginal, Alive
  <2> QED
    BY <2>91, <2>92, <2>93 DEF IInv
<1>6. CASE Connect
  <2>0. /\ orig = "connecting" /\ attempt \notin closed /\ attempt \notin reading
        /\ attempt \in 1..Attempts /\ socketState = "passthrough"
        /\ UNCHANGED <<build, socketState, attempt, wantsRead, closeEmitted,
                       pushes, heads, returned>>
    BY <1>6 DEF Connect, IInv, TypeOK, Bookkeeping
  <2>1. CASE StaleOnConnect
    <3>1. /\ DestroyMock(TRUE)
          /\ listeners > 0 /\ ~ReadIsNoop /\ mockHandle # 0
          /\ mockHandle \in closed \ reading
          /\ listeners' = listeners - 1
          /\ reading' = reading \cup {mockHandle}
          /\ faults' = faults \cup {"EINVAL"}
      BY <1>6, <2>0, <2>1 DEF Connect, ReadOnConnect, StaleOnConnect
    <3>2. mockHandle = 1 /\ attempt > 1 /\ build.alias /\ ~build.readNoop
      BY <2>0, <3>1 DEF IInv, TypeOK, Bookkeeping, ReadIsNoop
    <3>3. wantsRead' \in BOOLEAN
      BY <2>0 DEF IInv, TypeOK
    <3>4. /\ {mockHandle} \subseteq 1..attempt
          /\ attempt \in {mockHandle} => orig # "connecting"
      BY <2>0, <3>2
    <3> QED
      BY <2>0, <3>1, <3>2, <3>3, <3>4, DestroyMockKeeps
  <2>2. CASE ~StaleOnConnect
    <3>1. /\ listeners' \in {0, listeners}
          /\ orig' = "connected" /\ connecting' = FALSE
          /\ UNCHANGED <<closed, inFlight, origEvents, armed, closePending,
                         destroyed, mockHandle, faults, deferred>>
      BY <1>6, <2>2 DEF Connect, ReadOnConnect
    <3>2. /\ attempt \in reading'
          /\ reading' \subseteq reading \cup {mockHandle, attempt}
          /\ mockHandle = 0 => reading' = reading \cup {attempt}
      BY <1>6, <2>2 DEF Connect, ReadOnConnect
    <3>3. reading' \subseteq 1..attempt
      BY <2>0, <3>2 DEF IInv, TypeOK, Bookkeeping
    <3>4. TypeOK'
      <4>1. reading' \subseteq Handles /\ closed' \subseteq Handles
        BY <2>0, <3>1, <3>3 DEF IInv, TypeOK, Handles
      <4>2. listeners' \in Nat
        BY <3>1 DEF IInv, TypeOK
      <4> QED
        BY <2>0, <3>1, <4>1, <4>2 DEF IInv, TypeOK, Alive
    <3>5. Bookkeeping'
      BY <2>0, <3>1, <3>2, <3>3 DEF IInv, TypeOK, Bookkeeping
    <3>6. /\ OwnerKeepsHandle' /\ FaultsNeedTheAlias' /\ ListenersBounded'
          /\ NoOrphanHandle' /\ ErrorTakesOriginal'
      BY <2>0, <3>1
      DEF IInv, TypeOK, OwnerKeepsHandle, FaultsNeedTheAlias, ListenersBounded,
          NoOrphanHandle, ErrorTakesOriginal, Alive
    <3> QED
      BY <3>4, <3>5, <3>6 DEF IInv
  <2> QED
    BY <2>1, <2>2
<1>7. CASE Data
  <2>91. TypeOK'
    BY <1>7 DEF Data, IInv, TypeOK, Bookkeeping, Alive, Handles
  <2>92. Bookkeeping'
    BY <1>7 DEF Data, IInv, TypeOK, Bookkeeping, ListenersBounded, Alive
  <2>93. /\ OwnerKeepsHandle' /\ FaultsNeedTheAlias' /\ ListenersBounded'
        /\ NoOrphanHandle' /\ ErrorTakesOriginal'
    BY <1>7
    DEF Data, IInv, TypeOK, Bookkeeping, OwnerKeepsHandle,
        FaultsNeedTheAlias, ListenersBounded, NoOrphanHandle,
        ErrorTakesOriginal, Alive
  <2> QED
    BY <2>91, <2>92, <2>93 DEF IInv
<1>8. CASE Write
  <2>91. TypeOK'
    BY <1>8 DEF Write, IInv, TypeOK, Bookkeeping, Alive, Handles
  <2>92. Bookkeeping'
    BY <1>8 DEF Write, IInv, TypeOK, Bookkeeping, ListenersBounded, Alive
  <2>93. /\ OwnerKeepsHandle' /\ FaultsNeedTheAlias' /\ ListenersBounded'
        /\ NoOrphanHandle' /\ ErrorTakesOriginal'
    BY <1>8
    DEF Write, IInv, TypeOK, Bookkeeping, OwnerKeepsHandle,
        FaultsNeedTheAlias, ListenersBounded, NoOrphanHandle,
        ErrorTakesOriginal, Alive
  <2> QED
    BY <2>91, <2>92, <2>93 DEF IInv
<1>9. CASE Canceled
  <2>1. build.alias
    BY <1>9 DEF Canceled, IInv, OwnerKeepsHandle
  <2>2. closeEmitted \in BOOLEAN
    BY DEF IInv, TypeOK
  <2> QED
    BY <1>9, <2>1, <2>2, DestroyOriginalKeeps DEF Canceled
<1>10. CASE PeerEnds
  <2>1. closeEmitted \in BOOLEAN
    BY DEF IInv, TypeOK
  <2> QED
    BY <1>10, <2>1, DestroyOriginalKeeps DEF PeerEnds
<1>11. CASE Forward
  <2>1. Tail(origEvents) \in Seq({"error", "close"})
    BY <1>11 DEF Forward, IInv, TypeOK
  <2>2. orig = "destroyed"
    BY <1>11 DEF Forward, IInv, Bookkeeping
  <2>3. armed' \in BOOLEAN /\ closeEmitted' \in BOOLEAN
    BY <1>11 DEF Forward
  <2>4. deferred' \subseteq Deferrable
    <3>1. Head(origEvents) \in {"error", "close"}
      BY <1>11 DEF Forward, IInv, TypeOK
    <3> QED
      BY <1>11, <3>1, LaterType DEF Forward, IInv, TypeOK
  <2>91. TypeOK'
    BY <1>11, <2>1, <2>2, <2>3, <2>4
    DEF Forward, IInv, TypeOK, Bookkeeping, Alive, Handles
  <2>92. Bookkeeping'
    BY <1>11, <2>1, <2>2, <2>3 DEF Forward, IInv, TypeOK, Bookkeeping, ListenersBounded, Alive
  <2>93. /\ OwnerKeepsHandle' /\ FaultsNeedTheAlias' /\ ListenersBounded'
        /\ NoOrphanHandle' /\ ErrorTakesOriginal'
    BY <1>11, <2>1, <2>2, <2>3
    DEF Forward, IInv, TypeOK, Bookkeeping, OwnerKeepsHandle,
        FaultsNeedTheAlias, ListenersBounded, NoOrphanHandle,
        ErrorTakesOriginal, Alive
  <2> QED
    BY <2>91, <2>92, <2>93 DEF IInv
<1>12. ASSUME NEW h \in Heads, ListenersReturn(h) PROVE IInv'
  <2>1. TypeOK'
    BY <1>12 DEF ListenersReturn, IInv, TypeOK
  <2>2. Bookkeeping'
    BY <1>12 DEF ListenersReturn, IInv, Bookkeeping
  <2>3. /\ OwnerKeepsHandle' /\ FaultsNeedTheAlias' /\ ListenersBounded'
        /\ NoOrphanHandle' /\ ErrorTakesOriginal'
    BY <1>12
    DEF ListenersReturn, IInv, OwnerKeepsHandle, FaultsNeedTheAlias,
        ListenersBounded, NoOrphanHandle, ErrorTakesOriginal
  <2> QED
    BY <2>1, <2>2, <2>3 DEF IInv
<1>13. ASSUME NEW e \in Deferrable, EmitDeferred(e) PROVE IInv'
  <2>0. /\ armed' = (armed /\ e.event # "error")
        /\ closeEmitted' = (closeEmitted \/ e.event = "close")
        /\ deferred' \subseteq deferred
        /\ UNCHANGED <<build, socketState, attempt, reading, mockHandle, connecting,
                       destroyed, wantsRead, listeners, closePending, faults,
                       pushes, heads, returned>>
    BY <1>13 DEF EmitDeferred
  <2>01. armed' \in BOOLEAN /\ closeEmitted' \in BOOLEAN
    BY <2>0
  <2>02. armed' = armed \/ armed' = FALSE
    BY <2>0 DEF IInv, TypeOK
  <2>1. CASE e.event = "error" /\ armed /\ orig \in Alive
    BY <1>13, <2>0, <2>01, <2>02, <2>1, DestroyOriginalKeeps DEF EmitDeferred
  <2>2. CASE ~(e.event = "error" /\ armed /\ orig \in Alive)
    <3>0. UNCHANGED <<orig, closed, inFlight, origEvents>>
      BY <1>13, <2>2 DEF EmitDeferred
    <3>1. TypeOK'
      BY <2>0, <2>01, <3>0 DEF IInv, TypeOK
    <3>2. Bookkeeping'
      BY <2>0, <3>0 DEF IInv, Bookkeeping
    <3>3. /\ OwnerKeepsHandle' /\ FaultsNeedTheAlias' /\ ListenersBounded'
          /\ NoOrphanHandle'
      BY <2>0, <3>0
      DEF IInv, OwnerKeepsHandle, FaultsNeedTheAlias, ListenersBounded, NoOrphanHandle
    <3>4. ErrorTakesOriginal'
      <4> SUFFICES ASSUME orig \in Alive PROVE armed'
        BY <3>0 DEF ErrorTakesOriginal
      <4>1. armed
        BY DEF IInv, ErrorTakesOriginal
      <4> QED
        BY <2>0, <2>2, <4>1
    <3> QED
      BY <3>1, <3>2, <3>3, <3>4 DEF IInv
  <2> QED
    BY <2>1, <2>2
<1>14. CASE UNCHANGED vars
  <2>91. TypeOK'
    BY <1>14 DEF vars, IInv, TypeOK, Bookkeeping, Alive, Handles
  <2>92. Bookkeeping'
    BY <1>14 DEF vars, IInv, TypeOK, Bookkeeping, ListenersBounded, Alive
  <2>93. /\ OwnerKeepsHandle' /\ FaultsNeedTheAlias' /\ ListenersBounded'
        /\ NoOrphanHandle' /\ ErrorTakesOriginal'
    BY <1>14
    DEF vars, IInv, TypeOK, Bookkeeping, OwnerKeepsHandle,
        FaultsNeedTheAlias, ListenersBounded, NoOrphanHandle,
        ErrorTakesOriginal, Alive
  <2> QED
    BY <2>91, <2>92, <2>93 DEF IInv
<1> QED
  BY <1>1, <1>2, <1>3, <1>4, <1>5, <1>6, <1>7, <1>8, <1>9, <1>10, <1>11, <1>12,
     <1>13, <1>14
  DEF Next

\* IInv is an invariant of the specification.
LEMMA Inductive == Spec => []IInv
BY InitIInv, StepIInv, PTL DEF Spec

\* The variables keep their types.
THEOREM TypeCorrect == Spec => []TypeOK
<1>1. IInv => TypeOK
  BY DEF IInv
<1> QED
  BY <1>1, Inductive, PTL

\* The handle of an original socket in use is closed by nobody else, unless a
\* mock socket that borrowed it has been destroyed.
THEOREM HandleStaysOpen == Spec => []OwnerKeepsHandle
<1>1. IInv => OwnerKeepsHandle
  BY DEF IInv
<1> QED
  BY <1>1, Inductive, PTL

\* Without the alias there is neither "read EINVAL" nor "write ECANCELED"; with
\* it, EINVAL still takes the inherited "_read" and a second attempt.
THEOREM NoFaultWithoutAlias == Spec => []FaultsNeedTheAlias
<1>1. IInv => FaultsNeedTheAlias
  BY DEF IInv
<1> QED
  BY <1>1, Inductive, PTL

\* "connect" listeners do not pile up while chunks arrive.
THEOREM NoListenerLeak == Spec => []ListenersBounded
<1>1. IInv => ListenersBounded
  BY DEF IInv
<1> QED
  BY <1>1, Inductive, PTL

\* Every open handle is the current one of an original socket in use.
THEOREM NoHandleLeak == Spec => []NoOrphanHandle
<1>1. IInv => NoOrphanHandle
  BY DEF IInv
<1> QED
  BY <1>1, Inductive, PTL

\* An error of the mock socket leaves no original socket in use behind.
THEOREM ErrorIsPropagated == Spec => []ErrorTakesOriginal
<1>1. IInv => ErrorTakesOriginal
  BY DEF IInv
<1> QED
  BY <1>1, Inductive, PTL
-----------------------------------------------------------------------------
(* No "close" is lost.                                                     *)

Queued == \E i \in DOMAIN origEvents : origEvents[i] = "close"
Held == \E e \in deferred : e.event = "close"
Acknowledged == closePending \/ closeEmitted \/ Held

\* Whoever loses its connection, a mock socket that owns no handle or the original
\* socket, either has told the consumer or is about to: by the mock socket's own "close",
\* by one of the original socket that waits to be forwarded, or by one that emit() holds
\* back until "response" listeners return.
CloseIsComing ==
  /\ destroyed /\ ~build.alias => Acknowledged
  /\ orig = "destroyed" => Acknowledged \/ Queued

\* An original socket will not emit "close" for a handle that the mock socket closed; the
\* mock socket then does.
ClosedByMock == orig \in Alive /\ attempt \in closed => Acknowledged

CInv == CloseIsComing /\ ClosedByMock

\* What a sequence of events contains when some are added, and when the first is taken.
LEMMA AddedEvents ==
  ASSUME NEW s \in Seq({"error", "close"}), NEW t \in Seq({"error", "close"})
  PROVE  /\ (\E i \in DOMAIN s : s[i] = "close") =>
              \E i \in DOMAIN (s \o t) : (s \o t)[i] = "close"
         /\ (\E i \in DOMAIN t : t[i] = "close") =>
              \E i \in DOMAIN (s \o t) : (s \o t)[i] = "close"
<1>1. /\ DOMAIN (s \o t) = 1..(Len(s) + Len(t))
      /\ DOMAIN s = 1..Len(s) /\ DOMAIN t = 1..Len(t)
      /\ Len(s) \in Nat /\ Len(t) \in Nat
      /\ \A i \in 1..Len(s) : (s \o t)[i] = s[i]
      /\ \A i \in 1..Len(t) : (s \o t)[Len(s) + i] = t[i]
  OBVIOUS
<1>2. ASSUME NEW i \in DOMAIN s, s[i] = "close"
      PROVE  \E j \in DOMAIN (s \o t) : (s \o t)[j] = "close"
  <2>1. i \in DOMAIN (s \o t) /\ (s \o t)[i] = "close"
    BY <1>1, <1>2
  <2> QED
    BY <2>1
<1>3. ASSUME NEW i \in DOMAIN t, t[i] = "close"
      PROVE  \E j \in DOMAIN (s \o t) : (s \o t)[j] = "close"
  <2>1. Len(s) + i \in DOMAIN (s \o t) /\ (s \o t)[Len(s) + i] = "close"
    BY <1>1, <1>3
  <2> QED
    BY <2>1
<1> QED
  BY <1>2, <1>3

LEMMA TakenEvent ==
  ASSUME NEW s \in Seq({"error", "close"}), NEW i \in DOMAIN s, s[i] = "close"
  PROVE  Head(s) = "close" \/ \E j \in DOMAIN Tail(s) : Tail(s)[j] = "close"
<1>1. DOMAIN s = 1..Len(s) /\ Len(s) \in Nat /\ s # <<>>
  OBVIOUS
<1>2. CASE i = 1
  BY <1>1, <1>2
<1>3. CASE i # 1
  <2>1. i - 1 \in DOMAIN Tail(s) /\ Tail(s)[i - 1] = s[i]
    BY <1>1, <1>3
  <2> QED
    BY <2>1
<1> QED
  BY <1>2, <1>3

\* What an original socket emits of its destruction.
LEMMA EventsAdded ==
  ASSUME IInv, NEW hasError \in BOOLEAN,
         origEvents' = origEvents \o EventsOfDestroy(hasError)
  PROVE  /\ Queued => Queued'
         /\ attempt \notin closed => Queued'
<1>1. origEvents \in Seq({"error", "close"})
  BY DEF IInv, TypeOK
<1>2. PICK e : e = EventsOfDestroy(hasError)
  OBVIOUS
<1>3. e \in Seq({"error", "close"})
  BY <1>2, EventsOfDestroyType
<1>4. origEvents' = origEvents \o e
  BY <1>2
<1>5. attempt \notin closed => \E i \in DOMAIN e : e[i] = "close"
  <2> SUFFICES ASSUME attempt \notin closed PROVE \E i \in DOMAIN e : e[i] = "close"
    OBVIOUS
  <2>1. PICK s : s = IF hasError THEN <<"error">> ELSE <<>>
    OBVIOUS
  <2>2. PICK t : t = <<"close">>
    OBVIOUS
  <2>3. s \in Seq({"error", "close"}) /\ t \in Seq({"error", "close"})
    <3>1. /\ <<"error">> \in Seq({"error", "close"})
          /\ <<"close">> \in Seq({"error", "close"})
          /\ <<>> \in Seq({"error", "close"})
      OBVIOUS
    <3> QED
      BY <2>1, <2>2, <3>1
  <2>4. \E i \in DOMAIN t : t[i] = "close"
    BY <2>2
  <2>5. e = s \o t
    BY <1>2, <2>1, <2>2 DEF EventsOfDestroy
  <2> QED
    BY <2>3, <2>4, <2>5, AddedEvents
<1> QED
  BY <1>1, <1>3, <1>4, <1>5, AddedEvents DEF Queued

\* A "close" that cannot be emitted at once is held back.
LEMMA PutOff ==
  ASSUME ~EmitsAtOnce, deferred' = deferred \cup Later("close")
  PROVE  Held'
<1>1. PICK e : e = [event |-> "close", behind |-> heads]
  OBVIOUS
<1>2. e \in deferred' /\ e.event = "close"
  BY <1>1 DEF Later
<1> QED
  BY <1>2 DEF Held

\* A "close" that was announced stays announced where no event is taken back.
LEMMA StaysAcknowledged ==
  ASSUME closePending => closePending' \/ closeEmitted' \/ Held',
         closeEmitted => closeEmitted',
         deferred \subseteq deferred'
  PROVE  Acknowledged => Acknowledged'
BY DEF Acknowledged, Held

\* The mock socket is destroyed.
LEMMA DestroyMockCloses ==
  ASSUME IInv, CInv, NEW hasError \in BOOLEAN, DestroyMock(hasError),
         UNCHANGED <<build, attempt, closeEmitted>>
  PROVE  CInv'
<1>1. Acknowledged => Acknowledged'
  <2>1. deferred \subseteq deferred' /\ (closePending => closePending')
    BY DEF DestroyMock
  <2> QED
    BY <2>1, StaysAcknowledged
<1>2. mockHandle # 0 => build.alias /\ ~destroyed /\ mockHandle = 1
  BY DEF IInv, Bookkeeping
<1>3. 0 \notin closed /\ (orig \in Alive => attempt # 0)
  BY AttemptsAssumption DEF IInv, Bookkeeping, TypeOK, Alive
<1>4. destroyed' /\ ~build.alias => Acknowledged'
  <2> SUFFICES ASSUME ~build.alias PROVE Acknowledged'
    BY DEF IInv, TypeOK
  <2>1. mockHandle = 0
    BY <1>2
  <2>2. closePending' = (closePending \/ ~destroyed)
    BY <1>3, <2>1, Zenon DEF DestroyMock, TakesOriginal
  <2> QED
    BY <1>1, <2>2 DEF CInv, CloseIsComing, Acknowledged
<1>5. CASE TakesOriginal(hasError)
  <2>1. /\ orig' = "destroyed"
        /\ origEvents' = origEvents \o EventsOfDestroy(TRUE)
    BY <1>5 DEF DestroyMock
  <2>2. Acknowledged' \/ Queued'
    <3>1. attempt \in closed => Acknowledged
      BY <1>5 DEF TakesOriginal, CInv, ClosedByMock
    <3> QED
      BY <1>1, <2>1, <3>1, EventsAdded
  <2> QED
    BY <1>4, <2>1, <2>2 DEF CInv, CloseIsComing, ClosedByMock, Alive
<1>6. CASE ~TakesOriginal(hasError)
  <2>1. /\ orig' = orig /\ origEvents' = origEvents
        /\ closed' = closed \cup (IF mockHandle = 0 THEN {} ELSE {mockHandle})
        /\ closePending' = (closePending \/ (~destroyed /\ mockHandle \notin closed))
    BY <1>6 DEF DestroyMock
  <2>2. ClosedByMock'
    <3> SUFFICES ASSUME orig \in Alive, attempt \in closed' PROVE Acknowledged'
      BY <2>1 DEF ClosedByMock
    <3>1. CASE attempt \in closed
      BY <1>1, <3>1 DEF CInv, ClosedByMock
    <3>2. CASE attempt \notin closed
      <4>1. mockHandle # 0 /\ mockHandle = attempt
        BY <2>1, <3>2
      <4>2. ~destroyed /\ mockHandle \notin closed
        BY <1>2, <3>2, <4>1
      <4>3. closePending'
        BY <2>1, <4>2
      <4> QED
        BY <4>3 DEF Acknowledged
    <3> QED
      BY <3>1, <3>2
  <2>3. Queued' <=> Queued
    BY <2>1 DEF Queued
  <2> QED
    BY <1>1, <1>4, <2>1, <2>2, <2>3 DEF CInv, CloseIsComing
<1> QED
  BY <1>5, <1>6

\* The original socket is destroyed, by the network or by what was cancelled.
LEMMA DestroyOriginalCloses ==
  ASSUME IInv, CInv, orig \in Alive, NEW hasError \in BOOLEAN,
         DestroyOriginal(hasError),
         UNCHANGED <<build, destroyed>>, Acknowledged => Acknowledged'
  PROVE  CInv'
<1>1. orig' = "destroyed" /\ origEvents' = origEvents \o EventsOfDestroy(hasError)
  BY DEF DestroyOriginal
<1>2. Acknowledged \/ Queued'
  BY <1>1, EventsAdded DEF CInv, ClosedByMock
<1> QED
  BY <1>1, <1>2 DEF CInv, CloseIsComing, ClosedByMock, Alive

\* A step that destroys nothing and that closes no handle the original socket needs.
LEMMA OthersClose ==
  ASSUME CInv,
         UNCHANGED <<build, destroyed, origEvents>>,
         Acknowledged => Acknowledged',
         orig' = "destroyed" => orig = "destroyed",
         orig' \in Alive /\ attempt' \in closed' => orig \in Alive /\ attempt \in closed
  PROVE  CInv'
BY DEF CInv, CloseIsComing, ClosedByMock, Queued

LEMMA StepCInv == IInv /\ CInv /\ [Next]_vars => CInv'
<1> SUFFICES ASSUME IInv, CInv, [Next]_vars PROVE CInv'
  OBVIOUS
<1>1. CASE Read
  <2>1. UNCHANGED <<build, attempt, closeEmitted>>
    BY <1>1 DEF Read
  <2>2. CASE DestroyMock(TRUE)
    BY <2>1, <2>2, DestroyMockCloses
  <2>3. CASE UNCHANGED <<orig, closed, origEvents, closePending, destroyed, deferred>>
    <3>1. Acknowledged => Acknowledged'
      BY <2>1, <2>3, StaysAcknowledged
    <3> QED
      BY <2>1, <2>3, <3>1, OthersClose
  <2> QED
    BY <1>1, <2>2, <2>3 DEF Read, ReadLater, ReadHandle
<1>2. CASE Passthrough
  <2>1. /\ UNCHANGED <<build, closed, origEvents, destroyed, closePending, closeEmitted,
                       deferred>>
        /\ \/ UNCHANGED <<orig, attempt>>
           \/ orig' = "connecting" /\ attempt' = 1
    BY <1>2 DEF Passthrough
  <2>2. closed = {}
    <3>1. attempt = 0
      BY <1>2 DEF Passthrough, IInv, Bookkeeping
    <3> QED
      BY <3>1 DEF IInv, Bookkeeping
  <2>3. Acknowledged => Acknowledged'
    BY <2>1, StaysAcknowledged
  <2> QED
    BY <2>1, <2>2, <2>3, OthersClose
<1>3. CASE Destroy
  BY <1>3, DestroyMockCloses DEF Destroy
<1>4. CASE EmitClose
  <2>1. closeEmitted' \/ Held'
    <3>1. CASE EmitsAtOnce
      BY <1>4, <3>1, Zenon DEF EmitClose
    <3>2. CASE ~EmitsAtOnce
      BY <1>4, <3>2, PutOff DEF EmitClose
    <3> QED
      BY <3>1, <3>2
  <2>2. Acknowledged'
    BY <2>1 DEF Acknowledged
  <2> QED
    BY <1>4, <2>2, OthersClose DEF EmitClose
<1>5. CASE NextAttempt
  <2>1. attempt' \notin closed'
    <3>1. attempt \in Nat /\ attempt' = attempt + 1 /\ closed' = closed \cup {attempt}
      BY <1>5, AttemptsAssumption DEF NextAttempt, IInv, TypeOK
    <3>2. closed \subseteq 1..attempt
      BY DEF IInv, Bookkeeping
    <3> QED
      BY <3>1, <3>2
  <2>2. Acknowledged => Acknowledged'
    BY <1>5, StaysAcknowledged DEF NextAttempt
  <2> QED
    BY <1>5, <2>1, <2>2, OthersClose DEF NextAttempt
<1>6. CASE Connect
  <2>1. UNCHANGED <<build, attempt, closeEmitted>> /\ orig = "connecting"
    BY <1>6 DEF Connect
  <2>2. CASE DestroyMock(TRUE)
    BY <2>1, <2>2, DestroyMockCloses
  <2>3. CASE /\ orig' = "connected"
             /\ UNCHANGED <<closed, origEvents, closePending, destroyed, deferred>>
    <3>1. Acknowledged => Acknowledged'
      BY <2>1, <2>3, StaysAcknowledged
    <3> QED
      BY <2>1, <2>3, <3>1, OthersClose DEF Alive
  <2> QED
    BY <1>6, <2>2, <2>3 DEF Connect, ReadOnConnect
<1>7. CASE Data \/ Write \/ UNCHANGED vars
  <2>1. Acknowledged => Acknowledged'
    BY <1>7, StaysAcknowledged DEF Data, Write, vars
  <2> QED
    BY <1>7, <2>1, OthersClose DEF Data, Write, vars
<1>8. CASE Canceled \/ PeerEnds
  <2>1. Acknowledged => Acknowledged'
    <3>1. UNCHANGED <<closePending, closeEmitted, deferred>>
      BY <1>8 DEF Canceled, PeerEnds
    <3> QED
      BY <3>1, StaysAcknowledged
  <2>2. orig \in Alive /\ UNCHANGED <<build, destroyed>>
    BY <1>8 DEF Canceled, PeerEnds
  <2>3. PICK hasError \in BOOLEAN : DestroyOriginal(hasError)
    BY <1>8 DEF Canceled, PeerEnds
  <2> QED
    BY <2>1, <2>2, <2>3, DestroyOriginalCloses
<1>9. ASSUME NEW h \in Heads, ListenersReturn(h) PROVE CInv'
  <2>1. Acknowledged => Acknowledged'
    BY <1>9, StaysAcknowledged DEF ListenersReturn
  <2> QED
    BY <1>9, <2>1, OthersClose DEF ListenersReturn
<1>10. CASE Forward
  <2>0. closeEmitted => closeEmitted'
    BY <1>10, Zenon DEF Forward
  <2>1. /\ UNCHANGED <<build, orig, attempt, closed, destroyed, closePending>>
        /\ origEvents' = Tail(origEvents)
        /\ deferred' = deferred \cup Later(Head(origEvents))
    BY <1>10 DEF Forward
  <2>2. origEvents \in Seq({"error", "close"})
    BY DEF IInv, TypeOK
  <2>3. Queued => Head(origEvents) = "close" \/ Queued'
    BY <2>1, <2>2, TakenEvent DEF Queued
  <2>4. Acknowledged => Acknowledged'
    BY <2>0, <2>1, StaysAcknowledged
  <2>5. Head(origEvents) = "close" => Acknowledged'
    <3> SUFFICES ASSUME Head(origEvents) = "close" PROVE closeEmitted' \/ Held'
      BY DEF Acknowledged
    <3>1. CASE EmitsAtOnce
      BY <1>10, <3>1, Zenon DEF Forward
    <3>2. CASE ~EmitsAtOnce
      BY <2>1, <3>2, PutOff
    <3> QED
      BY <3>1, <3>2
  <2> QED
    BY <2>1, <2>3, <2>4, <2>5 DEF CInv, CloseIsComing, ClosedByMock
<1>11. ASSUME NEW e \in Deferrable, EmitDeferred(e) PROVE CInv'
  <2>1. Acknowledged => Acknowledged'
    <3>1. /\ deferred' = deferred \ {e} /\ closePending' = closePending
          /\ closeEmitted' = (closeEmitted \/ e.event = "close")
      BY <1>11 DEF EmitDeferred
    <3>2. Held => closeEmitted' \/ Held'
      BY <3>1 DEF Held
    <3> QED
      BY <3>1, <3>2, Zenon DEF Acknowledged
  <2>2. UNCHANGED <<build, destroyed, attempt>>
    BY <1>11 DEF EmitDeferred
  <2>3. CASE orig \in Alive /\ DestroyOriginal(TRUE)
    BY <2>1, <2>2, <2>3, DestroyOriginalCloses
  <2>4. CASE UNCHANGED <<orig, closed, inFlight, origEvents>>
    BY <2>1, <2>2, <2>4, OthersClose
  <2> QED
    BY <1>11, <2>3, <2>4 DEF EmitDeferred
<1> QED
  BY <1>1, <1>2, <1>3, <1>4, <1>5, <1>6, <1>7, <1>8, <1>9, <1>10, <1>11 DEF Next

\* The safe half of DestroyIsAcknowledged and of CloseReachesConsumer: the "close" they
\* promise has been emitted, or what emits it is scheduled, or waits for listeners of the
\* developer, and cannot be undone, however
\* the two sockets destroy each other and whoever closes the shared handle.
THEOREM NoCloseLost == Spec => []CloseIsComing
<1>1. Init => CInv
  BY DEF Init, CInv, CloseIsComing, ClosedByMock, Alive
<1>2. Spec => [](IInv /\ CInv)
  BY <1>1, InitIInv, StepIInv, StepCInv, PTL DEF Spec
<1>3. CInv => CloseIsComing
  BY DEF CInv
<1> QED
  BY <1>2, <1>3, PTL
=============================================================================
