--------------------- MODULE InterceptorLifecycleProofs ---------------------
(***************************************************************************)
(* The global symbol and the patch agree for any number of instances, in   *)
(* any order of calls, as long as only the running instance frees the      *)
(* symbol; and a disposed instance leaves no listener behind that it was   *)
(* not given after its dispose().                                          *)
(***************************************************************************)
EXTENDS InterceptorLifecycle, FiniteSetTheorems, TLAPS

\* Types of the listener counts, kept apart from the rest of the type invariant.
CountsOK ==
  /\ appended \in [Interceptors -> [Interceptors -> [Registrations -> Nat]]]
  /\ emitter \in [Interceptors -> [Registrations -> Nat]]
  /\ given \in [Interceptors -> [Registrations -> Nat]]

\* The part of the inductive invariant that is about the symbol and the patch.
PatchOK ==
  /\ style \in Styles
  /\ readyState \in [Interceptors ->
       {"INACTIVE", "APPLYING", "APPLIED", "DISPOSING", "DISPOSED"}]
  /\ running \in Interceptors \cup {NoInterceptor}
  /\ installed \in Seq(Interceptors)
  /\ undos \in [Interceptors -> Seq(Seq(Interceptors))]
  /\ proxy \in [Interceptors -> Interceptors \cup {NoInterceptor}]
  /\ foreign \in BOOLEAN
  /\ late \subseteq Interceptors
  /\ RunningIsApplied
  /\ PatchFollowsRunning
  /\ UndosFollowRunning
  /\ SetupNeverFails

\* The two parts together are the inductive invariant.
LEMMA TwoParts == IInv <=> CountsOK /\ PatchOK
BY DEF IInv, TypeOK, CountsOK, PatchOK

LEMMA TwoPartsPrime == IInv' <=> CountsOK' /\ PatchOK'
BY DEF IInv, TypeOK, CountsOK, PatchOK

\* Initially nothing is applied.
LEMMA InitIInv == Init => IInv
PROOF
<1> SUFFICES ASSUME Init PROVE IInv
  OBVIOUS
<1>1. CountsOK
  BY DEF Init, CountsOK, None
<1>2. PatchOK
  <2>1. installed \in Seq(Interceptors) /\ <<>> \in Seq(Seq(Interceptors))
    BY DEF Init
  <2>2. RunningIsApplied /\ PatchFollowsRunning /\ SetupNeverFails
    BY NoInterceptorAssumption
       DEF Init, RunningIsApplied, PatchFollowsRunning, SetupNeverFails
  <2>3. UndosFollowRunning
    BY NoInterceptorAssumption DEF Init, UndosFollowRunning
  <2> QED
    BY <2>1, <2>2, <2>3 DEF Init, PatchOK
<1> QED
  BY <1>1, <1>2, TwoParts

\* Calls that are about listeners leave the patch alone.
LEMMA ListeningKeepsPatch ==
  ASSUME PatchOK, UNCHANGED patchVars, late' \subseteq Interceptors
  PROVE  PatchOK'
BY DEF PatchOK, patchVars, RunningIsApplied, PatchFollowsRunning,
       UndosFollowRunning, SetupNeverFails

\* The three ways apply() may go.
LEMMA ReuseKeepsPatch ==
  ASSUME PatchOK, NEW i \in Interceptors, Apply(i), Reuse(i)
  PROVE  PatchOK'
PROOF
<1>1. running # i
  BY NoInterceptorAssumption DEF PatchOK, RunningIsApplied, Apply
<1> QED
  BY <1>1 DEF PatchOK, Apply, Reuse, RunningIsApplied, PatchFollowsRunning,
              UndosFollowRunning, SetupNeverFails

LEMMA SetUpKeepsPatch ==
  ASSUME PatchOK, NEW i \in Interceptors, Apply(i), SetUp(i)
  PROVE  PatchOK'
PROOF
<1>1. /\ running = NoInterceptor /\ running' = i /\ i # NoInterceptor
      /\ installed' = Append(installed, i)
      /\ undos' = [undos EXCEPT ![i] = Append(undos[i], installed)]
      /\ readyState' = [readyState EXCEPT ![i] = "APPLIED"]
      /\ UNCHANGED <<style, proxy, foreign>>
      /\ late' = late \ {i}
  BY NoInterceptorAssumption DEF SetUp, Apply
<1>2. /\ installed' \in Seq(Interceptors)
      /\ Append(undos[i], installed) \in Seq(Seq(Interceptors))
  BY <1>1 DEF PatchOK
<1>3. undos' \in [Interceptors -> Seq(Seq(Interceptors))]
  BY <1>1, <1>2 DEF PatchOK
<1>4. readyState' \in [Interceptors ->
        {"INACTIVE", "APPLYING", "APPLIED", "DISPOSING", "DISPOSED"}]
  BY <1>1 DEF PatchOK
<1>5. RunningIsApplied'
  BY <1>1 DEF PatchOK, RunningIsApplied
<1>6. ASSUME ~foreign
      PROVE  /\ installed' = <<i>>
             /\ \A j \in Interceptors : undos'[j] = (IF j = i THEN << <<>> >> ELSE <<>>)
             /\ \A j \in Interceptors : readyState'[j] # "APPLYING"
  <2>1. installed = <<>> /\ (\A j \in Interceptors : undos[j] = <<>>)
    BY <1>1, <1>6, NoInterceptorAssumption
       DEF PatchOK, PatchFollowsRunning, UndosFollowRunning
  <2>2. installed' = <<i>>
    BY <1>1, <2>1
  <2>3. Append(undos[i], installed) = << <<>> >>
    <3>1. undos[i] = <<>>
      BY <2>1
    <3>2. \A s : Append(<<>>, s) = <<s>>
      OBVIOUS
    <3> QED
      BY <2>1, <3>1, <3>2, Zenon
  <2>4. \A j \in Interceptors : undos'[j] = (IF j = i THEN << <<>> >> ELSE <<>>)
    BY <1>1, <2>1, <2>3 DEF PatchOK
  <2>5. \A j \in Interceptors : readyState'[j] # "APPLYING"
    BY <1>1, <1>6 DEF PatchOK, SetupNeverFails
  <2> QED
    BY <2>2, <2>4, <2>5
<1>7. (PatchFollowsRunning /\ UndosFollowRunning)'
  BY <1>1, <1>6 DEF PatchFollowsRunning, UndosFollowRunning
<1>8. SetupNeverFails'
  <2>1. << <<>> >> # <<>>
    OBVIOUS
  <2> QED
    BY <1>1, <1>6, <2>1 DEF SetupNeverFails
<1> QED
  BY <1>1, <1>2, <1>3, <1>4, <1>5, <1>7, <1>8 DEF PatchOK

LEMMA SetUpFailsKeepsPatch ==
  ASSUME PatchOK, NEW i \in Interceptors, Apply(i), SetUpFails(i)
  PROVE  PatchOK'
PROOF
<1>1. foreign /\ foreign' = foreign
  BY DEF PatchOK, Apply, SetUpFails, AlreadyPatched, PatchFollowsRunning
<1>2. (PatchFollowsRunning /\ UndosFollowRunning /\ SetupNeverFails)'
  BY <1>1 DEF PatchFollowsRunning, UndosFollowRunning, SetupNeverFails
<1>3. RunningIsApplied'
  BY DEF PatchOK, RunningIsApplied, SetUpFails
<1> QED
  BY <1>2, <1>3 DEF PatchOK, Apply, SetUpFails

\* dispose(): as long as nobody interferes it is the running instance that
\* restores the global, and it restores the original.
LEMMA DisposeKeepsPatch ==
  ASSUME PatchOK, NEW i \in Interceptors, Dispose(i)
  PROVE  PatchOK'
PROOF
<1>1. CASE DisposeSkipped(i)
  <2>1. RunningIsApplied'
    BY <1>1 DEF PatchOK, RunningIsApplied, Dispose, DisposeSkipped
  <2>2. (PatchFollowsRunning /\ UndosFollowRunning /\ SetupNeverFails)'
    BY <1>1 DEF PatchOK, Dispose, DisposeSkipped, PatchFollowsRunning,
                UndosFollowRunning, SetupNeverFails
  <2> QED
    BY <1>1, <2>1, <2>2 DEF PatchOK, Dispose, DisposeSkipped
<1>2. CASE DisposeRunning(i)
  <2>1. /\ readyState' = [readyState EXCEPT ![i] = "DISPOSED"]
        /\ running' = NoInterceptor
        /\ installed' = IF undos[i] = <<>> THEN installed ELSE Last(undos[i])
        /\ undos' = [undos EXCEPT ![i] = <<>>]
        /\ foreign' = (foreign \/ running # i)
        /\ UNCHANGED <<style, proxy, late>>
    BY <1>2 DEF Dispose, DisposeRunning
  <2>2. installed' \in Seq(Interceptors)
    <3>1. \A s \in Seq(Seq(Interceptors)) : s # <<>> => Last(s) \in Seq(Interceptors)
      BY DEF Last
    <3>2. undos[i] \in Seq(Seq(Interceptors)) /\ installed \in Seq(Interceptors)
      BY DEF PatchOK
    <3> QED
      BY <2>1, <3>1, <3>2
  <2>3. undos' \in [Interceptors -> Seq(Seq(Interceptors))]
    <3>1. <<>> \in Seq(Seq(Interceptors))
      OBVIOUS
    <3> QED
      BY <2>1, <3>1 DEF PatchOK
  <2>4. foreign' \in BOOLEAN
    BY <2>1
  <2>5. RunningIsApplied'
    BY <2>1 DEF PatchOK, RunningIsApplied
  <2>6. ASSUME ~foreign'
        PROVE  /\ installed' = <<>>
               /\ \A j \in Interceptors : undos'[j] = <<>>
               /\ \A j \in Interceptors : readyState'[j] # "APPLYING"
    <3>1. ~foreign /\ running = i
      BY <2>1, <2>6 DEF PatchOK
    <3>2. \A j \in Interceptors : undos[j] = (IF j = i THEN << <<>> >> ELSE <<>>)
      BY <3>1 DEF PatchOK, UndosFollowRunning
    <3>3. << <<>> >> # <<>> /\ Last(<< <<>> >>) = <<>>
      BY DEF Last
    <3>4. installed' = <<>>
      BY <2>1, <3>2, <3>3
    <3>5. \A j \in Interceptors : undos'[j] = <<>>
      BY <2>1, <3>2 DEF PatchOK
    <3>6. \A j \in Interceptors : readyState'[j] # "APPLYING"
      BY <2>1, <3>1 DEF PatchOK, SetupNeverFails
    <3> QED
      BY <3>4, <3>5, <3>6
  <2>7. (PatchFollowsRunning /\ UndosFollowRunning /\ SetupNeverFails)'
    BY <2>1, <2>6, NoInterceptorAssumption
       DEF PatchFollowsRunning, UndosFollowRunning, SetupNeverFails
  <2> QED
    BY <2>1, <2>2, <2>3, <2>4, <2>5, <2>7 DEF PatchOK
<1> QED
  BY <1>1, <1>2 DEF Dispose

\* Counts of listeners stay counts.
LEMMA StepKeepsCounts ==
  ASSUME CountsOK, PatchOK, NEW i \in Interceptors,
         \/ Apply(i)
         \/ Dispose(i)
         \/ RemoveAllListeners(i)
         \/ Emit(i)
         \/ \E l \in Listeners : On(i, l) \/ Once(i, l) \/ Off(i, l)
  PROVE  CountsOK'
PROOF
<1>1. None \in [Registrations -> Nat]
  BY DEF None
<1>2. \A c \in [Registrations -> Nat] : WithoutOnce(c) \in [Registrations -> Nat]
  BY DEF WithoutOnce
<1>3. \A m, n \in Nat : Less(m, n) \in Nat
  BY DEF Less
<1>4. CASE Apply(i)
  BY <1>4 DEF Apply, CountsOK
<1>5. CASE Dispose(i)
  <2>1. CASE DisposeSkipped(i)
    BY <2>1 DEF DisposeSkipped, CountsOK
  <2>2. CASE DisposeRunning(i)
    <3>1. emitter' \in [Interceptors -> [Registrations -> Nat]]
      <4>1. \A j \in Interceptors, x \in Registrations :
              Less(emitter[j][x], appended[i][j][x]) \in Nat
        <5>1. \A j \in Interceptors, x \in Registrations :
                emitter[j][x] \in Nat /\ appended[i][j][x] \in Nat
          BY DEF CountsOK
        <5> QED
          BY <1>3, <5>1
      <4> QED
        BY <1>1, <2>2, <4>1 DEF DisposeRunning
    <3>2. appended' \in [Interceptors -> [Interceptors -> [Registrations -> Nat]]]
      BY <1>1, <2>2 DEF DisposeRunning, CountsOK
    <3>3. given' \in [Interceptors -> [Registrations -> Nat]]
      BY <1>1, <2>2 DEF DisposeRunning, CountsOK
    <3> QED
      BY <3>1, <3>2, <3>3 DEF CountsOK
  <2> QED
    BY <1>5, <2>1, <2>2 DEF Dispose
<1>6. CASE RemoveAllListeners(i)
  BY <1>1, <1>6 DEF RemoveAllListeners, CountsOK
<1>7. CASE Emit(i)
  BY <1>2, <1>7 DEF Emit, CountsOK
<1>8. ASSUME NEW l \in Listeners, On(i, l) PROVE CountsOK'
  <2>1. <<l, "on">> \in Registrations
    BY DEF Registrations
  <2>2. CASE OnOwn(i, <<l, "on">>)
    BY <2>1, <2>2 DEF OnOwn, CountsOK
  <2>3. CASE OnProxied(i, <<l, "on">>)
    <3>1. proxy[i] \in Interceptors
      BY <2>3 DEF OnProxied, PatchOK
    <3> QED
      BY <2>1, <2>3, <3>1 DEF OnProxied, CountsOK
  <2> QED
    BY <1>8, <2>2, <2>3 DEF On
<1>9. ASSUME NEW l \in Listeners, Once(i, l) PROVE CountsOK'
  <2>1. <<l, "once">> \in Registrations
    BY DEF Registrations
  <2> QED
    BY <1>9, <2>1 DEF Once, CountsOK
<1>10. ASSUME NEW l \in Listeners, Off(i, l) PROVE CountsOK'
  <2>1. <<l, "on">> \in Registrations
    BY DEF Registrations
  <2>2. emitter[i][<<l, "on">>] - 1 \in Nat /\ Less(given[i][<<l, "on">>], 1) \in Nat
    <3>1. emitter[i][<<l, "on">>] \in Nat /\ given[i][<<l, "on">>] \in Nat
      BY <2>1 DEF CountsOK
    <3> QED
      BY <1>3, <1>10, <3>1 DEF Off
  <2> QED
    BY <1>10, <2>1, <2>2 DEF Off, CountsOK
<1> QED
  BY <1>4, <1>5, <1>6, <1>7, <1>8, <1>9, <1>10

\* Every step preserves the inductive invariant.
LEMMA StepIInv == IInv /\ [Next]_vars => IInv'
PROOF
<1> SUFFICES ASSUME IInv, [Next]_vars PROVE IInv'
  OBVIOUS
<1>1. CountsOK /\ PatchOK
  BY TwoParts
<1>2. CASE UNCHANGED vars
  <2>1. CountsOK'
    BY <1>1, <1>2 DEF vars, CountsOK
  <2>2. PatchOK'
    BY <1>1, <1>2, ListeningKeepsPatch DEF vars, patchVars, PatchOK
  <2> QED
    BY <2>1, <2>2, TwoPartsPrime
<1>3. CASE Next
  <2>1. PICK i \in Interceptors :
          \/ Apply(i)
          \/ Dispose(i)
          \/ RemoveAllListeners(i)
          \/ Emit(i)
          \/ \E l \in Listeners : On(i, l) \/ Once(i, l) \/ Off(i, l)
    BY <1>3 DEF Next
  <2>2. CountsOK'
    BY <1>1, <2>1, StepKeepsCounts
  <2>3. ASSUME Apply(i) PROVE PatchOK'
    <3>1. Reuse(i) \/ SetUp(i) \/ SetUpFails(i)
      BY <2>3 DEF Apply
    <3> QED
      BY <1>1, <2>3, <3>1, ReuseKeepsPatch, SetUpKeepsPatch, SetUpFailsKeepsPatch
  <2>4. ASSUME Dispose(i) PROVE PatchOK'
    BY <1>1, <2>4, DisposeKeepsPatch
  <2>5. ASSUME \/ RemoveAllListeners(i)
               \/ Emit(i)
               \/ \E l \in Listeners : On(i, l) \/ Once(i, l) \/ Off(i, l)
        PROVE  PatchOK'
    <3>1. UNCHANGED patchVars
      BY <2>5 DEF RemoveAllListeners, Emit, On, Once, Off
    <3>2. late' = late \/ late' = late \cup {i}
      BY <2>5 DEF RemoveAllListeners, Emit, On, OnOwn, OnProxied, Once, Off
    <3>3. late' \subseteq Interceptors
      BY <1>1, <3>2 DEF PatchOK
    <3> QED
      BY <1>1, <3>1, <3>3, ListeningKeepsPatch
  <2>6. PatchOK'
    BY <2>1, <2>3, <2>4, <2>5
  <2> QED
    BY <2>2, <2>6, TwoPartsPrime
<1> QED
  BY <1>2, <1>3

\* The inductive invariant always holds.
THEOREM Invariance == Spec => []IInv
PROOF
<1>1. Init => IInv
  BY InitIInv
<1>2. IInv /\ [Next]_vars => IInv'
  BY StepIInv
<1> QED
  BY <1>1, <1>2, PTL DEF Spec

-----------------------------------------------------------------------------
(* What follows for any number of instances and listeners.                 *)

\* The state stays within its types.
THEOREM TypeCorrect == Spec => []TypeOK
PROOF
<1>1. IInv => TypeOK
  BY DEF IInv
<1> QED
  BY <1>1, Invariance, PTL

\* The instance under the symbol is applied, whoever disposed what before.
THEOREM NoDisposedInstanceRuns == Spec => []RunningIsApplied
PROOF
<1>1. IInv => RunningIsApplied
  BY DEF IInv
<1> QED
  BY <1>1, Invariance, PTL

\* Patches neither pile up nor come back unless the symbol is freed by an
\* instance that does not hold it.
THEOREM PatchIsUndone == Spec => []PatchFollowsRunning
PROOF
<1>1. IInv => PatchFollowsRunning
  BY DEF IInv
<1> QED
  BY <1>1, Invariance, PTL

\* Under the same condition setup() never finds the global patched already.
THEOREM AlreadyPatchedIsUnreachable == Spec => []SetupNeverFails
PROOF
<1>1. IInv => SetupNeverFails
  BY DEF IInv
<1> QED
  BY <1>1, Invariance, PTL

-----------------------------------------------------------------------------
(* Listeners.                                                              *)

\* The subscriptions of all the instances that remove listener x from the emitter of i.
Pending(i, x) == UNION {{j} \X (1..appended[j][i][x]) : j \in Interceptors}

\* There are finitely many subscriptions, which is what lets them be counted, and
\* enough of them to remove what an instance was not given itself.
ListenersOK ==
  \A i \in Interceptors, x \in Registrations :
    /\ IsFiniteSet(Pending(i, x))
    /\ emitter[i][x] <= given[i][x] + Cardinality(Pending(i, x))

\* An instance that is disposed of and was not listened with since has none.
NothingLeft ==
  \A j \in Interceptors \ Owing, i \in Interceptors, x \in Registrations :
    appended[j][i][x] = 0

\* Initially there is neither a listener nor a subscription.
LEMMA InitListeners == Init => ListenersOK
PROOF
<1> SUFFICES ASSUME Init, NEW i \in Interceptors, NEW x \in Registrations
             PROVE  /\ IsFiniteSet(Pending(i, x))
                    /\ emitter[i][x] <= given[i][x] + Cardinality(Pending(i, x))
  BY DEF ListenersOK
<1>1. emitter[i][x] = 0 /\ given[i][x] = 0 /\ \A j \in Interceptors : appended[j][i][x] = 0
  BY DEF Init, None
<1>2. Pending(i, x) = {}
  BY <1>1 DEF Pending
<1> QED
  BY <1>1, <1>2, FS_EmptySet

\* A call that subscribes to nothing new, and after which no emitter holds more
\* listeners that its instance was not given itself.
LEMMA SameSubscriptions ==
  ASSUME CountsOK, CountsOK', ListenersOK, appended' = appended,
         \A j \in Interceptors, x \in Registrations :
           \/ emitter'[j][x] = 0
           \/ emitter'[j][x] - given'[j][x] <= emitter[j][x] - given[j][x]
  PROVE  ListenersOK'
PROOF
<1> SUFFICES ASSUME NEW j \in Interceptors, NEW x \in Registrations
             PROVE  /\ IsFiniteSet(Pending(j, x)')
                    /\ emitter'[j][x] <= given'[j][x] + Cardinality(Pending(j, x)')
  BY DEF ListenersOK
<1>1. Pending(j, x)' = Pending(j, x)
  BY DEF Pending
<1>2. /\ IsFiniteSet(Pending(j, x))
      /\ emitter[j][x] <= given[j][x] + Cardinality(Pending(j, x))
  BY DEF ListenersOK
<1>3. Cardinality(Pending(j, x)) \in Nat
  BY <1>2, FS_CardinalityType
<1>4. emitter[j][x] \in Nat /\ given[j][x] \in Nat /\ emitter'[j][x] \in Nat /\ given'[j][x] \in Nat
  BY DEF CountsOK
<1> QED
  BY <1>1, <1>2, <1>3, <1>4

\* The overridden on() adds a listener and the subscription that removes it.
LEMMA OnProxiedListeners ==
  ASSUME CountsOK, PatchOK, ListenersOK, NEW i \in Interceptors,
         NEW x \in Registrations, OnProxied(i, x)
  PROVE  ListenersOK'
PROOF
<1>1. PICK p \in Interceptors : p = proxy[i]
  BY DEF OnProxied, PatchOK
<1>2. /\ \A j \in Interceptors, y \in Registrations :
           emitter'[j][y] = IF j = p /\ y = x THEN emitter[j][y] + 1 ELSE emitter[j][y]
      /\ given' = given
  BY <1>1 DEF OnProxied, CountsOK
<1>3. \A k, j \in Interceptors, y \in Registrations :
        appended'[k][j][y] =
          IF k = i /\ j = p /\ y = x THEN appended[k][j][y] + 1 ELSE appended[k][j][y]
  BY <1>1 DEF OnProxied, CountsOK
<1>4. \A k, j \in Interceptors, y \in Registrations :
        emitter[j][y] \in Nat /\ given[j][y] \in Nat /\ appended[k][j][y] \in Nat
  BY DEF CountsOK
<1> SUFFICES ASSUME NEW j \in Interceptors, NEW y \in Registrations
             PROVE  /\ IsFiniteSet(Pending(j, y)')
                    /\ emitter'[j][y] <= given'[j][y] + Cardinality(Pending(j, y)')
  BY DEF ListenersOK
<1>5. /\ IsFiniteSet(Pending(j, y))
      /\ emitter[j][y] <= given[j][y] + Cardinality(Pending(j, y))
  BY DEF ListenersOK
<1>6. Cardinality(Pending(j, y)) \in Nat
  BY <1>5, FS_CardinalityType
<1>7. CASE j = p /\ y = x
  <2> DEFINE n == appended[i][p][x]
             new == <<i, n + 1>>
  <2>1. n \in Nat
    BY <1>1, <1>4
  <2>2. appended'[i][p][x] = n + 1 /\ \A k \in Interceptors : k # i => appended'[k][p][x] = appended[k][p][x]
    BY <1>1, <1>3
  <2>3. 1..(n + 1) = (1..n) \cup {n + 1} /\ n + 1 \notin 1..n
    BY <2>1
  <2> HIDE DEF n
  <2>4. Pending(p, x)' = Pending(p, x) \cup {new}
    <3>1. Pending(p, x)' = UNION {{k} \X (1..appended'[k][p][x]) : k \in Interceptors}
      BY DEF Pending
    <3>2. \A k \in Interceptors :
            {k} \X (1..appended'[k][p][x]) =
              IF k = i THEN ({k} \X (1..appended[k][p][x])) \cup {new}
              ELSE {k} \X (1..appended[k][p][x])
      <4>1. {i} \X (1..(n + 1)) = ({i} \X (1..n)) \cup {new}
        BY <2>3
      <4> QED
        BY <2>2, <4>1 DEF n
    <3> HIDE DEF new
    <3> QED
      BY <3>1, <3>2 DEF Pending
  <2>5. new \notin Pending(p, x)
    <3> SUFFICES ASSUME new \in Pending(p, x) PROVE FALSE
      OBVIOUS
    <3>1. PICK k \in Interceptors : new \in {k} \X (1..appended[k][p][x])
      BY DEF Pending
    <3>2. k = i /\ n + 1 \in 1..appended[i][p][x]
      BY <3>1
    <3> QED
      BY <2>3, <3>2 DEF n
  <2> HIDE DEF new
  <2>6. /\ IsFiniteSet(Pending(p, x)')
        /\ Cardinality(Pending(p, x)') = Cardinality(Pending(p, x)) + 1
    BY <1>5, <1>7, <2>4, <2>5, FS_AddElement
  <2> QED
    BY <1>2, <1>4, <1>5, <1>6, <1>7, <2>6
<1>8. CASE ~(j = p /\ y = x)
  <2>1. \A k \in Interceptors : appended'[k][j][y] = appended[k][j][y]
    BY <1>3, <1>8
  <2>2. Pending(j, y)' = Pending(j, y)
    BY <2>1 DEF Pending
  <2> QED
    BY <1>2, <1>5, <1>8, <2>2
<1> QED
  BY <1>7, <1>8

\* dispose() removes as many listeners of another instance as it has subscriptions there.
LEMMA DisposeListeners ==
  ASSUME CountsOK, ListenersOK, NEW i \in Interceptors, DisposeRunning(i)
  PROVE  ListenersOK'
PROOF
<1>1. \A k, j \in Interceptors, y \in Registrations :
        emitter[j][y] \in Nat /\ given[j][y] \in Nat /\ appended[k][j][y] \in Nat
  BY DEF CountsOK
<1>2. \A j \in Interceptors, y \in Registrations :
        /\ emitter'[j][y] = IF j = i THEN 0 ELSE Less(emitter[j][y], appended[i][j][y])
        /\ given'[j][y] = IF j = i THEN 0 ELSE given[j][y]
  BY DEF DisposeRunning, CountsOK, None
<1>3. \A k, j \in Interceptors, y \in Registrations :
        appended'[k][j][y] = IF k = i THEN 0 ELSE appended[k][j][y]
  BY DEF DisposeRunning, CountsOK, None
<1> SUFFICES ASSUME NEW j \in Interceptors, NEW y \in Registrations
             PROVE  /\ IsFiniteSet(Pending(j, y)')
                    /\ emitter'[j][y] <= given'[j][y] + Cardinality(Pending(j, y)')
  BY DEF ListenersOK
<1>4. /\ IsFiniteSet(Pending(j, y))
      /\ emitter[j][y] <= given[j][y] + Cardinality(Pending(j, y))
  BY DEF ListenersOK
<1> DEFINE n == appended[i][j][y]
           own == {i} \X (1..n)
           rest == Pending(j, y)'
<1>5. n \in Nat
  BY <1>1
<1>6. IsFiniteSet(own) /\ Cardinality(own) = n
  <2> HIDE DEF n
  <2>1. IsFiniteSet(1..n) /\ Cardinality(1..n) = n
    BY <1>5, FS_Interval
  <2>2. IsFiniteSet({i}) /\ Cardinality({i}) = 1
    BY FS_Singleton
  <2>3. IsFiniteSet(own) /\ Cardinality(own) = 1 * n
    BY <2>1, <2>2, FS_Product
  <2> QED
    BY <1>5, <2>3
<1>7. rest = UNION {{k} \X (1..appended[k][j][y]) : k \in Interceptors \ {i}}
  <2>1. rest = UNION {{k} \X (1..appended'[k][j][y]) : k \in Interceptors}
    BY DEF Pending
  <2>2. {i} \X (1..appended'[i][j][y]) = {}
    BY <1>3
  <2>3. \A k \in Interceptors \ {i} : appended'[k][j][y] = appended[k][j][y]
    BY <1>3
  <2> HIDE DEF rest
  <2> QED
    BY <2>1, <2>2, <2>3
<1> HIDE DEF rest
<1>8. Pending(j, y) = rest \cup own
  BY <1>7 DEF Pending
<1>9. rest \cap own = {}
  BY <1>7
<1> HIDE DEF own, n
<1>10. IsFiniteSet(rest)
  BY <1>4, <1>8, FS_Subset
<1>11. Cardinality(rest) \in Nat
  BY <1>10, FS_CardinalityType
<1>12. Cardinality(Pending(j, y)) = Cardinality(rest) + n
  <2>1. Cardinality(rest \cup own) =
          Cardinality(rest) + Cardinality(own) - Cardinality(rest \cap own)
    BY <1>6, <1>10, FS_Union
  <2>2. Cardinality(rest \cap own) = 0
    BY <1>9, FS_EmptySet
  <2> QED
    BY <1>5, <1>6, <1>8, <1>11, <2>1, <2>2
<1>13. emitter'[j][y] <= given'[j][y] + Cardinality(rest)
  <2>1. CASE j = i
    BY <1>2, <1>11, <2>1
  <2>2. CASE j # i
    <3>1. emitter'[j][y] = Less(emitter[j][y], n) /\ given'[j][y] = given[j][y]
      BY <1>2, <2>2 DEF n
    <3> QED
      BY <1>1, <1>4, <1>5, <1>11, <1>12, <3>1 DEF Less
  <2> QED
    BY <2>1, <2>2
<1> QED
  BY <1>10, <1>13 DEF rest

LEMMA StepListeners ==
  ASSUME IInv, IInv', ListenersOK, [Next]_vars
  PROVE  ListenersOK'
PROOF
<1>1. CountsOK /\ PatchOK /\ CountsOK'
  BY TwoParts, TwoPartsPrime
<1>2. \A j \in Interceptors, y \in Registrations : emitter[j][y] \in Nat /\ given[j][y] \in Nat
  BY <1>1 DEF CountsOK
<1>3. ASSUME UNCHANGED <<appended, emitter, given>> PROVE ListenersOK'
  BY <1>1, <1>2, <1>3, SameSubscriptions
<1>4. CASE UNCHANGED vars
  BY <1>3, <1>4 DEF vars
<1>5. ASSUME NEW i \in Interceptors, Apply(i) PROVE ListenersOK'
  BY <1>3, <1>5 DEF Apply
<1>6. ASSUME NEW i \in Interceptors, Dispose(i) PROVE ListenersOK'
  <2>1. CASE DisposeSkipped(i)
    BY <1>3, <2>1 DEF DisposeSkipped
  <2>2. CASE DisposeRunning(i)
    BY <1>1, <2>2, DisposeListeners
  <2> QED
    BY <1>6, <2>1, <2>2 DEF Dispose
<1>7. ASSUME NEW i \in Interceptors, RemoveAllListeners(i) PROVE ListenersOK'
  <2>1. \A j \in Interceptors, y \in Registrations :
          emitter'[j][y] = 0 \/ (emitter'[j][y] = emitter[j][y] /\ given'[j][y] = given[j][y])
    BY <1>1, <1>7 DEF RemoveAllListeners, CountsOK, None
  <2>2. appended' = appended
    BY <1>7 DEF RemoveAllListeners
  <2> QED
    BY <1>1, <1>2, <2>1, <2>2, SameSubscriptions
<1>8. ASSUME NEW i \in Interceptors, Emit(i) PROVE ListenersOK'
  <2>1. \A j \in Interceptors, y \in Registrations :
          emitter'[j][y] = 0 \/ (emitter'[j][y] = emitter[j][y] /\ given'[j][y] = given[j][y])
    BY <1>1, <1>8 DEF Emit, CountsOK, WithoutOnce
  <2>2. appended' = appended
    BY <1>8 DEF Emit
  <2> QED
    BY <1>1, <1>2, <2>1, <2>2, SameSubscriptions
<1>9. ASSUME NEW i \in Interceptors, NEW x \in Registrations, appended' = appended,
             emitter' = [emitter EXCEPT ![i][x] = @ + 1],
             given' = [given EXCEPT ![i][x] = @ + 1]
      PROVE  ListenersOK'
  <2>1. \A j \in Interceptors, y \in Registrations :
          \/ emitter'[j][y] = emitter[j][y] + 1 /\ given'[j][y] = given[j][y] + 1
          \/ emitter'[j][y] = emitter[j][y] /\ given'[j][y] = given[j][y]
    BY <1>1, <1>9 DEF CountsOK
  <2> QED
    BY <1>1, <1>2, <1>9, <2>1, SameSubscriptions
<1>10. ASSUME NEW i \in Interceptors, NEW l \in Listeners, On(i, l) PROVE ListenersOK'
  <2>1. <<l, "on">> \in Registrations
    BY DEF Registrations
  <2>2. CASE OnOwn(i, <<l, "on">>)
    BY <1>9, <2>1, <2>2 DEF OnOwn
  <2>3. CASE OnProxied(i, <<l, "on">>)
    BY <1>1, <2>1, <2>3, OnProxiedListeners
  <2> QED
    BY <1>10, <2>2, <2>3 DEF On
<1>11. ASSUME NEW i \in Interceptors, NEW l \in Listeners, Once(i, l) PROVE ListenersOK'
  <2>1. <<l, "once">> \in Registrations
    BY DEF Registrations
  <2> QED
    BY <1>9, <1>11, <2>1 DEF Once
<1>12. ASSUME NEW i \in Interceptors, NEW l \in Listeners, Off(i, l) PROVE ListenersOK'
  <2>1. <<l, "on">> \in Registrations
    BY DEF Registrations
  <2>2. \A j \in Interceptors, y \in Registrations :
          \/ emitter'[j][y] = emitter[j][y] - 1 /\ given'[j][y] = Less(given[j][y], 1)
          \/ emitter'[j][y] = emitter[j][y] /\ given'[j][y] = given[j][y]
    BY <1>1, <1>12, <2>1 DEF Off, CountsOK
  <2>3. \A j \in Interceptors, y \in Registrations :
          emitter'[j][y] - given'[j][y] <= emitter[j][y] - given[j][y]
    BY <1>2, <2>2 DEF Less
  <2>4. appended' = appended
    BY <1>12 DEF Off
  <2> QED
    BY <1>1, <2>3, <2>4, SameSubscriptions
<1> QED
  BY <1>4, <1>5, <1>6, <1>7, <1>8, <1>10, <1>11, <1>12 DEF Next

\* Only a step of an instance itself touches its subscriptions or its disposal: a
\* dispose() that runs leaves none, and a listener added later is a late one.
LEMMA StepNothingLeft ==
  ASSUME IInv, NothingLeft, [Next]_vars
  PROVE  NothingLeft'
PROOF
<1>1. CountsOK /\ PatchOK
  BY TwoParts
<1>2. ASSUME UNCHANGED <<appended, readyState, late>> PROVE NothingLeft'
  BY <1>2 DEF NothingLeft, Owing
<1>3. CASE UNCHANGED vars
  BY <1>2, <1>3 DEF vars
<1>4. ASSUME NEW i \in Interceptors, Apply(i) PROVE NothingLeft'
  <2>1. /\ appended' = appended
        /\ late' = late \ {i}
        /\ \A j \in Interceptors \ {i} : readyState'[j] = readyState[j]
        /\ readyState'[i] # "DISPOSED"
    BY <1>1, <1>4 DEF Apply, Reuse, SetUp, SetUpFails, PatchOK
  <2> QED
    BY <2>1 DEF NothingLeft, Owing
<1>5. ASSUME NEW i \in Interceptors, Dispose(i) PROVE NothingLeft'
  <2>1. late' = late
    BY <1>5 DEF Dispose
  <2>2. CASE DisposeSkipped(i)
    <3>1. /\ appended' = appended
          /\ \A j \in Interceptors \ {i} : readyState'[j] = readyState[j]
          /\ readyState'[i] # "DISPOSED"
      BY <1>1, <2>2 DEF DisposeSkipped, PatchOK
    <3> QED
      BY <2>1, <3>1 DEF NothingLeft, Owing
  <2>3. CASE DisposeRunning(i)
    <3>1. /\ \A j \in Interceptors \ {i} :
               appended'[j] = appended[j] /\ readyState'[j] = readyState[j]
          /\ \A j \in Interceptors, x \in Registrations : appended'[i][j][x] = 0
      BY <1>1, <2>3 DEF DisposeRunning, CountsOK, PatchOK, None
    <3> QED
      BY <2>1, <3>1 DEF NothingLeft, Owing
  <2> QED
    BY <1>5, <2>2, <2>3 DEF Dispose
<1>6. ASSUME NEW i \in Interceptors, RemoveAllListeners(i) \/ Emit(i) PROVE NothingLeft'
  BY <1>2, <1>6 DEF RemoveAllListeners, Emit, patchVars
<1>7. ASSUME NEW i \in Interceptors, NEW l \in Listeners, Once(i, l) \/ Off(i, l)
      PROVE  NothingLeft'
  BY <1>2, <1>7 DEF Once, Off, patchVars
<1>8. ASSUME NEW i \in Interceptors, NEW l \in Listeners, On(i, l) PROVE NothingLeft'
  <2>1. readyState' = readyState
    BY <1>8 DEF On, patchVars
  <2>2. CASE OnOwn(i, <<l, "on">>)
    BY <1>2, <2>1, <2>2 DEF OnOwn
  <2>3. CASE OnProxied(i, <<l, "on">>)
    <3>1. /\ \A j \in Interceptors \ {i} : appended'[j] = appended[j]
          /\ late' = IF readyState[i] = "DISPOSED" THEN late \cup {i} ELSE late
      BY <1>1, <2>3 DEF OnProxied, CountsOK
    <3>2. Interceptors \ Owing' \subseteq (Interceptors \ Owing) \ {i}
      BY <2>1, <3>1 DEF Owing
    <3> QED
      BY <3>1, <3>2 DEF NothingLeft
  <2> QED
    BY <1>8, <2>2, <2>3 DEF On
<1> QED
  BY <1>3, <1>4, <1>5, <1>6, <1>7, <1>8 DEF Next

\* So that only the subscriptions that are still owed count.
LEMMA OnlyOwingCount ==
  ASSUME NothingLeft
  PROVE  \A i \in Interceptors, x \in Registrations : Subscriptions(i, x) = Pending(i, x)
PROOF
<1> SUFFICES ASSUME NEW i \in Interceptors, NEW x \in Registrations
             PROVE  Subscriptions(i, x) = Pending(i, x)
  OBVIOUS
<1>1. \A j \in Interceptors \ Owing : {j} \X (1..appended[j][i][x]) = {}
  BY DEF NothingLeft
<1>2. Owing \subseteq Interceptors
  BY DEF Owing
<1> QED
  BY <1>1, <1>2 DEF Subscriptions, Pending

\* Whatever is applied, disposed, added and removed in whatever order: a listener that
\* is in an emitter was given to its instance, or was added by an instance that has
\* not been disposed of, or that was listened with after it had been.
THEOREM NoListenerLeftBehind == Spec => []ListenersAccountedFor
PROOF
<1>1. Init => IInv /\ ListenersOK /\ NothingLeft
  <2>1. Init => NothingLeft
    BY DEF Init, NothingLeft, None
  <2> QED
    BY <2>1, InitIInv, InitListeners
<1>2. IInv /\ ListenersOK /\ NothingLeft /\ [Next]_vars =>
        (IInv /\ ListenersOK /\ NothingLeft)'
  BY StepIInv, StepListeners, StepNothingLeft
<1>3. IInv /\ ListenersOK /\ NothingLeft => ListenersAccountedFor
  BY OnlyOwingCount DEF ListenersOK, ListenersAccountedFor
<1> QED
  BY <1>1, <1>2, <1>3, PTL DEF Spec
=============================================================================
