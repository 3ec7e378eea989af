------------------------ MODULE InterceptorLifecycle ------------------------
(***************************************************************************)
(* Applying and disposing interceptors of one class.                       *)
(*                                                                         *)
(* All the instances of an interceptor class share a global symbol.  The   *)
(* first instance to be applied patches the global it intercepts and       *)
(* stores itself under the symbol; an instance applied while another one   *)
(* is running patches nothing and proxies its listeners to the running     *)
(* instance.  Disposing an instance frees the symbol, whoever holds it.    *)
(*                                                                         *)
(* Every method is synchronous, so that every action is one whole call.    *)
(* The calls that return without a change (apply() of an applied instance, *)
(* or in an environment without the global; dispose() of a disposed one)   *)
(* are stuttering steps.                                                   *)
(***************************************************************************)
EXTENDS Integers, SequencesExt, FiniteSetsExt

CONSTANTS
  Interceptors,  \* the instances
  NoInterceptor,
  Listeners,     \* what the developer listens with
  Styles,        \* how setup() treats a global that is patched already
  MaxPatches,    \* bound: patches of the global on top of each other
  MaxUndos,      \* bound: subscriptions of an instance that restore the global
  MaxListeners,  \* bound: registrations, and proxied ones, at the same time
  MaxGiven       \* bound: registrations that are not proxied

\* ClientRequest and WebSocket wrap whatever is there ("stack"); XMLHttpRequest
\* throws out of apply() ("throw"); fetch has an asynchronous setup(), whose
\* rejection apply() does not see ("reject").
ASSUME StylesAssumption == Styles \subseteq {"stack", "throw", "reject"}
ASSUME NoInterceptorAssumption == NoInterceptor \notin Interceptors
ASSUME BoundsAssumption ==
  {MaxPatches, MaxUndos, MaxListeners, MaxGiven} \subseteq Nat \ {0}

VARIABLES
  style,       \* of the class
  readyState,  \* of each instance
  running,     \* the instance stored under the global symbol
  installed,   \* the instances whose patch the global goes through, outermost last
  undos,       \* of each instance: the subscriptions that restore the global, as
               \* what they restore it to
  proxy,       \* of each instance: whose emitter its overridden on() adds to
  appended,    \* of each instance: the subscriptions that remove the listeners
               \* it has added to the emitters of others, as counts
  emitter,     \* of each instance: its emitter's listeners, as counts
  given,       \* history: the listeners an instance was itself given and that
               \* have not been taken back, as counts
  foreign,     \* history: an instance freed the symbol another one was running under
  late         \* history: the instances that were listened with after they were
               \* disposed of, and not applied again since

vars == <<style, readyState, running, installed, undos, proxy, appended, emitter,
          given, foreign, late>>
patchVars == <<style, readyState, running, installed, undos, proxy, foreign>>

\* A listener is registered with on() or with once(), which wraps it.
Registrations == Listeners \X {"on", "once"}
None == [x \in Registrations |-> 0]

TypeOK ==
  /\ style \in Styles
  /\ readyState \in [Interceptors ->
       {"INACTIVE", "APPLYING", "APPLIED", "DISPOSING", "DISPOSED"}]
  /\ running \in Interceptors \cup {NoInterceptor}
  /\ installed \in Seq(Interceptors)
  /\ undos \in [Interceptors -> Seq(Seq(Interceptors))]
  /\ proxy \in [Interceptors -> Interceptors \cup {NoInterceptor}]
  /\ appended \in [Interceptors -> [Interceptors -> [Registrations -> Nat]]]
  /\ emitter \in [Interceptors -> [Registrations -> Nat]]
  /\ given \in [Interceptors -> [Registrations -> Nat]]
  /\ foreign \in BOOLEAN
  /\ late \subseteq Interceptors

Init ==
  /\ style \in Styles
  /\ readyState = [i \in Interceptors |-> "INACTIVE"]
  /\ running = NoInterceptor
  /\ installed = <<>>
  /\ undos = [i \in Interceptors |-> <<>>]
  /\ proxy = [i \in Interceptors |-> NoInterceptor]
  /\ appended = [i \in Interceptors |-> [j \in Interceptors |-> None]]
  /\ emitter = [i \in Interceptors |-> None]
  /\ given = [i \in Interceptors |-> None]
  /\ foreign = FALSE
  /\ late = {}

-----------------------------------------------------------------------------
(* apply().  Nothing but APPLIED keeps an instance from being applied again. *)

\* An instance is running: on() is overridden to add listeners to its emitter.
Reuse(i) ==
  /\ running # NoInterceptor
  /\ proxy' = [proxy EXCEPT ![i] = running]
  /\ readyState' = [readyState EXCEPT ![i] = "APPLIED"]
  /\ UNCHANGED <<running, installed, undos>>

AlreadyPatched == style # "stack" /\ installed # <<>>

\* A variant of SetUp that reads the original after patching the global.
SetUpReadsLate(i) ==
  /\ running = NoInterceptor
  /\ ~AlreadyPatched
  /\ Len(installed) < MaxPatches /\ Len(undos[i]) < MaxUndos
  /\ undos' = [undos EXCEPT ![i] = Append(@, Append(installed, i))]
  /\ installed' = Append(installed, i)
  /\ running' = i
  /\ readyState' = [readyState EXCEPT ![i] = "APPLIED"]
  /\ UNCHANGED proxy

\* setup() patches the global and subscribes to restore what it has found there.
SetUp(i) ==
  /\ running = NoInterceptor
  /\ ~AlreadyPatched
  /\ Len(installed) < MaxPatches /\ Len(undos[i]) < MaxUndos
  /\ undos' = [undos EXCEPT ![i] = Append(@, installed)]
  /\ installed' = Append(installed, i)
  /\ running' = i
  /\ readyState' = [readyState EXCEPT ![i] = "APPLIED"]
  /\ UNCHANGED proxy

\* A variant of SetUpFails for an instance that is stored before setup().
SetUpFailsStored(i) ==
  /\ running = NoInterceptor
  /\ AlreadyPatched
  /\ readyState' = [readyState EXCEPT ![i] =
       IF style = "throw" THEN "APPLYING" ELSE "APPLIED"]
  /\ running' = i
  /\ UNCHANGED <<installed, undos, proxy>>

\* setup() fails with "already patched".
SetUpFails(i) ==
  /\ running = NoInterceptor
  /\ AlreadyPatched
  /\ \/ /\ style = "throw"
        /\ readyState' = [readyState EXCEPT ![i] = "APPLYING"]
        /\ UNCHANGED running
     \/ /\ style = "reject"
        /\ readyState' = [readyState EXCEPT ![i] = "APPLIED"]
        /\ running' = i
  /\ UNCHANGED <<installed, undos, proxy>>

Apply(i) ==
  /\ readyState[i] # "APPLIED"
  /\ Reuse(i) \/ SetUp(i) \/ SetUpFails(i)
  /\ late' = late \ {i}
  /\ UNCHANGED <<style, appended, emitter, given, foreign>>

-----------------------------------------------------------------------------
(* dispose().                                                              *)

\* removeListener() removes one registration, if there is any.
Less(count, n) == IF count < n THEN 0 ELSE count - n

\* No instance is running: the instance stays DISPOSING, and its subscriptions
\* and listeners stay as they are.
DisposeSkipped(i) ==
  /\ running = NoInterceptor
  /\ readyState' = [readyState EXCEPT ![i] = "DISPOSING"]
  /\ UNCHANGED <<running, installed, undos, appended, emitter, given, foreign>>

\* A variant of DisposeRunning that leaves proxied listeners where they are.
DisposeRunningLeavesListeners(i) ==
  /\ running # NoInterceptor
  /\ readyState' = [readyState EXCEPT ![i] = "DISPOSED"]
  /\ running' = NoInterceptor
  /\ installed' = IF undos[i] = <<>> THEN installed ELSE Last(undos[i])
  /\ undos' = [undos EXCEPT ![i] = <<>>]
  /\ emitter' = [emitter EXCEPT ![i] = None]
  /\ appended' = [appended EXCEPT ![i] = [j \in Interceptors |-> None]]
  /\ given' = [given EXCEPT ![i] = None]
  /\ foreign' = (foreign \/ running # i)

\* The subscriptions run in order: the last one to restore the global decides.
DisposeRunning(i) ==
  /\ running # NoInterceptor
  /\ readyState' = [readyState EXCEPT ![i] = "DISPOSED"]
  /\ running' = NoInterceptor
  /\ installed' = IF undos[i] = <<>> THEN installed ELSE Last(undos[i])
  /\ undos' = [undos EXCEPT ![i] = <<>>]
  /\ emitter' = [j \in Interceptors |->
       IF j = i THEN None
       ELSE [x \in Registrations |-> Less(emitter[j][x], appended[i][j][x])]]
  /\ appended' = [appended EXCEPT ![i] = [j \in Interceptors |-> None]]
  /\ given' = [given EXCEPT ![i] = None]
  /\ foreign' = (foreign \/ running # i)

Dispose(i) ==
  /\ readyState[i] # "DISPOSED"
  /\ DisposeSkipped(i) \/ DisposeRunning(i)
  /\ UNCHANGED <<style, proxy, late>>

-----------------------------------------------------------------------------
(* Listening.                                                              *)

\* The bound on registrations.
MayRegister ==
  LET total(count(_)) == MapThenSumSet(count, Interceptors)
      of(counts) == MapThenSumSet(LAMBDA x : counts[x], Registrations)
      pending(i) == total(LAMBDA j : of(appended[i][j]))
  IN /\ total(LAMBDA i : of(emitter[i])) < MaxListeners
     /\ total(LAMBDA i : of(given[i])) < MaxGiven
     /\ total(pending) < MaxListeners

\* Only the on() of the class looks at readyState, the overridden one does not.
OnOwn(i, x) ==
  /\ proxy[i] = NoInterceptor
  /\ readyState[i] \notin {"DISPOSING", "DISPOSED"}
  /\ emitter' = [emitter EXCEPT ![i][x] = @ + 1]
  /\ given' = [given EXCEPT ![i][x] = @ + 1]
  /\ UNCHANGED <<appended, late>>

\* With an instance that has been disposed of it still adds a listener, and a
\* subscription that dispose(), which returns early, does not run.
OnProxied(i, x) ==
  /\ proxy[i] # NoInterceptor
  /\ emitter' = [emitter EXCEPT ![proxy[i]][x] = @ + 1]
  /\ appended' = [appended EXCEPT ![i][proxy[i]][x] = @ + 1]
  /\ late' = IF readyState[i] = "DISPOSED" THEN late \cup {i} ELSE late
  /\ UNCHANGED given

On(i, l) ==
  /\ MayRegister
  /\ OnOwn(i, <<l, "on">>) \/ OnProxied(i, <<l, "on">>)
  /\ UNCHANGED patchVars

\* once() is not overridden and is never refused.
Once(i, l) ==
  /\ MayRegister
  /\ emitter' = [emitter EXCEPT ![i][<<l, "once">>] = @ + 1]
  /\ given' = [given EXCEPT ![i][<<l, "once">>] = @ + 1]
  /\ UNCHANGED <<patchVars, appended, late>>

\* A variant of Off that does not look for the listener.
OffUnseen(i, l) ==
  /\ emitter' = [emitter EXCEPT ![i][<<l, "on">>] = @ - 1]
  /\ given' = [given EXCEPT ![i][<<l, "on">>] = Less(@, 1)]
  /\ UNCHANGED <<patchVars, appended, late>>

\* off() is not overridden either: it looks at the instance's own emitter.
Off(i, l) ==
  /\ emitter[i][<<l, "on">>] > 0
  /\ emitter' = [emitter EXCEPT ![i][<<l, "on">>] = @ - 1]
  /\ given' = [given EXCEPT ![i][<<l, "on">>] = Less(@, 1)]
  /\ UNCHANGED <<patchVars, appended, late>>

RemoveAllListeners(i) ==
  /\ emitter' = [emitter EXCEPT ![i] = None]
  /\ given' = [given EXCEPT ![i] = None]
  /\ UNCHANGED <<patchVars, appended, late>>

WithoutOnce(counts) ==
  [x \in Registrations |-> IF x[2] = "once" THEN 0 ELSE counts[x]]

\* The patch of an instance emits an event: one-time listeners go.
Emit(i) ==
  /\ i \in ToSet(installed)
  /\ emitter' = [emitter EXCEPT ![i] = WithoutOnce(@)]
  /\ given' = [given EXCEPT ![i] = WithoutOnce(@)]
  /\ UNCHANGED <<patchVars, appended, late>>

Next ==
  \E i \in Interceptors :
    \/ Apply(i)
    \/ Dispose(i)
    \/ RemoveAllListeners(i)
    \/ Emit(i)
    \/ \E l \in Listeners : On(i, l) \/ Once(i, l) \/ Off(i, l)

Spec == Init /\ [][Next]_vars

-----------------------------------------------------------------------------
(* Properties.                                                             *)

\* Whatever is applied and disposed in whatever order, the instance found under
\* the symbol is an applied one, never one that was disposed, and no instance
\* proxies its listeners to itself.
RunningIsApplied ==
  /\ running # NoInterceptor => readyState[running] = "APPLIED"
  /\ \A i \in Interceptors : proxy[i] # i

\* As long as nobody but the running instance frees the symbol, the global goes
\* through the patch of the running instance, and is back to what it was when
\* no instance is running: patches neither pile up nor come back.
PatchFollowsRunning ==
  ~foreign =>
    installed = (IF running = NoInterceptor THEN <<>> ELSE <<running>>)

\* The assertion of setup(), "Failed to patch ...: already patched", is never
\* met as long as nobody but the running instance frees the symbol.
SetupNeverFails ==
  ~foreign =>
    /\ \A i \in Interceptors : readyState[i] # "APPLYING"
    /\ running # NoInterceptor => undos[running] # <<>>

\* The instances whose subscriptions are not dealt with: those a dispose() would
\* still run, and those added after the dispose().
Owing == {j \in Interceptors : readyState[j] # "DISPOSED" \/ j \in late}

\* The subscriptions that would remove a listener from an emitter, those of an
\* instance numbered.
Subscriptions(i, x) == UNION {{j} \X (1..appended[j][i][x]) : j \in Owing}

\* An instance leaves no listener behind when it is disposed of: whatever an
\* emitter holds was given to its own instance, or was added by one that proxies
\* and either has not been disposed of, so that its dispose() will remove it, once
\* an instance runs, or was listened with after it had been: on() of such an
\* instance still adds listeners, and only applying it again lets a dispose()
\* remove them.
ListenersAccountedFor ==
  \A i \in Interceptors, x \in Registrations :
    emitter[i][x] <= given[i][x] + Cardinality(Subscriptions(i, x))

\* Facts the safety properties rest on: as long as nobody interferes, only the
\* running instance has something to restore, and it restores the original.
UndosFollowRunning ==
  ~foreign =>
    \A i \in Interceptors : undos[i] = (IF i = running THEN << <<>> >> ELSE <<>>)

\* The inductive invariant.
IInv ==
  /\ TypeOK
  /\ RunningIsApplied
  /\ PatchFollowsRunning
  /\ UndosFollowRunning
  /\ SetupNeverFails

\* The documentation of dispose(): "Disposes of any side-effects this
\* interceptor has introduced."
DisposeUndoesThePatch ==
  \A i \in Interceptors :
    readyState[i] \in {"DISPOSING", "DISPOSED"} => i \notin ToSet(installed)
=============================================================================
