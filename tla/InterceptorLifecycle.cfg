\* Three instances: one runs, two proxy to it.  Two listeners at a time are enough
\* for each of them to have added one.
SPECIFICATION Spec
CONSTANTS
  i1 = i1
  i2 = i2
  i3 = i3
  l1 = l1
  NoInterceptor = NoInterceptor
  Interceptors <- MCInterceptors
  Listeners <- MCListeners
  Styles = {"stack", "throw", "reject"}
  MaxPatches = 2
  MaxUndos = 1
  MaxListeners = 2
  MaxGiven = 1
SYMMETRY Symmetry
INVARIANTS
  TypeOK
  RunningIsApplied
  PatchFollowsRunning
  SetupNeverFails
  ListenersAccountedFor
