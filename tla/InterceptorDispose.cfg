SPECIFICATION Spec
CONSTANTS
  i1 = i1
  i2 = i2
  i3 = i3
  l1 = l1
  NoInterceptor = NoInterceptor
  Interceptors <- MCInterceptors
  Listeners <- MCListeners
  Styles = {"stack", "throw", "reject"}
  MaxPatches = 2
  MaxUndos = 1
  MaxListeners = 2
  MaxGiven = 1
INVARIANTS
  DisposeUndoesThePatch
