----------------------- MODULE MCInterceptorLifecycle -----------------------
(* InterceptorLifecycle with three instances of a class.                     *)
EXTENDS InterceptorLifecycle, TLC

CONSTANTS i1, i2, i3, l1

MCInterceptors == {i1, i2, i3}
MCListeners == {l1}
Symmetry == Permutations(MCInterceptors)
=============================================================================
