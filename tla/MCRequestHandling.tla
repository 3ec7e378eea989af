-------------------------- MODULE MCRequestHandling --------------------------
(* RequestHandling with concurrent requests that share the listeners.         *)
EXTENDS RequestHandling, TLC

CONSTANTS r1, r2, l1

MCRequests == {r1, r2}
MCListeners == {l1}
=============================================================================
