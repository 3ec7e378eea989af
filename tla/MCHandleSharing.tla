--------------------------- MODULE MCHandleSharing ---------------------------
(* HandleSharing with every variant of the mock socket: the code with and     *)
(* without MSW_USE_FIX, and the same two with the alias dropped.              *)
EXTENDS HandleSharing

MCBuilds == [readNoop : BOOLEAN, alias : BOOLEAN]
MCShippedBuilds == [readNoop : BOOLEAN, alias : {TRUE}]
=============================================================================
