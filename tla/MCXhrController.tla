--------------------------- MODULE MCXhrController ---------------------------
(* XhrController with an XMLHttpRequest that is used up to twice.             *)
EXTENDS XhrController
=============================================================================
