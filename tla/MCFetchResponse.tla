--------------------------- MODULE MCFetchResponse ---------------------------
(* FetchResponse with redirects between two origins.                          *)
EXTENDS FetchResponse
=============================================================================
