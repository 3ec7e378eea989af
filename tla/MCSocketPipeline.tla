--------------------------- MODULE MCSocketPipeline ---------------------------
(* SocketPipeline with three writes and an informational response.             *)
EXTENDS SocketPipeline
=============================================================================
