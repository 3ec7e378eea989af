----------------------------- MODULE MCRemoteIPC -----------------------------
(* RemoteIPC with one child that makes all requests.                          *)
EXTENDS RemoteIPC

MCChildOf == [r \in Requests |-> CHOOSE c \in Children : TRUE]
=============================================================================
