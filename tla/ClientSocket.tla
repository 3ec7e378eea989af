----------------------------- MODULE ClientSocket -----------------------------
(***************************************************************************)
(* What an intercepted WebSocket promises to the application: its state    *)
(* only advances, "open" is announced at most once and never after it has  *)
(* begun to close, and a socket that closes is told so exactly once.       *)
(***************************************************************************)
EXTENDS Naturals

VARIABLES
  readyState,  \* of the socket
  opens,       \* the "open" events the application has seen
  closes       \* the "close" events the application has seen

vars == <<readyState, opens, closes>>

Init == readyState = "CONNECTING" /\ opens = 0 /\ closes = 0

Open ==
  /\ readyState = "CONNECTING"
  /\ readyState' = "OPEN"
  /\ opens' = opens + 1
  /\ UNCHANGED closes

StartClosing ==
  /\ readyState \in {"CONNECTING", "OPEN"}
  /\ readyState' = "CLOSING"
  /\ UNCHANGED <<opens, closes>>

Close ==
  /\ readyState = "CLOSING"
  /\ readyState' = "CLOSED"
  /\ closes' = closes + 1
  /\ UNCHANGED opens

Next == Open \/ StartClosing \/ Close

\* A socket that closes does not stay closing.
Spec == Init /\ [][Next]_vars /\ WF_vars(Close)
=============================================================================
