---------------------------- MODULE RemoteRequest ----------------------------
(***************************************************************************)
(* What a request made in a child process may come to when another process *)
(* mocks it: it gets the response that was made for it, or it ends without *)
(* the other process.  It is performed as-is only after a message that is  *)
(* no answer has reached it.                                               *)
(***************************************************************************)
CONSTANT Requests

VARIABLES
  outcome,    \* of each request
  response,   \* of each request: the requests whose responses answered it
  spoiled     \* the requests that a message that is no answer has reached

vars == <<outcome, response, spoiled>>

Init ==
  /\ outcome = [r \in Requests |-> "new"]
  /\ response = [r \in Requests |-> {}]
  /\ spoiled = {}

Make(r) ==
  /\ outcome[r] = "new"
  /\ outcome' = [outcome EXCEPT ![r] = "pending"]
  /\ UNCHANGED <<response, spoiled>>

Mock(r) ==
  /\ outcome[r] = "pending"
  /\ outcome' = [outcome EXCEPT ![r] = "mocked"]
  /\ response' = [response EXCEPT ![r] = {r}]
  /\ UNCHANGED spoiled

EndElsewhere(r) ==
  /\ outcome[r] = "pending"
  /\ outcome' = [outcome EXCEPT ![r] = "elsewhere"]
  /\ UNCHANGED <<response, spoiled>>

PerformAsIs(r) ==
  /\ outcome[r] = "pending" /\ r \in spoiled
  /\ outcome' = [outcome EXCEPT ![r] = "asis"]
  /\ UNCHANGED <<response, spoiled>>

Spoil ==
  /\ spoiled \subseteq spoiled'
  /\ spoiled' \subseteq Requests
  /\ UNCHANGED <<outcome, response>>

Next ==
  \/ Spoil
  \/ \E r \in Requests :
       Make(r) \/ Mock(r) \/ EndElsewhere(r) \/ PerformAsIs(r)

Spec == Init /\ [][Next]_vars
=============================================================================
