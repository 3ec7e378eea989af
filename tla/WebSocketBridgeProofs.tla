------------------------- MODULE WebSocketBridgeProofs -------------------------
(***************************************************************************)
(* WebSocketBridge for any number of messages and of connections.  Of the  *)
(* closures: the socket of the application implements ClientSocket, the    *)
(* only connection closes with it and lets nothing through afterwards, and *)
(* a server connection reports a closure once; a socket that connects or   *)
(* closes does not wait in vain.  Of the messages: those of either side    *)
(* arrive in order, and those of the application at most once.             *)
(***************************************************************************)
EXTENDS WebSocketBridge, SequenceTheorems, TLAPS

-----------------------------------------------------------------------------
(* The inductive invariant.                                                *)

\* The end of the "connection" event.
Settling == {"proceed", "threw"}

\* Two microtasks that are never queued together.
Clash(a, b) ==
  \/ a.task \in Settling /\ b.task \in Settling
  \/ a.task = b.task /\ a.task \in {"connection", "close"}
  \/ a.task = b.task /\ a.task = "serverClose" /\ a.n = b.n

\* The queue is well typed and free of clashes; at most one of the listeners to
\* run handles the closure of a real WebSocket.
Queue(js) ==
  /\ js \in Seq(Jobs)
  /\ \A i, j \in DOMAIN js : i # j => ~Clash(js[i], js[j])
CallQueue(cs) ==
  /\ cs \in Seq(Calls)
  /\ \A i, j \in DOMAIN cs :
       cs[i].listener = "realClose" /\ cs[j].listener = "realClose" => i = j

\* What holds while a microtask is queued, and while a listener is yet to run.
JobOK(j) ==
  /\ j.task \in {"onSend", "forward", "clientSend"} => j.n \in Message
  /\ j.task = "forward" => made > 0
  /\ j.task = "connection" => connection = "new"
  /\ j.task = "close" => client = "CLOSING"
  /\ j.task = "serverClose" =>
       j.n \in 1..made /\ real[j.n].shut /\ real[j.n].closes = 0
  /\ j.task \in Settling =>
       IF hasListeners THEN connection = "settled"
                       ELSE connection = "emitted" /\ j.task = "proceed"
CallOK(x) ==
  /\ x.listener \in {"flush", "deliver"} => x.n \in Message
  /\ x.listener = "flush" => x.conn \in Sockets
  /\ x.listener = "mockClose" => made > 0
  /\ x.listener = "realClose" =>
       /\ x.conn \in 1..made /\ real[x.conn].state = "CLOSED"
       /\ "real" \notin aborted => real[x.conn].closes = 0

\* A real WebSocket.
RealOK(c) ==
  /\ c <= made <=> real[c].state # "none"
  /\ real[c].closes > 0 =>
       real[c].state = "CLOSED" \/ ("real" \in aborted /\ real[c].state \in Shut)
  /\ real[c].closes <= 1
  /\ real[c].shut => "real" \in aborted /\ real[c].state \in Shut
  /\ blame = c => real[c].state = "CLOSED" /\ ~real[c].shut

\* What the application knows of its socket; nobody else acts in passthrough.
AppOK ==
  /\ seen.closes = IF client = "CLOSED" THEN 1 ELSE 0
  /\ hasListeners /\ client = "CONNECTING" => seen.opens = 0
  /\ ~hasListeners =>
       /\ ~opening
       /\ made = IF connection = "passthrough" THEN 1 ELSE 0
       /\ seen.opens = 0 \/ real[1].state \notin {"none", "CONNECTING"}

\* The only real WebSocket follows the client's closure.
MockClosePending == \E x \in ToSet(calls) : x.listener = "mockClose"
LoneOK ==
  /\ "mock" \in aborted => made > 0
  /\ "mock" \in aborted /\ made = 1 => real[1].state = "CLOSED"
  /\ made = 1 /\ ~late /\ client = "CLOSED" =>
       real[1].state \in Shut \/ MockClosePending

JobsOK == Queue(jobs) /\ \A j \in ToSet(jobs) : JobOK(j)
CallsOK == CallQueue(calls) /\ \A x \in ToSet(calls) : CallOK(x)
RealsOK == \A c \in Sockets : RealOK(c)

IInv == TypeOK /\ JobsOK /\ CallsOK /\ RealsOK /\ AppOK /\ LoneOK

-----------------------------------------------------------------------------
(* Queues.                                                                 *)

\* Running the microtask at the head leaves others only, and none that clashes
\* with it.
LEMMA QueueTail ==
  ASSUME NEW js, Queue(js), js # <<>>
  PROVE  /\ Queue(Tail(js))
         /\ Head(js) \in ToSet(js) /\ Head(js) \in Jobs
         /\ ToSet(Tail(js)) \subseteq ToSet(js)
         /\ \A j \in ToSet(Tail(js)) : ~Clash(Head(js), j)
PROOF
<1>1. /\ js \in Seq(Jobs) /\ Len(js) \in Nat /\ Len(js) > 0 /\ DOMAIN js = 1..Len(js)
      /\ \A i, j \in DOMAIN js : i # j => ~Clash(js[i], js[j])
  BY DEF Queue
<1>2. /\ Tail(js) \in Seq(Jobs) /\ DOMAIN Tail(js) = 1..(Len(js) - 1)
      /\ \A i \in 1..(Len(js) - 1) : Tail(js)[i] = js[i + 1] /\ i + 1 \in DOMAIN js
  BY <1>1
<1>3. Head(js) = js[1] /\ 1 \in DOMAIN js /\ js[1] \in Jobs
  BY <1>1
<1>4. \A i, j \in DOMAIN Tail(js) : i # j => ~Clash(Tail(js)[i], Tail(js)[j])
  BY <1>1, <1>2
<1>5. \A i \in DOMAIN Tail(js) : ~Clash(js[1], Tail(js)[i])
  BY <1>1, <1>2, <1>3
<1> QED
  BY <1>2, <1>3, <1>4, <1>5 DEF Queue, ToSet

\* Queueing a microtask that clashes with none of the queue.
LEMMA QueueAppend ==
  ASSUME NEW js, Queue(js), NEW job \in Jobs,
         \A j \in ToSet(js) : ~Clash(j, job)
  PROVE  /\ Queue(Append(js, job))
         /\ ToSet(Append(js, job)) = ToSet(js) \cup {job}
PROOF
<1> DEFINE t == Append(js, job)
<1>1. /\ js \in Seq(Jobs) /\ Len(js) \in Nat /\ DOMAIN js = 1..Len(js)
      /\ \A i, j \in DOMAIN js : i # j => ~Clash(js[i], js[j])
  BY DEF Queue
<1>2. /\ t \in Seq(Jobs) /\ DOMAIN t = 1..(Len(js) + 1) /\ t[Len(js) + 1] = job
      /\ \A i \in 1..Len(js) : t[i] = js[i]
  BY <1>1
<1>3. \A i \in DOMAIN js : ~Clash(js[i], job) /\ ~Clash(job, js[i])
  BY DEF ToSet, Clash
<1> HIDE DEF t
<1>4. \A i, j \in DOMAIN t : i # j => ~Clash(t[i], t[j])
  BY <1>1, <1>2, <1>3
<1>5. ToSet(t) = ToSet(js) \cup {job}
  BY <1>1, <1>2 DEF ToSet
<1> QED
  BY <1>2, <1>4, <1>5 DEF Queue, t

\* Running the listener at the head.
LEMMA CallsTail ==
  ASSUME NEW cs, CallQueue(cs), cs # <<>>
  PROVE  /\ CallQueue(Tail(cs))
         /\ Head(cs) \in ToSet(cs) /\ Head(cs) \in Calls
         /\ ToSet(Tail(cs)) \subseteq ToSet(cs)
         /\ ToSet(cs) = ToSet(Tail(cs)) \cup {Head(cs)}
         /\ Head(cs).listener = "realClose" =>
              \A x \in ToSet(Tail(cs)) : x.listener # "realClose"
PROOF
<1>1. /\ cs \in Seq(Calls) /\ Len(cs) \in Nat /\ Len(cs) > 0 /\ DOMAIN cs = 1..Len(cs)
      /\ \A i, j \in DOMAIN cs :
           cs[i].listener = "realClose" /\ cs[j].listener = "realClose" => i = j
  BY DEF CallQueue
<1>2. /\ Tail(cs) \in Seq(Calls) /\ DOMAIN Tail(cs) = 1..(Len(cs) - 1)
      /\ \A i \in 1..(Len(cs) - 1) : Tail(cs)[i] = cs[i + 1] /\ i + 1 \in DOMAIN cs
  BY <1>1
<1>3. Head(cs) = cs[1] /\ 1 \in DOMAIN cs /\ cs[1] \in Calls
  BY <1>1
<1>4. \A i, j \in DOMAIN Tail(cs) :
        Tail(cs)[i].listener = "realClose" /\ Tail(cs)[j].listener = "realClose" => i = j
  BY <1>1, <1>2
<1>5. ToSet(Tail(cs)) \subseteq ToSet(cs)
  BY <1>2 DEF ToSet
<1>6. \A i \in DOMAIN cs : cs[i] = cs[1] \/ (i - 1 \in DOMAIN Tail(cs) /\ Tail(cs)[i - 1] = cs[i])
  BY <1>1, <1>2
<1>7. ToSet(cs) = ToSet(Tail(cs)) \cup {Head(cs)}
  BY <1>3, <1>5, <1>6 DEF ToSet
<1>8. Head(cs).listener = "realClose" =>
        \A i \in DOMAIN Tail(cs) : Tail(cs)[i].listener # "realClose"
  BY <1>1, <1>2, <1>3
<1> QED
  BY <1>2, <1>3, <1>4, <1>5, <1>7, <1>8 DEF CallQueue, ToSet

\* Other listeners than those for the closure of a real WebSocket come before
\* the ones already left to run.
LEMMA CallsPrepend ==
  ASSUME NEW new \in Seq(Calls), NEW cs, CallQueue(cs),
         \A x \in ToSet(new) : x.listener # "realClose"
  PROVE  /\ CallQueue(new \o cs)
         /\ ToSet(new \o cs) = ToSet(new) \cup ToSet(cs)
PROOF
<1> DEFINE t == new \o cs
<1>1. /\ cs \in Seq(Calls) /\ Len(cs) \in Nat /\ DOMAIN cs = 1..Len(cs)
      /\ \A i, j \in DOMAIN cs :
           cs[i].listener = "realClose" /\ cs[j].listener = "realClose" => i = j
  BY DEF CallQueue
<1>2. Len(new) \in Nat /\ DOMAIN new = 1..Len(new)
  OBVIOUS
<1>3. /\ t \in Seq(Calls) /\ DOMAIN t = 1..(Len(new) + Len(cs))
      /\ \A i \in 1..Len(new) : t[i] = new[i]
      /\ \A i \in 1..(Len(new) + Len(cs)) :
           i > Len(new) => t[i] = cs[i - Len(new)] /\ i - Len(new) \in DOMAIN cs
  BY <1>1, <1>2
<1>4. \A i \in DOMAIN cs : t[i + Len(new)] = cs[i] /\ i + Len(new) \in DOMAIN t
  BY <1>1, <1>2, <1>3
<1> HIDE DEF t
<1>5. \A i \in DOMAIN t : t[i].listener = "realClose" => i > Len(new)
  BY <1>2, <1>3 DEF ToSet
<1>6. ASSUME NEW i \in DOMAIN t, NEW j \in DOMAIN t,
             t[i].listener = "realClose", t[j].listener = "realClose"
      PROVE  i = j
  <2> DEFINE k == i - Len(new)
             m == j - Len(new)
  <2>1. k \in DOMAIN cs /\ m \in DOMAIN cs /\ t[i] = cs[k] /\ t[j] = cs[m]
    BY <1>2, <1>3, <1>5, <1>6
  <2>2. k = m
    BY <1>1, <1>6, <2>1
  <2> QED
    BY <1>2, <1>3, <2>2
<1>7. \A i \in DOMAIN t : t[i] \in ToSet(new) \cup ToSet(cs)
  <2> SUFFICES ASSUME NEW i \in 1..(Len(new) + Len(cs))
               PROVE  t[i] \in ToSet(new) \cup ToSet(cs)
    BY <1>3
  <2>1. CASE i <= Len(new)
    BY <1>2, <1>3, <2>1 DEF ToSet
  <2>2. CASE i > Len(new)
    <3> DEFINE k == i - Len(new)
    <3>1. k \in DOMAIN cs /\ t[i] = cs[k]
      BY <1>3, <2>2
    <3> QED
      BY <3>1 DEF ToSet
  <2> QED
    BY <1>1, <1>2, <2>1, <2>2
<1>8. ToSet(new) \subseteq ToSet(t) /\ ToSet(cs) \subseteq ToSet(t)
  BY <1>1, <1>2, <1>3, <1>4 DEF ToSet
<1>9. ToSet(t) = ToSet(new) \cup ToSet(cs)
  <2>1. ToSet(t) \subseteq ToSet(new) \cup ToSet(cs)
    BY <1>7 DEF ToSet
  <2> QED
    BY <1>8, <2>1
<1>10. CallQueue(t)
  BY <1>3, <1>6 DEF CallQueue
<1> QED
  BY <1>9, <1>10 DEF t

\* The listeners made of a sequence of messages.
LEMMA CallsOfMessages ==
  ASSUME NEW q \in Seq(Message), NEW l \in {"flush", "deliver"},
         NEW c \in 0..Connections
  PROVE  LET cs == [i \in DOMAIN q |-> Call(l, q[i], c)]
         IN  /\ cs \in Seq(Calls)
             /\ \A x \in ToSet(cs) : x.listener = l /\ x.n \in Message /\ x.conn = c
PROOF
<1> DEFINE cs == [i \in DOMAIN q |-> Call(l, q[i], c)]
<1>1. DOMAIN q = 1..Len(q) /\ Len(q) \in Nat /\ \A i \in DOMAIN q : q[i] \in Message
  OBVIOUS
<1>2. \A i \in DOMAIN q : q[i] \in Nat
  BY <1>1, BoundsAssumption DEF Message
<1>3. \A i \in DOMAIN q :
        /\ Call(l, q[i], c) \in Calls
        /\ Call(l, q[i], c).listener = l /\ Call(l, q[i], c).n = q[i]
        /\ Call(l, q[i], c).conn = c
  BY <1>2 DEF Call, Calls
<1>4. DOMAIN cs = 1..Len(q) /\ \A i \in DOMAIN q : cs[i] = Call(l, q[i], c)
  BY <1>1
<1> HIDE DEF cs
<1>5. cs \in [1..Len(q) -> Calls]
  BY <1>1, <1>3, <1>4 DEF cs
<1>6. cs \in Seq(Calls)
  BY <1>1, <1>5
<1> QED
  BY <1>1, <1>3, <1>4, <1>6 DEF ToSet, cs

-----------------------------------------------------------------------------
(* The invariant.                                                          *)

\* Its conjuncts, before and after a step.
LEMMA View ==
  /\ IInv <=> TypeOK /\ JobsOK /\ CallsOK /\ RealsOK /\ AppOK /\ LoneOK
  /\ IInv' <=> TypeOK' /\ JobsOK' /\ CallsOK' /\ RealsOK' /\ AppOK' /\ LoneOK'
BY DEF IInv

\* The invariant of the first state: one microtask, and nothing has happened.
LEMMA InitIInv == Init => IInv
PROOF
<1> SUFFICES ASSUME Init PROVE IInv
  OBVIOUS
<1>1. jobs = <<Job("connection", 0)>> /\ calls = <<>>
  BY DEF Init
<1>2. Job("connection", 0) \in Jobs
  BY DEF Job, Jobs
<1>3. TypeOK
  <2>1. jobs \in Seq(Jobs) /\ calls \in Seq(Calls) /\ queued \in Seq(Message)
    BY <1>1, <1>2 DEF Init
  <2>2. real \in [Sockets -> RealSocket]
    BY DEF Init, RealSocket
  <2>3. used \in [app : 0..Sends, client : 0..Sends, server : 0..Sends]
    BY BoundsAssumption DEF Init, BoundsAssumption
  <2>4. seen \in [opens : 0..1, closes : 0..1, got : Seq(Message),
                  after : SUBSET {"open", "message", "error"}]
    BY DEF Init
  <2>5. made \in 0..Connections /\ blame \in 0..Connections
    BY BoundsAssumption DEF Init
  <2>6. hasListeners \in BOOLEAN /\ opening \in BOOLEAN /\ inListener \in BOOLEAN
    BY DEF Init
  <2>7. /\ platform \in {"node", "browser"}
        /\ connection = "new" /\ client = "CONNECTING"
        /\ aborted \subseteq {"mock", "real"}
    BY DEF Init
  <2>8. late \in BOOLEAN
    BY DEF Init
  <2> QED
    BY <2>1, <2>2, <2>3, <2>4, <2>5, <2>6, <2>7, <2>8 DEF TypeOK, States
<1>4. JobsOK
  <2>1. ToSet(jobs) = {Job("connection", 0)} /\ \A i, j \in DOMAIN jobs : i = j
    BY <1>1 DEF ToSet
  <2>2. Queue(jobs)
    BY <1>1, <1>2, <2>1 DEF Queue
  <2> QED
    BY <2>1, <2>2 DEF JobsOK, JobOK, Job, Init, Settling
<1>5. CallsOK
  <2>1. DOMAIN calls = {} /\ ToSet(calls) = {} /\ calls \in Seq(Calls)
    BY <1>1 DEF ToSet
  <2> QED
    BY <2>1 DEF CallsOK, CallQueue
<1>6. RealsOK /\ AppOK /\ LoneOK
  BY BoundsAssumption DEF Init, RealsOK, RealOK, AppOK, LoneOK, Sockets
<1> QED
  BY <1>3, <1>4, <1>5, <1>6, View

\* The constructor's microtask; without listeners it queues the end of the
\* event.
LEMMA RunConnectionIInv == IInv /\ RunConnection => IInv'
PROOF
<1> SUFFICES ASSUME IInv, RunConnection PROVE IInv'
  OBVIOUS
<1> DEFINE rest == Tail(jobs)
           next == Job("proceed", 0)
<1>1. TypeOK /\ JobsOK /\ CallsOK /\ RealsOK /\ AppOK /\ LoneOK
  BY View
<1>2. /\ Queue(rest) /\ ToSet(rest) \subseteq ToSet(jobs)
      /\ Head(jobs) \in ToSet(jobs) /\ Head(jobs).task = "connection"
      /\ \A j \in ToSet(rest) : ~Clash(Head(jobs), j)
  BY <1>1, QueueTail DEF JobsOK, RunConnection, Running
<1>3. connection = "new"
  BY <1>1, <1>2 DEF JobsOK, JobOK
<1>4. \A j \in ToSet(rest) : j.task \notin Settling \cup {"connection"}
  BY <1>1, <1>2, <1>3 DEF JobsOK, JobOK, Clash, Settling
<1>5. next \in Jobs /\ next.task = "proceed" /\ \A j \in ToSet(rest) : ~Clash(j, next)
  BY <1>4 DEF Job, Jobs, Clash, Settling
<1>6. /\ Queue(Append(rest, next))
      /\ ToSet(Append(rest, next)) = ToSet(rest) \cup {next}
  BY <1>2, <1>5, QueueAppend
<1>7. JobsOK'
  <2>1. /\ Queue(jobs')
        /\ \A j \in ToSet(jobs') :
             \/ j \in ToSet(jobs) /\ j.task \notin Settling \cup {"connection"}
             \/ j = next /\ ~hasListeners
    BY <1>2, <1>4, <1>6 DEF RunConnection
  <2> HIDE DEF next
  <2>2. ASSUME NEW j \in ToSet(jobs') PROVE JobOK(j)'
    BY <1>1, <1>5, <2>1 DEF JobsOK, JobOK, RunConnection, Settling, setting
  <2> QED
    BY <2>1, <2>2 DEF JobsOK
<1>8. TypeOK'
  BY <1>1, <1>7 DEF TypeOK, JobsOK, Queue, RunConnection, setting, turn, history
<1>9. CallsOK' /\ RealsOK' /\ LoneOK'
  BY <1>1 DEF CallsOK, CallOK, RealsOK, RealOK, LoneOK, MockClosePending,
     RunConnection, turn, history
<1>10. AppOK'
  BY <1>1, <1>3 DEF AppOK, RunConnection, setting
<1> QED
  BY <1>7, <1>8, <1>9, <1>10, View

\* A real WebSocket that has changed in nothing but its messages.
Alike(c) ==
  /\ real'[c].state = real[c].state
  /\ real'[c].closes = real[c].closes
  /\ real'[c].shut = real[c].shut

\* Sending something to a real WebSocket changes its messages only.
LEMMA SentFrame ==
  ASSUME TypeOK, NEW d \in Sockets, NEW n \in Message,
         real' = [real EXCEPT ![d] = Sent(@, n)]
  PROVE  real' \in [Sockets -> RealSocket] /\ \A c \in Sockets : Alike(c)
PROOF
<1>1. real \in [Sockets -> RealSocket]
  BY DEF TypeOK
<1>2. /\ real[d].pending \in Seq(Message) /\ real[d].sent \in Seq(Message)
      /\ Append(real[d].pending, n) \in Seq(Message)
      /\ Append(real[d].sent, n) \in Seq(Message)
  BY <1>1 DEF RealSocket
<1>3. /\ Sent(real[d], n) \in RealSocket
      /\ Sent(real[d], n).state = real[d].state
      /\ Sent(real[d], n).closes = real[d].closes
      /\ Sent(real[d], n).shut = real[d].shut
  BY <1>1, <1>2 DEF Sent, RealSocket
<1>4. real' = [real EXCEPT ![d] = Sent(real[d], n)]
  OBVIOUS
<1> QED
  BY <1>1, <1>3, <1>4 DEF Alike

\* When only messages move, what is queued stays right, and so do the real
\* WebSockets.
LEMMA MessagesMove ==
  ASSUME IInv, \A c \in Sockets : Alike(c),
         UNCHANGED <<hasListeners, connection, client, made, aborted, blame, late>>
  PROVE  /\ \A j \in ToSet(jobs) : JobOK(j)'
         /\ \A x \in ToSet(calls) : CallOK(x)'
         /\ RealsOK'
PROOF
<1>1. TypeOK /\ JobsOK /\ CallsOK /\ RealsOK
  BY View
<1>2. made \in 0..Connections /\ \A c \in 1..made : c \in Sockets
  BY <1>1, BoundsAssumption DEF TypeOK, Sockets
<1>3. \A j \in ToSet(jobs) : JobOK(j)'
  BY <1>1, <1>2 DEF JobsOK, JobOK, Alike
<1>4. \A x \in ToSet(calls) : CallOK(x)'
  BY <1>1, <1>2 DEF CallsOK, CallOK, Alike
<1>5. RealsOK'
  BY <1>1 DEF RealsOK, RealOK, Alike
<1> QED
  BY <1>3, <1>4, <1>5

\* In a step that only moves messages the invariant is left to be shown of the
\* types, of the queues and of what the application sees.
LEMMA MovesIInv ==
  ASSUME IInv, \A c \in Sockets : Alike(c),
         UNCHANGED <<hasListeners, connection, client, made, aborted, blame, late,
                     opening>>,
         TypeOK', Queue(jobs'), CallQueue(calls'),
         seen.closes = seen'.closes,
         seen.opens = seen'.opens,
         \A j \in ToSet(jobs') : j \in ToSet(jobs) \/ JobOK(j)',
         \A x \in ToSet(calls') : x \in ToSet(calls) \/ CallOK(x)',
         MockClosePending => MockClosePending'
  PROVE  IInv'
PROOF
<1>1. /\ \A j \in ToSet(jobs) : JobOK(j)'
      /\ \A x \in ToSet(calls) : CallOK(x)'
      /\ RealsOK'
  BY MessagesMove
<1>2. JobsOK' /\ CallsOK'
  BY <1>1 DEF JobsOK, CallsOK
<1>3. AppOK /\ LoneOK /\ 1 \in Sockets
  BY View, BoundsAssumption DEF Sockets
<1>4. AppOK'
  BY <1>3 DEF AppOK, Alike
<1>5. LoneOK'
  BY <1>3 DEF LoneOK, Alike
<1> QED
  BY <1>1, <1>2, <1>4, <1>5, View

\* The microtask that runs is right, and what is queued after it.
LEMMA RunningHead ==
  ASSUME IInv, NEW task, Running(task)
  PROVE  /\ Queue(Tail(jobs)) /\ ToSet(Tail(jobs)) \subseteq ToSet(jobs)
         /\ Head(jobs) \in Jobs /\ Head(jobs).task = task /\ JobOK(Head(jobs))
         /\ \A j \in ToSet(Tail(jobs)) : JobOK(j) /\ ~Clash(Head(jobs), j)
PROOF
<1>1. JobsOK /\ jobs # <<>> /\ Head(jobs).task = task
  BY View DEF Running
<1> QED
  BY <1>1, QueueTail DEF JobsOK

\* The same of a listener.
LEMMA CallingHead ==
  ASSUME IInv, NEW listener, Calling(listener)
  PROVE  /\ CallQueue(Tail(calls)) /\ ToSet(Tail(calls)) \subseteq ToSet(calls)
         /\ ToSet(calls) = ToSet(Tail(calls)) \cup {Head(calls)}
         /\ Head(calls) \in Calls /\ Head(calls).listener = listener
         /\ CallOK(Head(calls))
         /\ \A x \in ToSet(Tail(calls)) :
              CallOK(x) /\ (listener = "realClose" => x.listener # listener)
PROOF
<1>1. CallsOK /\ calls # <<>> /\ Head(calls).listener = listener
  BY View DEF Calling
<1> QED
  BY <1>1, CallsTail DEF CallsOK

\* What the application is told changes neither the number of "close" events
\* nor, but for "open", that of "open" events.
LEMMA ToldFrame ==
  ASSUME TypeOK
  PROVE  /\ \A e \in {"open", "message", "error"} :
              /\ Told(e).opens = seen.opens /\ Told(e).closes = seen.closes
              /\ Told(e) \in [opens : 0..1, closes : 0..1, got : Seq(Message),
                              after : SUBSET {"open", "message", "error"}]
         /\ \A n \in Message :
              /\ ToldMessage(n).opens = seen.opens
              /\ ToldMessage(n).closes = seen.closes
              /\ ToldMessage(n) \in [opens : 0..1, closes : 0..1, got : Seq(Message),
                                     after : SUBSET {"open", "message", "error"}]
PROOF
<1> DEFINE Seen == [opens : 0..1, closes : 0..1, got : Seq(Message),
                    after : SUBSET {"open", "message", "error"}]
<1>1. seen \in Seen
  BY DEF TypeOK
<1>2. \A e \in {"open", "message", "error"} :
        /\ Told(e).opens = seen.opens /\ Told(e).closes = seen.closes
        /\ Told(e) \in Seen
  BY <1>1 DEF Told
<1>3. ASSUME NEW n \in Message
      PROVE  /\ ToldMessage(n).opens = seen.opens
             /\ ToldMessage(n).closes = seen.closes
             /\ ToldMessage(n) \in Seen
  <2>1. Told("message") \in Seen /\ Append(Told("message").got, n) \in Seq(Message)
    BY <1>2
  <2>2. /\ ToldMessage(n).opens = Told("message").opens
        /\ ToldMessage(n).closes = Told("message").closes
        /\ ToldMessage(n) \in Seen
    BY <2>1 DEF ToldMessage
  <2> QED
    BY <1>2, <2>2
<1> QED
  BY <1>2, <1>3

-----------------------------------------------------------------------------
(* The steps that move messages.                                           *)

\* Another call of a send() is within the bound.
LEMMA SendsBounded ==
  ASSUME TypeOK, MaySend
  PROVE  \A f \in {"app", "client", "server"} :
           /\ used[f] + 1 \in Message /\ used[f] + 1 \in Nat
           /\ [used EXCEPT ![f] = @ + 1]
                \in [app : 0..Sends, client : 0..Sends, server : 0..Sends]
PROOF
<1>1. used \in [app : 0..Sends, client : 0..Sends, server : 0..Sends]
  BY DEF TypeOK
<1>2. /\ used.app \in Nat /\ used.client \in Nat /\ used.server \in Nat
      /\ used.app + used.client + used.server < Sends /\ Sends \in Nat
  BY <1>1, BoundsAssumption DEF MaySend
<1>3. \A f \in {"app", "client", "server"} : used[f] + 1 \in 0..Sends
  BY <1>2
<1> QED
  BY <1>1, <1>2, <1>3 DEF Message

LEMMA RunOnSendIInv == IInv /\ RunOnSend => IInv'
PROOF
<1> SUFFICES ASSUME IInv, RunOnSend PROVE IInv'
  OBVIOUS
<1> DEFINE rest == Tail(jobs)
           next == Job("forward", Head(jobs).n)
<1>1. TypeOK /\ JobsOK /\ CallsOK
  BY View
<1>2. /\ Queue(rest) /\ ToSet(rest) \subseteq ToSet(jobs)
      /\ Head(jobs) \in Jobs /\ Head(jobs).task = "onSend" /\ JobOK(Head(jobs))
  BY RunningHead DEF RunOnSend
<1>3. /\ next \in Jobs /\ next.task = "forward" /\ next.n \in Message
      /\ \A j : ~Clash(j, next)
  BY <1>2 DEF Job, Jobs, JobOK, Clash, Settling
<1>4. /\ Queue(Append(rest, next))
      /\ ToSet(Append(rest, next)) = ToSet(rest) \cup {next}
  BY <1>2, <1>3, QueueAppend
<1> HIDE DEF next
<1>5. jobs' = rest \/ (jobs' = Append(rest, next) /\ made # 0)
  BY DEF RunOnSend, next
<1>6. made \in Nat /\ made' = made
  BY <1>1, BoundsAssumption DEF TypeOK, RunOnSend
<1>7. /\ Queue(jobs')
      /\ \A j \in ToSet(jobs') : j \in ToSet(jobs) \/ JobOK(j)'
  <2>1. next.task \notin Settling
    BY <1>3 DEF Settling
  <2>2. CASE jobs' = rest
    BY <1>2, <2>2
  <2>3. CASE jobs' = Append(rest, next) /\ made # 0
    <3>1. \A j \in ToSet(jobs') : j \in ToSet(jobs) \/ j = next
      BY <1>2, <1>4, <2>3
    <3>2. made' > 0
      BY <1>6, <2>3
    <3>3. \A j \in ToSet(jobs') : j = next => JobOK(j)'
      BY <1>3, <2>1, <3>2 DEF JobOK
    <3> QED
      BY <1>4, <2>3, <3>1, <3>3
  <2> QED
    BY <1>5, <2>2, <2>3
<1>8. TypeOK'
  BY <1>1, <1>7 DEF TypeOK, Queue, RunOnSend, setting, turn, history
<1> QED
  BY <1>1, <1>7, <1>8, MovesIInv
  DEF RunOnSend, setting, turn, history, Alike, CallsOK, MockClosePending

LEMMA RunForwardIInv == IInv /\ RunForward => IInv'
PROOF
<1> SUFFICES ASSUME IInv, RunForward PROVE IInv'
  OBVIOUS
<1>1. TypeOK /\ JobsOK /\ CallsOK
  BY View
<1>2. /\ Queue(Tail(jobs)) /\ ToSet(Tail(jobs)) \subseteq ToSet(jobs)
      /\ Head(jobs).task = "forward" /\ JobOK(Head(jobs))
  BY RunningHead DEF RunForward
<1>3. made \in Sockets /\ Head(jobs).n \in Message
  BY <1>1, <1>2, BoundsAssumption DEF JobOK, TypeOK, Sockets
<1>4. real' \in [Sockets -> RealSocket] /\ \A c \in Sockets : Alike(c)
  BY <1>1, <1>3, SentFrame DEF RunForward
<1>5. jobs' = Tail(jobs) /\ Queue(jobs')
  BY <1>2 DEF RunForward
<1>6. TypeOK'
  BY <1>1, <1>4, <1>5 DEF TypeOK, Queue, RunForward, setting, turn, history
<1> QED
  BY <1>1, <1>2, <1>4, <1>5, <1>6, MovesIInv
  DEF RunForward, setting, turn, history, CallsOK, MockClosePending

LEMMA RunClientSendIInv == IInv /\ RunClientSend => IInv'
PROOF
<1> SUFFICES ASSUME IInv, RunClientSend PROVE IInv'
  OBVIOUS
<1>1. TypeOK /\ JobsOK /\ CallsOK
  BY View
<1>2. /\ Queue(Tail(jobs)) /\ ToSet(Tail(jobs)) \subseteq ToSet(jobs)
      /\ Head(jobs).task = "clientSend" /\ JobOK(Head(jobs))
  BY RunningHead DEF RunClientSend
<1>3. Head(jobs).n \in Message
  BY <1>2 DEF JobOK
<1>4. queued \in Seq(Message) /\ Append(queued, Head(jobs).n) \in Seq(Message)
  BY <1>1, <1>3 DEF TypeOK
<1>5. queued' \in Seq(Message)
  BY <1>4 DEF RunClientSend
<1>6. seen' = seen \/ seen' = ToldMessage(Head(jobs).n)
  BY DEF RunClientSend
<1>7. /\ seen'.closes = seen.closes /\ seen'.opens = seen.opens
      /\ seen' \in [opens : 0..1, closes : 0..1, got : Seq(Message),
                    after : SUBSET {"open", "message", "error"}]
  BY <1>1, <1>3, <1>6, ToldFrame DEF TypeOK
<1>8. jobs' = Tail(jobs) /\ Queue(jobs')
  BY <1>2 DEF RunClientSend
<1>9. TypeOK'
  BY <1>1, <1>5, <1>7, <1>8
  DEF TypeOK, Queue, RunClientSend, setting, turn, history
<1> QED
  BY <1>1, <1>2, <1>7, <1>8, <1>9, MovesIInv
  DEF RunClientSend, setting, turn, history, Alike, CallsOK, MockClosePending

LEMMA ClientSendIInv == IInv /\ ClientSend => IInv'
PROOF
<1> SUFFICES ASSUME IInv, ClientSend PROVE IInv'
  OBVIOUS
<1> DEFINE next == Job("clientSend", used'.client)
<1>1. TypeOK /\ JobsOK /\ CallsOK
  BY View
<1>2. /\ used' \in [app : 0..Sends, client : 0..Sends, server : 0..Sends]
      /\ used'.client \in Message /\ used'.client \in Nat
  BY <1>1, SendsBounded DEF TypeOK, ClientSend
<1>3. /\ next \in Jobs /\ next.task = "clientSend" /\ next.n \in Message
      /\ \A j : ~Clash(j, next)
  BY <1>2 DEF Job, Jobs, Clash, Settling
<1> HIDE DEF next
<1>4. jobs' = Append(jobs, next)
  BY DEF ClientSend, next
<1>5. Queue(jobs') /\ ToSet(jobs') = ToSet(jobs) \cup {next}
  BY <1>1, <1>3, <1>4, QueueAppend DEF JobsOK
<1>6. \A j \in ToSet(jobs') : j \in ToSet(jobs) \/ JobOK(j)'
  BY <1>3, <1>5 DEF JobOK, Settling
<1>7. TypeOK'
  BY <1>1, <1>2, <1>5 DEF TypeOK, Queue, ClientSend, setting, turn, history
<1> QED
  BY <1>1, <1>5, <1>6, <1>7, MovesIInv
  DEF ClientSend, setting, turn, history, Alike, CallsOK, MockClosePending

LEMMA ServerSendIInv == IInv /\ ServerSend => IInv'
PROOF
<1> SUFFICES ASSUME IInv, ServerSend PROVE IInv'
  OBVIOUS
<1>1. TypeOK /\ JobsOK /\ CallsOK
  BY View
<1>2. made \in Sockets /\ 0 \in Message
  BY <1>1, BoundsAssumption DEF ServerSend, TypeOK, Sockets, Message
<1>3. real' \in [Sockets -> RealSocket] /\ \A c \in Sockets : Alike(c)
  BY <1>1, <1>2, SentFrame DEF ServerSend
<1>4. used' \in [app : 0..Sends, client : 0..Sends, server : 0..Sends]
  BY <1>1, SendsBounded DEF ServerSend
<1>5. TypeOK'
  BY <1>1, <1>3, <1>4 DEF TypeOK, ServerSend, setting, turn, history
<1> QED
  BY <1>1, <1>3, <1>5, MovesIInv
  DEF ServerSend, setting, turn, history, JobsOK, CallsOK, MockClosePending

LEMMA FlushIInv == IInv /\ Flush => IInv'
PROOF
<1> SUFFICES ASSUME IInv, Flush PROVE IInv'
  OBVIOUS
<1>1. TypeOK /\ JobsOK
  BY View
<1>2. /\ CallQueue(Tail(calls)) /\ ToSet(Tail(calls)) \subseteq ToSet(calls)
      /\ ToSet(calls) = ToSet(Tail(calls)) \cup {Head(calls)}
      /\ Head(calls).listener = "flush" /\ CallOK(Head(calls))
  BY CallingHead DEF Flush
<1>3. Head(calls).conn \in Sockets /\ Head(calls).n \in Message
  BY <1>2 DEF CallOK
<1>4. real' \in [Sockets -> RealSocket] /\ \A c \in Sockets : Alike(c)
  BY <1>1, <1>3, SentFrame DEF Flush
<1>5. calls' = Tail(calls) /\ inListener' = FALSE
  BY DEF Flush, GoOn
<1>6. TypeOK'
  BY <1>1, <1>2, <1>4, <1>5 DEF TypeOK, CallQueue, Flush, setting, history
<1>7. MockClosePending => MockClosePending'
  BY <1>2, <1>5 DEF MockClosePending
<1> QED
  BY <1>1, <1>2, <1>4, <1>5, <1>6, <1>7, MovesIInv
  DEF Flush, setting, history, JobsOK

LEMMA DeliverIInv == IInv /\ Deliver => IInv'
PROOF
<1> SUFFICES ASSUME IInv, Deliver PROVE IInv'
  OBVIOUS
<1>1. TypeOK /\ JobsOK
  BY View
<1>2. /\ CallQueue(Tail(calls)) /\ ToSet(Tail(calls)) \subseteq ToSet(calls)
      /\ ToSet(calls) = ToSet(Tail(calls)) \cup {Head(calls)}
      /\ Head(calls).listener = "deliver" /\ CallOK(Head(calls))
  BY CallingHead DEF Deliver
<1>3. Head(calls).n \in Message
  BY <1>2 DEF CallOK
<1>4. /\ seen'.closes = seen.closes /\ seen'.opens = seen.opens
      /\ seen' \in [opens : 0..1, closes : 0..1, got : Seq(Message),
                    after : SUBSET {"open", "message", "error"}]
  BY <1>1, <1>3, ToldFrame DEF Deliver
<1>5. calls' = Tail(calls) /\ inListener' \in BOOLEAN
  BY DEF Deliver, YieldTo
<1>6. TypeOK'
  BY <1>1, <1>2, <1>4, <1>5 DEF TypeOK, CallQueue, Deliver, setting, history
<1>7. MockClosePending => MockClosePending'
  BY <1>2, <1>5 DEF MockClosePending
<1> QED
  BY <1>1, <1>2, <1>4, <1>5, <1>6, <1>7, MovesIInv
  DEF Deliver, setting, history, JobsOK, Alike

LEMMA RealMessageIInv ==
  ASSUME NEW c \in Sockets, IInv, RealMessage(c) PROVE IInv'
PROOF
<1> DEFINE new == <<Call("deliver", 0, c)>>
<1>1. TypeOK /\ JobsOK /\ CallsOK
  BY View
<1>2. c \in 0..Connections /\ 0 \in Message
  BY BoundsAssumption DEF Sockets, Message
<1>3. /\ Call("deliver", 0, c) \in Calls
      /\ Call("deliver", 0, c).listener = "deliver" /\ Call("deliver", 0, c).n = 0
  BY <1>2 DEF Call, Calls
<1>4. /\ ToSet(new) = {Call("deliver", 0, c)} /\ new \in Seq(Calls)
      /\ \A i, j \in DOMAIN new : i = j
  BY <1>3 DEF ToSet
<1>5. calls' = new /\ inListener' \in BOOLEAN /\ calls = <<>>
  BY DEF RealMessage, YieldTo, Idle
<1>6. CallQueue(calls')
  BY <1>4, <1>5 DEF CallQueue
<1>7. \A x \in ToSet(calls') : CallOK(x)'
  BY <1>2, <1>3, <1>4, <1>5 DEF CallOK
<1>8. ~MockClosePending
  BY <1>5 DEF MockClosePending, ToSet
<1>9. TypeOK'
  BY <1>1, <1>5, <1>6 DEF TypeOK, CallQueue, RealMessage, setting, history
<1> QED
  BY <1>1, <1>6, <1>7, <1>8, <1>9, MovesIInv
  DEF RealMessage, setting, history, JobsOK, Alike

\* ws.send() on an open socket.
LEMMA AppSendOpenIInv == IInv /\ AppSend /\ client = "OPEN" => IInv'
PROOF
<1> SUFFICES ASSUME IInv, AppSend, client = "OPEN" PROVE IInv'
  OBVIOUS
<1> DEFINE next == Job("onSend", used'.app)
<1>1. TypeOK /\ JobsOK /\ CallsOK
  BY View
<1>2. /\ used' \in [app : 0..Sends, client : 0..Sends, server : 0..Sends]
      /\ used'.app \in Message /\ used'.app \in Nat
  BY <1>1, SendsBounded DEF TypeOK, AppSend
<1>3. /\ next \in Jobs /\ next.task = "onSend" /\ next.n \in Message
      /\ \A j : ~Clash(j, next)
  BY <1>2 DEF Job, Jobs, Clash, Settling
<1> HIDE DEF next
<1>4. jobs' = Append(jobs, next) /\ client' = client
  BY DEF AppSend, next
<1>5. Queue(jobs') /\ ToSet(jobs') = ToSet(jobs) \cup {next}
  BY <1>1, <1>3, <1>4, QueueAppend DEF JobsOK
<1>6. \A j \in ToSet(jobs') : j \in ToSet(jobs) \/ JobOK(j)'
  BY <1>3, <1>5 DEF JobOK, Settling
<1>7. TypeOK'
  BY <1>1, <1>2, <1>4, <1>5 DEF TypeOK, Queue, AppSend, setting, turn, history
<1> QED
  BY <1>1, <1>4, <1>5, <1>6, <1>7, MovesIInv
  DEF AppSend, setting, turn, history, Alike, CallsOK, MockClosePending

-----------------------------------------------------------------------------
(* The steps of the "connection" event.                                    *)

\* When the listeners have settled, no other end of the event is queued.
LEMMA SettleIInv ==
  ASSUME IInv, hasListeners, connection = "emitted", connection' = "settled",
         NEW next \in Jobs, next.task \in Settling, jobs' = Append(jobs, next),
         UNCHANGED <<setting, client, opening, turn, real, made, aborted, queued,
                     used, history, seen>>
  PROVE  IInv'
PROOF
<1>1. TypeOK /\ JobsOK /\ CallsOK /\ RealsOK /\ AppOK /\ LoneOK
  BY View
<1>2. \A j \in ToSet(jobs) : j.task \notin Settling \cup {"connection"}
  BY <1>1 DEF JobsOK, JobOK, Settling
<1>3. \A j \in ToSet(jobs) : ~Clash(j, next)
  BY <1>2 DEF Clash, Settling
<1>4. Queue(jobs') /\ ToSet(jobs') = ToSet(jobs) \cup {next}
  BY <1>1, <1>3, QueueAppend DEF JobsOK
<1>5. ASSUME NEW j \in ToSet(jobs') PROVE JobOK(j)'
  <2>1. CASE j \in ToSet(jobs)
    BY <1>1, <1>2, <2>1 DEF JobsOK, JobOK, setting
  <2>2. CASE j = next
    BY <2>2 DEF JobOK, setting, Settling
  <2> QED
    BY <1>4, <2>1, <2>2
<1>6. JobsOK'
  BY <1>4, <1>5 DEF JobsOK
<1>7. TypeOK'
  BY <1>1, <1>4 DEF TypeOK, Queue, setting, turn, history
<1>8. CallsOK' /\ RealsOK' /\ LoneOK'
  BY <1>1 DEF CallsOK, CallOK, RealsOK, RealOK, LoneOK, MockClosePending, turn, history
<1>9. AppOK'
  BY <1>1 DEF AppOK, setting
<1> QED
  BY <1>6, <1>7, <1>8, <1>9, View

LEMMA ListenersReturnIInv == IInv /\ ListenersReturn => IInv'
PROOF
<1>1. Job("proceed", 0) \in Jobs /\ Job("proceed", 0).task \in Settling
  BY DEF Job, Jobs, Settling
<1> QED
  BY <1>1, SettleIInv DEF ListenersReturn

LEMMA ListenersThrowIInv ==
  ASSUME NEW isError \in {0, 1}, IInv, ListenersThrow(isError) PROVE IInv'
PROOF
<1>1. Job("threw", isError) \in Jobs /\ Job("threw", isError).task \in Settling
  BY DEF Job, Jobs, Settling
<1> QED
  BY <1>1, SettleIInv DEF ListenersThrow

\* The end of the event runs: what is left of the queue is not about it.
LEMMA SettlingHead ==
  ASSUME IInv, NEW task \in Settling, Running(task)
  PROVE  /\ Queue(Tail(jobs)) /\ ToSet(Tail(jobs)) \subseteq ToSet(jobs)
         /\ \A j \in ToSet(Tail(jobs)) : j.task \notin Settling \cup {"connection"}
         /\ connection = IF hasListeners THEN "settled" ELSE "emitted"
         /\ task = "threw" => hasListeners
PROOF
<1>1. /\ Queue(Tail(jobs)) /\ ToSet(Tail(jobs)) \subseteq ToSet(jobs)
      /\ Head(jobs).task = task /\ JobOK(Head(jobs))
      /\ \A j \in ToSet(Tail(jobs)) : JobOK(j) /\ ~Clash(Head(jobs), j)
  BY RunningHead
<1>2. /\ connection = IF hasListeners THEN "settled" ELSE "emitted"
      /\ task = "threw" => hasListeners
  BY <1>1 DEF JobOK, Settling
<1>3. \A j \in ToSet(Tail(jobs)) : j.task \notin Settling
  BY <1>1 DEF Clash
<1>4. \A j \in ToSet(Tail(jobs)) : j.task # "connection"
  BY <1>1, <1>2 DEF JobOK
<1> QED
  BY <1>1, <1>2, <1>3, <1>4

\* Then any outcome but passthrough that leaves the sockets alone is right.
LEMMA EndIInv ==
  ASSUME IInv, NEW task \in Settling, Running(task), hasListeners,
         connection' \in {"mocked", "ignored"}, jobs' = Tail(jobs),
         opening' \in BOOLEAN,
         UNCHANGED <<setting, client, turn, real, made, aborted, queued, used,
                     history, seen>>
  PROVE  IInv'
PROOF
<1>1. TypeOK /\ JobsOK /\ CallsOK /\ RealsOK /\ AppOK /\ LoneOK
  BY View
<1>2. /\ Queue(jobs') /\ ToSet(jobs') \subseteq ToSet(jobs)
      /\ \A j \in ToSet(jobs') : j.task \notin Settling \cup {"connection"}
  BY SettlingHead
<1>3. ASSUME NEW j \in ToSet(jobs') PROVE JobOK(j)'
  BY <1>1, <1>2 DEF JobsOK, JobOK, setting
<1>4. JobsOK'
  BY <1>2, <1>3 DEF JobsOK
<1>5. TypeOK'
  BY <1>1, <1>2 DEF TypeOK, Queue, setting, turn, history
<1>6. CallsOK' /\ RealsOK' /\ LoneOK'
  BY <1>1 DEF CallsOK, CallOK, RealsOK, RealOK, LoneOK, MockClosePending, turn, history
<1>7. AppOK'
  BY <1>1 DEF AppOK, setting
<1> QED
  BY <1>4, <1>5, <1>6, <1>7, View

LEMMA ProceedMockedIInv == IInv /\ ProceedMocked => IInv'
PROOF
<1>1. "proceed" \in Settling
  BY DEF Settling
<1> QED
  BY <1>1, EndIInv DEF ProceedMocked

-----------------------------------------------------------------------------
(* The closures of the socket.                                             *)

\* kClose() queues one "close" at most, and never reopens a socket.
LEMMA KCloseFrame ==
  ASSUME TypeOK, NEW js, Queue(js), KClose(js),
         \A j \in ToSet(js) : j.task = "close" => client = "CLOSING"
  PROVE  /\ Queue(jobs')
         /\ client' \in Shut /\ (client' = "CLOSED" <=> client = "CLOSED")
         /\ \A j \in ToSet(jobs') :
              IF j.task = "close" THEN client' = "CLOSING" ELSE j \in ToSet(js)
PROOF
<1> DEFINE next == Job("close", 0)
<1>1. next \in Jobs /\ next.task = "close"
  BY DEF Job, Jobs
<1>2. CASE client \in Shut
  BY <1>2 DEF KClose, Shut
<1>3. CASE client \notin Shut
  <2>1. \A j \in ToSet(js) : j.task # "close"
    BY <1>3 DEF Shut
  <2>2. \A j \in ToSet(js) : ~Clash(j, next)
    BY <1>1, <2>1 DEF Clash, Settling
  <2>3. /\ Queue(Append(js, next))
        /\ ToSet(Append(js, next)) = ToSet(js) \cup {next}
    BY <1>1, <2>2, QueueAppend
  <2>4. client' = "CLOSING" /\ jobs' = Append(js, next)
    BY <1>3 DEF KClose
  <2> HIDE DEF next
  <2> QED
    BY <1>1, <1>3, <2>3, <2>4 DEF Shut
<1> QED
  BY <1>2, <1>3

\* A closure from outside the network, at any time.
LEMMA CloseIInv ==
  ASSUME IInv, TypeOK', NEW js, Queue(js), ToSet(js) \subseteq ToSet(jobs), KClose(js),
         UNCHANGED <<hasListeners, opening, calls, real, made, aborted, late, blame>>,
         seen'.closes = seen.closes, seen'.opens = seen.opens,
         \/ UNCHANGED connection
         \/ /\ connection # "passthrough" /\ connection' = "failed"
            /\ \A j \in ToSet(js) : j.task \notin Settling \cup {"connection"}
  PROVE  IInv'
PROOF
<1>1. TypeOK /\ JobsOK /\ CallsOK /\ RealsOK /\ AppOK /\ LoneOK
  BY View
<1>2. \A j \in ToSet(js) : JobOK(j)
  BY <1>1 DEF JobsOK
<1>3. /\ Queue(jobs')
      /\ client' \in Shut /\ (client' = "CLOSED" <=> client = "CLOSED")
      /\ \A j \in ToSet(jobs') :
           IF j.task = "close" THEN client' = "CLOSING" ELSE j \in ToSet(js)
  <2>1. \A j \in ToSet(js) : j.task = "close" => client = "CLOSING"
    BY <1>2 DEF JobOK
  <2> QED
    BY <1>1, <2>1, KCloseFrame
<1>4. ASSUME NEW j \in ToSet(jobs') PROVE JobOK(j)'
  <2>1. CASE j.task = "close"
    BY <1>3, <2>1 DEF JobOK, Settling
  <2>2. CASE j.task # "close"
    BY <1>2, <1>3, <2>2 DEF JobOK
  <2> QED
    BY <2>1, <2>2
<1>5. JobsOK'
  BY <1>3, <1>4 DEF JobsOK
<1>6. CallsOK' /\ RealsOK' /\ LoneOK'
  BY <1>1, <1>3 DEF CallsOK, CallOK, RealsOK, RealOK, LoneOK, MockClosePending
<1>7. AppOK'
  BY <1>1, <1>3 DEF AppOK, Shut
<1> QED
  BY <1>5, <1>6, <1>7, View

\* The type of what kClose() changes.
LEMMA KCloseTypes ==
  ASSUME IInv, NEW js, Queue(js), ToSet(js) \subseteq ToSet(jobs), KClose(js)
  PROVE  client' \in States /\ jobs' \in Seq(Jobs)
PROOF
<1>1. TypeOK /\ JobsOK
  BY View
<1>2. \A j \in ToSet(js) : j.task = "close" => client = "CLOSING"
  BY <1>1 DEF JobsOK, JobOK
<1> QED
  BY <1>1, <1>2, KCloseFrame DEF Queue, States, Shut

LEMMA AppCloseIInv == IInv /\ (AppClose \/ ClientClose) => IInv'
PROOF
<1> SUFFICES ASSUME IInv, AppClose \/ ClientClose PROVE IInv'
  OBVIOUS
<1>1. TypeOK /\ Queue(jobs) /\ KClose(jobs)
  BY View DEF JobsOK, AppClose, ClientClose
<1>2. TypeOK'
  BY <1>1, KCloseTypes
  DEF TypeOK, AppClose, ClientClose, setting, turn, history
<1> QED
  BY <1>1, <1>2, CloseIInv DEF AppClose, ClientClose, setting, turn, history

LEMMA AppSendIInv == IInv /\ AppSend => IInv'
PROOF
<1> SUFFICES ASSUME IInv, AppSend PROVE IInv'
  OBVIOUS
<1>1. CASE client = "OPEN"
  BY <1>1, AppSendOpenIInv
<1>2. CASE client # "OPEN"
  <2>1. TypeOK /\ Queue(jobs) /\ KClose(jobs)
    BY <1>2, View DEF JobsOK, AppSend
  <2>2. used' \in [app : 0..Sends, client : 0..Sends, server : 0..Sends]
    BY <2>1, SendsBounded DEF AppSend
  <2>3. TypeOK'
    BY <2>1, <2>2, KCloseTypes DEF TypeOK, AppSend, setting, turn, history
  <2> QED
    BY <2>1, <2>3, CloseIInv DEF AppSend, setting, turn, history
<1> QED
  BY <1>1, <1>2

\* The listeners or the construction have failed.
LEMMA FailIInv ==
  ASSUME IInv, NEW task \in Settling, Running(task), Fail PROVE IInv'
PROOF
<1>1. TypeOK
  BY View
<1>2. /\ Queue(Tail(jobs)) /\ ToSet(Tail(jobs)) \subseteq ToSet(jobs)
      /\ \A j \in ToSet(Tail(jobs)) : j.task \notin Settling \cup {"connection"}
      /\ connection # "passthrough" /\ connection' = "failed" /\ KClose(Tail(jobs))
  BY SettlingHead DEF Fail
<1>3. /\ seen'.closes = seen.closes /\ seen'.opens = seen.opens
      /\ seen' \in [opens : 0..1, closes : 0..1, got : Seq(Message),
                    after : SUBSET {"open", "message", "error"}]
  BY <1>1, ToldFrame DEF Fail
<1>4. TypeOK'
  BY <1>1, <1>2, <1>3, KCloseTypes DEF TypeOK, Fail, setting, turn, history
<1> QED
  BY <1>2, <1>3, <1>4, CloseIInv DEF Fail, setting, turn, history

LEMMA RunThrewIInv == IInv /\ RunThrew => IInv'
PROOF
<1> SUFFICES ASSUME IInv, RunThrew PROVE IInv'
  OBVIOUS
<1>1. "threw" \in Settling /\ Running("threw")
  BY DEF Settling, RunThrew
<1>2. CASE Fail
  BY <1>1, <1>2, FailIInv
<1>3. CASE ~Fail
  <2>1. hasListeners
    BY <1>1, SettlingHead
  <2>2. opening' \in BOOLEAN
    BY <1>3, View DEF RunThrew, TypeOK
  <2> QED
    BY <1>1, <1>3, <2>1, <2>2, EndIInv DEF RunThrew
<1> QED
  BY <1>2, <1>3

\* The microtask of kClose(): the only one, of a socket that is closing.
LEMMA RunCloseIInv == IInv /\ RunClose => IInv'
PROOF
<1> SUFFICES ASSUME IInv, RunClose PROVE IInv'
  OBVIOUS
<1> DEFINE new == IF made > 0 /\ "mock" \notin aborted
                  THEN <<Call("mockClose", 0, 0)>> ELSE <<>>
<1>1. TypeOK /\ JobsOK /\ CallsOK /\ RealsOK /\ AppOK /\ LoneOK
  BY View
<1>2. /\ Queue(jobs') /\ ToSet(jobs') \subseteq ToSet(jobs)
      /\ client = "CLOSING"
      /\ \A j \in ToSet(jobs') : JobOK(j) /\ j.task # "close"
  <2>1. /\ Queue(Tail(jobs)) /\ ToSet(Tail(jobs)) \subseteq ToSet(jobs)
        /\ Head(jobs).task = "close" /\ JobOK(Head(jobs)) /\ jobs' = Tail(jobs)
        /\ \A j \in ToSet(Tail(jobs)) : JobOK(j) /\ ~Clash(Head(jobs), j)
    BY RunningHead DEF RunClose
  <2> QED
    BY <2>1 DEF JobOK, Clash
<1>3. JobsOK'
  BY <1>2 DEF JobsOK, JobOK, RunClose, setting
<1>4. client' = "CLOSED" /\ calls' = new \o calls /\ inListener' \in BOOLEAN
  BY DEF RunClose, YieldTo
<1>5. /\ Call("mockClose", 0, 0) \in Calls
      /\ Call("mockClose", 0, 0).listener = "mockClose"
  BY BoundsAssumption DEF Call, Calls
<1>6. /\ new \in Seq(Calls)
      /\ ToSet(new) = IF made > 0 /\ "mock" \notin aborted
                      THEN {Call("mockClose", 0, 0)} ELSE {}
  BY <1>5 DEF ToSet
<1>7. /\ CallQueue(new \o calls)
      /\ ToSet(new \o calls) = ToSet(new) \cup ToSet(calls)
  <2>1. \A x \in ToSet(new) : x.listener # "realClose"
    BY <1>5, <1>6
  <2> HIDE DEF new
  <2> QED
    BY <1>1, <1>6, <2>1, CallsPrepend DEF CallsOK
<1> HIDE DEF new
<1>8. CallsOK'
  <2>1. ASSUME NEW x \in ToSet(calls') PROVE CallOK(x)'
    <3>1. CASE x \in ToSet(calls)
      BY <1>1, <3>1 DEF CallsOK, CallOK, RunClose
    <3>2. CASE x \in ToSet(new)
      BY <1>5, <1>6, <3>2 DEF CallOK, RunClose
    <3> QED
      BY <1>4, <1>7, <3>1, <3>2
  <2> QED
    BY <1>4, <1>7, <2>1 DEF CallsOK
<1>9. /\ seen.closes = 0 /\ seen'.closes = 1 /\ seen'.opens = seen.opens
      /\ seen' \in [opens : 0..1, closes : 0..1, got : Seq(Message),
                    after : SUBSET {"open", "message", "error"}]
  <2>1. /\ seen.closes = 0 /\ seen' = [seen EXCEPT !.closes = @ + 1]
        /\ seen \in [opens : 0..1, closes : 0..1, got : Seq(Message),
                     after : SUBSET {"open", "message", "error"}]
    BY <1>1, <1>2 DEF AppOK, TypeOK, RunClose
  <2>2. seen' = [seen EXCEPT !.closes = 1]
    BY <2>1
  <2> QED
    BY <2>1, <2>2
<1>10. TypeOK'
  BY <1>1, <1>2, <1>4, <1>7, <1>9
  DEF TypeOK, Queue, CallQueue, RunClose, setting, history, States
<1>11. RealsOK'
  BY <1>1 DEF RealsOK, RealOK, RunClose, history
<1>12. AppOK'
  BY <1>1, <1>4, <1>9 DEF AppOK, RunClose, setting
<1>13. LoneOK'
  <2>1. made = 1 /\ "mock" \notin aborted => MockClosePending'
    BY <1>4, <1>5, <1>6, <1>7 DEF MockClosePending
  <2> QED
    BY <1>1, <2>1 DEF LoneOK, RunClose, history, Shut
<1> QED
  BY <1>3, <1>8, <1>10, <1>11, <1>12, <1>13, View

\* The mocked socket opens, and delivers what it has kept.
LEMMA OpenIInv == IInv /\ Open => IInv'
PROOF
<1> SUFFICES ASSUME IInv, Open PROVE IInv'
  OBVIOUS
<1>1. TypeOK /\ JobsOK /\ CallsOK /\ RealsOK /\ AppOK /\ LoneOK
  BY View
<1>2. hasListeners /\ opening' = FALSE
  BY <1>1 DEF AppOK, Open
<1>3. CASE client # "CONNECTING"
  <2>1. UNCHANGED <<client, seen, turn, queued>>
    BY <1>3 DEF Open
  <2>2. TypeOK'
    BY <1>1, <1>2, <2>1 DEF TypeOK, Open, setting, turn, history
  <2>3. JobsOK' /\ CallsOK' /\ RealsOK' /\ LoneOK'
    BY <1>1, <2>1 DEF JobsOK, JobOK, CallsOK, CallOK, RealsOK, RealOK, LoneOK,
       MockClosePending, Open, setting, turn, history
  <2>4. AppOK'
    BY <1>1, <1>2, <2>1 DEF AppOK, Open, setting
  <2> QED
    BY <2>2, <2>3, <2>4, View
<1>4. CASE client = "CONNECTING"
  <2> DEFINE new == [i \in DOMAIN queued |-> Call("deliver", queued[i], 0)]
  <2>1. /\ client' = "OPEN" /\ seen' = ToldOpen /\ queued' = <<>>
        /\ calls' = new \o calls /\ inListener' \in BOOLEAN
    BY <1>4 DEF Open, YieldTo
  <2>2. /\ new \in Seq(Calls)
        /\ \A x \in ToSet(new) : x.listener = "deliver" /\ x.n \in Message
    <3>1. queued \in Seq(Message) /\ 0 \in 0..Connections
      BY <1>1, BoundsAssumption DEF TypeOK
    <3> QED
      BY <3>1, CallsOfMessages
  <2> HIDE DEF new
  <2>3. CallQueue(calls') /\ ToSet(calls') = ToSet(new) \cup ToSet(calls)
    BY <1>1, <2>1, <2>2, CallsPrepend DEF CallsOK
  <2>4. CallsOK'
    <3>1. ASSUME NEW x \in ToSet(calls') PROVE CallOK(x)'
      <4>1. CASE x \in ToSet(calls)
        BY <1>1, <4>1 DEF CallsOK, CallOK, Open
      <4>2. CASE x \in ToSet(new)
        BY <2>2, <4>2 DEF CallOK, Open
      <4> QED
        BY <2>3, <4>1, <4>2
    <3> QED
      BY <2>3, <3>1 DEF CallsOK
  <2>5. JobsOK'
    BY <1>1, <1>4 DEF JobsOK, JobOK, Open, setting
  <2>6. /\ seen'.closes = seen.closes
        /\ seen' \in [opens : 0..1, closes : 0..1, got : Seq(Message),
                      after : SUBSET {"open", "message", "error"}]
    <3>1. seen.opens = 0
      BY <1>1, <1>2, <1>4 DEF AppOK
    <3>2. /\ Told("open").opens = 0 /\ Told("open").closes = seen.closes
          /\ Told("open") \in [opens : 0..1, closes : 0..1, got : Seq(Message),
                               after : SUBSET {"open", "message", "error"}]
      BY <1>1, <3>1, ToldFrame
    <3> QED
      BY <2>1, <3>2 DEF ToldOpen
  <2>7. queued' \in Seq(Message)
    BY <2>1
  <2>8. TypeOK'
    BY <1>1, <1>2, <2>1, <2>3, <2>6, <2>7
    DEF TypeOK, CallQueue, Open, setting, history, States
  <2>9. RealsOK' /\ LoneOK'
    BY <1>1, <2>1 DEF RealsOK, RealOK, LoneOK, Open, history
  <2>10. AppOK'
    BY <1>1, <1>2, <1>4, <2>1, <2>6 DEF AppOK, Open, setting
  <2> QED
    BY <2>4, <2>5, <2>8, <2>9, <2>10, View
<1> QED
  BY <1>3, <1>4

-----------------------------------------------------------------------------
(* The steps of the real WebSockets.                                       *)

\* Another connection: nothing is known of it yet.
LEMMA ConnectFrame ==
  ASSUME IInv, Connect, made < Connections
  PROVE  /\ made + 1 \in Sockets /\ made \in Nat /\ made' = made + 1
         /\ real' \in [Sockets -> RealSocket]
         /\ real[made + 1].state = "none" /\ real'[made + 1].state = "CONNECTING"
         /\ \A c \in Sockets \ {made + 1} : real'[c] = real[c]
         /\ late' \in BOOLEAN /\ (late' <=> late \/ client = "CLOSED")
         /\ UNCHANGED aborted /\ UNCHANGED blame => RealsOK'
         /\ \A j : JobOK(j) /\ UNCHANGED <<connection, client, hasListeners>>
                   => JobOK(j)'
         /\ \A x : CallOK(x) /\ UNCHANGED aborted => CallOK(x)'
PROOF
<1>1. TypeOK /\ RealsOK
  BY View
<1>2. made + 1 \in Sockets /\ made \in Nat /\ made' = made + 1
  BY <1>1, BoundsAssumption DEF TypeOK, Sockets, Connect
<1>3. /\ real[made + 1].state = "none" /\ real[made + 1].closes = 0
      /\ ~real[made + 1].shut /\ blame # made + 1
  <2>1. real[made + 1].state = "none"
    BY <1>1, <1>2 DEF RealsOK, RealOK
  <2>2. real[made + 1].closes \in Nat /\ real[made + 1].shut \in BOOLEAN
    BY <1>1, <1>2 DEF TypeOK, RealSocket
  <2> QED
    BY <1>1, <1>2, <2>1, <2>2 DEF RealsOK, RealOK, Shut
<1>4. /\ real' \in [Sockets -> RealSocket]
      /\ real'[made + 1].state = "CONNECTING"
      /\ real'[made + 1].closes = 0 /\ real'[made + 1].shut = real[made + 1].shut
      /\ \A c \in Sockets \ {made + 1} : real'[c] = real[c]
  <2> DEFINE d == made + 1
             w == [real[d] EXCEPT !.state = "CONNECTING"]
  <2>1. real \in [Sockets -> RealSocket] /\ real[d] \in RealSocket
    BY <1>1, <1>2 DEF TypeOK
  <2>2. /\ w \in RealSocket /\ w.state = "CONNECTING"
        /\ w.closes = real[d].closes /\ w.shut = real[d].shut
    BY <2>1 DEF RealSocket, States
  <2>3. real' = [real EXCEPT ![d] = w]
    BY DEF Connect
  <2> HIDE DEF w, d
  <2>4. d \in Sockets /\ real[d].closes = 0
    BY <1>2, <1>3 DEF d
  <2>5. /\ real' \in [Sockets -> RealSocket] /\ real'[d] = w
        /\ \A c \in Sockets \ {d} : real'[c] = real[c]
    BY <2>1, <2>2, <2>3, <2>4
  <2> QED
    BY <2>2, <2>4, <2>5 DEF d
<1>5. late' \in BOOLEAN /\ (late' <=> late \/ client = "CLOSED")
  BY <1>1 DEF TypeOK, Connect
<1>6. ASSUME UNCHANGED aborted, UNCHANGED blame PROVE RealsOK'
  <2>1. ASSUME NEW c \in Sockets PROVE RealOK(c)'
    <3>1. CASE c = made + 1
      BY <1>2, <1>3, <1>4, <1>6, <3>1 DEF RealOK
    <3>2. CASE c # made + 1
      <4>1. c <= made' <=> c <= made
        BY <1>2, <3>2 DEF Sockets
      <4> QED
        BY <1>1, <1>4, <1>6, <3>2, <4>1 DEF RealsOK, RealOK
    <3> QED
      BY <3>1, <3>2
  <2> QED
    BY <2>1 DEF RealsOK
<1>7. \A c \in 1..made : c \in Sockets \ {made + 1} /\ c \in 1..made'
  BY <1>2, BoundsAssumption DEF Sockets
<1>8. ASSUME NEW j, JobOK(j), UNCHANGED <<connection, client, hasListeners>>
      PROVE  JobOK(j)'
  BY <1>2, <1>4, <1>7, <1>8 DEF JobOK
<1>9. ASSUME NEW x, CallOK(x), UNCHANGED aborted PROVE CallOK(x)'
  BY <1>2, <1>4, <1>7, <1>9 DEF CallOK
<1> QED
  BY <1>2, <1>3, <1>4, <1>5, <1>6, <1>8, <1>9

LEMMA ServerConnectIInv == IInv /\ ServerConnect => IInv'
PROOF
<1> SUFFICES ASSUME IInv, ServerConnect PROVE IInv'
  OBVIOUS
<1>1. TypeOK /\ JobsOK /\ CallsOK /\ RealsOK /\ AppOK /\ LoneOK
  BY View
<1>2. Connect /\ made < Connections
  BY DEF ServerConnect
<1>3. JobsOK' /\ CallsOK' /\ RealsOK'
  BY <1>1, <1>2, ConnectFrame
  DEF JobsOK, CallsOK, ServerConnect, setting, turn
<1>4. /\ made + 1 \in Sockets /\ made \in Nat /\ made' = made + 1
      /\ real' \in [Sockets -> RealSocket]
      /\ real'[made + 1].state = "CONNECTING"
      /\ late' \in BOOLEAN /\ (late' <=> late \/ client = "CLOSED")
  BY <1>2, ConnectFrame
<1>5. made' \in 0..Connections
  BY <1>4 DEF Sockets
<1>6. TypeOK'
  BY <1>1, <1>4, <1>5 DEF TypeOK, ServerConnect, setting, turn, history
<1>7. AppOK'
  BY <1>1 DEF AppOK, ServerConnect, DeveloperTurn, setting
<1>8. LoneOK'
  BY <1>1, <1>4 DEF LoneOK, ServerConnect
<1> QED
  BY <1>3, <1>6, <1>7, <1>8, View

LEMMA ProceedPassthroughIInv == IInv /\ ProceedPassthrough => IInv'
PROOF
<1> SUFFICES ASSUME IInv, ProceedPassthrough PROVE IInv'
  OBVIOUS
<1>1. TypeOK /\ JobsOK /\ CallsOK /\ RealsOK /\ AppOK /\ LoneOK
  BY View
<1>2. "proceed" \in Settling /\ Running("proceed") /\ ~hasListeners
  BY DEF Settling, ProceedPassthrough
<1>3. CASE Fail
  BY <1>2, <1>3, FailIInv
<1>4. CASE ~Fail
  <2>1. /\ Connect /\ connection' = "passthrough" /\ jobs' = Tail(jobs)
        /\ UNCHANGED <<setting, client, opening, turn, aborted, queued, used, blame,
                       seen>>
    BY <1>4 DEF ProceedPassthrough
  <2>2. /\ Queue(jobs') /\ ToSet(jobs') \subseteq ToSet(jobs)
        /\ \A j \in ToSet(jobs') : j.task \notin Settling \cup {"connection"}
        /\ connection = "emitted"
    BY <1>2, <2>1, SettlingHead
  <2>3. made = 0 /\ made < Connections
    BY <1>1, <1>2, <2>2, BoundsAssumption DEF AppOK
  <2>4. /\ 1 \in Sockets /\ made' = 1
        /\ real' \in [Sockets -> RealSocket]
        /\ real[1].state = "none" /\ real'[1].state = "CONNECTING"
        /\ \A c \in Sockets \ {1} : real'[c] = real[c]
        /\ late' \in BOOLEAN /\ (late' <=> late \/ client = "CLOSED")
        /\ RealsOK'
    BY <2>1, <2>3, ConnectFrame
  <2>5. CallsOK'
    BY <1>1, <2>1, <2>3, ConnectFrame DEF CallsOK, turn
  <2>6. ASSUME NEW j \in ToSet(jobs') PROVE JobOK(j)'
    BY <1>1, <2>1, <2>2, <2>3, <2>4 DEF JobsOK, JobOK
  <2>7. JobsOK'
    BY <2>2, <2>6 DEF JobsOK
  <2>8. made' \in 0..Connections
    BY <2>3, <2>4, BoundsAssumption
  <2>9. TypeOK'
    BY <1>1, <2>1, <2>2, <2>4, <2>8 DEF TypeOK, Queue, setting, turn
  <2>10. AppOK'
    BY <1>1, <1>2, <2>1, <2>4 DEF AppOK, setting
  <2>11. LoneOK'
    BY <1>1, <2>1, <2>3, <2>4 DEF LoneOK
  <2> QED
    BY <2>4, <2>5, <2>7, <2>9, <2>10, <2>11, View
<1> QED
  BY <1>3, <1>4

\* Closing a real WebSocket advances its state, and nothing else.
LEMMA ClosingFrame ==
  ASSUME NEW ws \in RealSocket, ws.state # "none"
  PROVE  /\ Closing(ws) \in RealSocket
         /\ Closing(ws).state = IF ws.state \in Shut THEN ws.state ELSE "CLOSING"
         /\ Closing(ws).closes = ws.closes /\ Closing(ws).shut = ws.shut
BY DEF Closing, RealSocket, States, Shut

\* The last real WebSocket exists.
LEMMA LastIsReal ==
  ASSUME IInv, made > 0
  PROVE  /\ made \in Sockets /\ made \in 1..made /\ \A c \in 1..made : c \in Sockets
         /\ real[made].state # "none" /\ real[made] \in RealSocket
PROOF
<1>1. RealsOK /\ made \in 0..Connections /\ real \in [Sockets -> RealSocket]
  BY View DEF TypeOK
<1>2. made \in Nat /\ made <= made /\ made \in Sockets
  BY <1>1, BoundsAssumption DEF Sockets
<1>3. made \in 1..made /\ \A c \in 1..made : c \in Sockets
  BY <1>1, <1>2, BoundsAssumption DEF Sockets
<1>4. RealOK(made)
  BY <1>1, <1>2 DEF RealsOK
<1>5. real[made].state # "none"
  BY <1>2, <1>4 DEF RealOK
<1> QED
  BY <1>1, <1>2, <1>3, <1>5

\* handleMockClose()
LEMMA MockCloseIInv == IInv /\ MockClose => IInv'
PROOF
<1> SUFFICES ASSUME IInv, MockClose PROVE IInv'
  OBVIOUS
<1> DEFINE w == Closing(real[made])
<1>1. TypeOK /\ JobsOK /\ CallsOK /\ RealsOK /\ AppOK /\ LoneOK
  BY View
<1>2. /\ CallQueue(calls') /\ ToSet(calls') \subseteq ToSet(calls)
      /\ CallOK(Head(calls)) /\ Head(calls).listener = "mockClose"
      /\ inListener' = FALSE
  BY CallingHead DEF MockClose, GoOn
<1>3. made \in Sockets /\ \A c \in 1..made : c \in Sockets
  BY <1>2, LastIsReal DEF CallOK
<1>4. real[made].state # "none" /\ real[made] \in RealSocket
  BY <1>2, LastIsReal DEF CallOK
<1>5. /\ w \in RealSocket
      /\ w.state = IF real[made].state \in Shut THEN real[made].state ELSE "CLOSING"
      /\ w.closes = real[made].closes /\ w.shut = real[made].shut
  BY <1>4, ClosingFrame
<1> HIDE DEF w
<1>6. real' = [real EXCEPT ![made] = w]
  BY DEF MockClose, w
<1>7. /\ real' \in [Sockets -> RealSocket] /\ real'[made] = w
      /\ \A c \in Sockets \ {made} : real'[c] = real[c]
  BY <1>1, <1>3, <1>5, <1>6 DEF TypeOK
<1>8. /\ \A c \in Sockets : /\ real'[c].closes = real[c].closes
                            /\ real'[c].shut = real[c].shut
                            /\ real[c].state \in Shut => real'[c].state = real[c].state
                            /\ real'[c].state = "none" <=> real[c].state = "none"
      /\ real'[made].state \in Shut
  BY <1>4, <1>5, <1>7 DEF Shut
<1>9. TypeOK'
  BY <1>1, <1>2, <1>7 DEF TypeOK, CallQueue, MockClose, setting, history
<1>10. JobsOK'
  BY <1>1, <1>3, <1>8 DEF JobsOK, JobOK, MockClose, setting
<1>11. CallsOK'
  BY <1>1, <1>2, <1>3, <1>8 DEF CallsOK, CallOK, MockClose, Shut
<1>12. RealsOK'
  BY <1>1, <1>8 DEF RealsOK, RealOK, MockClose, history, Shut
<1>13. AppOK' /\ LoneOK'
  <2>1. 1 \in Sockets
    BY BoundsAssumption DEF Sockets
  <2>2. real'[1].state = "CONNECTING" => real[1].state = "CONNECTING"
    BY <1>5, <1>7, <2>1
  <2> QED
    BY <1>1, <1>8, <2>1, <2>2 DEF AppOK, LoneOK, MockClose, setting, history, Shut
<1> QED
  BY <1>9, <1>10, <1>11, <1>12, <1>13, View

\* server.close()
LEMMA ServerCloseIInv == IInv /\ ServerClose => IInv'
PROOF
<1> SUFFICES ASSUME IInv, ServerClose PROVE IInv'
  OBVIOUS
<1> DEFINE w == [Closing(real[made]) EXCEPT !.shut = TRUE]
           next == Job("serverClose", made)
<1>1. TypeOK /\ JobsOK /\ CallsOK /\ RealsOK /\ AppOK /\ LoneOK
  BY View
<1>2. made \in Sockets /\ made \in 1..made /\ \A c \in 1..made : c \in Sockets
  BY LastIsReal DEF ServerClose
<1>3. real[made].state # "none" /\ real[made] \in RealSocket
  BY LastIsReal DEF ServerClose
<1>4. /\ aborted' = aborted \cup {"real"} /\ hasListeners
      /\ aborted' \subseteq {"mock", "real"}
      /\ UNCHANGED <<setting, connection, client, opening, turn, made, queued, used,
                     history, seen>>
  BY <1>1 DEF ServerClose, DeveloperTurn, TypeOK
<1>5. AppOK'
  BY <1>1, <1>4 DEF AppOK, setting
<1>6. CASE real[made].state \in Shut
  <2>1. UNCHANGED <<real, jobs>>
    BY <1>6 DEF ServerClose
  <2>2. TypeOK'
    BY <1>1, <1>4, <2>1 DEF TypeOK, setting, turn, history
  <2>3. JobsOK' /\ CallsOK' /\ RealsOK' /\ LoneOK'
    BY <1>1, <1>4, <2>1 DEF JobsOK, JobOK, CallsOK, CallOK, RealsOK, RealOK, LoneOK,
       MockClosePending, setting, turn, history
  <2> QED
    BY <1>5, <2>2, <2>3, View
<1>7. CASE real[made].state \notin Shut
  <2>1. /\ w \in RealSocket /\ w.state = "CLOSING" /\ w.shut
        /\ w.closes = real[made].closes
    <3>1. /\ Closing(real[made]) \in RealSocket
          /\ Closing(real[made]).state = "CLOSING"
          /\ Closing(real[made]).closes = real[made].closes
      BY <1>3, <1>7, ClosingFrame
    <3> QED
      BY <3>1 DEF RealSocket
  <2>2. real' = [real EXCEPT ![made] = w] /\ jobs' = Append(jobs, next)
    BY <1>7 DEF ServerClose
  <2>3. next \in Jobs /\ next.task = "serverClose" /\ next.n = made
    BY <1>2 DEF Job, Jobs, Sockets
  <2> HIDE DEF w, next
  <2>4. /\ real' \in [Sockets -> RealSocket] /\ real'[made] = w
        /\ \A c \in Sockets \ {made} : real'[c] = real[c]
    BY <1>1, <1>2, <2>1, <2>2 DEF TypeOK
  <2>5. ~real[made].shut /\ real[made].closes = 0 /\ blame # made
    <3>1. real[made].closes \in Nat /\ real[made].shut \in BOOLEAN
      BY <1>3 DEF RealSocket
    <3> QED
      BY <1>1, <1>2, <1>7, <3>1 DEF RealsOK, RealOK, Shut
  <2>6. \A j \in ToSet(jobs) : j.task = "serverClose" => j.n # made
    BY <1>1, <2>5 DEF JobsOK, JobOK
  <2>7. Queue(jobs') /\ ToSet(jobs') = ToSet(jobs) \cup {next}
    <3>1. \A j \in ToSet(jobs) : ~Clash(j, next)
      BY <2>3, <2>6 DEF Clash, Settling
    <3> QED
      BY <1>1, <2>2, <2>3, <3>1, QueueAppend DEF JobsOK
  <2>8. ASSUME NEW j \in ToSet(jobs') PROVE JobOK(j)'
    <3>1. CASE j \in ToSet(jobs)
      BY <1>1, <1>2, <1>4, <2>4, <2>6, <3>1 DEF JobsOK, JobOK, setting
    <3>2. CASE j = next
      BY <1>2, <1>4, <2>1, <2>3, <2>4, <2>5, <3>2 DEF JobOK, Settling
    <3> QED
      BY <2>7, <3>1, <3>2
  <2>9. JobsOK'
    BY <2>7, <2>8 DEF JobsOK
  <2>10. ASSUME NEW x \in ToSet(calls') PROVE CallOK(x)'
    <3>1. x \in ToSet(calls) /\ CallOK(x)
      BY <1>1, <1>4 DEF CallsOK, turn
    <3>2. x.listener = "realClose" => x.conn \in Sockets \ {made}
      BY <1>2, <1>7, <3>1 DEF CallOK, Shut
    <3> QED
      BY <1>4, <2>4, <3>1, <3>2 DEF CallOK
  <2>11. CallsOK'
    BY <1>1, <1>4, <2>10 DEF CallsOK, turn
  <2>12. ASSUME NEW c \in Sockets PROVE RealOK(c)'
    <3>1. CASE c = made
      BY <1>2, <1>4, <2>1, <2>4, <2>5, <3>1 DEF RealOK, history, Shut, Sockets
    <3>2. CASE c # made
      BY <1>1, <1>4, <2>4, <3>2 DEF RealsOK, RealOK, history
    <3> QED
      BY <3>1, <3>2
  <2>13. RealsOK'
    BY <2>12 DEF RealsOK
  <2>14. LoneOK'
    BY <1>1, <1>4, <1>7, <2>1, <2>4 DEF LoneOK, MockClosePending, turn, history, Shut
  <2>15. TypeOK'
    BY <1>1, <1>4, <2>4, <2>7 DEF TypeOK, Queue, setting, turn, history
  <2> QED
    BY <1>5, <2>9, <2>11, <2>13, <2>14, <2>15, View
<1> QED
  BY <1>6, <1>7

\* The server connection's "close" after server.close(): its first.
LEMMA RunServerCloseIInv == IInv /\ RunServerClose => IInv'
PROOF
<1> SUFFICES ASSUME IInv, RunServerClose PROVE IInv'
  OBVIOUS
<1> DEFINE d == Head(jobs).n
           w == [real[d] EXCEPT !.closes = @ + 1]
<1>1. TypeOK /\ JobsOK /\ CallsOK /\ RealsOK /\ AppOK /\ LoneOK
  BY View
<1>2. /\ Queue(jobs') /\ ToSet(jobs') \subseteq ToSet(jobs)
      /\ d \in 1..made /\ real[d].shut /\ real[d].closes = 0
      /\ \A j \in ToSet(jobs') : JobOK(j) /\ (j.task = "serverClose" => j.n # d)
  <2>1. /\ Queue(Tail(jobs)) /\ ToSet(Tail(jobs)) \subseteq ToSet(jobs)
        /\ Head(jobs).task = "serverClose" /\ JobOK(Head(jobs)) /\ jobs' = Tail(jobs)
        /\ \A j \in ToSet(Tail(jobs)) : JobOK(j) /\ ~Clash(Head(jobs), j)
    BY RunningHead DEF RunServerClose
  <2> QED
    BY <2>1 DEF JobOK, Clash
<1>3. real' = [real EXCEPT ![d] = w]
  BY DEF RunServerClose
<1> HIDE DEF d
<1>4. d \in Sockets /\ \A c \in 1..made : c \in Sockets
  BY <1>1, <1>2, BoundsAssumption DEF TypeOK, Sockets
<1>5. /\ w \in RealSocket /\ w.closes = 1
      /\ w.state = real[d].state /\ w.shut = real[d].shut
  <2>1. real[d] \in RealSocket
    BY <1>1, <1>4 DEF TypeOK
  <2>2. w = [real[d] EXCEPT !.closes = 1]
    BY <1>2
  <2> QED
    BY <2>1, <2>2 DEF RealSocket
<1> HIDE DEF w
<1>6. /\ real' \in [Sockets -> RealSocket] /\ real'[d] = w
      /\ \A c \in Sockets \ {d} : real'[c] = real[c]
  BY <1>1, <1>3, <1>4, <1>5 DEF TypeOK
<1>7. real[d].state \in Shut /\ "real" \in aborted
  BY <1>1, <1>2, <1>4 DEF RealsOK, RealOK
<1>8. \A c \in Sockets : real'[c].state = real[c].state /\ real'[c].shut = real[c].shut
  BY <1>5, <1>6
<1>9. JobsOK'
  <2>1. ASSUME NEW j \in ToSet(jobs') PROVE JobOK(j)'
    <3>1. JobOK(j) /\ (j.task = "serverClose" => j.n \in Sockets \ {d})
      BY <1>2, <1>4 DEF JobOK
    <3> QED
      BY <1>6, <3>1 DEF JobOK, RunServerClose, setting
  <2> QED
    BY <1>2, <2>1 DEF JobsOK
<1>10. CallsOK'
  BY <1>1, <1>4, <1>7, <1>8 DEF CallsOK, CallOK, RunServerClose, turn
<1>11. ASSUME NEW c \in Sockets PROVE RealOK(c)'
  <2>1. CASE c = d
    <3>1. real'[c].closes = 1
      BY <1>5, <1>6, <2>1
    <3> QED
      BY <1>1, <1>7, <1>8, <2>1, <3>1 DEF RealsOK, RealOK, RunServerClose, history
  <2>2. CASE c # d
    BY <1>1, <1>6, <2>2 DEF RealsOK, RealOK, RunServerClose, history
  <2> QED
    BY <2>1, <2>2
<1>12. RealsOK'
  BY <1>11 DEF RealsOK
<1>13. AppOK' /\ LoneOK'
  <2>1. 1 \in Sockets
    BY BoundsAssumption DEF Sockets
  <2> QED
    BY <1>1, <1>8, <2>1
    DEF AppOK, LoneOK, MockClosePending, RunServerClose, setting, turn, history
<1>14. TypeOK'
  BY <1>1, <1>2, <1>6 DEF TypeOK, Queue, RunServerClose, setting, turn, history
<1> QED
  BY <1>9, <1>10, <1>12, <1>13, <1>14, View

\* Events of the network come when nothing is queued.
LEMMA NothingQueued ==
  ASSUME Idle
  PROVE  ToSet(jobs) = {} /\ ToSet(calls) = {} /\ jobs = <<>> /\ calls = <<>>
BY DEF Idle, ToSet

\* A step of the network moves the state of one real WebSocket on.
LEMMA NetworkIInv ==
  ASSUME IInv, Idle, NEW d \in Sockets, NEW w \in RealSocket,
         real' = [real EXCEPT ![d] = w], w.closes = real[d].closes,
         w.shut = real[d].shut, real[d].state \notin {"none", "CLOSED"},
         \/ w.state = "CLOSED"
         \/ w.state = "OPEN" /\ real[d].state = "CONNECTING",
         CallQueue(calls'),
         \A x \in ToSet(calls') :
           \/ x.listener = "flush" /\ x.n \in Message /\ x.conn \in Sockets
           \/ x.listener = "realClose" /\ x.conn = d /\ w.state = "CLOSED",
         TypeOK', seen'.closes = seen.closes,
         seen'.opens = seen.opens \/ w.state = "OPEN",
         hasListeners => seen'.opens = seen.opens,
         UNCHANGED <<setting, connection, client, jobs, opening, made, aborted, history>>
  PROVE  IInv'
PROOF
<1>1. TypeOK /\ JobsOK /\ CallsOK /\ RealsOK /\ AppOK /\ LoneOK
  BY View
<1>2. ToSet(jobs) = {} /\ ToSet(calls) = {}
  BY NothingQueued
<1>3. real'[d] = w /\ \A c \in Sockets \ {d} : real'[c] = real[c]
  BY <1>1 DEF TypeOK
<1>4. JobsOK'
  BY <1>1, <1>2 DEF JobsOK
<1>5. RealOK(d) /\ d <= made /\ made \in 0..Connections /\ d \in 1..made
  BY <1>1, BoundsAssumption DEF RealsOK, RealOK, TypeOK, Sockets
<1>6. /\ real[d].closes \in Nat /\ real[d].shut \in BOOLEAN
      /\ real[d].state \in States \cup {"none"}
  BY <1>1 DEF TypeOK, RealSocket
<1>7. CallsOK'
  <2>1. "real" \notin aborted => real[d].closes = 0
    BY <1>5, <1>6 DEF RealOK
  <2>2. ASSUME NEW x \in ToSet(calls') PROVE CallOK(x)'
    BY <1>3, <1>5, <2>1 DEF CallOK
  <2> QED
    BY <2>2 DEF CallsOK
<1>8. RealOK(d)'
  <2>1. CASE w.state = "CLOSED"
    BY <1>3, <1>5, <2>1 DEF RealOK, history, Shut
  <2>2. CASE w.state = "OPEN" /\ real[d].state = "CONNECTING"
    <3>1. real[d].closes = 0 /\ ~real[d].shut /\ blame # d
      BY <1>5, <1>6, <2>2 DEF RealOK, Shut
    <3> QED
      BY <1>3, <1>5, <2>2, <3>1 DEF RealOK, history
  <2> QED
    BY <2>1, <2>2
<1>9. RealsOK'
  BY <1>1, <1>3, <1>8 DEF RealsOK, RealOK, history
<1>10. 1 \in Sockets /\ (made = 1 => d = 1)
  BY <1>5, BoundsAssumption DEF Sockets
<1>11. AppOK'
  <2>1. ~hasListeners => made = 1
    BY <1>1, <1>5 DEF AppOK
  <2>2. ~hasListeners => real'[1].state \notin {"none", "CONNECTING"}
    BY <1>3, <1>10, <2>1
  <2> QED
    BY <1>1, <2>2 DEF AppOK, setting
<1>12. LoneOK'
  <2>1. ~MockClosePending
    BY <1>2 DEF MockClosePending
  <2>2. CASE made = 1
    BY <1>1, <1>3, <1>10, <2>1, <2>2 DEF LoneOK, history, Shut
  <2>3. CASE made # 1
    BY <1>1, <2>3 DEF LoneOK
  <2> QED
    BY <2>2, <2>3
<1> QED
  BY <1>4, <1>7, <1>9, <1>11, <1>12, View

LEMMA RealOpenIInv ==
  ASSUME NEW c \in Sockets, IInv, RealOpen(c) PROVE IInv'
PROOF
<1> DEFINE w == [real[c] EXCEPT !.state = "OPEN", !.pending = <<>>]
           new == [i \in DOMAIN real[c].pending |->
                     Call("flush", real[c].pending[i], c)]
<1>1. TypeOK /\ AppOK /\ RealsOK /\ Idle /\ real[c].state = "CONNECTING"
  BY View DEF RealOpen
<1>2. real[c] \in RealSocket /\ real \in [Sockets -> RealSocket]
  BY <1>1 DEF TypeOK
<1>3. /\ w \in RealSocket /\ w.state = "OPEN"
      /\ w.closes = real[c].closes /\ w.shut = real[c].shut
  <2>1. <<>> \in Seq(Message) /\ "OPEN" \in States
    BY DEF States
  <2> QED
    BY <1>2, <2>1 DEF RealSocket
<1>4. real' = [real EXCEPT ![c] = w]
  BY DEF RealOpen
<1>5. /\ new \in Seq(Calls)
      /\ \A x \in ToSet(new) : x.listener = "flush" /\ x.n \in Message /\ x.conn = c
  <2>1. real[c].pending \in Seq(Message) /\ c \in 0..Connections
    BY <1>2, BoundsAssumption DEF RealSocket, Sockets
  <2> QED
    BY <2>1, CallsOfMessages
<1>6. calls' = new /\ inListener' \in BOOLEAN
  BY DEF RealOpen, YieldTo
<1> HIDE DEF w, new
<1>7. CallQueue(calls')
  <2>1. \A i \in DOMAIN new : new[i].listener = "flush"
    BY <1>5 DEF ToSet
  <2> QED
    BY <1>5, <1>6, <2>1 DEF CallQueue
<1>8. seen' = IF hasListeners THEN seen ELSE ToldOpen
  BY DEF RealOpen
<1>9. /\ seen'.closes = seen.closes
      /\ seen' \in [opens : 0..1, closes : 0..1, got : Seq(Message),
                    after : SUBSET {"open", "message", "error"}]
  <2>1. CASE hasListeners
    BY <1>1, <1>8, <2>1 DEF TypeOK
  <2>2. CASE ~hasListeners
    <3>1. c = 1
      <4>1. c <= made
        BY <1>1 DEF RealsOK, RealOK
      <4> QED
        BY <1>1, <2>2, <4>1 DEF AppOK, Sockets
    <3>2. seen.opens = 0
      BY <1>1, <2>2, <3>1 DEF AppOK
    <3>3. /\ Told("open").opens = 0 /\ Told("open").closes = seen.closes
          /\ Told("open") \in [opens : 0..1, closes : 0..1, got : Seq(Message),
                               after : SUBSET {"open", "message", "error"}]
      BY <1>1, <3>2, ToldFrame
    <3> QED
      BY <1>8, <2>2, <3>3 DEF ToldOpen
  <2> QED
    BY <2>1, <2>2
<1>10. real' \in [Sockets -> RealSocket]
  BY <1>2, <1>3, <1>4
<1>11. TypeOK'
  BY <1>1, <1>6, <1>7, <1>9, <1>10
  DEF TypeOK, CallQueue, RealOpen, setting, history
<1>12. \A x \in ToSet(calls') :
         x.listener = "flush" /\ x.n \in Message /\ x.conn \in Sockets
  BY <1>5, <1>6
<1>13. /\ seen'.opens = seen.opens \/ w.state = "OPEN"
       /\ hasListeners => seen'.opens = seen.opens
       /\ real[c].state \notin {"none", "CLOSED"}
  BY <1>1, <1>3, <1>8
<1>14. UNCHANGED <<setting, connection, client, jobs, opening, made, aborted, history>>
  BY DEF RealOpen
<1> QED
  BY <1>1, <1>3, <1>4, <1>7, <1>9, <1>11, <1>12, <1>13, <1>14, NetworkIInv

\* A real WebSocket has closed; an error may have been reported.
LEMMA RealCloseIInvOf ==
  ASSUME NEW c \in Sockets, IInv, Idle,
         real[c].state \in {"CONNECTING", "OPEN", "CLOSING"},
         real' = [real EXCEPT ![c].state = "CLOSED"],
         calls' = CloseCalls(c), inListener' \in BOOLEAN,
         seen' \in {seen, Told("error")},
         UNCHANGED <<setting, connection, client, jobs, opening, made, aborted, queued,
                     used, history>>
  PROVE  IInv'
PROOF
<1> DEFINE w == [real[c] EXCEPT !.state = "CLOSED"]
           x0 == Call("realClose", 0, c)
<1>1. TypeOK
  BY View
<1>2. real[c] \in RealSocket /\ real \in [Sockets -> RealSocket]
  BY <1>1 DEF TypeOK
<1>3. /\ w \in RealSocket /\ w.state = "CLOSED"
      /\ w.closes = real[c].closes /\ w.shut = real[c].shut
  BY <1>2 DEF RealSocket, States
<1>4. real' = [real EXCEPT ![c] = w]
  OBVIOUS
<1>5. x0 \in Calls /\ x0.listener = "realClose" /\ x0.conn = c
  BY BoundsAssumption DEF Call, Calls, Sockets
<1>6. calls' = <<>> \/ calls' = <<x0>>
  BY DEF CloseCalls
<1> HIDE DEF w, x0
<1>7. CallQueue(calls') /\ ToSet(calls') \subseteq {x0}
  <2>1. /\ <<>> \in Seq(Calls) /\ <<x0>> \in Seq(Calls)
        /\ DOMAIN <<>> = {} /\ DOMAIN <<x0>> = {1} /\ <<x0>>[1] = x0
    BY <1>5
  <2>2. /\ calls' \in Seq(Calls)
        /\ \A i \in DOMAIN calls' : i = 1 /\ calls'[i] = x0
    BY <1>6, <2>1
  <2> QED
    BY <2>2 DEF CallQueue, ToSet
<1>8. /\ seen'.closes = seen.closes /\ seen'.opens = seen.opens
      /\ seen' \in [opens : 0..1, closes : 0..1, got : Seq(Message),
                    after : SUBSET {"open", "message", "error"}]
  BY <1>1, ToldFrame DEF TypeOK
<1>9. real' \in [Sockets -> RealSocket]
  BY <1>2, <1>3, <1>4
<1>10. TypeOK'
  BY <1>1, <1>7, <1>8, <1>9 DEF TypeOK, CallQueue, setting, history
<1>11. \A x \in ToSet(calls') :
         x.listener = "realClose" /\ x.conn = c /\ w.state = "CLOSED"
  BY <1>3, <1>5, <1>7
<1>12. real[c].state \notin {"none", "CLOSED"}
  OBVIOUS
<1>13. UNCHANGED <<setting, connection, client, jobs, opening, made, aborted, history>>
  OBVIOUS
<1>14. /\ seen'.opens = seen.opens \/ w.state = "OPEN"
       /\ hasListeners => seen'.opens = seen.opens
       /\ CallQueue(calls') /\ seen'.closes = seen.closes
       /\ \A x \in ToSet(calls') :
            \/ x.listener = "flush" /\ x.n \in Message /\ x.conn \in Sockets
            \/ x.listener = "realClose" /\ x.conn = c /\ w.state = "CLOSED"
       /\ \/ w.state = "CLOSED"
          \/ w.state = "OPEN" /\ real[c].state = "CONNECTING"
  BY <1>3, <1>7, <1>8, <1>11
<1> QED
  BY <1>3, <1>4, <1>10, <1>12, <1>13, <1>14, NetworkIInv

LEMMA RealClosesIInv ==
  ASSUME NEW c \in Sockets, IInv, RealCloses(c) \/ RealFails(c) PROVE IInv'
PROOF
<1>1. /\ Idle /\ real[c].state \in {"CONNECTING", "OPEN", "CLOSING"}
      /\ real' = [real EXCEPT ![c].state = "CLOSED"]
      /\ calls' = CloseCalls(c) /\ inListener' \in BOOLEAN
      /\ seen' \in {seen, Told("error")}
      /\ UNCHANGED <<setting, connection, client, jobs, opening, made, aborted, queued,
                     used, history>>
  BY DEF RealCloses, RealFails, GoOn, YieldTo
<1> QED
  BY <1>1, RealCloseIInvOf

\* handleRealClose()
LEMMA RealCloseIInv == IInv /\ RealClose => IInv'
PROOF
<1> SUFFICES ASSUME IInv, RealClose PROVE IInv'
  OBVIOUS
<1> DEFINE d == Head(calls).conn
           w == [real[d] EXCEPT !.closes = @ + 1]
<1>1. TypeOK /\ JobsOK /\ CallsOK /\ RealsOK /\ AppOK /\ LoneOK
  BY View
<1>2. /\ CallQueue(calls') /\ ToSet(calls') \subseteq ToSet(calls)
      /\ ToSet(calls) = ToSet(calls') \cup {Head(calls)}
      /\ Head(calls).listener = "realClose" /\ CallOK(Head(calls))
      /\ \A x \in ToSet(calls') : CallOK(x) /\ x.listener # "realClose"
      /\ calls' = Tail(calls) /\ inListener' = FALSE
  BY CallingHead DEF RealClose, GoOn
<1>3. /\ d \in 1..made /\ real[d].state = "CLOSED"
      /\ "real" \notin aborted => real[d].closes = 0
  BY <1>2 DEF CallOK
<1>4. UNCHANGED <<setting, connection, opening, made, queued, used, late, seen>>
  BY DEF RealClose
<1>5. MockClosePending => MockClosePending'
  BY <1>2 DEF MockClosePending
<1>6. CASE "real" \in aborted
  <2>1. UNCHANGED <<client, jobs, real, aborted, blame>>
    BY <1>6 DEF RealClose
  <2>2. TypeOK'
    BY <1>1, <1>2, <1>4, <2>1 DEF TypeOK, CallQueue, setting
  <2>3. CallsOK'
    BY <1>2, <1>4, <2>1 DEF CallsOK, CallOK
  <2>4. JobsOK' /\ RealsOK' /\ AppOK' /\ LoneOK'
    BY <1>1, <1>4, <1>5, <2>1 DEF JobsOK, JobOK, RealsOK, RealOK, AppOK, LoneOK, setting
  <2> QED
    BY <2>2, <2>3, <2>4, View
<1>7. CASE "real" \notin aborted
  <2>1. /\ aborted' = aborted \cup {"mock"} /\ aborted' \subseteq {"mock", "real"}
        /\ real' = [real EXCEPT ![d] = w]
    BY <1>1, <1>7 DEF RealClose, TypeOK
  <2>2. \/ KClose(jobs) /\ blame' = IF client \in Shut THEN blame ELSE d
        \/ UNCHANGED <<client, jobs, blame>>
    BY <1>7 DEF RealClose
  <2> HIDE DEF d
  <2>3. d \in Sockets /\ made \in Nat /\ made > 0
    BY <1>1, <1>3, BoundsAssumption DEF TypeOK, Sockets
  <2>4. w \in RealSocket /\ w.closes = 1 /\ w.state = "CLOSED" /\ w.shut = real[d].shut
    <3>1. real[d] \in RealSocket
      BY <1>1, <2>3 DEF TypeOK
    <3>2. w = [real[d] EXCEPT !.closes = 1]
      BY <1>3, <1>7
    <3> QED
      BY <1>3, <3>1, <3>2 DEF RealSocket
  <2> HIDE DEF w
  <2>5. /\ real' \in [Sockets -> RealSocket] /\ real'[d] = w
        /\ \A c \in Sockets \ {d} : real'[c] = real[c]
    BY <1>1, <2>1, <2>3, <2>4 DEF TypeOK
  <2>6. \A c \in Sockets : real[c].shut \in BOOLEAN /\ ~real[c].shut
    <3>1. \A c \in Sockets : real[c].shut \in BOOLEAN
      BY <1>1 DEF TypeOK, RealSocket
    <3> QED
      BY <1>1, <1>7, <3>1 DEF RealsOK, RealOK
  <2>7. \A j \in ToSet(jobs) : JobOK(j) /\ j.task # "serverClose"
    <3>1. \A c \in 1..made : c \in Sockets
      BY <1>1, BoundsAssumption DEF TypeOK, Sockets
    <3> QED
      BY <1>1, <2>6, <3>1 DEF JobsOK, JobOK
  <2>8. /\ Queue(jobs')
        /\ client' \in States /\ (client' = "CLOSED" <=> client = "CLOSED")
        /\ client' = client \/ client' \in Shut
        /\ \A j \in ToSet(jobs') :
             IF j.task = "close" THEN client' = "CLOSING" ELSE j \in ToSet(jobs)
    <3>1. \A j \in ToSet(jobs) : j.task = "close" => client = "CLOSING"
      BY <2>7 DEF JobOK
    <3>2. CASE KClose(jobs)
      BY <1>1, <3>1, <3>2, KCloseFrame DEF JobsOK, Shut, States
    <3>3. CASE UNCHANGED <<client, jobs>>
      BY <1>1, <3>1, <3>3 DEF JobsOK, TypeOK
    <3> QED
      BY <2>2, <3>2, <3>3
  <2>9. ASSUME NEW j \in ToSet(jobs') PROVE JobOK(j)'
    <3>1. CASE j.task = "close"
      BY <2>8, <3>1 DEF JobOK, Settling
    <3>2. CASE j.task # "close"
      <4>1. JobOK(j) /\ j.task # "serverClose"
        BY <2>7, <2>8, <3>2
      <4> QED
        BY <1>4, <3>2, <4>1 DEF JobOK, setting
    <3> QED
      BY <3>1, <3>2
  <2>10. JobsOK'
    BY <2>8, <2>9 DEF JobsOK
  <2>11. CallsOK'
    BY <1>2, <1>4 DEF CallsOK, CallOK
  <2>12. blame' \in {blame, d} /\ blame' \in 0..Connections
    <3>1. d \in 0..Connections /\ blame \in 0..Connections
      BY <1>1, <2>3, BoundsAssumption DEF TypeOK, Sockets
    <3> QED
      BY <2>2, <3>1
  <2>13. ASSUME NEW c \in Sockets PROVE RealOK(c)'
    <3>1. ~real'[c].shut
      BY <2>4, <2>5, <2>6
    <3>2. CASE c = d
      <4>1. c <= made /\ real'[c].state = "CLOSED" /\ real'[c].closes = 1
        BY <1>3, <2>4, <2>5, <3>2
      <4> QED
        BY <1>4, <3>1, <4>1 DEF RealOK
    <3>3. CASE c # d
      BY <1>1, <1>4, <1>7, <2>1, <2>5, <2>12, <3>1, <3>3 DEF RealsOK, RealOK
    <3> QED
      BY <3>2, <3>3
  <2>14. RealsOK'
    BY <2>13 DEF RealsOK
  <2>15. 1 \in Sockets /\ (made = 1 => d = 1)
    BY <1>3, <2>3, BoundsAssumption DEF Sockets
  <2>16. AppOK'
    <3>1. real'[1].state = real[1].state
      BY <1>3, <2>4, <2>5, <2>15
    <3> QED
      BY <1>1, <1>4, <2>8, <3>1 DEF AppOK, setting, Shut
  <2>17. LoneOK'
    <3>1. made = 1 => real'[1].state = "CLOSED"
      BY <2>4, <2>5, <2>15
    <3> QED
      BY <1>4, <2>3, <3>1 DEF LoneOK, Shut
  <2>18. TypeOK'
    BY <1>1, <1>2, <1>4, <2>1, <2>5, <2>8, <2>12
    DEF TypeOK, Queue, CallQueue, setting
  <2> QED
    BY <2>10, <2>11, <2>14, <2>16, <2>17, <2>18, View
<1> QED
  BY <1>6, <1>7

-----------------------------------------------------------------------------
(* The theorems.                                                           *)

LEMMA StepIInv == IInv /\ [Next]_vars => IInv'
PROOF
<1> SUFFICES ASSUME IInv, [Next]_vars PROVE IInv'
  OBVIOUS
<1>1. CASE Microtask
  BY <1>1, RunConnectionIInv, ProceedMockedIInv, ProceedPassthroughIInv, RunThrewIInv,
     OpenIInv, RunOnSendIInv, RunForwardIInv, RunCloseIInv, RunServerCloseIInv,
     RunClientSendIInv
  DEF Microtask
<1>2. CASE Listener
  BY <1>2, MockCloseIInv, FlushIInv, DeliverIInv, RealCloseIInv DEF Listener
<1>3. CASE AppSend \/ AppClose
  BY <1>3, AppSendIInv, AppCloseIInv
<1>4. CASE Developer
  BY <1>4, ListenersReturnIInv, ListenersThrowIInv, ServerConnectIInv, ServerSendIInv,
     ServerCloseIInv, ClientSendIInv, AppCloseIInv
  DEF Developer
<1>5. CASE Server
  BY <1>5, RealOpenIInv, RealMessageIInv, RealClosesIInv DEF Server
<1>6. CASE UNCHANGED vars
  <2>1. TypeOK'
    BY <1>6, View DEF vars, TypeOK
  <2>2. JobsOK' /\ CallsOK' /\ RealsOK' /\ AppOK' /\ LoneOK'
    BY <1>6, View DEF vars, JobsOK, JobOK, CallsOK, CallOK, RealsOK, RealOK, AppOK,
       LoneOK, MockClosePending
  <2> QED
    BY <2>1, <2>2, View
<1> QED
  BY <1>1, <1>2, <1>3, <1>4, <1>5, <1>6 DEF Next

LEMMA Invariance == Spec => []IInv
BY InitIInv, StepIInv, PTL DEF Spec

\* Whatever the application, the developer and the network do, every variable
\* keeps its type: the application is told of one closure and one opening at
\* most.
THEOREM TypeCorrect == Spec => []TypeOK
PROOF
<1>1. IInv => TypeOK
  BY View
<1> QED
  BY <1>1, Invariance, PTL

\* The only connection made for a client that was not closed then is closing
\* or closed when the client's closure has been handled.
THEOREM LoneConnectionCloses == Spec => []LoneOriginalCloses
PROOF
<1>1. ASSUME IInv PROVE LoneOriginalCloses
  <2>1. AppOK /\ LoneOK
    BY <1>1, View
  <2>2. calls = <<>> => ~MockClosePending
    BY DEF MockClosePending, ToSet
  <2> QED
    BY <2>1, <2>2 DEF AppOK, LoneOK, LoneOriginalCloses
<1> QED
  BY <1>1, Invariance, PTL

\* A server connection reports one closure at most, and server.close() does not
\* close the client.
THEOREM ServerClosesOnce == Spec => []ServerCloseIsQuiet
PROOF
<1>1. ASSUME IInv PROVE ServerCloseIsQuiet
  <2>1. RealsOK
    BY <1>1, View
  <2> QED
    BY <2>1 DEF RealsOK, RealOK, ServerCloseIsQuiet
<1> QED
  BY <1>1, Invariance, PTL

-----------------------------------------------------------------------------
(* The socket of the application implements ClientSocket.                  *)

\* The step that a closure from anywhere maps to.
LEMMA ClosingMaps ==
  ASSUME IInv, client' = client \/ (client \notin Shut /\ client' = "CLOSING"),
         UNCHANGED hasListeners, seen'.opens = seen.opens, seen'.closes = seen.closes
  PROVE  [Socket!Next]_(Socket!vars)
PROOF
<1>1. client \in States
  BY View DEF TypeOK
<1>2. CASE client' = client
  BY <1>2 DEF Socket!vars
<1>3. CASE client \notin Shut /\ client' = "CLOSING"
  <2>1. client \in {"CONNECTING", "OPEN"}
    BY <1>1, <1>3 DEF States, Shut
  <2>2. Socket!StartClosing
    BY <1>3, <2>1 DEF Socket!StartClosing
  <2> QED
    BY <2>2 DEF Socket!Next
<1> QED
  BY <1>2, <1>3

LEMMA OpenMaps == IInv /\ Open => [Socket!Next]_(Socket!vars)
PROOF
<1> SUFFICES ASSUME IInv, Open PROVE [Socket!Next]_(Socket!vars)
  OBVIOUS
<1>1. TypeOK /\ AppOK
  BY View
<1>2. hasListeners /\ hasListeners'
  BY <1>1 DEF AppOK, Open, setting
<1>3. CASE client # "CONNECTING"
  BY <1>2, <1>3 DEF Open, Socket!vars
<1>4. CASE client = "CONNECTING"
  <2>1. client' = "OPEN" /\ seen' = ToldOpen
    BY <1>4 DEF Open
  <2>2. /\ Told("open").opens = 0 /\ Told("open").closes = seen.closes
        /\ Told("open") \in [opens : 0..1, closes : 0..1, got : Seq(Message),
                             after : SUBSET {"open", "message", "error"}]
        /\ seen.opens = 0
    BY <1>1, <1>2, <1>4, ToldFrame DEF AppOK
  <2>3. seen'.opens = 1 /\ seen'.closes = seen.closes
    BY <2>1, <2>2 DEF ToldOpen
  <2>4. Socket!Open
    BY <1>2, <1>4, <2>1, <2>2, <2>3 DEF Socket!Open
  <2> QED
    BY <2>4 DEF Socket!Next
<1> QED
  BY <1>3, <1>4

LEMMA RunCloseMaps == IInv /\ RunClose => [Socket!Next]_(Socket!vars)
PROOF
<1> SUFFICES ASSUME IInv, RunClose PROVE [Socket!Next]_(Socket!vars)
  OBVIOUS
<1>1. client = "CLOSING"
  BY RunningHead DEF RunClose, JobOK
<1>2. seen \in [opens : 0..1, closes : 0..1, got : Seq(Message),
               after : SUBSET {"open", "message", "error"}]
  BY View DEF TypeOK
<1>3. seen'.closes = seen.closes + 1 /\ seen'.opens = seen.opens
  BY <1>2 DEF RunClose
<1>4. client' = "CLOSED" /\ hasListeners' = hasListeners
  BY DEF RunClose, setting
<1>5. Socket!Close
  BY <1>1, <1>3, <1>4 DEF Socket!Close
<1> QED
  BY <1>5 DEF Socket!Next

\* In passthrough "open" is the real WebSocket's.
LEMMA RealOpenMaps ==
  ASSUME NEW c \in Sockets, IInv, RealOpen(c) PROVE [Socket!Next]_(Socket!vars)
PROOF
<1>1. TypeOK
  BY View
<1>2. ToldOpen.closes = seen.closes
  BY <1>1, ToldFrame DEF ToldOpen
<1> QED
  BY <1>2 DEF RealOpen, setting, Socket!vars

\* A step that tells the application of no opening and of no closure.
LEMMA OthersMap ==
  ASSUME IInv, [Next]_vars, ~Open, ~RunClose, ~\E c \in Sockets : RealOpen(c)
  PROVE  /\ client' = client \/ (client \notin Shut /\ client' = "CLOSING")
         /\ UNCHANGED hasListeners
         /\ seen'.opens = seen.opens /\ seen'.closes = seen.closes
PROOF
<1> DEFINE Goal == /\ client' = client \/ (client \notin Shut /\ client' = "CLOSING")
                   /\ UNCHANGED hasListeners
                   /\ seen'.opens = seen.opens /\ seen'.closes = seen.closes
<1>1. TypeOK
  BY View
<1>2. \A e \in {"open", "message", "error"} :
        Told(e).opens = seen.opens /\ Told(e).closes = seen.closes
  BY <1>1, ToldFrame
<1>3. \A n \in Message :
        ToldMessage(n).opens = seen.opens /\ ToldMessage(n).closes = seen.closes
  BY <1>1, ToldFrame
<1>4. CASE RunConnection \/ ProceedMocked \/ RunOnSend \/ RunForward \/ RunServerClose
  BY <1>4 DEF RunConnection, ProceedMocked, RunOnSend, RunForward, RunServerClose,
     setting
<1>5. CASE ProceedPassthrough \/ RunThrew
  BY <1>2, <1>5 DEF ProceedPassthrough, RunThrew, Fail, KClose, setting
<1>6. CASE RunClientSend
  <2>1. Head(jobs).n \in Message
    BY <1>6, RunningHead DEF RunClientSend, JobOK
  <2> QED
    BY <1>3, <1>6, <2>1 DEF RunClientSend, setting
<1>7. CASE Deliver
  <2>1. Head(calls).n \in Message
    BY <1>7, CallingHead DEF Deliver, CallOK
  <2> QED
    BY <1>3, <1>7, <2>1 DEF Deliver, setting
<1>8. CASE MockClose \/ Flush
  BY <1>8 DEF MockClose, Flush, setting
<1>9. CASE RealClose
  BY <1>9 DEF RealClose, KClose, setting
<1>10. CASE AppSend \/ AppClose
  BY <1>10 DEF AppSend, AppClose, KClose, setting
<1>11. CASE Developer
  BY <1>11 DEF Developer, ListenersReturn, ListenersThrow, ServerConnect, ServerSend,
     ServerClose, ClientSend, ClientClose, KClose, setting
<1>12. CASE \E c \in Sockets : RealMessage(c) \/ RealCloses(c) \/ RealFails(c)
  BY <1>2, <1>12 DEF RealMessage, RealCloses, RealFails, setting
<1>13. CASE UNCHANGED vars
  BY <1>13 DEF vars
<1> HIDE DEF Goal
<1>14. Goal
  BY <1>4, <1>5, <1>6, <1>7, <1>8, <1>9, <1>10, <1>11, <1>12, <1>13
  DEF Next, Microtask, Listener, Server, Goal
<1> QED
  BY <1>14 DEF Goal

LEMMA StepMaps == IInv /\ [Next]_vars => [Socket!Next]_(Socket!vars)
BY OpenMaps, RunCloseMaps, RealOpenMaps, OthersMap, ClosingMaps

\* Every behaviour of the bridge is one of a ClientSocket, but for its promise
\* to finish a closure: the readyState of the application's socket only
\* advances, "open" comes at most once and before any closure, "close" once.
THEOREM ClientSocketSafety == Spec => Socket!Init /\ [][Socket!Next]_(Socket!vars)
PROOF
<1>1. Init => Socket!Init
  BY DEF Init, Socket!Init
<1> QED
  BY <1>1, StepMaps, Invariance, PTL DEF Spec

-----------------------------------------------------------------------------
(* Messages.                                                               *)

\* Of two messages of the application, the first is another one and, in Node.js,
\* an earlier one.
Earlier(p, m, n) == m > 0 /\ n > 0 => m # n /\ (p = "node" => m < n)
Rising(p, s) == \A i, j \in DOMAIN s : i < j => Earlier(p, s[i], s[j])

\* The microtasks that carry a message, and the order of their messages.
OfApp == {"onSend", "forward"}
JobsInOrder(p, js) ==
  \A i, j \in DOMAIN js :
    /\ i < j /\ js[i].task = js[j].task /\ js[i].task \in OfApp =>
         Earlier(p, js[i].n, js[j].n)
    /\ js[i].task = "forward" /\ js[j].task = "onSend" => Earlier(p, js[i].n, js[j].n)
    /\ i < j /\ js[i].task = "clientSend" /\ js[j].task = "clientSend" =>
         js[i].n < js[j].n

\* The listeners of events that the platform fires come last.
CallsInOrder(p, cs) ==
  \A i, j \in DOMAIN cs : i < j =>
    /\ cs[i].listener \in TopLevel => cs[j].listener \in TopLevel
    /\ cs[i].listener = "flush" /\ cs[j].listener = "flush" =>
         Earlier(p, cs[i].n, cs[j].n)
    /\ cs[i].listener = "deliver" /\ cs[j].listener = "deliver" =>
         (cs[i].n > 0 /\ cs[j].n > 0 => cs[i].n < cs[j].n)

\* What carries a message of the application or of client.send().
AppSends(js) == {j \in ToSet(js) : j.task \in OfApp}
ClientSends(js) == {j \in ToSet(js) : j.task = "clientSend"}
Flushes(cs, c) == {x \in ToSet(cs) : x.listener = "flush" /\ x.conn = c}
Delivers(cs) == {x \in ToSet(cs) : x.listener = "deliver" /\ x.n > 0}

\* client.send(): the messages received are earlier than those about to be
\* delivered, and these, and those that wait for "open", are earlier than those
\* whose microtask is queued.
MockOrder ==
  /\ Increasing(seen.got) /\ Increasing(queued)
  /\ \A n \in ToSet(seen.got) :
       n <= used.client /\ \A x \in Delivers(calls) : n < x.n
  /\ \A n \in ToSet(queued) : n <= used.client
  /\ \A x \in Delivers(calls) : x.n <= used.client
  /\ \A j \in ClientSends(jobs) :
       /\ hasListeners /\ j.n <= used.client
       /\ \A n \in ToSet(seen.got) \cup ToSet(queued) : n < j.n
       /\ \A x \in Delivers(calls) : x.n < j.n
  /\ seen.got # <<>> \/ Delivers(calls) # {} => seen.opens = 1
  /\ queued # <<>> => hasListeners /\ seen.opens = 0
  /\ client = "OPEN" => seen.opens = 1

\* ws.send(): a message is carried by one microtask or is with one real WebSocket,
\* where it waits for "open", is about to be sent, or has been sent.
Holds(ws, flushes, n) ==
  \/ n \in ToSet(ws.sent) \cup ToSet(ws.pending)
  \/ \E x \in flushes : x.n = n

Line(p, ws, flushes) ==
  /\ Rising(p, ws.sent) /\ Rising(p, ws.pending)
  /\ ws.state \in {"none", "CONNECTING"} => ws.sent = <<>>
  /\ ws.state \in {"none", "OPEN"} => ws.pending = <<>>
  /\ ws.pending # <<>> => ws.sent = <<>>
  /\ \A x \in flushes :
       /\ ws.state \notin {"none", "CONNECTING"} /\ ws.pending = <<>>
       /\ \A n \in ToSet(ws.sent) : Earlier(p, n, x.n)

Lines == \A c \in Sockets : Line(platform, real[c], Flushes(calls, c))
HeldOnce ==
  \A c \in Sockets, n \in Message : Holds(real[c], Flushes(calls, c), n) =>
    /\ n <= used.app
    /\ \A j \in AppSends(jobs) : Earlier(platform, n, j.n)
    /\ \A d \in Sockets : n > 0 /\ Holds(real[d], Flushes(calls, d), n) => c = d
AppOrder == Lines /\ HeldOnce /\ \A j \in AppSends(jobs) : j.n <= used.app

\* As long as the only real WebSocket follows the client's closure nothing is
\* delivered after it.
Quiet ==
  made <= 1 /\ ~late =>
    /\ seen.after \subseteq {"error"}
    /\ client = "CLOSED" => \A x \in ToSet(calls) : x.listener # "deliver"

MInv ==
  /\ JobsInOrder(platform, jobs) /\ CallsInOrder(platform, calls)
  /\ MockOrder /\ AppOrder /\ Quiet

\* Running the microtask at the head.
LEMMA JobsInOrderTail ==
  ASSUME NEW p, NEW js \in Seq(Jobs), js # <<>>, JobsInOrder(p, js)
  PROVE  /\ JobsInOrder(p, Tail(js))
         /\ \A j \in ToSet(Tail(js)) :
              /\ Head(js).task = j.task /\ j.task \in OfApp => Earlier(p, Head(js).n, j.n)
              /\ Head(js).task = "forward" /\ j.task = "onSend" =>
                   Earlier(p, Head(js).n, j.n)
              /\ Head(js).task = "onSend" /\ j.task = "forward" =>
                   Earlier(p, j.n, Head(js).n)
              /\ Head(js).task = "clientSend" /\ j.task = "clientSend" => Head(js).n < j.n
PROOF
<1> DEFINE t == Tail(js)
           len == Len(js)
<1>1. /\ len \in Nat /\ len > 0 /\ DOMAIN js = 1..len
      /\ DOMAIN t = 1..(len - 1) /\ Head(js) = js[1]
      /\ \A i \in 1..(len - 1) : t[i] = js[i + 1]
  OBVIOUS
<1> HIDE DEF t, len
<1>2. 1 \in DOMAIN js /\ \A i \in DOMAIN t : i \in Nat /\ i + 1 \in DOMAIN js /\ 1 < i + 1
  BY <1>1
<1>3. ASSUME NEW i \in DOMAIN t, NEW j \in DOMAIN t
      PROVE  /\ i < j /\ t[i].task = t[j].task /\ t[i].task \in OfApp =>
                  Earlier(p, t[i].n, t[j].n)
             /\ t[i].task = "forward" /\ t[j].task = "onSend" =>
                  Earlier(p, t[i].n, t[j].n)
             /\ i < j /\ t[i].task = "clientSend" /\ t[j].task = "clientSend" =>
                  t[i].n < t[j].n
  <2>1. /\ i + 1 \in DOMAIN js /\ j + 1 \in DOMAIN js
        /\ t[i] = js[i + 1] /\ t[j] = js[j + 1] /\ (i < j => i + 1 < j + 1)
    BY <1>1, <1>2
  <2> QED
    BY <2>1 DEF JobsInOrder
<1>4. JobsInOrder(p, t)
  BY <1>3 DEF JobsInOrder
<1>5. ASSUME NEW i \in DOMAIN t
      PROVE  LET j == t[i] IN
              /\ Head(js).task = j.task /\ j.task \in OfApp => Earlier(p, Head(js).n, j.n)
              /\ Head(js).task = "forward" /\ j.task = "onSend" =>
                   Earlier(p, Head(js).n, j.n)
              /\ Head(js).task = "onSend" /\ j.task = "forward" =>
                   Earlier(p, j.n, Head(js).n)
              /\ Head(js).task = "clientSend" /\ j.task = "clientSend" => Head(js).n < j.n
  <2>1. i + 1 \in DOMAIN js /\ t[i] = js[i + 1] /\ 1 < i + 1
    BY <1>1, <1>2
  <2> QED
    BY <1>1, <1>2, <2>1 DEF JobsInOrder
<1> QED
  BY <1>4, <1>5 DEF ToSet, t

\* Queueing a microtask.
LEMMA JobsInOrderAppend ==
  ASSUME NEW p, NEW js \in Seq(Jobs), JobsInOrder(p, js), NEW job \in Jobs,
         \A j \in ToSet(js) :
           /\ j.task = job.task /\ j.task \in OfApp => Earlier(p, j.n, job.n)
           /\ j.task = "forward" /\ job.task = "onSend" => Earlier(p, j.n, job.n)
           /\ j.task = "onSend" /\ job.task = "forward" => Earlier(p, job.n, j.n)
           /\ j.task = "clientSend" /\ job.task = "clientSend" => j.n < job.n
  PROVE  JobsInOrder(p, Append(js, job))
PROOF
<1> DEFINE t == Append(js, job)
           len == Len(js)
<1>1. /\ len \in Nat /\ DOMAIN js = 1..len /\ DOMAIN t = 1..(len + 1)
      /\ t[len + 1] = job /\ \A i \in 1..len : t[i] = js[i]
  OBVIOUS
<1> HIDE DEF t, len
<1>2. \A i \in DOMAIN js : js[i] \in ToSet(js)
  BY DEF ToSet
<1>3. ASSUME NEW i \in DOMAIN t, NEW j \in DOMAIN t
      PROVE  /\ i < j /\ t[i].task = t[j].task /\ t[i].task \in OfApp =>
                  Earlier(p, t[i].n, t[j].n)
             /\ t[i].task = "forward" /\ t[j].task = "onSend" =>
                  Earlier(p, t[i].n, t[j].n)
             /\ i < j /\ t[i].task = "clientSend" /\ t[j].task = "clientSend" =>
                  t[i].n < t[j].n
  <2>1. CASE i \in DOMAIN js /\ j \in DOMAIN js
    BY <1>1, <2>1 DEF JobsInOrder
  <2>2. CASE i \in DOMAIN js /\ j = len + 1
    BY <1>1, <1>2, <2>2
  <2>3. CASE i = len + 1 /\ j \in DOMAIN js
    BY <1>1, <1>2, <2>3
  <2>4. CASE i = len + 1 /\ j = len + 1
    BY <1>1, <2>4
  <2> QED
    BY <1>1, <2>1, <2>2, <2>3, <2>4
<1> QED
  BY <1>3 DEF JobsInOrder, t

\* Running the listener at the head.
LEMMA CallsInOrderTail ==
  ASSUME NEW p, NEW cs \in Seq(Calls), cs # <<>>, CallsInOrder(p, cs)
  PROVE  /\ CallsInOrder(p, Tail(cs))
         /\ \A x \in ToSet(Tail(cs)) :
              /\ Head(cs).listener \in TopLevel => x.listener \in TopLevel
              /\ Head(cs).listener = "flush" /\ x.listener = "flush" =>
                   Earlier(p, Head(cs).n, x.n)
              /\ Head(cs).listener = "deliver" /\ x.listener = "deliver" =>
                   (Head(cs).n > 0 /\ x.n > 0 => Head(cs).n < x.n)
PROOF
<1> DEFINE t == Tail(cs)
           len == Len(cs)
<1>1. /\ len \in Nat /\ len > 0 /\ DOMAIN cs = 1..len
      /\ DOMAIN t = 1..(len - 1) /\ Head(cs) = cs[1]
      /\ \A i \in 1..(len - 1) : t[i] = cs[i + 1]
  OBVIOUS
<1> HIDE DEF t, len
<1>2. 1 \in DOMAIN cs /\ \A i \in DOMAIN t : i \in Nat /\ i + 1 \in DOMAIN cs /\ 1 < i + 1
  BY <1>1
<1>3. CallsInOrder(p, t)
  <2> SUFFICES ASSUME NEW i \in DOMAIN t, NEW j \in DOMAIN t, i < j
               PROVE  /\ t[i].listener \in TopLevel => t[j].listener \in TopLevel
                      /\ t[i].listener = "flush" /\ t[j].listener = "flush" =>
                           Earlier(p, t[i].n, t[j].n)
                      /\ t[i].listener = "deliver" /\ t[j].listener = "deliver" =>
                           (t[i].n > 0 /\ t[j].n > 0 => t[i].n < t[j].n)
    BY DEF CallsInOrder
  <2>1. /\ i + 1 \in DOMAIN cs /\ j + 1 \in DOMAIN cs
        /\ t[i] = cs[i + 1] /\ t[j] = cs[j + 1] /\ i + 1 < j + 1
    BY <1>1, <1>2
  <2> QED
    BY <2>1 DEF CallsInOrder
<1>4. ASSUME NEW i \in DOMAIN t
      PROVE  /\ Head(cs).listener \in TopLevel => t[i].listener \in TopLevel
             /\ Head(cs).listener = "flush" /\ t[i].listener = "flush" =>
                  Earlier(p, Head(cs).n, t[i].n)
             /\ Head(cs).listener = "deliver" /\ t[i].listener = "deliver" =>
                  (Head(cs).n > 0 /\ t[i].n > 0 => Head(cs).n < t[i].n)
  <2>1. i + 1 \in DOMAIN cs /\ t[i] = cs[i + 1] /\ 1 < i + 1
    BY <1>1, <1>2
  <2> QED
    BY <1>1, <1>2, <2>1 DEF CallsInOrder
<1> QED
  BY <1>3, <1>4 DEF ToSet, t

\* Listeners of an event that JavaScript code fires come before the ones of an event
\* of the platform that are left to run.
LEMMA CallsInOrderPrepend ==
  ASSUME NEW p, NEW new \in Seq(Calls), CallsInOrder(p, new),
         \A x \in ToSet(new) : x.listener \notin TopLevel,
         NEW cs \in Seq(Calls), CallsInOrder(p, cs),
         \A x \in ToSet(cs) : x.listener \in TopLevel
  PROVE  CallsInOrder(p, new \o cs)
PROOF
<1> DEFINE t == new \o cs
           m == Len(new)
           len == Len(cs)
<1>1. /\ m \in Nat /\ len \in Nat /\ DOMAIN new = 1..m /\ DOMAIN cs = 1..len
      /\ DOMAIN t = 1..(m + len)
      /\ \A i \in 1..m : t[i] = new[i]
      /\ \A i \in 1..(m + len) : i > m => t[i] = cs[i - m]
  OBVIOUS
<1> HIDE DEF t, m, len
<1>2. /\ \A i \in 1..m : t[i].listener \notin TopLevel
      /\ \A i \in 1..(m + len) : i > m => i - m \in 1..len /\ t[i].listener \in TopLevel
  <2>1. \A i \in 1..m : t[i] \in ToSet(new)
    BY <1>1 DEF ToSet
  <2>2. \A i \in 1..(m + len) : i > m => i - m \in 1..len
    BY <1>1
  <2>3. \A i \in 1..len : cs[i] \in ToSet(cs)
    BY <1>1 DEF ToSet
  <2> QED
    BY <1>1, <2>1, <2>2, <2>3
<1>3. "flush" \in TopLevel /\ "deliver" \notin TopLevel
  BY DEF TopLevel
<1> SUFFICES ASSUME NEW i \in DOMAIN t, NEW j \in DOMAIN t, i < j
             PROVE  /\ t[i].listener \in TopLevel => t[j].listener \in TopLevel
                    /\ t[i].listener = "flush" /\ t[j].listener = "flush" =>
                         Earlier(p, t[i].n, t[j].n)
                    /\ t[i].listener = "deliver" /\ t[j].listener = "deliver" =>
                         (t[i].n > 0 /\ t[j].n > 0 => t[i].n < t[j].n)
  BY DEF CallsInOrder, t
<1>4. CASE i > m
  <2>1. /\ i - m \in DOMAIN cs /\ j - m \in DOMAIN cs /\ i - m < j - m
        /\ t[i] = cs[i - m] /\ t[j] = cs[j - m]
    BY <1>1, <1>2, <1>4
  <2> QED
    BY <2>1 DEF CallsInOrder
<1>5. CASE i <= m /\ j > m
  <2>1. t[i].listener \notin TopLevel /\ t[j].listener \in TopLevel
    BY <1>1, <1>2, <1>5
  <2> QED
    BY <1>3, <2>1
<1>6. CASE i <= m /\ j <= m
  <2>1. i \in DOMAIN new /\ j \in DOMAIN new /\ t[i] = new[i] /\ t[j] = new[j]
    BY <1>1, <1>6
  <2> QED
    BY <2>1 DEF CallsInOrder
<1> QED
  BY <1>1, <1>4, <1>5, <1>6

\* The listeners made of messages are in the order of the messages.
LEMMA MessagesInOrder ==
  ASSUME NEW p, NEW q, NEW cs, DOMAIN cs = DOMAIN q, \A i \in DOMAIN q : cs[i].n = q[i],
         \/ Rising(p, q) /\ \A i \in DOMAIN q : cs[i].listener = "flush"
         \/ Increasing(q) /\ \A i \in DOMAIN q : cs[i].listener = "deliver"
  PROVE  CallsInOrder(p, cs) /\ \A x \in ToSet(cs) : x.n \in ToSet(q)
PROOF
<1>1. CallsInOrder(p, cs)
  BY DEF CallsInOrder, Rising, Increasing, TopLevel
<1>2. \A x \in ToSet(cs) : x.n \in ToSet(q)
  BY DEF ToSet
<1> QED
  BY <1>1, <1>2

LEMMA AppendSet ==
  ASSUME NEW S, NEW s \in Seq(S), NEW e \in S
  PROVE  ToSet(Append(s, e)) = ToSet(s) \cup {e}
PROOF
<1> DEFINE t == Append(s, e)
           len == Len(s)
<1>1. /\ len \in Nat /\ DOMAIN s = 1..len /\ DOMAIN t = 1..(len + 1)
      /\ t[len + 1] = e /\ \A i \in 1..len : t[i] = s[i]
  BY AppendProperties, LenProperties
<1> HIDE DEF t, len
<1>2. ToSet(t) = ToSet(s) \cup {e}
  BY <1>1 DEF ToSet
<1> QED
  BY <1>2 DEF t

\* Appending to a sequence of messages.
LEMMA AppendRising ==
  ASSUME NEW p, NEW s \in Seq(Message), NEW n \in Message, Rising(p, s),
         \A m \in ToSet(s) : Earlier(p, m, n)
  PROVE  /\ Rising(p, Append(s, n))
         /\ ToSet(Append(s, n)) = ToSet(s) \cup {n}
         /\ Append(s, n) # <<>>
PROOF
<1> DEFINE t == Append(s, n)
           len == Len(s)
<1>1. /\ len \in Nat /\ DOMAIN s = 1..len /\ DOMAIN t = 1..(len + 1)
      /\ t[len + 1] = n /\ \A i \in 1..len : t[i] = s[i]
  OBVIOUS
<1>2. t # <<>>
  BY AppendProperties
<1> HIDE DEF t, len
<1>3. \A i \in DOMAIN s : s[i] \in ToSet(s)
  BY DEF ToSet
<1>4. ASSUME NEW i \in DOMAIN t, NEW j \in DOMAIN t, i < j
      PROVE  Earlier(p, t[i], t[j])
  <2>1. CASE j \in DOMAIN s
    <3>1. i \in DOMAIN s /\ t[i] = s[i] /\ t[j] = s[j]
      BY <1>1, <1>4, <2>1
    <3> QED
      BY <1>4, <2>1, <3>1 DEF Rising
  <2>2. CASE j = len + 1
    <3>1. i \in DOMAIN s /\ t[i] = s[i] /\ t[j] = n
      BY <1>1, <1>4, <2>2
    <3> QED
      BY <1>3, <3>1
  <2> QED
    BY <1>1, <2>1, <2>2
<1>5. Rising(p, t)
  BY <1>4 DEF Rising
<1>6. ToSet(t) = ToSet(s) \cup {n}
  BY <1>1 DEF ToSet
<1> QED
  BY <1>2, <1>5, <1>6 DEF t

LEMMA AppendIncreasing ==
  ASSUME NEW s \in Seq(Message), NEW n \in Message, Increasing(s),
         \A m \in ToSet(s) : m < n
  PROVE  /\ Increasing(Append(s, n))
         /\ ToSet(Append(s, n)) = ToSet(s) \cup {n}
         /\ Append(s, n) # <<>>
PROOF
<1> DEFINE t == Append(s, n)
           len == Len(s)
<1>1. /\ len \in Nat /\ DOMAIN s = 1..len /\ DOMAIN t = 1..(len + 1)
      /\ t[len + 1] = n /\ \A i \in 1..len : t[i] = s[i]
  OBVIOUS
<1>2. t # <<>>
  BY AppendProperties
<1> HIDE DEF t, len
<1>3. \A i \in DOMAIN s : s[i] \in ToSet(s)
  BY DEF ToSet
<1>4. ASSUME NEW i \in DOMAIN t, NEW j \in DOMAIN t, i < j
      PROVE  t[i] < t[j]
  <2>1. CASE j \in DOMAIN s
    <3>1. i \in DOMAIN s /\ t[i] = s[i] /\ t[j] = s[j]
      BY <1>1, <1>4, <2>1
    <3> QED
      BY <1>4, <2>1, <3>1 DEF Increasing
  <2>2. CASE j = len + 1
    <3>1. i \in DOMAIN s /\ t[i] = s[i] /\ t[j] = n
      BY <1>1, <1>4, <2>2
    <3> QED
      BY <1>3, <3>1
  <2> QED
    BY <1>1, <2>1, <2>2
<1>5. Increasing(t)
  BY <1>4 DEF Increasing
<1>6. ToSet(t) = ToSet(s) \cup {n}
  BY <1>1 DEF ToSet
<1> QED
  BY <1>2, <1>5, <1>6 DEF t

-----------------------------------------------------------------------------
(* What keeps messages in order.                                           *)

LEMMA MessageView ==
  /\ MInv <=> /\ JobsInOrder(platform, jobs) /\ CallsInOrder(platform, calls)
              /\ MockOrder /\ AppOrder /\ Quiet
  /\ MInv' <=> /\ JobsInOrder(platform', jobs') /\ CallsInOrder(platform', calls')
               /\ MockOrder' /\ AppOrder' /\ Quiet'
BY DEF MInv

\* The real WebSocket has the messages it had, and does not open.
Still(c) ==
  /\ real'[c].sent = real[c].sent /\ real'[c].pending = real[c].pending
  /\ \/ real'[c].state = real[c].state
     \/ real'[c].state \in Shut
     \/ real[c].state = "none" /\ real'[c].state = "CONNECTING"

\* Nothing of client.send() moves, but something may get lost.
LEMMA MockFrame ==
  ASSUME MockOrder, UNCHANGED <<queued, hasListeners>>, used'.client = used.client,
         seen'.got = seen.got, seen'.opens = seen.opens,
         client' = "OPEN" => client = "OPEN",
         Delivers(calls') \subseteq Delivers(calls),
         ClientSends(jobs') \subseteq ClientSends(jobs)
  PROVE  MockOrder'
BY DEF MockOrder

\* Nothing of ws.send() moves, but something may get lost.
LEMMA AppFrame ==
  ASSUME AppOrder, UNCHANGED platform, \A n \in Nat : n <= used.app => n <= used'.app,
         \A j \in AppSends(jobs) : j.n \in Nat,
         AppSends(jobs') \subseteq AppSends(jobs),
         \A c \in Sockets : Still(c) /\ Flushes(calls', c) \subseteq Flushes(calls, c)
  PROVE  AppOrder'
PROOF
<1>1. ASSUME NEW c \in Sockets
      PROVE  Line(platform', real'[c], Flushes(calls', c))
  <2>1. Line(platform, real[c], Flushes(calls, c)) /\ Still(c)
    BY DEF AppOrder, Lines
  <2> QED
    BY <2>1 DEF Line, Still, Shut
<1>2. \A c \in Sockets, n \in Message :
        Holds(real'[c], Flushes(calls', c), n) => Holds(real[c], Flushes(calls, c), n)
  BY DEF Holds, Still
<1>3. Lines'
  BY <1>1 DEF Lines
<1>4. \A n \in Message : n \in Nat
  BY BoundsAssumption DEF Message
<1>5. HeldOnce'
  BY <1>2, <1>4 DEF AppOrder, HeldOnce
<1> QED
  BY <1>3, <1>5 DEF AppOrder

\* Nothing is delivered after the closure that was not to be delivered before.
LEMMA QuietFrame ==
  ASSUME Quiet, made \in Nat, made' \in Nat, made <= made', late => late',
         seen'.after \subseteq seen.after \cup {"error"},
         client' = "CLOSED" =>
           \/ \A x \in ToSet(calls') : x.listener # "deliver"
           \/ /\ client = "CLOSED"
              /\ \A x \in ToSet(calls') : x.listener = "deliver" => x \in ToSet(calls)
  PROVE  Quiet'
BY DEF Quiet

\* At a checkpoint no listener of the application or of the developer is left to run.
LEMMA CheckpointCalls ==
  ASSUME IInv, MInv, Checkpoint
  PROVE  /\ \A x \in ToSet(calls) : x.listener \in TopLevel
         /\ Delivers(calls) = {} /\ \A x \in ToSet(calls) : x.listener # "deliver"
         /\ platform = "node" => calls = <<>>
PROOF
<1>1. calls \in Seq(Calls)
  BY View DEF TypeOK
<1>2. CASE calls = <<>>
  <2>1. ToSet(calls) = {}
    BY <1>2 DEF ToSet
  <2> QED
    BY <1>2, <2>1 DEF Delivers
<1>3. CASE platform = "browser" /\ calls # <<>> /\ Head(calls).listener \in TopLevel
  <2>1. CallsInOrder(platform, calls) /\ CallsOK
    BY MessageView, View
  <2>2. \A x \in ToSet(Tail(calls)) : x.listener \in TopLevel
    BY <1>1, <1>3, <2>1, CallsInOrderTail
  <2>3. ToSet(calls) = ToSet(Tail(calls)) \cup {Head(calls)}
    BY <1>3, <2>1, CallsTail DEF CallsOK
  <2>4. \A x \in ToSet(calls) : x.listener \in TopLevel
    BY <1>3, <2>2, <2>3
  <2> QED
    BY <1>3, <2>4 DEF Delivers, TopLevel
<1> QED
  BY <1>2, <1>3 DEF Checkpoint

\* Microtasks that carry no message.
LEMMA OtherJob ==
  ASSUME NEW p, NEW js \in Seq(Jobs), JobsInOrder(p, js), NEW job \in Jobs,
         job.task \notin OfApp \cup {"clientSend"}
  PROVE  /\ JobsInOrder(p, Append(js, job))
         /\ AppSends(Append(js, job)) = AppSends(js)
         /\ ClientSends(Append(js, job)) = ClientSends(js)
PROOF
<1>1. JobsInOrder(p, Append(js, job))
  BY JobsInOrderAppend DEF OfApp
<1>2. ToSet(Append(js, job)) = ToSet(js) \cup {job}
  BY AppendSet
<1> QED
  BY <1>1, <1>2 DEF AppSends, ClientSends

\* Steps that move no message: others may be queued, and what runs may be a message
\* that gets lost.
LEMMA FrameMInv ==
  ASSUME IInv, MInv,
         NEW js, js = jobs \/ (jobs # <<>> /\ js = Tail(jobs)),
         \/ jobs' = js
         \/ \E job \in Jobs :
              job.task \notin OfApp \cup {"clientSend"} /\ jobs' = Append(js, job),
         CallsInOrder(platform, calls'),
         Delivers(calls') \subseteq Delivers(calls),
         \A x \in ToSet(calls') : x.listener = "flush" => x \in ToSet(calls),
         \A c \in Sockets : Still(c),
         UNCHANGED <<platform, hasListeners, queued>>, used'.client = used.client,
         \A n \in Nat : n <= used.app => n <= used'.app,
         seen'.got = seen.got, seen'.opens = seen.opens,
         client' = "OPEN" => client = "OPEN",
         Quiet'
  PROVE  MInv'
PROOF
<1>1. JobsInOrder(platform, jobs) /\ MockOrder /\ AppOrder /\ JobsOK
  BY MessageView, View
<1>2. jobs \in Seq(Jobs)
  BY View DEF TypeOK
<1>3. /\ js \in Seq(Jobs) /\ JobsInOrder(platform, js) /\ ToSet(js) \subseteq ToSet(jobs)
  <2>1. CASE js = jobs
    BY <1>1, <1>2, <2>1
  <2>2. CASE jobs # <<>> /\ js = Tail(jobs)
    BY <1>1, <1>2, <2>2, JobsInOrderTail, QueueTail DEF JobsOK, Queue
  <2> QED
    BY <2>1, <2>2
<1>4. /\ JobsInOrder(platform, jobs')
      /\ AppSends(jobs') = AppSends(js) /\ ClientSends(jobs') = ClientSends(js)
  BY <1>3, OtherJob
<1>5. AppSends(js) \subseteq AppSends(jobs) /\ ClientSends(js) \subseteq ClientSends(jobs)
  BY <1>3 DEF AppSends, ClientSends
<1>6. \A c \in Sockets : Flushes(calls', c) \subseteq Flushes(calls, c)
  BY DEF Flushes
<1>7. MockOrder'
  BY <1>1, <1>4, <1>5, MockFrame
<1>8. AppOrder'
  <2>1. \A j \in AppSends(jobs) : j.n \in Nat
    <3>1. \A i \in DOMAIN jobs : jobs[i] \in Jobs
      BY <1>2
    <3>2. \A j \in ToSet(jobs) : j \in Jobs
      BY <3>1 DEF ToSet
    <3> QED
      BY <3>2 DEF AppSends, Jobs
  <2> QED
    BY <1>1, <1>4, <1>5, <1>6, <2>1, AppFrame
<1> QED
  BY <1>4, <1>7, <1>8, MessageView


\* Telling something to the application.
LEMMA ToldView ==
  ASSUME TypeOK
  PROVE  /\ \A e : /\ Told(e).got = seen.got /\ Told(e).opens = seen.opens
                   /\ Told(e).after = IF client = "CLOSED" THEN seen.after \cup {e}
                                                           ELSE seen.after
         /\ \A n : /\ ToldMessage(n).opens = seen.opens
                   /\ ToldMessage(n).got = IF n = 0 THEN seen.got ELSE Append(seen.got, n)
                   /\ ToldMessage(n).after = Told("message").after
         /\ ToldOpen.opens = seen.opens + 1 /\ ToldOpen.got = seen.got
         /\ ToldOpen.after = Told("open").after
PROOF
<1> DEFINE R == [opens : 0..1, closes : 0..1, got : Seq(Message),
                 after : SUBSET {"open", "message", "error"}]
<1>1. seen \in R
  BY DEF TypeOK
<1>2. DOMAIN seen = {"opens", "closes", "got", "after"}
  BY <1>1
<1>3. \A e : /\ Told(e).got = seen.got /\ Told(e).opens = seen.opens
             /\ Told(e).after = IF client = "CLOSED" THEN seen.after \cup {e}
                                                     ELSE seen.after
             /\ DOMAIN Told(e) = {"opens", "closes", "got", "after"}
  BY <1>2 DEF Told
<1> QED
  BY <1>3 DEF ToldMessage, ToldOpen

\* A real WebSocket changes in other things than its messages.
LEMMA OneStill ==
  ASSUME TypeOK, NEW d \in Sockets, NEW w, real' = [real EXCEPT ![d] = w],
         w.sent = real[d].sent, w.pending = real[d].pending,
         \/ w.state = real[d].state
         \/ w.state \in Shut
         \/ real[d].state = "none" /\ w.state = "CONNECTING"
  PROVE  \A c \in Sockets : Still(c)
PROOF
<1>1. real' = [real EXCEPT ![d] = w] /\ DOMAIN real = Sockets
  BY DEF TypeOK
<1>2. \A c \in Sockets : real'[c] = IF c = d THEN w ELSE real[c]
  BY <1>1
<1> QED
  BY <1>2 DEF Still

\* Steps that run no listener and move no message.
LEMMA QuietStepMInv ==
  ASSUME IInv, MInv,
         NEW js, js = jobs \/ (jobs # <<>> /\ js = Tail(jobs)),
         \/ jobs' = js
         \/ \E job \in Jobs :
              job.task \notin OfApp \cup {"clientSend"} /\ jobs' = Append(js, job),
         \A c \in Sockets : Still(c),
         UNCHANGED <<platform, hasListeners, queued, calls>>,
         used'.client = used.client, \A n \in Nat : n <= used.app => n <= used'.app,
         seen' \in {seen, Told("error")}, made' \in {made, made + 1}, late => late',
         client' \in {client, "CLOSING"}
  PROVE  MInv'
PROOF
<1>1. TypeOK /\ Quiet /\ CallsInOrder(platform, calls)
  BY View, MessageView
<1>2. /\ seen'.got = seen.got /\ seen'.opens = seen.opens
      /\ seen'.after \subseteq seen.after \cup {"error"}
  BY <1>1, ToldView
<1>3. made \in Nat /\ made' \in Nat /\ made <= made'
  BY <1>1, BoundsAssumption DEF TypeOK
<1>4. Quiet'
  BY <1>1, <1>2, <1>3, QuietFrame
<1> QED
  BY <1>1, <1>2, <1>4, FrameMInv

\* The first steps and the end of the "connection" event, but for its failure.
LEMMA ConnectionMInv ==
  ASSUME IInv, MInv,
         \/ RunConnection \/ ListenersReturn \/ ProceedMocked
         \/ \E isError \in {0, 1} : ListenersThrow(isError)
  PROVE  MInv'
PROOF
<1>1. /\ UNCHANGED <<platform, hasListeners, queued, calls, used, seen, made, late, client>>
      /\ \A c \in Sockets : Still(c)
  BY DEF RunConnection, ListenersReturn, ListenersThrow, ProceedMocked, setting, turn,
     history, Still
<1>2. \A m \in {0, 1}, t \in {"proceed", "threw", "close"} :
        Job(t, m) \in Jobs /\ Job(t, m).task \notin OfApp \cup {"clientSend"}
  BY DEF Job, Jobs, OfApp
<1>3. CASE RunConnection
  <2>1. /\ jobs # <<>>
        /\ jobs' = Tail(jobs) \/ jobs' = Append(Tail(jobs), Job("proceed", 0))
    BY <1>3 DEF RunConnection, Running
  <2> QED
    BY <1>1, <1>2, <2>1, QuietStepMInv
<1>4. CASE ListenersReturn
  BY <1>1, <1>2, <1>4, QuietStepMInv DEF ListenersReturn
<1>5. CASE \E isError \in {0, 1} : ListenersThrow(isError)
  BY <1>1, <1>2, <1>5, QuietStepMInv DEF ListenersThrow
<1>6. CASE ProceedMocked
  <2>1. jobs # <<>> /\ jobs' = Tail(jobs)
    BY <1>6 DEF ProceedMocked, Running
  <2> QED
    BY <1>1, <2>1, QuietStepMInv
<1> QED
  BY <1>3, <1>4, <1>5, <1>6

\* kClose() from anywhere.
LEMMA KCloseMInv ==
  ASSUME IInv, MInv,
         NEW js, js = jobs \/ (jobs # <<>> /\ js = Tail(jobs)), KClose(js),
         UNCHANGED <<platform, hasListeners, queued, calls, real, made, late>>,
         used'.client = used.client, \A n \in Nat : n <= used.app => n <= used'.app,
         seen' \in {seen, Told("error")}
  PROVE  MInv'
PROOF
<1>1. /\ Job("close", 0) \in Jobs
      /\ Job("close", 0).task \notin OfApp \cup {"clientSend"}
  BY DEF Job, Jobs, OfApp
<1>2. /\ client' \in {client, "CLOSING"}
      /\ \/ jobs' = js
         \/ \E job \in Jobs :
              job.task \notin OfApp \cup {"clientSend"} /\ jobs' = Append(js, job)
  BY <1>1 DEF KClose
<1>3. \A c \in Sockets : Still(c)
  BY DEF Still
<1> QED
  BY <1>2, <1>3, QuietStepMInv

\* ws.close(), client.close() and ws.send() before the socket is open.
LEMMA CloseMInv ==
  ASSUME IInv, MInv,
         AppClose \/ ClientClose \/ (AppSend /\ client = "CONNECTING")
  PROVE  MInv'
PROOF
<1>1. CASE AppClose \/ ClientClose
  BY <1>1, KCloseMInv DEF AppClose, ClientClose, setting, turn, history
<1>2. CASE AppSend /\ client = "CONNECTING"
  <2>1. TypeOK
    BY View
  <2>2. used' = [used EXCEPT !.app = @ + 1] /\ KClose(jobs)
    BY <1>2 DEF AppSend
  <2>3. used.app \in Nat /\ used'.app = used.app + 1 /\ used'.client = used.client
    BY <2>1, <2>2, BoundsAssumption DEF TypeOK
  <2>4. \A n \in Nat : n <= used.app => n <= used'.app
    BY <2>3
  <2> QED
    BY <1>2, <2>2, <2>3, <2>4, KCloseMInv DEF AppSend, setting, turn, history
<1> QED
  BY <1>1, <1>2

\* server.connect() and the connection of a passthrough.
LEMMA ConnectMInv ==
  ASSUME IInv, MInv, Connect, made < Connections,
         NEW js, js = jobs \/ (jobs # <<>> /\ js = Tail(jobs)), jobs' = js,
         UNCHANGED <<platform, hasListeners, queued, calls, used, client, seen>>
  PROVE  MInv'
PROOF
<1>1. TypeOK
  BY View
<1>2. made + 1 \in Sockets /\ made' = made + 1 /\ real[made + 1].state = "none"
  BY ConnectFrame
<1>3. /\ real' = [real EXCEPT ![made + 1].state = "CONNECTING"]
      /\ late => late'
  BY DEF Connect
<1>4. \A c \in Sockets : DOMAIN real[c] = {"state", "pending", "sent", "closes", "shut"}
  BY <1>1 DEF TypeOK, RealSocket
<1>5. DOMAIN real = Sockets
  BY <1>1 DEF TypeOK
<1>6. \A c \in Sockets :
        real'[c] = IF c = made + 1 THEN [real[c] EXCEPT !.state = "CONNECTING"] ELSE real[c]
  BY <1>2, <1>3, <1>5
<1>7. \A c \in Sockets : Still(c)
  BY <1>2, <1>4, <1>6 DEF Still
<1> QED
  BY <1>2, <1>3, <1>7, QuietStepMInv DEF Connect

\* The failure of the "connection" event, and the connection of a passthrough.
LEMMA EndMInv ==
  ASSUME IInv, MInv, ProceedPassthrough \/ RunThrew \/ ServerConnect PROVE MInv'
PROOF
<1>1. ASSUME jobs # <<>>, Fail PROVE MInv'
  BY <1>1, KCloseMInv DEF Fail, setting, turn, history
<1>2. CASE ProceedPassthrough
  <2>1. jobs # <<>> /\ Running("proceed") /\ ~hasListeners
    BY <1>2 DEF ProceedPassthrough, Running
  <2>2. connection = "emitted"
    BY <2>1, SettlingHead DEF Settling
  <2>3. made = 0 /\ made < Connections
    BY <2>1, <2>2, View, BoundsAssumption DEF AppOK
  <2>4. CASE Fail
    BY <1>1, <2>1, <2>4
  <2>5. CASE Connect /\ jobs' = Tail(jobs)
             /\ UNCHANGED <<setting, client, opening, turn, aborted, queued, used, blame,
                            seen>>
    BY <2>1, <2>3, <2>5, ConnectMInv DEF setting, turn
  <2> QED
    BY <1>2, <2>4, <2>5 DEF ProceedPassthrough
<1>3. CASE RunThrew
  <2>1. jobs # <<>>
    BY <1>3 DEF RunThrew, Running
  <2>2. CASE Fail
    BY <1>1, <2>1, <2>2
  <2>3. CASE jobs' = Tail(jobs) /\ UNCHANGED <<setting, client, opening, turn, real, made,
                                              aborted, queued, used, history, seen>>
    <3>1. \A c \in Sockets : Still(c)
      BY <2>3 DEF Still
    <3> QED
      BY <2>1, <2>3, <3>1, QuietStepMInv DEF setting, turn, history
  <2> QED
    BY <1>3, <2>2, <2>3 DEF RunThrew
<1>4. CASE ServerConnect
  BY <1>4, ConnectMInv DEF ServerConnect, setting, turn
<1> QED
  BY <1>2, <1>3, <1>4

\* handleMockClose() will run after the application's "close" listener.
LEMMA RunCloseMInv == IInv /\ MInv /\ RunClose => MInv'
PROOF
<1> SUFFICES ASSUME IInv, MInv, RunClose PROVE MInv'
  OBVIOUS
<1> DEFINE new == IF made > 0 /\ "mock" \notin aborted
                  THEN <<Call("mockClose", 0, 0)>> ELSE <<>>
<1>1. TypeOK /\ CallsOK /\ Quiet /\ CallsInOrder(platform, calls)
  BY View, MessageView
<1>2. Checkpoint /\ jobs # <<>> /\ jobs' = Tail(jobs)
  BY DEF RunClose, Running
<1>3. calls \in Seq(Calls) /\ CallQueue(calls)
  BY <1>1 DEF TypeOK, CallsOK
<1>4. /\ new \in Seq(Calls) /\ \A x \in ToSet(new) : x.listener = "mockClose"
      /\ \A i, j \in DOMAIN new : ~(i < j)
  <2> DEFINE x0 == Call("mockClose", 0, 0)
  <2>1. x0 \in Calls /\ x0.listener = "mockClose"
    BY BoundsAssumption DEF Call, Calls
  <2> HIDE DEF x0
  <2>2. /\ <<>> \in Seq(Calls) /\ <<x0>> \in Seq(Calls)
        /\ DOMAIN <<>> = {} /\ DOMAIN <<x0>> = {1} /\ <<x0>>[1] = x0
    BY <2>1
  <2>3. /\ ToSet(<<>>) = {} /\ ToSet(<<x0>>) = {x0}
        /\ \A i, j \in {1} : ~(i < j)
    BY <2>2 DEF ToSet
  <2>4. new = <<x0>> \/ new = <<>>
    BY DEF x0
  <2> HIDE DEF new
  <2> QED
    BY <2>1, <2>2, <2>3, <2>4
<1>5. calls' = new \o calls
  BY DEF RunClose, YieldTo
<1> HIDE DEF new
<1>6. /\ \A x \in ToSet(calls) : x.listener \in TopLevel
      /\ \A x \in ToSet(calls) : x.listener # "deliver"
  BY <1>2, CheckpointCalls
<1>7. CallsInOrder(platform, calls')
  <2>1. CallsInOrder(platform, new) /\ \A x \in ToSet(new) : x.listener \notin TopLevel
    BY <1>4 DEF CallsInOrder, TopLevel
  <2> QED
    BY <1>1, <1>3, <1>4, <1>5, <1>6, <2>1, CallsInOrderPrepend
<1>8. ToSet(calls') = ToSet(new) \cup ToSet(calls)
  BY <1>3, <1>4, <1>5, CallsPrepend
<1>9. /\ \A x \in ToSet(calls') : x.listener # "deliver"
      /\ Delivers(calls') \subseteq Delivers(calls)
      /\ \A x \in ToSet(calls') : x.listener = "flush" => x \in ToSet(calls)
  BY <1>4, <1>6, <1>8 DEF Delivers
<1>10. seen'.got = seen.got /\ seen'.opens = seen.opens /\ seen'.after = seen.after
  BY <1>1 DEF RunClose, TypeOK
<1>11. /\ UNCHANGED <<platform, hasListeners, queued, used, made, late, real>>
       /\ client' = "CLOSED"
  BY DEF RunClose, setting, history
<1>12. Quiet'
  BY <1>1, <1>9, <1>10, <1>11 DEF Quiet
<1>13. \A c \in Sockets : Still(c)
  BY <1>11 DEF Still
<1>14. \A n \in Nat : n <= used.app => n <= used'.app
  BY <1>11
<1> QED
  BY <1>2, <1>7, <1>9, <1>10, <1>11, <1>12, <1>13, <1>14, FrameMInv

\* A listener that delivers nothing runs.
LEMMA ListenerMInv ==
  ASSUME IInv, MInv, calls # <<>>, calls' = Tail(calls),
         Head(calls).listener \in {"mockClose", "realClose"},
         \/ UNCHANGED <<client, jobs>>
         \/ KClose(jobs),
         \A c \in Sockets : Still(c),
         UNCHANGED <<platform, hasListeners, queued, used, made, late, seen>>
  PROVE  MInv'
PROOF
<1>1. TypeOK /\ CallsOK /\ Quiet /\ CallsInOrder(platform, calls)
  BY View, MessageView
<1>2. ToSet(calls') \subseteq ToSet(calls) /\ CallsInOrder(platform, calls')
  <2>1. calls \in Seq(Calls) /\ CallQueue(calls)
    BY <1>1 DEF TypeOK, CallsOK
  <2> QED
    BY <1>1, <2>1, CallsTail, CallsInOrderTail
<1>3. /\ client' \in {client, "CLOSING"}
      /\ \/ jobs' = jobs
         \/ \E job \in Jobs :
              job.task \notin OfApp \cup {"clientSend"} /\ jobs' = Append(jobs, job)
  <2>1. /\ Job("close", 0) \in Jobs
        /\ Job("close", 0).task \notin OfApp \cup {"clientSend"}
    BY DEF Job, Jobs, OfApp
  <2> QED
    BY <2>1 DEF KClose
<1>4. made \in Nat /\ made' \in Nat /\ made <= made'
  BY <1>1, BoundsAssumption DEF TypeOK
<1>5. Quiet'
  BY <1>1, <1>2, <1>3, <1>4, QuietFrame
<1>6. Delivers(calls') \subseteq Delivers(calls)
  BY <1>2 DEF Delivers
<1>7. \A n \in Nat : n <= used.app => n <= used'.app
  OBVIOUS
<1> QED
  BY <1>2, <1>3, <1>5, <1>6, <1>7, FrameMInv

\* handleMockClose() and handleRealClose()
LEMMA CloseListenerMInv ==
  ASSUME IInv, MInv, MockClose \/ RealClose PROVE MInv'
PROOF
<1>1. TypeOK
  BY View
<1>2. CASE MockClose
  <2>1. /\ calls # <<>> /\ calls' = Tail(calls) /\ Head(calls).listener = "mockClose"
    BY <1>2 DEF MockClose, Calling, GoOn
  <2>2. made > 0
    BY <1>2, CallingHead DEF MockClose, CallOK
  <2>3. made \in Sockets /\ real[made].state # "none" /\ real[made] \in RealSocket
    BY <2>2, LastIsReal
  <2>4. \A c \in Sockets : Still(c)
    <3> DEFINE w == Closing(real[made])
    <3>1. real' = [real EXCEPT ![made] = w]
      BY <1>2 DEF MockClose
    <3>2. /\ w.sent = real[made].sent /\ w.pending = real[made].pending
          /\ w.state = IF real[made].state \in Shut THEN real[made].state ELSE "CLOSING"
      BY <2>3 DEF Closing, RealSocket
    <3> HIDE DEF w
    <3>3. w.state = real[made].state \/ w.state \in Shut
      BY <3>2 DEF Shut
    <3> QED
      BY <1>1, <2>3, <3>1, <3>2, <3>3, OneStill
  <2> QED
    BY <1>2, <2>1, <2>4, ListenerMInv DEF MockClose, setting, history
<1>3. CASE RealClose
  <2>1. /\ calls # <<>> /\ calls' = Tail(calls) /\ Head(calls).listener = "realClose"
    BY <1>3 DEF RealClose, Calling, GoOn
  <2>2. \A c \in Sockets : Still(c)
    <3>1. \A c \in Sockets : DOMAIN real[c] = {"state", "pending", "sent", "closes", "shut"}
      BY <1>1 DEF TypeOK, RealSocket
    <3>2. DOMAIN real = Sockets
      BY <1>1 DEF TypeOK
    <3>3. CASE real' = real
      BY <3>3 DEF Still
    <3>4. CASE real' = [real EXCEPT ![Head(calls).conn].closes = @ + 1]
      <4>1. \A c \in Sockets :
              real'[c].sent = real[c].sent /\ real'[c].pending = real[c].pending
              /\ real'[c].state = real[c].state
        BY <3>1, <3>2, <3>4
      <4> QED
        BY <4>1 DEF Still
    <3> QED
      BY <1>3, <3>3, <3>4 DEF RealClose
  <2>3. UNCHANGED <<client, jobs>> \/ KClose(jobs)
    BY <1>3 DEF RealClose
  <2> QED
    BY <1>3, <2>1, <2>2, <2>3, ListenerMInv DEF RealClose, setting
<1> QED
  BY <1>2, <1>3

\* server.close() and its event.
LEMMA ServerCloseMInv ==
  ASSUME IInv, MInv, ServerClose \/ RunServerClose PROVE MInv'
PROOF
<1>1. /\ DOMAIN real = Sockets
      /\ \A c \in Sockets : DOMAIN real[c] = {"state", "pending", "sent", "closes", "shut"}
  BY View DEF TypeOK, RealSocket
<1>2. /\ UNCHANGED <<platform, hasListeners, queued, calls, used, seen, made, late, client>>
      /\ \A n \in Nat : n <= used.app => n <= used'.app
  BY DEF ServerClose, RunServerClose, setting, turn, history
<1>3. CASE ServerClose
  <2>1. \A c \in Sockets : Still(c)
    <3>1. CASE UNCHANGED real
      BY <3>1 DEF Still
    <3>2. CASE /\ real[made].state \notin Shut
               /\ real' = [real EXCEPT ![made] = [Closing(@) EXCEPT !.shut = TRUE]]
      <4>1. \A c \in Sockets :
              /\ real'[c].sent = real[c].sent /\ real'[c].pending = real[c].pending
              /\ real'[c].state \in {real[c].state, "CLOSING"}
        BY <1>1, <3>2 DEF Closing
      <4> QED
        BY <4>1 DEF Still, Shut
    <3> QED
      BY <1>3, <3>1, <3>2 DEF ServerClose
  <2>2. made \in Nat
    BY View, BoundsAssumption DEF TypeOK
  <2>3. /\ Job("serverClose", made) \in Jobs
        /\ Job("serverClose", made).task \notin OfApp \cup {"clientSend"}
    BY <2>2 DEF Job, Jobs, OfApp
  <2>4. jobs' = jobs \/ jobs' = Append(jobs, Job("serverClose", made))
    BY <1>3 DEF ServerClose
  <2> QED
    BY <1>2, <2>1, <2>3, <2>4, QuietStepMInv
<1>4. CASE RunServerClose
  <2>1. \A c \in Sockets : Still(c)
    <3>1. \A c \in Sockets :
            /\ real'[c].sent = real[c].sent /\ real'[c].pending = real[c].pending
            /\ real'[c].state = real[c].state
      BY <1>1, <1>4 DEF RunServerClose
    <3> QED
      BY <3>1 DEF Still
  <2>2. jobs # <<>> /\ jobs' = Tail(jobs)
    BY <1>4 DEF RunServerClose, Running
  <2> QED
    BY <1>2, <2>1, <2>2, QuietStepMInv
<1> QED
  BY <1>3, <1>4

\* A message or a closure of the original server; what is still delivered is not of
\* client.send().
LEMMA NetworkMInv ==
  ASSUME NEW c \in Sockets, IInv, MInv, RealMessage(c) \/ RealCloses(c) \/ RealFails(c)
  PROVE  MInv'
PROOF
<1>1. TypeOK /\ RealsOK /\ LoneOK /\ Quiet
  BY View, MessageView
<1>2. /\ Idle /\ jobs' = jobs
      /\ UNCHANGED <<platform, hasListeners, queued, used, client, made, late>>
      /\ seen' \in {seen, Told("error")}
      /\ \A n \in Nat : n <= used.app => n <= used'.app
  BY DEF RealMessage, RealCloses, RealFails, setting, history
<1>3. /\ seen'.got = seen.got /\ seen'.opens = seen.opens
      /\ seen'.after \subseteq seen.after \cup {"error"}
  BY <1>1, <1>2, ToldView
<1>4. made \in Nat /\ made' \in Nat /\ made <= made'
  BY <1>1, <1>2, BoundsAssumption DEF TypeOK
<1>5. CASE RealMessage(c)
  <2> DEFINE x0 == Call("deliver", 0, c)
  <2>1. calls' = <<x0>> /\ x0.listener = "deliver" /\ x0.n = 0
    BY <1>5 DEF RealMessage, YieldTo, Call
  <2> HIDE DEF x0
  <2>2. DOMAIN calls' = {1} /\ ToSet(calls') = {x0}
    BY <2>1 DEF ToSet
  <2>3. /\ CallsInOrder(platform, calls') /\ Delivers(calls') = {}
        /\ \A x \in ToSet(calls') : x.listener # "flush"
    BY <2>1, <2>2 DEF CallsInOrder, Delivers
  <2>4. real[c].state = "OPEN" /\ seen' = seen /\ real' = real
    BY <1>5 DEF RealMessage
  <2>5. ASSUME made <= 1, ~late, client = "CLOSED" PROVE FALSE
    <3>1. c <= made /\ c \in Nat /\ c >= 1
      BY <1>1, <2>4 DEF RealsOK, RealOK, Sockets
    <3>2. c = 1 /\ made = 1
      BY <1>4, <2>5, <3>1
    <3>3. ~MockClosePending
      BY <1>2, NothingQueued DEF MockClosePending
    <3> QED
      BY <1>1, <2>4, <2>5, <3>2, <3>3 DEF LoneOK, Shut
  <2>6. Quiet'
    BY <1>1, <1>2, <2>4, <2>5 DEF Quiet
  <2>7. \A d \in Sockets : Still(d)
    BY <2>4 DEF Still
  <2> QED
    BY <1>2, <1>3, <2>3, <2>6, <2>7, FrameMInv
<1>6. CASE RealCloses(c) \/ RealFails(c)
  <2> DEFINE x0 == Call("realClose", 0, c)
  <2>1. (calls' = <<x0>> \/ calls' = <<>>) /\ x0.listener = "realClose"
    BY <1>6 DEF RealCloses, RealFails, YieldTo, GoOn, CloseCalls, Call
  <2> HIDE DEF x0
  <2>2. /\ \A i \in DOMAIN calls' : i = 1
        /\ \A x \in ToSet(calls') : x = x0
    BY <2>1 DEF ToSet
  <2>3. /\ CallsInOrder(platform, calls') /\ Delivers(calls') = {}
        /\ \A x \in ToSet(calls') : x.listener \notin {"flush", "deliver"}
    BY <2>1, <2>2 DEF CallsInOrder, Delivers
  <2>4. Quiet'
    BY <1>1, <1>2, <1>3, <1>4, <2>3, QuietFrame
  <2>5. \A d \in Sockets : Still(d)
    <3>1. /\ DOMAIN real = Sockets
          /\ \A d \in Sockets : DOMAIN real[d] = {"state", "pending", "sent", "closes", "shut"}
      BY <1>1 DEF TypeOK, RealSocket
    <3>2. real' = [real EXCEPT ![c].state = "CLOSED"]
      BY <1>6 DEF RealCloses, RealFails
    <3>3. \A d \in Sockets :
            /\ real'[d].sent = real[d].sent /\ real'[d].pending = real[d].pending
            /\ real'[d].state \in {real[d].state, "CLOSED"}
      BY <3>1, <3>2
    <3> QED
      BY <3>3 DEF Still, Shut
  <2> QED
    BY <1>2, <1>3, <2>3, <2>4, <2>5, FrameMInv
<1> QED
  BY <1>5, <1>6

-----------------------------------------------------------------------------
(* What client.send() sends.                                               *)

\* Every number in the queues is a natural number.
LEMMA Numbers ==
  ASSUME IInv
  PROVE  /\ \A j \in ToSet(jobs) : j \in Jobs /\ j.n \in Nat
         /\ \A x \in ToSet(calls) : x \in Calls /\ x.n \in Nat
         /\ \A n \in ToSet(queued) \cup ToSet(seen.got) : n \in Message
         /\ \A n \in Message : n \in Nat
         /\ used.app \in Nat /\ used.client \in Nat
         /\ queued \in Seq(Message) /\ seen.got \in Seq(Message)
PROOF
<1>1. TypeOK
  BY View
<1>2. queued \in Seq(Message) /\ seen.got \in Seq(Message)
  BY <1>1 DEF TypeOK
<1>3. \A i \in DOMAIN jobs : jobs[i] \in Jobs
  <2>1. jobs \in Seq(Jobs)
    BY <1>1 DEF TypeOK
  <2> QED
    BY <2>1
<1>4. \A i \in DOMAIN calls : calls[i] \in Calls
  <2>1. calls \in Seq(Calls)
    BY <1>1 DEF TypeOK
  <2> QED
    BY <2>1
<1>5. /\ \A i \in DOMAIN queued : queued[i] \in Message
      /\ \A i \in DOMAIN seen.got : seen.got[i] \in Message
  BY <1>2
<1>6. /\ \A j \in ToSet(jobs) : j \in Jobs
      /\ \A x \in ToSet(calls) : x \in Calls
      /\ \A n \in ToSet(queued) \cup ToSet(seen.got) : n \in Message
  BY <1>3, <1>4, <1>5 DEF ToSet
<1>7. (\A j \in Jobs : j.n \in Nat) /\ (\A x \in Calls : x.n \in Nat)
  BY DEF Jobs, Calls
<1>8. \A n \in Message : n \in Nat
  BY BoundsAssumption DEF Message
<1>9. used.app \in Nat /\ used.client \in Nat
  BY <1>1, BoundsAssumption DEF TypeOK
<1> QED
  BY <1>2, <1>6, <1>7, <1>8, <1>9

\* In the first state there is no message.
LEMMA InitMInv == Init => MInv
PROOF
<1> SUFFICES ASSUME Init PROVE MInv
  OBVIOUS
<1> DEFINE j0 == Job("connection", 0)
<1>1. jobs = <<j0>> /\ calls = <<>> /\ j0.task = "connection"
  BY DEF Init, Job
<1> HIDE DEF j0
<1>2. /\ DOMAIN jobs = {1} /\ jobs[1] = j0 /\ ToSet(jobs) = {j0}
      /\ DOMAIN calls = {} /\ ToSet(calls) = {}
  BY <1>1 DEF ToSet
<1>3. JobsInOrder(platform, jobs) /\ CallsInOrder(platform, calls)
  BY <1>1, <1>2 DEF JobsInOrder, CallsInOrder, OfApp
<1>4. AppSends(jobs) = {} /\ ClientSends(jobs) = {} /\ Delivers(calls) = {}
  BY <1>1, <1>2 DEF AppSends, ClientSends, Delivers, OfApp
<1>5. \A c \in Sockets : Flushes(calls, c) = {}
  BY <1>2 DEF Flushes
<1>6. /\ seen.got = <<>> /\ queued = <<>> /\ client = "CONNECTING"
      /\ DOMAIN <<>> = {} /\ ToSet(<<>>) = {} /\ seen.after = {}
  BY DEF Init, ToSet
<1>7. MockOrder
  BY <1>4, <1>6 DEF MockOrder, Increasing
<1>8. \A c \in Sockets :
        real[c].sent = <<>> /\ real[c].pending = <<>> /\ real[c].state = "none"
  BY DEF Init
<1>9. Lines
  BY <1>5, <1>6, <1>8 DEF Lines, Line, Rising
<1>10. \A c \in Sockets, n \in Message : ~Holds(real[c], Flushes(calls, c), n)
  BY <1>5, <1>6, <1>8 DEF Holds
<1>11. AppOrder
  BY <1>4, <1>9, <1>10 DEF AppOrder, HeldOnce
<1>12. Quiet
  BY <1>6 DEF Quiet
<1> QED
  BY <1>3, <1>7, <1>11, <1>12, MessageView

\* Steps that concern client.send() only.
LEMMA ClientStepMInv ==
  ASSUME IInv, MInv, UNCHANGED <<platform, real, made, late>>, used'.app = used.app,
         JobsInOrder(platform, jobs'), CallsInOrder(platform, calls'),
         AppSends(jobs') \subseteq AppSends(jobs),
         \A x \in ToSet(calls') : x.listener = "flush" => x \in ToSet(calls),
         MockOrder', Quiet'
  PROVE  MInv'
PROOF
<1>1. AppOrder
  BY MessageView
<1>2. \A c \in Sockets : Still(c) /\ Flushes(calls', c) \subseteq Flushes(calls, c)
  BY DEF Still, Flushes
<1>3. \A j \in AppSends(jobs) : j.n \in Nat
  BY Numbers DEF AppSends
<1>4. AppOrder'
  BY <1>1, <1>2, <1>3, AppFrame
<1> QED
  BY <1>4, MessageView

\* client.send()
LEMMA ClientSendMInv == IInv /\ MInv /\ ClientSend => MInv'
PROOF
<1> SUFFICES ASSUME IInv, MInv, ClientSend PROVE MInv'
  OBVIOUS
<1>1. /\ TypeOK /\ MockOrder /\ Quiet
      /\ JobsInOrder(platform, jobs) /\ CallsInOrder(platform, calls)
  BY View, MessageView
<1> DEFINE k == used.client + 1
           job == Job("clientSend", k)
<1>2. k \in Nat /\ used.client \in Nat /\ \A n \in Nat : n <= used.client => n < k
  BY Numbers
<1>3. /\ hasListeners /\ used' = [used EXCEPT !.client = @ + 1]
      /\ jobs' = Append(jobs, Job("clientSend", used'.client))
      /\ UNCHANGED <<platform, hasListeners, client, calls, real, made, queued, late,
                     seen>>
  BY DEF ClientSend, DeveloperTurn, setting, turn, history
<1>4. used'.client = k /\ used'.app = used.app
  BY <1>1, <1>3 DEF TypeOK
<1>5. jobs' = Append(jobs, job)
  BY <1>3, <1>4
<1>6. job \in Jobs /\ job.task = "clientSend" /\ job.n = k
  BY <1>2 DEF Job, Jobs
<1> HIDE DEF job, k
<1>7. \A j \in ToSet(jobs) : j.task = "clientSend" => j.n < k
  BY <1>1, <1>2, Numbers DEF MockOrder, ClientSends
<1>8. jobs \in Seq(Jobs)
  BY <1>1 DEF TypeOK
<1>9. JobsInOrder(platform, jobs')
  BY <1>1, <1>5, <1>6, <1>7, <1>8, JobsInOrderAppend DEF OfApp
<1>10. /\ AppSends(jobs') = AppSends(jobs)
       /\ ClientSends(jobs') = ClientSends(jobs) \cup {job}
  <2>1. ToSet(jobs') = ToSet(jobs) \cup {job}
    BY <1>5, <1>6, <1>8, AppendSet
  <2> QED
    BY <1>6, <2>1 DEF AppSends, ClientSends, OfApp
<1>11. MockOrder'
  <2>1. /\ \A n \in ToSet(seen.got) \cup ToSet(queued) : n <= k /\ n < k
        /\ \A x \in Delivers(calls) : x.n <= k /\ x.n < k
        /\ \A j \in ClientSends(jobs) : j.n <= k
    BY <1>1, <1>2, Numbers DEF MockOrder, Delivers, ClientSends
  <2>2. job.n <= k
    BY <1>2, <1>6
  <2> QED
    BY <1>1, <1>3, <1>4, <1>6, <1>10, <2>1, <2>2 DEF MockOrder
<1>12. Quiet'
  BY <1>1, <1>3 DEF Quiet
<1> QED
  BY <1>1, <1>3, <1>4, <1>9, <1>10, <1>11, <1>12, ClientStepMInv

\* Its microtask.
LEMMA RunClientSendMInv == IInv /\ MInv /\ RunClientSend => MInv'
PROOF
<1> SUFFICES ASSUME IInv, MInv, RunClientSend PROVE MInv'
  OBVIOUS
<1> DEFINE h == Head(jobs)
           n == h.n
<1>1. /\ TypeOK /\ MockOrder /\ Quiet /\ AppOK
      /\ JobsInOrder(platform, jobs) /\ CallsInOrder(platform, calls)
  BY View, MessageView
<1>2. /\ Checkpoint /\ jobs # <<>> /\ h.task = "clientSend" /\ jobs' = Tail(jobs)
      /\ UNCHANGED <<platform, hasListeners, client, calls, real, made, used, late>>
  BY DEF RunClientSend, Running, setting, turn, history
<1>3. jobs \in Seq(Jobs) /\ Queue(jobs)
  BY <1>1, View DEF TypeOK, JobsOK
<1>4. ToSet(jobs') \subseteq ToSet(jobs) /\ h \in ToSet(jobs) /\ n \in Message
  BY <1>2, <1>3, QueueTail, RunningHead DEF RunClientSend, JobOK
<1>5. /\ JobsInOrder(platform, jobs')
      /\ \A j \in ToSet(jobs') : j.task = "clientSend" => n < j.n
  BY <1>1, <1>2, <1>3, JobsInOrderTail
<1> HIDE DEF n, h
<1>6. /\ hasListeners /\ n <= used.client
      /\ \A m \in ToSet(seen.got) \cup ToSet(queued) : m < n
  BY <1>1, <1>2, <1>4 DEF MockOrder, ClientSends, n
<1>7. /\ AppSends(jobs') \subseteq AppSends(jobs)
      /\ ClientSends(jobs') \subseteq ClientSends(jobs)
      /\ \A j \in ClientSends(jobs') : n < j.n
  BY <1>4, <1>5 DEF AppSends, ClientSends
<1>8. Delivers(calls) = {}
  BY <1>2, CheckpointCalls
<1>9. MockOrder' /\ Quiet'
  <2>1. CASE client \in Shut /\ UNCHANGED <<queued, seen>>
    <3>1. MockOrder'
      BY <1>1, <1>2, <1>7, <2>1, MockFrame
    <3> QED
      BY <1>1, <1>2, <2>1, <3>1 DEF Quiet
  <2>2. CASE client = "CONNECTING" /\ UNCHANGED seen /\ queued' = Append(queued, n)
    <3>1. /\ Increasing(queued') /\ ToSet(queued') = ToSet(queued) \cup {n}
          /\ queued \in Seq(Message)
      BY <1>1, <1>4, <1>6, <2>2, Numbers, AppendIncreasing DEF MockOrder
    <3>2. seen.opens = 0
      BY <1>1, <1>6, <2>2 DEF AppOK
    <3>3. MockOrder'
      BY <1>1, <1>2, <1>6, <1>7, <1>8, <2>2, <3>1, <3>2 DEF MockOrder
    <3> QED
      BY <1>1, <1>2, <2>2, <3>3 DEF Quiet
  <2>3. CASE client = "OPEN" /\ UNCHANGED queued /\ seen' = ToldMessage(n)
    <3>1. /\ seen'.opens = seen.opens /\ seen'.after = seen.after
          /\ seen'.got = IF n = 0 THEN seen.got ELSE Append(seen.got, n)
      BY <1>1, <2>3, ToldView
    <3>2. /\ Increasing(seen'.got) /\ ToSet(seen'.got) \subseteq ToSet(seen.got) \cup {n}
      BY <1>1, <1>4, <1>6, <3>1, Numbers, AppendIncreasing DEF MockOrder
    <3>3. seen.opens = 1 /\ queued = <<>> /\ ToSet(queued) = {}
      BY <1>1, <2>3 DEF MockOrder, ToSet
    <3>4. MockOrder'
      BY <1>1, <1>2, <1>6, <1>7, <1>8, <2>3, <3>1, <3>2, <3>3 DEF MockOrder
    <3> QED
      BY <1>1, <1>2, <2>3, <3>1, <3>4 DEF Quiet
  <2> QED
    BY <2>1, <2>2, <2>3 DEF RunClientSend, n, h
<1> QED
  BY <1>1, <1>2, <1>5, <1>7, <1>9, ClientStepMInv

\* What waits for "open" will be delivered before anything else.
LEMMA OpenMInv == IInv /\ MInv /\ Open => MInv'
PROOF
<1> SUFFICES ASSUME IInv, MInv, Open PROVE MInv'
  OBVIOUS
<1>1. /\ TypeOK /\ MockOrder /\ Quiet /\ AppOK /\ CallsOK
      /\ JobsInOrder(platform, jobs) /\ CallsInOrder(platform, calls)
  BY View, MessageView
<1>2. /\ Checkpoint /\ hasListeners
      /\ UNCHANGED <<platform, hasListeners, jobs, real, made, used, late>>
  BY <1>1 DEF Open, setting, history, AppOK
<1>3. CASE client # "CONNECTING"
  <2>1. \A c \in Sockets : Still(c)
    BY <1>2 DEF Still
  <2>2. UNCHANGED <<client, seen, calls, queued>>
    BY <1>3 DEF Open, turn
  <2> QED
    BY <1>2, <2>1, <2>2, QuietStepMInv
<1>4. CASE client = "CONNECTING"
  <2> DEFINE new == [i \in DOMAIN queued |-> Call("deliver", queued[i], 0)]
  <2>1. /\ client' = "OPEN" /\ seen' = ToldOpen /\ queued' = <<>>
        /\ calls' = new \o calls
    BY <1>4 DEF Open, YieldTo
  <2>2. queued \in Seq(Message) /\ Increasing(queued) /\ calls \in Seq(Calls)
    BY <1>1, Numbers DEF MockOrder, TypeOK
  <2>3. /\ new \in Seq(Calls)
        /\ \A x \in ToSet(new) : x.listener = "deliver" /\ x.n \in Message
    <3>1. 0 \in 0..Connections
      BY BoundsAssumption
    <3> QED
      BY <2>2, <3>1, CallsOfMessages
  <2>4. CallsInOrder(platform, new) /\ \A x \in ToSet(new) : x.n \in ToSet(queued)
    <3>1. /\ DOMAIN new = DOMAIN queued
          /\ \A i \in DOMAIN queued : new[i].listener = "deliver" /\ new[i].n = queued[i]
      BY DEF Call
    <3> HIDE DEF new
    <3> QED
      BY <2>2, <3>1, MessagesInOrder
  <2> HIDE DEF new
  <2>5. /\ \A x \in ToSet(calls) : x.listener \in TopLevel
        /\ Delivers(calls) = {}
    BY <1>2, CheckpointCalls
  <2>6. CallsInOrder(platform, calls')
    <3>1. \A x \in ToSet(new) : x.listener \notin TopLevel
      BY <2>3 DEF TopLevel
    <3> QED
      BY <1>1, <2>1, <2>2, <2>3, <2>4, <2>5, <3>1, CallsInOrderPrepend
  <2>7. ToSet(calls') = ToSet(new) \cup ToSet(calls)
    <3>1. \A x \in ToSet(new) : x.listener # "realClose"
      BY <2>3
    <3> QED
      BY <1>1, <2>1, <2>3, <3>1, CallsPrepend DEF CallsOK
  <2>8. /\ \A x \in Delivers(calls') : x.n \in ToSet(queued)
        /\ \A x \in ToSet(calls') : x.listener = "flush" => x \in ToSet(calls)
    BY <2>3, <2>4, <2>5, <2>7 DEF Delivers
  <2>9. seen.opens = 0 /\ seen.got = <<>>
    BY <1>1, <1>2, <1>4 DEF AppOK, MockOrder
  <2>10. seen'.opens = 1 /\ seen'.got = seen.got /\ seen'.after = seen.after
    BY <1>1, <1>4, <2>1, <2>9, ToldView
  <2>11. MockOrder'
    <3>1. ToSet(queued') = {} /\ ToSet(seen'.got) = {} /\ Increasing(queued')
      BY <2>1, <2>9, <2>10 DEF ToSet, Increasing
    <3> QED
      BY <1>1, <1>2, <2>1, <2>8, <2>9, <2>10, <3>1 DEF MockOrder
  <2>12. Quiet'
    BY <1>1, <1>2, <2>1, <2>10 DEF Quiet
  <2> QED
    BY <1>1, <1>2, <2>6, <2>8, <2>11, <2>12, ClientStepMInv
<1> QED
  BY <1>3, <1>4

\* A "message" event of the client.
LEMMA DeliverMInv == IInv /\ MInv /\ Deliver => MInv'
PROOF
<1> SUFFICES ASSUME IInv, MInv, Deliver PROVE MInv'
  OBVIOUS
<1> DEFINE h == Head(calls)
           n == h.n
<1>1. /\ TypeOK /\ MockOrder /\ Quiet
      /\ JobsInOrder(platform, jobs) /\ CallsInOrder(platform, calls)
  BY View, MessageView
<1>2. /\ calls # <<>> /\ h.listener = "deliver" /\ calls' = Tail(calls)
      /\ seen' = ToldMessage(n)
      /\ UNCHANGED <<platform, hasListeners, client, jobs, real, made, queued, used,
                     late>>
  BY DEF Deliver, Calling, YieldTo, setting, history
<1>3. calls \in Seq(Calls) /\ CallQueue(calls)
  BY <1>1, View DEF TypeOK, CallsOK
<1>4. ToSet(calls') \subseteq ToSet(calls) /\ h \in ToSet(calls) /\ n \in Message
  BY <1>2, <1>3, CallsTail, CallingHead DEF Deliver, CallOK
<1>5. /\ CallsInOrder(platform, calls')
      /\ \A x \in ToSet(calls') :
           x.listener = "deliver" => (n > 0 /\ x.n > 0 => n < x.n)
  BY <1>1, <1>2, <1>3, CallsInOrderTail
<1>6. n > 0 => h \in Delivers(calls)
  BY <1>2, <1>4 DEF Delivers
<1> HIDE DEF h, n
<1>7. Delivers(calls') \subseteq Delivers(calls)
  BY <1>4 DEF Delivers
<1>8. /\ seen'.opens = seen.opens
      /\ seen'.got = IF n = 0 THEN seen.got ELSE Append(seen.got, n)
      /\ seen'.after = Told("message").after
      /\ client # "CLOSED" => seen'.after = seen.after
  BY <1>1, <1>2, ToldView
<1>9. Quiet'
  BY <1>1, <1>2, <1>4, <1>8 DEF Quiet
<1>10. MockOrder'
  <2>1. CASE n = 0
    BY <1>1, <1>2, <1>7, <1>8, <2>1, MockFrame
  <2>2. CASE n # 0
    <3>1. n > 0 /\ n \in Nat
      BY <1>4, <2>2, Numbers
    <3>2. /\ n <= used.client /\ seen.opens = 1
          /\ \A m \in ToSet(seen.got) : m < n
          /\ \A j \in ClientSends(jobs) : n < j.n
      BY <1>1, <1>6, <3>1 DEF MockOrder, n
    <3>3. /\ Increasing(seen'.got) /\ ToSet(seen'.got) = ToSet(seen.got) \cup {n}
      BY <1>1, <1>4, <1>8, <2>2, <3>2, Numbers, AppendIncreasing DEF MockOrder
    <3>4. \A x \in Delivers(calls') : n < x.n
      BY <1>5, <3>1 DEF Delivers
    <3> QED
      BY <1>1, <1>2, <1>7, <1>8, <3>2, <3>3, <3>4 DEF MockOrder
  <2> QED
    BY <2>1, <2>2
<1>11. \A x \in ToSet(calls') : x.listener = "flush" => x \in ToSet(calls)
  BY <1>4
<1> QED
  BY <1>1, <1>2, <1>5, <1>9, <1>10, <1>11, ClientStepMInv

-----------------------------------------------------------------------------
(* What the application sends.                                             *)

\* Steps that concern ws.send() only.
LEMMA AppStepMInv ==
  ASSUME IInv, MInv, UNCHANGED <<platform, hasListeners, client, made, late, queued, seen>>,
         used'.client = used.client,
         JobsInOrder(platform, jobs'), CallsInOrder(platform, calls'),
         ClientSends(jobs') \subseteq ClientSends(jobs),
         \A x \in ToSet(calls') : x.listener = "deliver" => x \in ToSet(calls),
         AppOrder'
  PROVE  MInv'
PROOF
<1>1. MockOrder /\ Quiet
  BY MessageView
<1>2. Delivers(calls') \subseteq Delivers(calls)
  BY DEF Delivers
<1>3. MockOrder'
  BY <1>1, <1>2, MockFrame
<1>4. Quiet'
  BY <1>1 DEF Quiet
<1> QED
  BY <1>3, <1>4, MessageView

\* ws.send(): the message is later than those on their way.
LEMMA AppSendMInv == IInv /\ MInv /\ AppSend => MInv'
PROOF
<1> SUFFICES ASSUME IInv, MInv, AppSend PROVE MInv'
  OBVIOUS
<1>1. /\ TypeOK /\ AppOrder
      /\ JobsInOrder(platform, jobs) /\ CallsInOrder(platform, calls)
  BY View, MessageView
<1>2. CASE client = "CONNECTING"
  BY <1>2, CloseMInv
<1>3. CASE client = "OPEN"
  <2> DEFINE k == used.app + 1
             job == Job("onSend", k)
  <2>1. /\ k \in Nat /\ k > 0 /\ used.app \in Nat
        /\ \A n \in Nat : n <= used.app => n < k /\ n <= k /\ Earlier(platform, n, k)
    BY Numbers DEF Earlier
  <2>2. /\ used' = [used EXCEPT !.app = @ + 1]
        /\ jobs' = Append(jobs, Job("onSend", used'.app))
        /\ UNCHANGED <<platform, hasListeners, client, calls, real, made, queued, late,
                       seen>>
    BY <1>3 DEF AppSend, setting, turn, history
  <2>3. used'.app = k /\ used'.client = used.client
    BY <1>1, <2>2 DEF TypeOK
  <2>4. jobs' = Append(jobs, job)
    BY <2>2, <2>3
  <2>5. job \in Jobs /\ job.task = "onSend" /\ job.n = k
    BY <2>1 DEF Job, Jobs
  <2> HIDE DEF job, k
  <2>6. \A j \in AppSends(jobs) : j.n <= used.app /\ j.n <= k /\ Earlier(platform, j.n, k)
    BY <1>1, <2>1, Numbers DEF AppOrder, AppSends
  <2>7. jobs \in Seq(Jobs)
    BY <1>1 DEF TypeOK
  <2>8. JobsInOrder(platform, jobs')
    BY <1>1, <2>4, <2>5, <2>6, <2>7, JobsInOrderAppend DEF AppSends, OfApp
  <2>9. /\ AppSends(jobs') = AppSends(jobs) \cup {job}
        /\ ClientSends(jobs') = ClientSends(jobs)
    <3>1. ToSet(jobs') = ToSet(jobs) \cup {job}
      BY <2>4, <2>5, <2>7, AppendSet
    <3> QED
      BY <2>5, <3>1 DEF AppSends, ClientSends, OfApp
  <2>10. \A c \in Sockets, n \in Message :
           Holds(real[c], Flushes(calls, c), n) => n <= k /\ Earlier(platform, n, k)
    BY <1>1, <2>1, Numbers DEF AppOrder, HeldOnce
  <2>11. k <= k
    BY <2>1
  <2>12. AppOrder'
    <3>1. Lines'
      BY <1>1, <2>2 DEF AppOrder, Lines
    <3>2. HeldOnce'
      BY <1>1, <2>2, <2>3, <2>5, <2>9, <2>10 DEF AppOrder, HeldOnce
    <3> QED
      BY <2>3, <2>5, <2>6, <2>9, <2>11, <3>1, <3>2 DEF AppOrder
  <2> QED
    BY <1>1, <2>2, <2>3, <2>8, <2>9, <2>12, AppStepMInv
<1> QED
  BY <1>1, <1>2, <1>3 DEF AppSend, TypeOK, States, Shut

\* The "outgoing" event: the forwarding of a message comes after those of earlier ones.
LEMMA RunOnSendMInv == IInv /\ MInv /\ RunOnSend => MInv'
PROOF
<1> SUFFICES ASSUME IInv, MInv, RunOnSend PROVE MInv'
  OBVIOUS
<1> DEFINE h == Head(jobs)
           n == h.n
           rest == Tail(jobs)
           job == Job("forward", n)
<1>1. /\ TypeOK /\ AppOrder
      /\ JobsInOrder(platform, jobs) /\ CallsInOrder(platform, calls)
  BY View, MessageView
<1>2. /\ jobs # <<>> /\ h.task = "onSend"
      /\ jobs' = rest \/ jobs' = Append(rest, job)
      /\ UNCHANGED <<platform, hasListeners, client, calls, real, made, queued, late,
                     used, seen>>
  BY DEF RunOnSend, Running, setting, turn, history
<1>3. jobs \in Seq(Jobs) /\ Queue(jobs)
  BY <1>1, View DEF TypeOK, JobsOK
<1>4. /\ rest \in Seq(Jobs) /\ ToSet(rest) \subseteq ToSet(jobs) /\ h \in ToSet(jobs)
      /\ n \in Nat
  BY <1>2, <1>3, QueueTail, Numbers DEF Queue
<1>5. /\ JobsInOrder(platform, rest)
      /\ \A j \in ToSet(rest) :
           /\ j.task = "onSend" => Earlier(platform, n, j.n)
           /\ j.task = "forward" => Earlier(platform, j.n, n)
  BY <1>1, <1>2, <1>3, JobsInOrderTail DEF OfApp
<1>6. job \in Jobs /\ job.task = "forward" /\ job.n = n
  BY <1>4 DEF Job, Jobs
<1> HIDE DEF h, n, rest, job
<1>7. h \in AppSends(jobs)
  BY <1>2, <1>4 DEF AppSends, OfApp
<1>8. JobsInOrder(platform, Append(rest, job))
  BY <1>4, <1>5, <1>6, JobsInOrderAppend
<1>9. ToSet(Append(rest, job)) = ToSet(rest) \cup {job}
  BY <1>4, <1>6, AppendSet
<1>10. /\ AppSends(jobs') \subseteq AppSends(jobs) \cup {job}
       /\ ClientSends(jobs') \subseteq ClientSends(jobs)
       /\ JobsInOrder(platform, jobs')
  BY <1>2, <1>4, <1>5, <1>6, <1>8, <1>9 DEF AppSends, ClientSends
<1>11. /\ job.n <= used.app
       /\ \A c \in Sockets, m \in Message :
            Holds(real[c], Flushes(calls, c), m) => Earlier(platform, m, job.n)
  BY <1>1, <1>6, <1>7 DEF AppOrder, HeldOnce, n
<1>12. AppOrder'
  <2>1. Lines'
    BY <1>1, <1>2 DEF AppOrder, Lines
  <2>2. HeldOnce'
    BY <1>1, <1>2, <1>10, <1>11 DEF AppOrder, HeldOnce
  <2> QED
    BY <1>1, <1>2, <1>10, <1>11, <2>1, <2>2 DEF AppOrder
<1> QED
  BY <1>1, <1>2, <1>10, <1>12, AppStepMInv

\* A message is handed to a real WebSocket that everything it holds is earlier than.
LEMMA SentAppOrder ==
  ASSUME IInv, MInv, NEW d \in Sockets, NEW n \in Message,
         real' = [real EXCEPT ![d] = Sent(@, n)],
         UNCHANGED platform, used'.app = used.app,
         \A c \in Sockets : Flushes(calls', c) \subseteq Flushes(calls, c),
         AppSends(jobs') \subseteq AppSends(jobs),
         n <= used.app,
         \A m \in ToSet(real[d].sent) \cup ToSet(real[d].pending) : Earlier(platform, m, n),
         \A x \in Flushes(calls', d) : Earlier(platform, n, x.n),
         \A j \in AppSends(jobs') : Earlier(platform, n, j.n),
         n > 0 => \A c \in Sockets : Holds(real[c], Flushes(calls', c), n) => c = d
  PROVE  AppOrder'
PROOF
<1> DEFINE ws == real[d]
           w == Sent(ws, n)
<1>1. TypeOK /\ AppOrder
  BY View, MessageView
<1>2. ws \in RealSocket /\ ws.sent \in Seq(Message) /\ ws.pending \in Seq(Message)
  BY <1>1 DEF TypeOK, RealSocket
<1>3. /\ w.state = ws.state
      /\ w.sent = IF ws.state = "OPEN" THEN Append(ws.sent, n) ELSE ws.sent
      /\ w.pending = IF ws.state = "CONNECTING" THEN Append(ws.pending, n) ELSE ws.pending
  BY <1>2 DEF Sent, RealSocket
<1>4. real'[d] = w /\ \A c \in Sockets \ {d} : real'[c] = real[c]
  BY <1>1 DEF TypeOK
<1>5. Line(platform, ws, Flushes(calls, d))
  BY <1>1 DEF AppOrder, Lines
<1>6. /\ ToSet(w.sent) \subseteq ToSet(ws.sent) \cup {n}
      /\ ToSet(w.pending) \subseteq ToSet(ws.pending) \cup {n}
      /\ Rising(platform, w.sent) /\ Rising(platform, w.pending)
  <2>1. Rising(platform, ws.sent) /\ Rising(platform, ws.pending)
    BY <1>5 DEF Line
  <2> HIDE DEF ws, w
  <2>2. /\ Rising(platform, Append(ws.sent, n))
        /\ ToSet(Append(ws.sent, n)) = ToSet(ws.sent) \cup {n}
    BY <1>2, <2>1, AppendRising DEF ws
  <2>3. /\ Rising(platform, Append(ws.pending, n))
        /\ ToSet(Append(ws.pending, n)) = ToSet(ws.pending) \cup {n}
    BY <1>2, <2>1, AppendRising DEF ws
  <2> QED
    BY <1>3, <2>1, <2>2, <2>3
<1> HIDE DEF w
<1>7. Line(platform, w, Flushes(calls', d))
  BY <1>3, <1>5, <1>6 DEF Line
<1>8. Lines'
  <2>1. ASSUME NEW c \in Sockets PROVE Line(platform', real'[c], Flushes(calls', c))
    <3>1. CASE c = d
      BY <1>4, <1>7, <3>1
    <3>2. CASE c # d
      BY <1>1, <1>4, <3>2 DEF AppOrder, Lines, Line
    <3> QED
      BY <3>1, <3>2
  <2> QED
    BY <2>1 DEF Lines
<1>9. ASSUME NEW c \in Sockets, NEW m \in Message, Holds(real'[c], Flushes(calls', c), m)
      PROVE  Holds(real[c], Flushes(calls', c), m) \/ (c = d /\ m = n)
  <2>1. CASE c = d
    BY <1>4, <1>6, <1>9, <2>1 DEF Holds
  <2>2. CASE c # d
    BY <1>4, <1>9, <2>2
  <2> QED
    BY <2>1, <2>2
<1>10. \A c \in Sockets, m \in Message :
         Holds(real[c], Flushes(calls', c), m) => Holds(real[c], Flushes(calls, c), m)
  BY DEF Holds
<1>11. HeldOnce'
  <2>1. HeldOnce
    BY <1>1 DEF AppOrder
  <2>2. ASSUME NEW c \in Sockets, NEW m \in Message, Holds(real'[c], Flushes(calls', c), m)
        PROVE  /\ m <= used.app
               /\ \A j \in AppSends(jobs') : Earlier(platform, m, j.n)
    <3>1. CASE Holds(real[c], Flushes(calls, c), m)
      BY <2>1, <3>1 DEF HeldOnce
    <3>2. CASE m = n
      BY <3>2
    <3> QED
      BY <1>9, <1>10, <2>2, <3>1, <3>2
  <2>3. ASSUME NEW c \in Sockets, NEW e \in Sockets, NEW m \in Message, m > 0,
               Holds(real'[c], Flushes(calls', c), m),
               Holds(real'[e], Flushes(calls', e), m)
        PROVE  c = e
    <3>1. CASE m = n
      BY <1>9, <2>3, <3>1
    <3>2. CASE m # n
      BY <1>9, <1>10, <2>1, <2>3, <3>2 DEF HeldOnce
    <3> QED
      BY <3>1, <3>2
  <2> QED
    BY <2>2, <2>3 DEF HeldOnce
<1> QED
  BY <1>1, <1>8, <1>11 DEF AppOrder

\* The forwarding of a message.
LEMMA RunForwardMInv == IInv /\ MInv /\ RunForward => MInv'
PROOF
<1> SUFFICES ASSUME IInv, MInv, RunForward PROVE MInv'
  OBVIOUS
<1> DEFINE h == Head(jobs)
           n == h.n
<1>1. /\ TypeOK /\ AppOrder
      /\ JobsInOrder(platform, jobs) /\ CallsInOrder(platform, calls)
  BY View, MessageView
<1>2. /\ Checkpoint /\ jobs # <<>> /\ h.task = "forward" /\ jobs' = Tail(jobs)
      /\ real' = [real EXCEPT ![made] = Sent(@, n)]
      /\ UNCHANGED <<platform, hasListeners, client, calls, made, queued, late, used, seen>>
  BY DEF RunForward, Running, setting, turn, history
<1>3. jobs \in Seq(Jobs) /\ Queue(jobs)
  BY <1>1, View DEF TypeOK, JobsOK
<1>4. /\ ToSet(jobs') \subseteq ToSet(jobs) /\ h \in ToSet(jobs) /\ n \in Message
      /\ made > 0
  BY <1>2, <1>3, QueueTail, RunningHead DEF RunForward, JobOK
<1>5. /\ JobsInOrder(platform, jobs')
      /\ \A j \in ToSet(jobs') : j.task \in OfApp => Earlier(platform, n, j.n)
  BY <1>1, <1>2, <1>3, JobsInOrderTail DEF OfApp
<1>6. made \in Sockets
  BY <1>4, LastIsReal
<1> HIDE DEF h, n
<1>7. h \in AppSends(jobs) /\ n <= used.app
  BY <1>1, <1>2, <1>4 DEF AppSends, OfApp, AppOrder, n
<1>8. \A c \in Sockets, m \in Message :
        Holds(real[c], Flushes(calls, c), m) => Earlier(platform, m, n)
  BY <1>1, <1>7 DEF AppOrder, HeldOnce, n
<1>9. /\ AppSends(jobs') \subseteq AppSends(jobs)
      /\ ClientSends(jobs') \subseteq ClientSends(jobs)
      /\ \A j \in AppSends(jobs') : Earlier(platform, n, j.n)
  BY <1>4, <1>5 DEF AppSends, ClientSends
<1>10. \A m \in ToSet(real[made].sent) \cup ToSet(real[made].pending) :
         Earlier(platform, m, n)
  <2>1. /\ real[made].sent \in Seq(Message) /\ real[made].pending \in Seq(Message)
    BY <1>1, <1>6 DEF TypeOK, RealSocket
  <2>2. \A m \in ToSet(real[made].sent) \cup ToSet(real[made].pending) : m \in Message
    BY <2>1 DEF ToSet
  <2> QED
    BY <1>6, <1>8, <2>2 DEF Holds
<1>11. \A x \in Flushes(calls, made) : Earlier(platform, n, x.n)
  <2>1. CASE platform = "node"
    <3>1. ToSet(calls) = {}
      BY <1>2, <2>1, CheckpointCalls DEF ToSet
    <3> QED
      BY <3>1 DEF Flushes
  <2>2. CASE platform # "node"
    <3>1. \A x \in Flushes(calls, made) : x.n \in Message
      BY View DEF Flushes, CallsOK, CallOK
    <3>2. \A x \in Flushes(calls, made) : Earlier(platform, x.n, n)
      BY <1>6, <1>8, <3>1 DEF Holds
    <3> QED
      BY <2>2, <3>2 DEF Earlier
  <2> QED
    BY <2>1, <2>2
<1>12. n > 0 => \A c \in Sockets : ~Holds(real[c], Flushes(calls, c), n)
  BY <1>4, <1>8 DEF Earlier
<1>13. AppOrder'
  BY <1>2, <1>4, <1>6, <1>7, <1>9, <1>10, <1>11, <1>12, SentAppOrder
<1> QED
  BY <1>1, <1>2, <1>5, <1>9, <1>13, AppStepMInv

\* server.send()
LEMMA ServerSendMInv == IInv /\ MInv /\ ServerSend => MInv'
PROOF
<1> SUFFICES ASSUME IInv, MInv, ServerSend PROVE MInv'
  OBVIOUS
<1>1. /\ TypeOK /\ JobsInOrder(platform, jobs) /\ CallsInOrder(platform, calls)
  BY View, MessageView
<1>2. /\ made > 0 /\ real' = [real EXCEPT ![made] = Sent(@, 0)]
      /\ used' = [used EXCEPT !.server = @ + 1]
      /\ UNCHANGED <<platform, hasListeners, client, jobs, calls, made, queued, late, seen>>
  BY DEF ServerSend, setting, turn, history
<1>3. used'.app = used.app /\ used'.client = used.client
  BY <1>1, <1>2 DEF TypeOK
<1>4. made \in Sockets /\ 0 \in Message /\ 0 <= used.app
  BY <1>2, LastIsReal, Numbers, BoundsAssumption DEF Message
<1>5. \A m : Earlier(platform, m, 0) /\ Earlier(platform, 0, m)
  BY DEF Earlier
<1>6. /\ \A c \in Sockets : Flushes(calls', c) \subseteq Flushes(calls, c)
      /\ AppSends(jobs') \subseteq AppSends(jobs) /\ ~(0 > 0)
      /\ real' = [real EXCEPT ![made] = Sent(@, 0)] /\ UNCHANGED platform
  BY <1>2
<1>7. AppOrder'
  BY <1>3, <1>4, <1>5, <1>6, SentAppOrder
<1> QED
  BY <1>1, <1>2, <1>3, <1>7, AppStepMInv

\* A message that has waited for "open" of a real WebSocket.
LEMMA FlushMInv == IInv /\ MInv /\ Flush => MInv'
PROOF
<1> SUFFICES ASSUME IInv, MInv, Flush PROVE MInv'
  OBVIOUS
<1> DEFINE h == Head(calls)
           n == h.n
           d == h.conn
<1>1. /\ TypeOK /\ AppOrder
      /\ JobsInOrder(platform, jobs) /\ CallsInOrder(platform, calls)
  BY View, MessageView
<1>2. /\ calls # <<>> /\ h.listener = "flush" /\ calls' = Tail(calls)
      /\ real' = [real EXCEPT ![d] = Sent(@, n)]
      /\ UNCHANGED <<platform, hasListeners, client, jobs, made, queued, late, used, seen>>
  BY DEF Flush, Calling, GoOn, setting, history
<1>3. calls \in Seq(Calls) /\ CallQueue(calls)
  BY <1>1, View DEF TypeOK, CallsOK
<1>4. /\ ToSet(calls') \subseteq ToSet(calls) /\ h \in ToSet(calls) /\ n \in Message
      /\ d \in Sockets
  BY <1>2, <1>3, CallsTail, CallingHead DEF Flush, CallOK
<1>5. /\ CallsInOrder(platform, calls')
      /\ \A x \in ToSet(calls') : x.listener = "flush" => Earlier(platform, n, x.n)
  BY <1>1, <1>2, <1>3, CallsInOrderTail
<1>6. h \in Flushes(calls, d)
  BY <1>2, <1>4 DEF Flushes
<1> HIDE DEF h, n, d
<1>7. /\ real' = [real EXCEPT ![d] = Sent(@, n)] /\ h.n = n
  BY <1>2 DEF n
<1>8. /\ \A c \in Sockets : Flushes(calls', c) \subseteq Flushes(calls, c)
      /\ \A x \in Flushes(calls', d) : Earlier(platform, n, x.n)
  BY <1>4, <1>5 DEF Flushes
<1>9. Holds(real[d], Flushes(calls, d), n)
  BY <1>6, <1>7 DEF Holds
<1>10. /\ n <= used.app /\ \A j \in AppSends(jobs) : Earlier(platform, n, j.n)
       /\ n > 0 => \A c \in Sockets : Holds(real[c], Flushes(calls, c), n) => c = d
  BY <1>1, <1>4, <1>9 DEF AppOrder, HeldOnce
<1>11. \A c \in Sockets :
         Holds(real[c], Flushes(calls', c), n) => Holds(real[c], Flushes(calls, c), n)
  BY <1>8 DEF Holds
<1>12. \A m \in ToSet(real[d].sent) \cup ToSet(real[d].pending) : Earlier(platform, m, n)
  <2>1. /\ real[d].pending = <<>>
        /\ \A m \in ToSet(real[d].sent) : Earlier(platform, m, h.n)
    BY <1>1, <1>4, <1>6 DEF AppOrder, Lines, Line
  <2>2. ToSet(real[d].pending) = {}
    BY <2>1 DEF ToSet
  <2> QED
    BY <1>7, <2>1, <2>2
<1>13. /\ AppSends(jobs') \subseteq AppSends(jobs) /\ used'.app = used.app
       /\ \A j \in AppSends(jobs') : Earlier(platform, n, j.n)
       /\ n > 0 => \A c \in Sockets : Holds(real[c], Flushes(calls', c), n) => c = d
       /\ UNCHANGED platform
  BY <1>2, <1>10, <1>11
<1>14. AppOrder'
  BY <1>4, <1>7, <1>8, <1>10, <1>12, <1>13, SentAppOrder
<1> QED
  BY <1>1, <1>2, <1>4, <1>5, <1>14, AppStepMInv

\* "open" of a real WebSocket: what waited for it is about to be sent.
LEMMA RealOpenMInv ==
  ASSUME NEW c \in Sockets, IInv, MInv, RealOpen(c) PROVE MInv'
PROOF
<1> DEFINE q == real[c].pending
           new == [i \in DOMAIN q |-> Call("flush", q[i], c)]
<1>1. /\ TypeOK /\ RealsOK /\ AppOK /\ LoneOK /\ MockOrder /\ AppOrder /\ Quiet
      /\ JobsInOrder(platform, jobs)
  BY View, MessageView
<1>2. /\ Idle /\ real[c].state = "CONNECTING"
      /\ real' = [real EXCEPT ![c].state = "OPEN", ![c].pending = <<>>]
      /\ calls' = new
      /\ seen' = IF hasListeners THEN seen ELSE ToldOpen
      /\ UNCHANGED <<platform, hasListeners, client, jobs, made, queued, used, late>>
  BY DEF RealOpen, YieldTo, setting, history
<1>3. ToSet(jobs) = {} /\ ToSet(calls) = {}
  BY <1>2, NothingQueued
<1>4. /\ DOMAIN real[c] = {"state", "pending", "sent", "closes", "shut"}
      /\ DOMAIN real = Sockets
  BY <1>1 DEF TypeOK, RealSocket
<1>5. /\ real'[c].state = "OPEN" /\ real'[c].pending = <<>> /\ real'[c].sent = real[c].sent
      /\ \A d \in Sockets \ {c} : real'[d] = real[d]
  BY <1>2, <1>4
<1>6. /\ Rising(platform, q) /\ real[c].sent = <<>>
  BY <1>1, <1>2 DEF AppOrder, Lines, Line
<1>7. /\ DOMAIN new = DOMAIN q
      /\ \A i \in DOMAIN q : new[i].listener = "flush" /\ new[i].n = q[i] /\ new[i].conn = c
  BY DEF Call
<1> HIDE DEF new
<1>8. /\ CallsInOrder(platform, calls') /\ \A x \in ToSet(calls') : x.n \in ToSet(q)
  BY <1>2, <1>6, <1>7, MessagesInOrder
<1> HIDE DEF q
<1>9. \A x \in ToSet(calls') : x.listener = "flush" /\ x.conn = c
  BY <1>2, <1>7 DEF ToSet
<1>10. /\ Delivers(calls') = {}
       /\ \A d \in Sockets \ {c} : Flushes(calls', d) = {}
       /\ \A x \in Flushes(calls', c) : x.n \in ToSet(q)
  BY <1>8, <1>9 DEF Delivers, Flushes
<1>11. AppSends(jobs) = {} /\ ClientSends(jobs) = {} /\ Delivers(calls) = {}
  BY <1>3 DEF AppSends, ClientSends, Delivers
<1>12. AppOrder'
  <2>1. ToSet(<<>>) = {} /\ Rising(platform, <<>>)
    BY DEF ToSet, Rising
  <2>2. ASSUME NEW d \in Sockets PROVE Line(platform', real'[d], Flushes(calls', d))
    <3>1. CASE d = c
      BY <1>2, <1>5, <1>6, <2>1, <3>1 DEF Line
    <3>2. CASE d # c
      BY <1>1, <1>2, <1>5, <1>10, <3>2 DEF AppOrder, Lines, Line
    <3> QED
      BY <3>1, <3>2
  <2>3. \A d \in Sockets, n \in Message :
          Holds(real'[d], Flushes(calls', d), n) => Holds(real[d], Flushes(calls, d), n)
    <3>1. ASSUME NEW d \in Sockets, NEW n \in Message,
                 Holds(real'[d], Flushes(calls', d), n)
          PROVE  Holds(real[d], Flushes(calls, d), n)
      <4>1. CASE d = c
        BY <1>5, <1>10, <2>1, <3>1, <4>1 DEF Holds, q
      <4>2. CASE d # c
        BY <1>5, <1>10, <3>1, <4>2 DEF Holds
      <4> QED
        BY <4>1, <4>2
    <3> QED
      BY <3>1
  <2>4. Lines'
    BY <2>2 DEF Lines
  <2>5. HeldOnce'
    BY <1>1, <1>2, <1>11, <2>3 DEF AppOrder, HeldOnce
  <2> QED
    BY <1>2, <1>11, <2>4, <2>5 DEF AppOrder
<1>13. CASE hasListeners
  <2>1. seen' = seen
    BY <1>2, <1>13
  <2>2. MockOrder'
    BY <1>1, <1>2, <1>10, <2>1, MockFrame
  <2>3. Quiet'
    BY <1>1, <1>2, <1>9, <2>1 DEF Quiet
  <2> QED
    BY <1>1, <1>2, <1>8, <1>12, <2>2, <2>3, MessageView
<1>14. CASE ~hasListeners
  <2>1. made \in {0, 1} /\ c <= made
    BY <1>1, <1>2, <1>14 DEF AppOK, RealsOK, RealOK
  <2>2. c = 1 /\ made = 1
    BY <2>1 DEF Sockets
  <2>3. seen.opens = 0
    BY <1>1, <1>2, <1>14, <2>2 DEF AppOK
  <2>4. /\ seen'.opens = 1 /\ seen'.got = seen.got
        /\ client # "CLOSED" => seen'.after = seen.after
    <3>1. seen' = ToldOpen
      BY <1>2, <1>14
    <3>2. /\ ToldOpen.opens = seen.opens + 1 /\ ToldOpen.got = seen.got
          /\ ToldOpen.after = Told("open").after
          /\ client # "CLOSED" => Told("open").after = seen.after
      BY <1>1, ToldView
    <3> QED
      BY <2>3, <3>1, <3>2
  <2>5. seen.got = <<>> /\ queued = <<>> /\ client # "OPEN"
    BY <1>1, <1>14, <2>3 DEF MockOrder
  <2>6. MockOrder'
    <3>1. ToSet(<<>>) = {} /\ Increasing(<<>>)
      BY DEF ToSet, Increasing
    <3> QED
      BY <1>2, <1>10, <1>11, <2>4, <2>5, <3>1 DEF MockOrder
  <2>7. ~late => client # "CLOSED"
    <3>1. ~MockClosePending
      BY <1>3 DEF MockClosePending
    <3> QED
      BY <1>1, <1>2, <2>2, <3>1 DEF LoneOK, Shut
  <2>8. Quiet'
    BY <1>1, <1>2, <2>4, <2>7 DEF Quiet
  <2> QED
    BY <1>1, <1>2, <1>8, <1>12, <2>6, <2>8, MessageView
<1> QED
  BY <1>13, <1>14

-----------------------------------------------------------------------------
(* The theorems about messages.                                            *)

LEMMA StepMInv == IInv /\ MInv /\ [Next]_vars => MInv'
PROOF
<1> SUFFICES ASSUME IInv, MInv, [Next]_vars PROVE MInv'
  OBVIOUS
<1>1. CASE Microtask
  BY <1>1, ConnectionMInv, EndMInv, OpenMInv, RunOnSendMInv, RunForwardMInv, RunCloseMInv,
     ServerCloseMInv, RunClientSendMInv
  DEF Microtask
<1>2. CASE Listener
  BY <1>2, CloseListenerMInv, FlushMInv, DeliverMInv DEF Listener
<1>3. CASE AppSend \/ AppClose
  BY <1>3, AppSendMInv, CloseMInv
<1>4. CASE Developer
  BY <1>4, ConnectionMInv, EndMInv, ServerSendMInv, ServerCloseMInv, ClientSendMInv,
     CloseMInv
  DEF Developer
<1>5. CASE Server
  BY <1>5, RealOpenMInv, NetworkMInv DEF Server
<1>6. CASE UNCHANGED vars
  BY <1>6, MessageView
  DEF vars, MockOrder, AppOrder, Lines, HeldOnce, Quiet
<1> QED
  BY <1>1, <1>2, <1>3, <1>4, <1>5, <1>6 DEF Next

LEMMA MessageInvariance == Spec => [](IInv /\ MInv)
BY InitIInv, StepIInv, InitMInv, StepMInv, PTL DEF Spec

\* In Node.js the messages of the application leave in the order it sent them, whether
\* they had to wait for "open" of a real WebSocket or not.
THEOREM AppMessagesOrdered == Spec => []AppMessagesInOrder
PROOF
<1>1. ASSUME IInv, MInv PROVE AppMessagesInOrder
  <2> SUFFICES ASSUME platform = "node", NEW c \in Sockets
               PROVE  AppIncreasing(real[c].sent \o real[c].pending)
    BY DEF AppMessagesInOrder
  <2>1. /\ Rising("node", real[c].sent) /\ Rising("node", real[c].pending)
        /\ real[c].pending # <<>> => real[c].sent = <<>>
    BY <1>1, MessageView DEF AppOrder, Lines, Line
  <2>2. real[c].sent \in Seq(Message) /\ real[c].pending \in Seq(Message)
    BY <1>1, View DEF TypeOK, RealSocket
  <2>3. \/ real[c].sent \o real[c].pending = real[c].sent
        \/ real[c].sent \o real[c].pending = real[c].pending
    BY <2>1, <2>2, ConcatEmptySeq
  <2>4. /\ AppIncreasing(real[c].sent)
        /\ AppIncreasing(real[c].pending)
    BY <2>1 DEF Rising, Earlier, AppIncreasing
  <2> QED
    BY <2>3, <2>4
<1> QED
  BY <1>1, MessageInvariance, PTL

\* A message of the application is sent to one real WebSocket at most, and once.
THEOREM AppMessagesSentAtMostOnce == Spec => []AppMessagesSentOnce
PROOF
<1>1. ASSUME IInv, MInv PROVE AppMessagesSentOnce
  <2> SUFFICES ASSUME NEW c \in Sockets, NEW d \in Sockets,
                      NEW i \in DOMAIN real[c].sent, NEW j \in DOMAIN real[d].sent,
                      real[c].sent[i] = real[d].sent[j], real[c].sent[i] > 0
               PROVE  c = d /\ i = j
    BY DEF AppMessagesSentOnce
  <2> DEFINE n == real[c].sent[i]
  <2>1. AppOrder
    BY <1>1, MessageView
  <2>2. real[c].sent \in Seq(Message) /\ real[d].sent \in Seq(Message)
    BY <1>1, View DEF TypeOK, RealSocket
  <2>3. n \in Message /\ i \in Nat /\ j \in Nat
    BY <2>2
  <2>4. Holds(real[c], Flushes(calls, c), n) /\ Holds(real[d], Flushes(calls, d), n)
    BY DEF Holds, ToSet
  <2>5. c = d
    BY <2>1, <2>3, <2>4 DEF AppOrder, HeldOnce
  <2>6. ~(i < j) /\ ~(j < i)
    BY <2>1, <2>5 DEF AppOrder, Lines, Line, Rising, Earlier
  <2> QED
    BY <2>3, <2>5, <2>6
<1> QED
  BY <1>1, MessageInvariance, PTL

\* What the developer sends with client.send() reaches the application in that order,
\* and after "open".
THEOREM MockMessagesOrdered == Spec => []MockMessagesInOrder
PROOF
<1>1. ASSUME MInv PROVE MockMessagesInOrder
  BY <1>1, MessageView DEF MockOrder, MockMessagesInOrder
<1> QED
  BY <1>1, MessageInvariance, PTL

\* A socket whose only connection was made before it closed is told nothing but an
\* "error" after "close".
THEOREM ClosedIsQuiet == Spec => []QuietAfterClose
PROOF
<1>1. ASSUME MInv PROVE QuietAfterClose
  BY <1>1, MessageView DEF Quiet, QuietAfterClose
<1> QED
  BY <1>1, MessageInvariance, PTL
-----------------------------------------------------------------------------
(* No dead end.                                                            *)

Pending(js, tasks) == \E j \in ToSet(js) : j.task \in tasks

\* Who takes the "connection" event further, and who ends a closure.
ConnectionGoesOn ==
  /\ connection = "new" => Pending(jobs, {"connection"})
  /\ connection = "emitted" /\ ~hasListeners => Pending(jobs, {"proceed"})
  /\ connection = "settled" => Pending(jobs, Settling)
  /\ connection = "mocked" /\ client = "CONNECTING" => opening
  /\ connection = "failed" => client \in Shut
ClosureGoesOn == client = "CLOSING" => Pending(jobs, {"close"})

DInv == ConnectionGoesOn /\ ClosureGoesOn

\* A socket that connects waits for a microtask, for a "connection" listener, or for the
\* original server alone, unless what a listener threw was swallowed; one that closes has
\* its "close" queued.
NoDeadEnd ==
  /\ client = "CONNECTING" =>
       \/ Pending(jobs, Settling \cup {"connection"})
       \/ opening
       \/ hasListeners /\ connection = "emitted"
       \/ connection \in {"passthrough", "ignored"}
  /\ client = "CLOSING" => Pending(jobs, {"close"})

\* The microtasks that DInv speaks of.
Main == Settling \cup {"connection", "close"}
Keeps(js, ks) == \A tasks \in SUBSET Main : Pending(js, tasks) => Pending(ks, tasks)

LEMMA TailKeeps ==
  ASSUME NEW js \in Seq(Jobs), js # <<>>, NEW tasks, Head(js).task \notin tasks,
         Pending(js, tasks)
  PROVE  Pending(Tail(js), tasks)
PROOF
<1>1. PICK i \in DOMAIN js : js[i].task \in tasks
  BY DEF Pending, ToSet
<1>2. DOMAIN js = 1..Len(js) /\ Len(js) \in Nat /\ Head(js) = js[1]
  OBVIOUS
<1>3. i # 1
  BY <1>1, <1>2
<1>4. i - 1 \in DOMAIN Tail(js) /\ Tail(js)[i - 1] = js[i]
  BY <1>2, <1>3
<1> QED
  BY <1>1, <1>4 DEF Pending, ToSet

LEMMA AppendKeeps ==
  ASSUME NEW js \in Seq(Jobs), NEW job \in Jobs
  PROVE  /\ Keeps(js, Append(js, job))
         /\ \A tasks : job.task \in tasks => Pending(Append(js, job), tasks)
PROOF
<1>1. ToSet(Append(js, job)) = ToSet(js) \cup {job}
  BY AppendSet
<1> QED
  BY <1>1 DEF Keeps, Pending

\* What the head of the queue leaves there.
LEMMA RunKeeps ==
  ASSUME IInv, NEW task, Running(task)
  PROVE  /\ Tail(jobs) \in Seq(Jobs)
         /\ Head(jobs).task = task
         /\ \A tasks : task \notin tasks /\ Pending(jobs, tasks) => Pending(Tail(jobs), tasks)
         /\ task \notin Main => Keeps(jobs, Tail(jobs))
PROOF
<1>1. jobs \in Seq(Jobs) /\ jobs # <<>> /\ Head(jobs).task = task
  BY View DEF TypeOK, Running
<1>2. \A tasks : task \notin tasks /\ Pending(jobs, tasks) => Pending(Tail(jobs), tasks)
  BY <1>1, TailKeeps
<1>3. Tail(jobs) \in Seq(Jobs)
  BY <1>1
<1>4. task \notin Main => Keeps(jobs, Tail(jobs))
  BY <1>2 DEF Keeps
<1> QED
  BY <1>1, <1>2, <1>3, <1>4

\* A step that queues, or runs microtasks of other kinds.
LEMMA OthersGoOn ==
  ASSUME DInv, Keeps(jobs, jobs'), UNCHANGED <<hasListeners, connection>>,
         client' = client /\ opening' = opening
  PROVE  DInv'
PROOF
<1>1. {"connection"} \in SUBSET Main /\ {"proceed"} \in SUBSET Main
      /\ Settling \in SUBSET Main /\ {"close"} \in SUBSET Main
  BY DEF Main, Settling
<1> QED
  BY <1>1 DEF DInv, ConnectionGoesOn, ClosureGoesOn, Keeps

\* kClose()
LEMMA KCloseGoesOn ==
  ASSUME NEW js \in Seq(Jobs), KClose(js), ClosureGoesOn,
         Pending(jobs, {"close"}) => Pending(js, {"close"})
  PROVE  /\ ClosureGoesOn' /\ Keeps(js, jobs')
         /\ client' \in Shut
PROOF
<1> DEFINE job == Job("close", 0)
<1>1. job \in Jobs /\ job.task = "close"
  BY DEF Job, Jobs
<1>2. CASE client \in Shut
  BY <1>2 DEF KClose, ClosureGoesOn, Shut, Keeps
<1>3. CASE client \notin Shut
  <2>1. client' = "CLOSING" /\ jobs' = Append(js, job)
    BY <1>3 DEF KClose
  <2> HIDE DEF job
  <2>2. Keeps(js, Append(js, job)) /\ Pending(Append(js, job), {"close"})
    BY <1>1, AppendKeeps
  <2> QED
    BY <2>1, <2>2 DEF ClosureGoesOn, Shut
<1> QED
  BY <1>2, <1>3

\* A closure from outside the "connection" event.
LEMMA CloseGoesOn ==
  ASSUME IInv, DInv, KClose(jobs), UNCHANGED <<hasListeners, connection>>
  PROVE  DInv'
PROOF
<1>1. jobs \in Seq(Jobs)
  BY View DEF TypeOK
<1>2. ClosureGoesOn' /\ Keeps(jobs, jobs') /\ client' \in Shut
  BY <1>1, KCloseGoesOn DEF DInv
<1>3. {"connection"} \in SUBSET Main /\ {"proceed"} \in SUBSET Main
      /\ Settling \in SUBSET Main
  BY DEF Main, Settling
<1>4. client' # "CONNECTING"
  BY <1>2 DEF Shut
<1>5. ConnectionGoesOn'
  BY <1>2, <1>3, <1>4 DEF DInv, ConnectionGoesOn, Keeps
<1> QED
  BY <1>2, <1>5 DEF DInv

\* The "connection" event.
LEMMA ConnectionDInv ==
  ASSUME IInv, DInv,
         \/ RunConnection \/ ProceedMocked \/ ProceedPassthrough \/ RunThrew
         \/ ListenersReturn \/ \E isError \in {0, 1} : ListenersThrow(isError)
  PROVE  DInv'
PROOF
<1>1. jobs \in Seq(Jobs)
  BY View DEF TypeOK
<1>2. Job("proceed", 0) \in Jobs /\ Job("proceed", 0).task = "proceed"
  BY DEF Job, Jobs
<1>3. "proceed" \in Settling /\ "threw" \in Settling /\ {"close"} \in SUBSET Main
  BY DEF Settling, Main
<1>4. CASE RunConnection
  <2>1. Tail(jobs) \in Seq(Jobs) /\ (Pending(jobs, {"close"}) => Pending(Tail(jobs), {"close"}))
    BY <1>4, RunKeeps DEF RunConnection
  <2>2. /\ Pending(jobs, {"close"}) => Pending(jobs', {"close"})
        /\ ~hasListeners => Pending(jobs', {"proceed"})
    BY <1>2, <1>3, <1>4, <2>1, AppendKeeps DEF RunConnection, Keeps
  <2>3. connection' = "emitted" /\ hasListeners' = hasListeners /\ client' = client
    BY <1>4 DEF RunConnection, setting
  <2> QED
    BY <2>2, <2>3 DEF DInv, ConnectionGoesOn, ClosureGoesOn
<1>5. CASE ListenersReturn \/ \E isError \in {0, 1} : ListenersThrow(isError)
  <2>1. PICK job : /\ job \in Jobs /\ job.task \in Settling
                   /\ jobs' = Append(jobs, job)
    <3>1. \A n \in {0, 1} : Job("threw", n) \in Jobs /\ Job("threw", n).task = "threw"
      BY DEF Job, Jobs
    <3> QED
      BY <1>2, <1>3, <1>5, <3>1 DEF ListenersReturn, ListenersThrow
  <2>2. Keeps(jobs, jobs') /\ Pending(jobs', Settling)
    BY <1>1, <2>1, AppendKeeps
  <2>3. connection' = "settled" /\ client' = client
    BY <1>5 DEF ListenersReturn, ListenersThrow
  <2> QED
    BY <1>3, <2>2, <2>3 DEF DInv, ConnectionGoesOn, ClosureGoesOn, Keeps
<1>6. ASSUME NEW task \in Settling, Running(task)
      PROVE  /\ Tail(jobs) \in Seq(Jobs)
             /\ Pending(jobs, {"close"}) => Pending(Tail(jobs), {"close"})
  BY <1>6, RunKeeps DEF Settling
<1>7. ASSUME Fail, NEW task \in Settling, Running(task)
      PROVE  DInv'
  <2>1. /\ Tail(jobs) \in Seq(Jobs)
        /\ Pending(jobs, {"close"}) => Pending(Tail(jobs), {"close"})
    BY <1>6, <1>7
  <2>2. KClose(Tail(jobs)) /\ connection' = "failed"
    BY <1>7 DEF Fail
  <2>3. ClosureGoesOn' /\ client' \in Shut
    BY <2>1, <2>2, KCloseGoesOn DEF DInv
  <2> QED
    BY <2>2, <2>3 DEF DInv, ConnectionGoesOn
<1>8. ASSUME NEW task \in Settling, Running(task), jobs' = Tail(jobs), client' = client,
             \/ connection' = "mocked" /\ opening'
             \/ connection' \in {"passthrough", "ignored"}
      PROVE  DInv'
  <2>1. Pending(jobs, {"close"}) => Pending(jobs', {"close"})
    BY <1>6, <1>8
  <2> QED
    BY <1>8, <2>1 DEF DInv, ConnectionGoesOn, ClosureGoesOn
<1>9. CASE ProceedMocked
  BY <1>3, <1>8, <1>9 DEF ProceedMocked
<1>10. CASE ProceedPassthrough
  BY <1>3, <1>7, <1>8, <1>10 DEF ProceedPassthrough
<1>11. CASE RunThrew
  BY <1>3, <1>7, <1>8, <1>11 DEF RunThrew
<1> QED
  BY <1>4, <1>5, <1>9, <1>10, <1>11

\* The microtasks that do not close the socket.
LEMMA MicrotaskDInv ==
  ASSUME IInv, DInv,
         RunOnSend \/ RunForward \/ RunServerClose \/ RunClientSend
  PROVE  DInv'
PROOF
<1>1. PICK task \in {"onSend", "forward", "serverClose", "clientSend"} : Running(task)
  BY DEF RunOnSend, RunForward, RunServerClose, RunClientSend
<1>2. task \notin Main
  BY DEF Main, Settling
<1>3. Tail(jobs) \in Seq(Jobs) /\ Keeps(jobs, Tail(jobs)) /\ Head(jobs) \in Jobs
  BY <1>1, <1>2, RunKeeps, RunningHead
<1>4. Keeps(jobs, jobs')
  <2>1. CASE jobs' = Tail(jobs)
    BY <1>3, <2>1
  <2>2. CASE jobs' = Append(Tail(jobs), Job("forward", Head(jobs).n))
    <3>1. Job("forward", Head(jobs).n) \in Jobs
      BY <1>3 DEF Job, Jobs
    <3>2. Keeps(Tail(jobs), jobs')
      BY <1>3, <2>2, <3>1, AppendKeeps
    <3> QED
      BY <1>3, <3>2 DEF Keeps
  <2> QED
    BY <2>1, <2>2 DEF RunOnSend, RunForward, RunServerClose, RunClientSend
<1>5. UNCHANGED <<hasListeners, connection>> /\ client' = client /\ opening' = opening
  BY DEF RunOnSend, RunForward, RunServerClose, RunClientSend, setting
<1> QED
  BY <1>4, <1>5, OthersGoOn

LEMMA RunCloseDInv ==
  ASSUME IInv, DInv, RunClose \/ Open
  PROVE  DInv'
PROOF
<1>1. CASE RunClose
  <2>1. \A tasks : "close" \notin tasks /\ Pending(jobs, tasks) => Pending(jobs', tasks)
    BY <1>1, RunKeeps DEF RunClose
  <2>2. "close" \notin Settling
    BY DEF Settling
  <2>3. UNCHANGED <<hasListeners, connection>> /\ client' = "CLOSED"
    BY <1>1 DEF RunClose, setting
  <2> QED
    BY <2>1, <2>2, <2>3 DEF DInv, ConnectionGoesOn, ClosureGoesOn, Shut
<1>2. CASE Open
  <2>1. /\ UNCHANGED <<hasListeners, connection, jobs>>
        /\ \/ client = "CONNECTING" /\ client' = "OPEN"
           \/ client # "CONNECTING" /\ client' = client
    BY <1>2 DEF Open, setting
  <2> QED
    BY <2>1 DEF DInv, ConnectionGoesOn, ClosureGoesOn, Shut
<1> QED
  BY <1>1, <1>2

\* The developer and the application.
LEMMA UserDInv ==
  ASSUME IInv, IInv', DInv,
         \/ AppSend \/ AppClose \/ ServerConnect \/ ServerSend \/ ServerClose
         \/ ClientSend \/ ClientClose
  PROVE  DInv'
PROOF
<1>1. jobs \in Seq(Jobs) /\ TypeOK'
  BY View DEF TypeOK, IInv
<1>2. UNCHANGED <<hasListeners, connection>> /\ opening' = opening
  BY DEF AppSend, AppClose, ServerConnect, ServerSend, ServerClose, ClientSend, ClientClose,
         setting
<1>3. CASE KClose(jobs)
  BY <1>2, <1>3, CloseGoesOn
<1>4. CASE client' = client /\ jobs' = jobs
  BY <1>2, <1>4, OthersGoOn DEF Keeps
<1>5. ASSUME NEW job \in Jobs, client' = client, jobs' = Append(jobs, job)
      PROVE  DInv'
  BY <1>1, <1>2, <1>5, AppendKeeps, OthersGoOn
<1>6. /\ Job("onSend", used'.app) \in Jobs
      /\ Job("clientSend", used'.client) \in Jobs
      /\ Job("serverClose", made) \in Jobs
  <2>1. used'.app \in Nat /\ used'.client \in Nat
    BY <1>1, BoundsAssumption DEF TypeOK
  <2>2. made \in Nat
    BY View, BoundsAssumption DEF TypeOK
  <2> QED
    BY <2>1, <2>2 DEF Job, Jobs
<1> QED
  BY <1>3, <1>4, <1>5, <1>6
  DEF AppSend, AppClose, ServerConnect, ServerSend, ServerClose, ClientSend, ClientClose

LEMMA StepDInv == IInv /\ DInv /\ [Next]_vars => DInv'
PROOF
<1> SUFFICES ASSUME IInv, DInv, [Next]_vars PROVE DInv'
  OBVIOUS
<1>1. IInv'
  BY StepIInv
<1>2. CASE Microtask
  BY <1>2, ConnectionDInv, MicrotaskDInv, RunCloseDInv DEF Microtask
<1>3. CASE AppSend \/ AppClose \/ Developer
  BY <1>1, <1>3, ConnectionDInv, UserDInv DEF Developer
<1>4. CASE RealClose
  <2>1. UNCHANGED <<hasListeners, connection>> /\ opening' = opening
    BY <1>4 DEF RealClose, setting
  <2>2. KClose(jobs) \/ (client' = client /\ jobs' = jobs)
    BY <1>4 DEF RealClose
  <2> QED
    BY <2>1, <2>2, CloseGoesOn, OthersGoOn DEF Keeps
<1>5. CASE MockClose \/ Flush \/ Deliver \/ Server \/ UNCHANGED vars
  <2>1. /\ UNCHANGED <<hasListeners, connection>> /\ opening' = opening
        /\ client' = client /\ jobs' = jobs
    BY <1>5
    DEF MockClose, Flush, Deliver, Server, RealOpen, RealMessage, RealCloses, RealFails,
        setting, vars
  <2> QED
    BY <2>1, OthersGoOn DEF Keeps
<1> QED
  BY <1>2, <1>3, <1>4, <1>5 DEF Next, Listener

LEMMA InitDInv == Init => DInv
PROOF
<1> SUFFICES ASSUME Init PROVE DInv
  OBVIOUS
<1> DEFINE job == Job("connection", 0)
<1>1. job.task = "connection"
  BY DEF Job
<1>2. jobs = <<job>>
  BY DEF Init
<1> HIDE DEF job
<1>3. job \in ToSet(jobs)
  BY <1>2 DEF ToSet
<1>4. Pending(jobs, {"connection"})
  BY <1>1, <1>3 DEF Pending
<1> QED
  BY <1>4 DEF Init, DInv, ConnectionGoesOn, ClosureGoesOn

\* The safe half of ImplementsClientSocket, whose liveness is that a closure ends: a
\* socket that closes has its "close" queued, wherever kClose() was called.  One that
\* connects waits for somebody who acts, unless something that is no Error was thrown.
THEOREM NobodyWaitsInVain == Spec => []NoDeadEnd
PROOF
<1>1. Spec => [](IInv /\ DInv)
  BY InitIInv, StepIInv, InitDInv, StepDInv, PTL DEF Spec
<1>2. ASSUME IInv, DInv PROVE NoDeadEnd
  <2> SUFFICES ASSUME client = "CONNECTING"
               PROVE  \/ Pending(jobs, Settling \cup {"connection"})
                      \/ opening
                      \/ hasListeners /\ connection = "emitted"
                      \/ connection \in {"passthrough", "ignored"}
    BY <1>2 DEF NoDeadEnd, DInv, ClosureGoesOn
  <2>1. connection \in {"new", "emitted", "settled", "mocked", "passthrough", "failed",
                        "ignored"}
    BY <1>2, View DEF TypeOK
  <2>2. ConnectionGoesOn /\ client \notin Shut
    BY <1>2 DEF DInv, Shut
  <2>3. \A tasks : tasks \subseteq Settling \cup {"connection"} /\ Pending(jobs, tasks) =>
          Pending(jobs, Settling \cup {"connection"})
    BY DEF Pending
  <2>4. {"proceed"} \subseteq Settling
    BY DEF Settling
  <2> QED
    BY <2>1, <2>2, <2>3, <2>4 DEF ConnectionGoesOn
<1> QED
  BY <1>1, <1>2, PTL
================================================================================
