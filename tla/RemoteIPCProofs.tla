--------------------------- MODULE RemoteIPCProofs ---------------------------
(***************************************************************************)
(* For any number of children and requests: the types, what it takes to    *)
(* crash a child, that RemoteIPC implements RemoteRequest step by step,    *)
(* and that no request waits in vain.                                      *)
(***************************************************************************)
EXTENDS RemoteIPC, SequenceTheorems, TLAPS

AnswerTo(r) == [id |-> r, made |-> r]

NoDuplicates(s) == \A i, j \in 1..Len(s) : i # j => s[i] # s[j]

\* Messages are on the channels of the child that made the request, and answer the
\* request they were made for.
Addressed ==
  \A c \in Children :
    /\ \A m \in ToSet(toChild[c]) : m.made = m.id /\ ChildOf[m.id] = c
    /\ \A r \in ToSet(toParent[c]) : ChildOf[r] = c

NotMade == \A r \in Requests : stage[r] = "idle" => outcome[r] = "new"

Unsent(r) == stage[r] \in {"idle", "reading"}
Queued(r) == r \in ToSet(toParent[ChildOf[r]])
Answered(r) == AnswerTo(r) \in ToSet(toChild[ChildOf[r]])

\* As long as no request has been received twice it is in one place: not sent yet, on
\* its way, with a listener of the parent, in an answer on its way, or answered.
InOnePlace(r) ==
  /\ asking[r] <= 1
  /\ Unsent(r) => ~Queued(r)
  /\ Unsent(r) \/ Queued(r) => asking[r] = 0
  /\ Unsent(r) \/ Queued(r) \/ asking[r] = 1 => ~Answered(r)
  /\ Unsent(r) \/ Queued(r) \/ asking[r] = 1 \/ Answered(r) => r \notin mocked

Orderly ==
  /\ \A r \in Requests : InOnePlace(r)
  /\ \A c \in Children : NoDuplicates(toParent[c]) /\ NoDuplicates(toChild[c])
SentOnce == ~doubled => Orderly

IInv == TypeOK /\ Addressed /\ NotMade /\ SentOnce /\ CrashNeedsTwoAnswers

-----------------------------------------------------------------------------
(* Queues.                                                                 *)

LEMMA AppendToQueue ==
  ASSUME NEW S, NEW s \in Seq(S), NEW x \in S
  PROVE  /\ Append(s, x) \in Seq(S)
         /\ ToSet(Append(s, x)) = ToSet(s) \cup {x}
         /\ NoDuplicates(s) /\ x \notin ToSet(s) => NoDuplicates(Append(s, x))
<1> DEFINE n == Len(s)
           t == Append(s, x)
<1>1. /\ t \in Seq(S) /\ n \in Nat /\ Len(t) = n + 1
      /\ \A i \in 1..n : t[i] = s[i]
      /\ t[n + 1] = x
  BY AppendProperties, LenProperties
<1>2. DOMAIN s = 1..n /\ DOMAIN t = 1..(n + 1)
  BY <1>1, LenProperties
<1> HIDE DEF n, t
<1>3. 1..(n + 1) = (1..n) \cup {n + 1}
  BY <1>1
<1>4. ToSet(t) = ToSet(s) \cup {x}
  BY <1>1, <1>2, <1>3 DEF ToSet
<1>5. ASSUME NoDuplicates(s), x \notin ToSet(s)
      PROVE  NoDuplicates(t)
  <2>1. \A i \in 1..n : s[i] # x
    BY <1>2, <1>5 DEF ToSet
  <2>2. \A i, j \in 1..n : i # j => s[i] # s[j]
    BY <1>5 DEF NoDuplicates, n
  <2>3. QED
    BY <1>1, <1>3, <2>1, <2>2 DEF NoDuplicates
<1>6. QED
  BY <1>1, <1>4, <1>5 DEF t

LEMMA TailOfQueue ==
  ASSUME NEW S, NEW s \in Seq(S), s # <<>>
  PROVE  /\ Head(s) \in S /\ Tail(s) \in Seq(S)
         /\ Head(s) \in ToSet(s)
         /\ ToSet(s) = ToSet(Tail(s)) \cup {Head(s)}
         /\ NoDuplicates(s) => NoDuplicates(Tail(s)) /\ Head(s) \notin ToSet(Tail(s))
<1> DEFINE n == Len(s)
           t == Tail(s)
<1>1. /\ Head(s) \in S /\ t \in Seq(S)
      /\ Len(t) = n - 1 /\ \A i \in 1..Len(t) : t[i] = s[i + 1]
      /\ n \in Nat /\ n >= 1 /\ Head(s) = s[1]
  BY HeadTailProperties, LenProperties, EmptySeq
<1>2. DOMAIN s = 1..n /\ DOMAIN t = 1..(n - 1)
  BY <1>1, LenProperties
<1> HIDE DEF n, t
<1>3. \A i \in 1..n : i = 1 \/ i - 1 \in 1..(n - 1)
  BY <1>1
<1>4. \A i \in 1..(n - 1) : i + 1 \in 1..n /\ t[i] = s[i + 1] /\ i + 1 # 1
  BY <1>1
<1>5. \A i \in 1..n : i = 1 \/ s[i] = t[i - 1]
  <2> TAKE i \in 1..n
  <2>1. CASE i - 1 \in 1..(n - 1)
    <3>1. t[i - 1] = s[(i - 1) + 1] /\ (i - 1) + 1 = i
      BY <2>1, <1>1, <1>4
    <3>2. QED
      BY <3>1
  <2>2. QED
    BY <2>1, <1>3
<1>6. ToSet(s) = ToSet(t) \cup {Head(s)}
  <2>1. \A i \in 1..n : s[i] \in ToSet(t) \cup {Head(s)}
    BY <1>1, <1>2, <1>3, <1>5 DEF ToSet
  <2>2. \A i \in 1..(n - 1) : t[i] \in ToSet(s)
    BY <1>2, <1>4 DEF ToSet
  <2>3. Head(s) \in ToSet(s)
    BY <1>1, <1>2 DEF ToSet
  <2>4. QED
    BY <2>1, <2>2, <2>3, <1>2 DEF ToSet
<1>7. ASSUME NoDuplicates(s)
      PROVE  NoDuplicates(t) /\ Head(s) \notin ToSet(t)
  <2>1. \A i, j \in 1..n : i # j => s[i] # s[j]
    BY <1>7 DEF NoDuplicates, n
  <2>2. \A i, j \in 1..(n - 1) : i # j => t[i] # t[j]
    <3> TAKE i, j \in 1..(n - 1)
    <3> HAVE i # j
    <3>1. i + 1 \in 1..n /\ j + 1 \in 1..n /\ i + 1 # j + 1
      BY <1>1
    <3>2. QED
      BY <3>1, <2>1, <1>4
  <2>3. \A i \in 1..(n - 1) : t[i] # Head(s)
    <3> TAKE i \in 1..(n - 1)
    <3>1. i + 1 \in 1..n /\ 1 \in 1..n /\ i + 1 # 1
      BY <1>1
    <3>2. QED
      BY <3>1, <2>1, <1>1, <1>4
  <2>4. QED
    BY <1>1, <1>2, <2>2, <2>3 DEF NoDuplicates, ToSet
<1>8. QED
  BY <1>1, <1>6, <1>7 DEF t

-----------------------------------------------------------------------------
(* Types.                                                                  *)

LEMMA InitTypeOK == Init => TypeOK
<1> SUFFICES ASSUME Init PROVE TypeOK
  OBVIOUS
<1>1. <<>> \in Seq(Requests) /\ <<>> \in Seq(Message)
  OBVIOUS
<1>2. /\ toParent \in [Children -> Seq(Requests)]
      /\ toChild \in [Children -> Seq(Message)]
      /\ attached \in [Children -> 0..MaxAttached]
  BY <1>1, MaxAttachedAssumption DEF Init
<1>3. doubled \in BOOLEAN /\ parentUp \in BOOLEAN
  BY DEF Init
<1>4. QED
  BY <1>2, <1>3 DEF Init, TypeOK

LEMMA ResolveTypes ==
  ASSUME TypeOK, NEW R, NEW how \in {"released", "over"}, Resolve(R, how)
  PROVE  stage' \in [Requests -> {"idle", "reading", "waiting", "released", "over"}]
BY DEF TypeOK, Resolve

\* Taking the first message of a child.
LEMMA DeliverTypes ==
  ASSUME TypeOK, NEW c \in Children, toChild[c] # <<>>
  PROVE  /\ Head(toChild[c]) \in Message
         /\ Head(toChild[c]).id \in Requests /\ Head(toChild[c]).made \in Requests
         /\ Head(toChild[c]) \in ToSet(toChild[c])
         /\ [toChild EXCEPT ![c] = Tail(@)] \in [Children -> Seq(Message)]
<1>1. toChild[c] \in Seq(Message)
  BY DEF TypeOK
<1>2. /\ Head(toChild[c]) \in Message
      /\ Tail(toChild[c]) \in Seq(Message)
      /\ Head(toChild[c]) \in ToSet(toChild[c])
  BY <1>1, TailOfQueue
<1>3. QED
  BY <1>2 DEF Message, TypeOK

LEMMA EndTypes ==
  ASSUME TypeOK, NEW r \in Requests
  PROVE  [outcome EXCEPT ![r] = IF @ = "pending" THEN "elsewhere" ELSE @]
           \in [Requests -> {"new", "pending", "mocked", "elsewhere", "asis"}]
BY DEF TypeOK

LEMMA ChildTypes ==
  ASSUME TypeOK, NEW r \in Requests, InChild(r)
  PROVE  TypeOK'
<1>1. CASE Send(r)
  <2> DEFINE c == ChildOf[r]
  <2>1. c \in Children
    BY ChildOfAssumption
  <2>2. toParent[c] \in Seq(Requests)
    BY <2>1 DEF TypeOK
  <2>3. Append(toParent[c], r) \in Seq(Requests)
    BY <2>2, AppendProperties
  <2>4. toParent' \in [Children -> Seq(Requests)]
    BY <1>1, <2>3 DEF TypeOK, Send
  <2>5. QED
    BY <1>1, <2>4 DEF TypeOK, Send, parentVars, historyVars
<1>2. CASE Request(r)
  BY <1>2 DEF TypeOK, Request, childVars, channelVars, parentVars, historyVars
<1>3. CASE ReadFails(r)
  BY <1>3, EndTypes DEF TypeOK, ReadFails, childVars, channelVars, parentVars, historyVars
<1>4. CASE AnswerOwn(r)
  <2>1. own' \subseteq Requests
    BY <1>4 DEF TypeOK, AnswerOwn
  <2>2. QED
    BY <1>4, <2>1, EndTypes
    DEF TypeOK, AnswerOwn, childVars, channelVars, parentVars, historyVars
<1>5. CASE Abort(r)
  BY <1>5 DEF TypeOK, Abort, childVars, channelVars, parentVars, historyVars
<1>6. CASE Settle(r)
  BY <1>6 DEF TypeOK, Settle, childVars, channelVars, parentVars, historyVars
<1>7. QED
  BY <1>1, <1>2, <1>3, <1>4, <1>5, <1>6 DEF InChild

LEMMA ParentTypes ==
  ASSUME TypeOK, NEW r \in Requests, InParent(r)
  PROVE  TypeOK'
<1>1. asking' \in [Requests -> Nat]
  <2>1. asking[r] \in Nat /\ asking[r] > 0 /\ asking' = [asking EXCEPT ![r] = @ - 1]
    BY DEF InParent, Leave, Reject, Reply, TypeOK
  <2>2. asking[r] - 1 \in Nat
    BY <2>1
  <2>3. QED
    BY <2>1, <2>2 DEF TypeOK
<1>2. CASE Leave(r)
  BY <1>1, <1>2 DEF TypeOK, Leave, childVars, requestVars, channelVars
<1>r. CASE Reject(r)
  <2>1. parentUp' \in BOOLEAN
    BY <1>r DEF Reject
  <2>2. QED
    BY <1>1, <1>r, <2>1 DEF TypeOK, Reject, childVars, requestVars, channelVars
<1>3. CASE Reply(r)
  <2> DEFINE c == ChildOf[r]
  <2>1. c \in Children /\ AnswerTo(r) \in Message
    BY ChildOfAssumption DEF Message, AnswerTo
  <2>2. Append(toChild[c], AnswerTo(r)) \in Seq(Message)
    BY <2>1, AppendProperties DEF TypeOK
  <2>3. toChild' \in [Children -> Seq(Message)]
    BY <1>3, <2>2 DEF TypeOK, Reply, AnswerTo
  <2>4. QED
    BY <1>1, <1>3, <2>3 DEF TypeOK, Reply, childVars, requestVars, parentVars, historyVars
<1>4. QED
  BY <1>2, <1>3, <1>r DEF InParent

LEMMA ProcessTypes ==
  ASSUME TypeOK, NEW c \in Children,
         \/ Deliver(c) \/ DisposeChild(c) \/ Exit(c)
         \/ SetUp(c) \/ Dispose(c)
         \/ Receive(c) \/ DeliverForeign(c)
  PROVE  TypeOK'
<1>e. <<>> \in Seq(Message)
  OBVIOUS
<1>1. CASE DeliverResponse(c)
  <2> DEFINE m == Head(toChild[c])
             R == {r \in ListenersIn(c) : Concerns(m, r)}
  <2>1. toChild' \in [Children -> Seq(Message)] /\ m.made \in Requests
    BY <1>1, DeliverTypes DEF DeliverResponse
  <2>2. stage' \in [Requests -> {"idle", "reading", "waiting", "released", "over"}]
    BY <1>1, ResolveTypes DEF DeliverResponse
  <2>3. R \subseteq Requests
    BY DEF ListenersIn, TypeOK
  <2>4. /\ mocked' = mocked \cup R
        /\ outcome' = [r \in Requests |->
                         IF r \in R /\ outcome[r] = "pending" THEN "mocked" ELSE outcome[r]]
        /\ response' = [r \in Requests |->
                          IF r \in R /\ outcome[r] = "pending" THEN {m.made} ELSE response[r]]
    BY <1>1 DEF DeliverResponse
  <2> HIDE DEF R, m
  <2>5. /\ mocked' \subseteq Requests
        /\ outcome' \in [Requests -> {"new", "pending", "mocked", "elsewhere", "asis"}]
        /\ response' \in [Requests -> SUBSET Requests]
    BY <2>1, <2>3, <2>4 DEF TypeOK
  <2>6. QED
    BY <1>1, <2>1, <2>2, <2>5 DEF TypeOK, DeliverResponse, childVars, parentVars, historyVars
<1>2. CASE DeliverUnreadable(c)
  <2>1. toChild' \in [Children -> Seq(Message)]
    BY <1>2, DeliverTypes DEF DeliverUnreadable
  <2>2. stage' \in [Requests -> {"idle", "reading", "waiting", "released", "over"}]
    BY <1>2, ResolveTypes DEF DeliverUnreadable
  <2>3. QED
    BY <1>2, <2>1, <2>2 DEF TypeOK, DeliverUnreadable, childVars, parentVars, historyVars
<1>3. CASE DeliverTwice(c)
  <2>1. toChild' \in [Children -> Seq(Message)]
    BY <1>3, <1>e DEF DeliverTwice, TypeOK
  <2>2. crashed' \subseteq Requests
    BY <1>3 DEF DeliverTwice, TypeOK, handled
  <2>3. QED
    BY <1>3, <2>1, <2>2 DEF TypeOK, DeliverTwice, requestVars, parentVars
<1>4. CASE DisposeChild(c)
  BY <1>4 DEF TypeOK, DisposeChild, requestVars, channelVars, parentVars, historyVars
<1>5. CASE Exit(c)
  BY <1>5, <1>e DEF TypeOK, Exit, requestVars, parentVars, historyVars
<1>6. CASE SetUp(c)
  <2>1. attached[c] + 1 \in 0..MaxAttached
    BY <1>6, MaxAttachedAssumption DEF SetUp, TypeOK
  <2>2. QED
    BY <1>6, <2>1 DEF TypeOK, SetUp, childVars, requestVars, channelVars, historyVars
<1>7. CASE Dispose(c)
  <2>1. PICK n \in 0..MaxAttached : attached' = [attached EXCEPT ![c] = n]
    BY <1>7 DEF Dispose
  <2>2. attached' \in [Children -> 0..MaxAttached]
    BY <2>1 DEF TypeOK
  <2>3. QED
    BY <1>7, <2>2 DEF TypeOK, Dispose, childVars, requestVars, channelVars, historyVars
<1>8. CASE Receive(c)
  <2> DEFINE r == Head(toParent[c])
  <2>1. toParent[c] \in Seq(Requests) /\ toParent[c] # <<>>
    BY <1>8 DEF TypeOK, Receive
  <2>2. r \in Requests /\ Tail(toParent[c]) \in Seq(Requests)
    BY <2>1, TailOfQueue
  <2>3. toParent' \in [Children -> Seq(Requests)]
    BY <1>8, <2>2 DEF TypeOK, Receive
  <2>4. asking[r] + attached[c] \in Nat
    BY <2>2, MaxAttachedAssumption DEF TypeOK
  <2>5. /\ asking' = asking \/ asking' = [asking EXCEPT ![r] = asking[r] + attached[c]]
        /\ lost' = lost \/ lost' = lost \cup {r}
        /\ doubled' = doubled \/ doubled' = (doubled \/ attached[c] > 1)
    BY <1>8 DEF Receive
  <2> HIDE DEF r
  <2>6. asking' \in [Requests -> Nat] /\ lost' \subseteq Requests
    BY <2>2, <2>4, <2>5 DEF TypeOK
  <2>7. doubled' \in BOOLEAN
    BY <2>5, Zenon DEF TypeOK
  <2>8. QED
    BY <1>8, <2>3, <2>6, <2>7 DEF TypeOK, Receive, childVars, requestVars
<1>9. CASE DeliverForeign(c)
  <2>1. stage' \in [Requests -> {"idle", "reading", "waiting", "released", "over"}]
    BY <1>9, ResolveTypes DEF DeliverForeign
  <2>2. QED
    BY <1>9, <2>1 DEF TypeOK, DeliverForeign, childVars, channelVars, parentVars, historyVars
<1>10. QED
  BY <1>1, <1>2, <1>3, <1>4, <1>5, <1>6, <1>7, <1>8, <1>9 DEF Deliver

LEMMA StepTypeOK == TypeOK /\ [Next]_vars => TypeOK'
<1> SUFFICES ASSUME TypeOK, [Next]_vars PROVE TypeOK'
  OBVIOUS
<1>1. CASE UNCHANGED vars
  BY <1>1 DEF TypeOK, vars, childVars, requestVars, channelVars, parentVars, historyVars
<1>2. QED
  BY <1>1, ChildTypes, ParentTypes, ProcessTypes DEF Next
-----------------------------------------------------------------------------
(* The invariant: steps that lose messages.                                *)

\* Some of the messages of a queue are left, none of them more often.
Shorter(s, t) ==
  ToSet(t) \subseteq ToSet(s) /\ (NoDuplicates(s) => NoDuplicates(t))

LEMMA ShorterQueues ==
  ASSUME NEW S, NEW s \in Seq(S)
  PROVE  Shorter(s, s) /\ Shorter(s, <<>>) /\ (s # <<>> => Shorter(s, Tail(s)))
<1>1. Shorter(s, s)
  BY DEF Shorter
<1>2. Shorter(s, <<>>)
  <2>1. DOMAIN << >> = {}
    BY DEF ToSet
  <2>2. Len(<< >>) = 0
    OBVIOUS
  <2>3. QED
    BY <2>1, <2>2 DEF Shorter, ToSet, NoDuplicates
<1>3. ASSUME s # <<>> PROVE Shorter(s, Tail(s))
  BY <1>3, TailOfQueue DEF Shorter
<1>4. QED
  BY <1>1, <1>2, <1>3

Losing ==
  \A c \in Children :
    Shorter(toParent[c], toParent'[c]) /\ Shorter(toChild[c], toChild'[c])

LEMMA NothingLost ==
  TypeOK /\ UNCHANGED channelVars => Losing
<1> SUFFICES ASSUME TypeOK, UNCHANGED channelVars, NEW c \in Children
             PROVE  Shorter(toParent[c], toParent'[c]) /\ Shorter(toChild[c], toChild'[c])
  BY DEF Losing
<1>1. toParent[c] \in Seq(Requests) /\ toChild[c] \in Seq(Message)
  BY DEF TypeOK
<1>2. QED
  BY <1>1, ShorterQueues DEF channelVars

LEMMA ChildChannelShrinks ==
  ASSUME TypeOK, NEW c \in Children, toParent' = toParent,
         \/ toChild' = [toChild EXCEPT ![c] = <<>>]
         \/ toChild[c] # <<>> /\ toChild' = [toChild EXCEPT ![c] = Tail(@)]
  PROVE  Losing
<1> SUFFICES ASSUME NEW d \in Children
             PROVE  Shorter(toParent[d], toParent'[d]) /\ Shorter(toChild[d], toChild'[d])
  BY DEF Losing
<1>1. toParent[d] \in Seq(Requests) /\ toChild[d] \in Seq(Message)
  BY DEF TypeOK
<1>2. Shorter(toParent[d], toParent'[d])
  BY <1>1, ShorterQueues
<1>3. \/ toChild'[d] = toChild[d] \/ toChild'[d] = <<>>
      \/ toChild[d] # <<>> /\ toChild'[d] = Tail(toChild[d])
  BY DEF TypeOK
<1>4. QED
  BY <1>1, <1>2, <1>3, ShorterQueues

LEMMA ParentChannelShrinks ==
  ASSUME TypeOK, NEW c \in Children, toChild' = toChild, toParent[c] # <<>>,
         toParent' = [toParent EXCEPT ![c] = Tail(@)]
  PROVE  Losing
<1> SUFFICES ASSUME NEW d \in Children
             PROVE  Shorter(toParent[d], toParent'[d]) /\ Shorter(toChild[d], toChild'[d])
  BY DEF Losing
<1>1. toParent[d] \in Seq(Requests) /\ toChild[d] \in Seq(Message)
  BY DEF TypeOK
<1>2. Shorter(toChild[d], toChild'[d])
  BY <1>1, ShorterQueues
<1>3. \/ toParent'[d] = toParent[d]
      \/ toParent[d] # <<>> /\ toParent'[d] = Tail(toParent[d])
  BY DEF TypeOK
<1>4. QED
  BY <1>1, <1>2, <1>3, ShorterQueues

LEMMA LosingAddressed == Addressed /\ Losing => Addressed'
BY DEF Addressed, Losing, Shorter

LEMMA LosingOrderly ==
  ASSUME TypeOK, Orderly, Losing, mocked' = mocked,
         asking' \in [Requests -> Nat],
         \A r \in Requests : asking'[r] <= asking[r],
         \A r \in Requests : Unsent(r)' => Unsent(r)
  PROVE  Orderly'
<1>1. \A c \in Children : NoDuplicates(toParent'[c]) /\ NoDuplicates(toChild'[c])
  BY DEF Orderly, Losing, Shorter
<1>2. ASSUME NEW r \in Requests
      PROVE  InOnePlace(r)'
  <2>1. ChildOf[r] \in Children
    BY ChildOfAssumption
  <2>2. (Queued(r)' => Queued(r)) /\ (Answered(r)' => Answered(r))
    BY <2>1 DEF Losing, Shorter, Queued, Answered, AnswerTo
  <2>3. InOnePlace(r) /\ (Unsent(r)' => Unsent(r))
    BY DEF Orderly
  <2>4. asking'[r] \in Nat /\ asking[r] \in Nat /\ asking'[r] <= asking[r]
    BY DEF TypeOK
  <2>5. asking'[r] <= 1 /\ (asking[r] = 0 => asking'[r] = 0)
        /\ (asking'[r] = 1 => asking[r] = 1)
    BY <2>3, <2>4 DEF InOnePlace
  <2>6. QED
    BY <2>2, <2>3, <2>5 DEF InOnePlace
<1>3. QED
  BY <1>1, <1>2 DEF Orderly

-----------------------------------------------------------------------------
(* The invariant: steps that pass a request on.                            *)

LEMMA SendKeeps ==
  ASSUME TypeOK, Addressed, NEW r \in Requests, Send(r)
  PROVE  Addressed' /\ (Orderly => Orderly')
<1> DEFINE c == ChildOf[r]
<1>1. /\ c \in Children /\ toParent[c] \in Seq(Requests)
      /\ \A q \in Requests : ChildOf[q] \in Children
  BY ChildOfAssumption DEF TypeOK
<1>2. /\ toParent'[c] = Append(toParent[c], r)
      /\ \A d \in Children : d # c => toParent'[d] = toParent[d]
      /\ UNCHANGED <<toChild, asking, mocked>>
  BY <1>1 DEF TypeOK, Send, parentVars
<1>3. /\ Unsent(r) /\ ~Unsent(r)'
      /\ \A q \in Requests : q # r => (Unsent(q)' <=> Unsent(q))
  BY DEF TypeOK, Send, Unsent
<1>4. /\ ToSet(toParent'[c]) = ToSet(toParent[c]) \cup {r}
      /\ NoDuplicates(toParent[c]) /\ r \notin ToSet(toParent[c])
           => NoDuplicates(toParent'[c])
  BY <1>1, <1>2, AppendToQueue
<1>5. Addressed'
  <2>1. \A d \in Children : ToSet(toParent'[d]) \subseteq ToSet(toParent[d]) \cup {r}
    BY <1>2, <1>4
  <2>2. \A d \in Children : r \in ToSet(toParent'[d]) /\ d # c => r \in ToSet(toParent[d])
    BY <1>2
  <2>3. QED
    BY <1>2, <2>1, <2>2 DEF Addressed
<1>6. ASSUME Orderly PROVE Orderly'
  <2>1. ~Queued(r) /\ asking[r] = 0 /\ ~Answered(r) /\ r \notin mocked
    BY <1>3, <1>6 DEF Orderly, InOnePlace
  <2>2. \A d \in Children : NoDuplicates(toParent'[d]) /\ NoDuplicates(toChild'[d])
    BY <1>2, <1>4, <1>6, <2>1 DEF Orderly, Queued
  <2>3. ASSUME NEW q \in Requests
        PROVE  InOnePlace(q)'
    <3>1. InOnePlace(q)
      BY <1>6 DEF Orderly
    <3>2. q # r => (Queued(q)' <=> Queued(q))
      BY <1>1, <1>2, <1>4 DEF Queued
    <3>3. (Answered(q)' <=> Answered(q)) /\ asking'[q] = asking[q]
      BY <1>2 DEF Answered
    <3>4. CASE q = r
      BY <1>2, <1>3, <2>1, <3>1, <3>3, <3>4 DEF InOnePlace
    <3>5. CASE q # r
      BY <1>2, <1>3, <3>1, <3>2, <3>3, <3>5 DEF InOnePlace
    <3>6. QED
      BY <3>4, <3>5
  <2>4. QED
    BY <2>2, <2>3 DEF Orderly
<1>7. QED
  BY <1>5, <1>6

\* Of a request at the head of the channel, and of one that is being answered.
LEMMA HeadIsQueued ==
  ASSUME TypeOK, Addressed, NEW c \in Children, toParent[c] # <<>>
  PROVE  /\ Head(toParent[c]) \in Requests
         /\ ChildOf[Head(toParent[c])] = c
         /\ Queued(Head(toParent[c]))
         /\ NoDuplicates(toParent[c]) => Head(toParent[c]) \notin ToSet(Tail(toParent[c]))
<1>1. toParent[c] \in Seq(Requests)
  BY DEF TypeOK
<1>2. QED
  BY <1>1, TailOfQueue DEF Addressed, Queued

LEMMA ReceiveKeeps ==
  ASSUME TypeOK, Addressed, Orderly, NEW c \in Children, Receive(c),
         attached[c] <= 1, NEW r \in Requests, r = Head(toParent[c])
  PROVE  Orderly'
<1>1. /\ ChildOf[r] = c /\ Queued(r)
      /\ NoDuplicates(toParent[c]) => r \notin ToSet(Tail(toParent[c]))
  BY HeadIsQueued DEF Receive
<1>2. toChild' = toChild /\ mocked' = mocked /\ stage' = stage
  BY DEF Receive, requestVars
<1>3. toParent[c] # <<>> /\ toParent' = [toParent EXCEPT ![c] = Tail(@)]
  BY DEF Receive
<1>4. Losing
  BY <1>2, <1>3, ParentChannelShrinks
<1>5. attached[c] \in 0..MaxAttached /\ attached[c] \in Nat
  BY MaxAttachedAssumption DEF TypeOK
<1>6. asking' = asking \/ asking' = [asking EXCEPT ![r] = @ + attached[c]]
  BY DEF Receive
<1>7. InOnePlace(r) /\ asking[r] = 0 /\ ~Unsent(r) /\ ~Answered(r) /\ r \notin mocked
  BY <1>1 DEF Orderly, InOnePlace
<1>8. ~Queued(r)'
  <2>1. toParent'[c] = Tail(toParent[c])
    BY <1>3 DEF TypeOK
  <2>2. r \notin ToSet(Tail(toParent[c]))
    BY <1>1 DEF Orderly
  <2>3. QED
    BY <1>1, <2>1, <2>2 DEF Queued
<1>9. /\ asking'[r] \in Nat /\ asking'[r] <= 1
      /\ \A q \in Requests : q # r => asking'[q] = asking[q]
  BY <1>1, <1>5, <1>6, <1>7 DEF TypeOK
<1>10. ASSUME NEW q \in Requests
       PROVE  InOnePlace(q)'
  <2>1. ChildOf[q] \in Children
    BY ChildOfAssumption
  <2>2. InOnePlace(q) /\ (Queued(q)' => Queued(q))
    BY <1>4, <2>1 DEF Orderly, Losing, Shorter, Queued
  <2>3. (Answered(q)' <=> Answered(q)) /\ (Unsent(q)' <=> Unsent(q))
    BY <1>2 DEF Answered, Unsent
  <2>4. CASE q = r
    BY <1>2, <1>7, <1>8, <1>9, <2>3, <2>4 DEF InOnePlace
  <2>5. CASE q # r
    BY <1>2, <1>9, <2>2, <2>3, <2>5 DEF InOnePlace
  <2>6. QED
    BY <2>4, <2>5
<1>11. QED
  BY <1>4, <1>10 DEF Orderly, Losing, Shorter

LEMMA ReplyKeeps ==
  ASSUME TypeOK, Addressed, NEW r \in Requests, Reply(r),
         toChild' = [toChild EXCEPT ![ChildOf[r]] = Append(@, AnswerTo(r))]
  PROVE  Addressed' /\ (Orderly => Orderly')
<1> DEFINE c == ChildOf[r]
<1>1. /\ c \in Children /\ toChild[c] \in Seq(Message) /\ AnswerTo(r) \in Message
      /\ \A q \in Requests : ChildOf[q] \in Children
  BY ChildOfAssumption DEF TypeOK, Message, AnswerTo
<1>2. /\ toChild'[c] = Append(toChild[c], AnswerTo(r))
      /\ \A d \in Children : d # c => toChild'[d] = toChild[d]
      /\ toParent' = toParent /\ mocked' = mocked /\ stage' = stage
      /\ asking' = [asking EXCEPT ![r] = @ - 1] /\ asking[r] > 0
  BY <1>1 DEF TypeOK, Reply, requestVars
<1>3. /\ ToSet(toChild'[c]) = ToSet(toChild[c]) \cup {AnswerTo(r)}
      /\ NoDuplicates(toChild[c]) /\ AnswerTo(r) \notin ToSet(toChild[c])
           => NoDuplicates(toChild'[c])
  BY <1>1, <1>2, AppendToQueue
<1>4. Addressed'
  BY <1>2, <1>3 DEF Addressed, AnswerTo
<1>5. ASSUME Orderly PROVE Orderly'
  <2>1. InOnePlace(r) /\ asking[r] \in Nat
    BY <1>5 DEF Orderly, TypeOK
  <2>2. asking[r] = 1
    BY <1>2, <2>1 DEF InOnePlace
  <2>3. ~Unsent(r) /\ ~Queued(r) /\ ~Answered(r) /\ r \notin mocked
    BY <2>1, <2>2 DEF InOnePlace
  <2>4. asking'[r] = 0 /\ \A q \in Requests : q # r => asking'[q] = asking[q]
    BY <1>2, <2>2 DEF TypeOK
  <2>5. \A d \in Children : NoDuplicates(toParent'[d]) /\ NoDuplicates(toChild'[d])
    BY <1>2, <1>3, <1>5, <2>3 DEF Orderly, Answered
  <2>6. ASSUME NEW q \in Requests
        PROVE  InOnePlace(q)'
    <3>1. InOnePlace(q)
      BY <1>5 DEF Orderly
    <3>2. q # r => (Answered(q)' <=> Answered(q))
      BY <1>1, <1>2, <1>3 DEF Answered, AnswerTo
    <3>3. (Queued(q)' <=> Queued(q)) /\ (Unsent(q)' <=> Unsent(q))
      BY <1>2 DEF Queued, Unsent
    <3>4. CASE q = r
      BY <1>2, <2>3, <2>4, <3>3, <3>4 DEF InOnePlace
    <3>5. CASE q # r
      BY <1>2, <2>4, <3>1, <3>2, <3>3, <3>5 DEF InOnePlace
    <3>6. QED
      BY <3>4, <3>5
  <2>7. QED
    BY <2>5, <2>6 DEF Orderly
<1>6. QED
  BY <1>4, <1>5

\* The listeners a response reaches are those of one request.
LEMMA ReachesOne ==
  ASSUME NEW m, NEW c \in Children
  PROVE  {r \in ListenersIn(c) : Concerns(m, r)} \subseteq {m.id}
BY DEF Concerns

LEMMA HeadIsAnswer ==
  ASSUME TypeOK, Addressed, NEW c \in Children, toChild[c] # <<>>
  PROVE  LET m == Head(toChild[c])
         IN  /\ m.id \in Requests /\ ChildOf[m.id] = c /\ m = AnswerTo(m.id)
             /\ Answered(m.id)
             /\ NoDuplicates(toChild[c]) => m \notin ToSet(Tail(toChild[c]))
<1>1. toChild[c] \in Seq(Message)
  BY DEF TypeOK
<1> DEFINE m == Head(toChild[c])
<1>2. m \in Message /\ m \in ToSet(toChild[c])
      /\ (NoDuplicates(toChild[c]) => m \notin ToSet(Tail(toChild[c])))
  BY <1>1, TailOfQueue
<1> HIDE DEF m
<1>3. m.made = m.id /\ ChildOf[m.id] = c
  BY <1>2 DEF Addressed
<1>4. m.id \in Requests /\ m = AnswerTo(m.id)
  BY <1>2, <1>3 DEF Message, AnswerTo
<1>5. Answered(m.id)
  BY <1>2, <1>3, <1>4 DEF Answered
<1>6. QED
  BY <1>2, <1>3, <1>4, <1>5 DEF m

LEMMA DeliverKeeps ==
  ASSUME TypeOK, Addressed, Orderly, NEW c \in Children, DeliverResponse(c),
         NEW m \in Message, m = Head(toChild[c])
  PROVE  Orderly'
<1> DEFINE R == {r \in ListenersIn(c) : Concerns(m, r)}
<1>1. /\ m.id \in Requests /\ ChildOf[m.id] = c /\ m = AnswerTo(m.id)
      /\ Answered(m.id)
      /\ NoDuplicates(toChild[c]) => m \notin ToSet(Tail(toChild[c]))
  BY HeadIsAnswer DEF DeliverResponse
<1>2. R \subseteq {m.id}
  BY ReachesOne
<1>3. /\ toParent' = toParent /\ asking' = asking
      /\ mocked' = mocked \cup R /\ Resolve(R, "over")
      /\ toChild[c] # <<>> /\ toChild' = [toChild EXCEPT ![c] = Tail(@)]
  BY DEF DeliverResponse, parentVars
<1>4. Losing
  BY <1>3, ChildChannelShrinks
<1> HIDE DEF R
<1>5. \A q \in Requests : Unsent(q)' => Unsent(q)
  BY <1>3 DEF Resolve, Unsent
<1>6. ~Answered(m.id)'
  <2>1. toChild'[c] = Tail(toChild[c])
    BY <1>3 DEF TypeOK
  <2>2. m \notin ToSet(Tail(toChild[c]))
    BY <1>1 DEF Orderly
  <2>3. QED
    BY <1>1, <2>1, <2>2 DEF Answered
<1>7. ASSUME NEW q \in Requests
      PROVE  InOnePlace(q)'
  <2>1. ChildOf[q] \in Children
    BY ChildOfAssumption
  <2>2. InOnePlace(q) /\ (Answered(q)' => Answered(q)) /\ (Queued(q)' <=> Queued(q))
    BY <1>3, <1>4, <2>1 DEF Orderly, Losing, Shorter, Queued, Answered, AnswerTo
  <2>3. asking[q] \in Nat
    BY DEF TypeOK
  <2>4. CASE q = m.id
    <3>1. ~Unsent(q) /\ ~Queued(q) /\ asking[q] <= 1 /\ asking[q] # 1
      BY <1>1, <2>2, <2>4 DEF InOnePlace
    <3>2. QED
      BY <1>3, <1>5, <1>6, <2>2, <2>4, <3>1 DEF InOnePlace
  <2>5. CASE q # m.id
    BY <1>2, <1>3, <1>5, <2>2, <2>5 DEF InOnePlace
  <2>6. QED
    BY <2>4, <2>5
<1>8. QED
  BY <1>4, <1>7 DEF Orderly, Losing, Shorter

-----------------------------------------------------------------------------
(* The invariant.                                                          *)

LEMMA InitIInv == Init => IInv
<1> SUFFICES ASSUME Init PROVE IInv
  OBVIOUS
<1>1. TypeOK
  BY InitTypeOK
<1>2. ToSet(<<>>) = {} /\ NoDuplicates(<<>>)
  <2>1. DOMAIN << >> = {} /\ Len(<< >>) = 0
    OBVIOUS
  <2>2. QED
    BY <2>1 DEF ToSet, NoDuplicates
<1>3. Addressed
  BY <1>2 DEF Init, Addressed
<1>4. NotMade /\ CrashNeedsTwoAnswers
  BY DEF Init, NotMade, CrashNeedsTwoAnswers
<1>5. \A c \in Children : NoDuplicates(toParent[c]) /\ NoDuplicates(toChild[c])
  BY <1>2 DEF Init
<1>6. ASSUME NEW r \in Requests PROVE InOnePlace(r)
  <2>1. ChildOf[r] \in Children
    BY ChildOfAssumption
  <2>2. ~Queued(r) /\ ~Answered(r)
    BY <1>2, <2>1 DEF Init, Queued, Answered
  <2>3. asking[r] = 0 /\ mocked = {}
    BY DEF Init
  <2>4. QED
    BY <2>2, <2>3 DEF InOnePlace
<1>7. QED
  BY <1>1, <1>3, <1>4, <1>5, <1>6 DEF IInv, SentOnce, Orderly

\* The steps that touch neither a channel, nor the parent, nor what is mocked.
Quiet ==
  /\ UNCHANGED <<channelVars, asking, mocked, doubled>>
  /\ \A r \in Requests : Unsent(r)' => Unsent(r)

LEMMA QuietSteps ==
  ASSUME TypeOK
  PROVE  /\ \A r \in Requests :
              Request(r) \/ ReadFails(r) \/ AnswerOwn(r) \/ Abort(r) \/ Settle(r) => Quiet
         /\ \A c \in Children :
              DisposeChild(c) \/ SetUp(c) \/ Dispose(c) \/ DeliverForeign(c) => Quiet
         /\ UNCHANGED vars => Quiet
<1>1. ASSUME NEW r \in Requests, Request(r) \/ ReadFails(r)
      PROVE  Quiet
  <2>1. \A q \in Requests : Unsent(q)' => Unsent(q)
    BY <1>1 DEF Request, ReadFails, Unsent, TypeOK
  <2>2. QED
    BY <1>1, <2>1 DEF Quiet, Request, ReadFails, parentVars, historyVars
<1>2. ASSUME NEW r \in Requests, AnswerOwn(r) \/ Abort(r) \/ Settle(r)
      PROVE  Quiet
  BY <1>2 DEF Quiet, Unsent, AnswerOwn, Abort, Settle, parentVars, historyVars
<1>3. ASSUME NEW c \in Children, DisposeChild(c) \/ SetUp(c) \/ Dispose(c)
      PROVE  Quiet
  BY <1>3
  DEF Quiet, Unsent, DisposeChild, SetUp, Dispose, requestVars, parentVars, historyVars
<1>4. ASSUME NEW c \in Children, DeliverForeign(c)
      PROVE  Quiet
  <2>1. \A q \in Requests : Unsent(q)' => Unsent(q)
    BY <1>4 DEF DeliverForeign, Resolve, Unsent
  <2>2. QED
    BY <1>4, <2>1 DEF Quiet, DeliverForeign, parentVars, historyVars
<1>5. ASSUME UNCHANGED vars PROVE Quiet
  BY <1>5 DEF Quiet, Unsent, vars, requestVars, parentVars, historyVars
<1>6. QED
  BY <1>1, <1>2, <1>3, <1>4, <1>5

LEMMA QuietKeeps ==
  ASSUME TypeOK, Addressed, Quiet
  PROVE  Addressed' /\ (Orderly => Orderly')
<1>1. Losing
  BY NothingLost DEF Quiet
<1>2. /\ asking' \in [Requests -> Nat] /\ mocked' = mocked
      /\ \A r \in Requests : asking'[r] <= asking[r]
      /\ \A r \in Requests : Unsent(r)' => Unsent(r)
  BY DEF Quiet, TypeOK
<1>3. QED
  BY <1>1, <1>2, LosingAddressed, LosingOrderly

\* A child that goes loses what is on the way to it.
LEMMA GoingKeeps ==
  ASSUME TypeOK, Addressed, NEW c \in Children,
         Exit(c) \/ DeliverTwice(c) \/ DeliverUnreadable(c)
  PROVE  Addressed' /\ (Orderly => Orderly') /\ doubled' = doubled
<1>1. Losing
  BY ChildChannelShrinks DEF Exit, DeliverTwice, DeliverUnreadable
<1>2. asking' = asking /\ mocked' = mocked /\ doubled' = doubled
  BY DEF Exit, DeliverTwice, DeliverUnreadable, requestVars, parentVars, historyVars
<1>3. \A r \in Requests : Unsent(r)' => Unsent(r)
  BY DEF Exit, DeliverTwice, DeliverUnreadable, requestVars, Resolve, Unsent
<1>4. /\ asking' \in [Requests -> Nat]
      /\ \A r \in Requests : asking'[r] <= asking[r]
  BY <1>2 DEF TypeOK
<1>5. QED
  BY <1>1, <1>2, <1>3, <1>4, LosingAddressed, LosingOrderly

LEMMA LeaveKeeps ==
  ASSUME TypeOK, Addressed, NEW r \in Requests,
         Leave(r) \/ Reject(r) \/ (Reply(r) /\ UNCHANGED toChild)
  PROVE  Addressed' /\ (Orderly => Orderly')
<1>1. Losing
  BY NothingLost DEF Leave, Reject, Reply, channelVars
<1>2. /\ mocked' = mocked /\ stage' = stage
      /\ asking[r] > 0 /\ asking' = [asking EXCEPT ![r] = @ - 1]
  BY DEF Leave, Reject, Reply, requestVars
<1>3. /\ asking' \in [Requests -> Nat]
      /\ \A q \in Requests : asking'[q] <= asking[q]
  BY <1>2 DEF TypeOK
<1>4. \A q \in Requests : Unsent(q)' => Unsent(q)
  BY <1>2 DEF Unsent
<1>5. QED
  BY <1>1, <1>2, <1>3, <1>4, LosingAddressed, LosingOrderly

LEMMA TakeKeeps ==
  ASSUME TypeOK, Addressed, NEW c \in Children, Receive(c)
  PROVE  Addressed' /\ (SentOnce => SentOnce')
<1>1. Losing
  BY ParentChannelShrinks DEF Receive
<1>2. Addressed'
  BY <1>1, LosingAddressed
<1>3. CASE doubled' = doubled /\ UNCHANGED asking
  <2>1. mocked' = mocked /\ stage' = stage
    BY DEF Receive, requestVars
  <2>2. /\ asking' \in [Requests -> Nat]
        /\ \A q \in Requests : asking'[q] <= asking[q]
    BY <1>3 DEF TypeOK
  <2>3. \A q \in Requests : Unsent(q)' => Unsent(q)
    BY <2>1 DEF Unsent
  <2>4. Orderly => Orderly'
    BY <1>1, <2>1, <2>2, <2>3, LosingOrderly
  <2>5. QED
    BY <1>2, <1>3, <2>4 DEF SentOnce
<1>4. CASE doubled' = (doubled \/ attached[c] > 1)
  <2> DEFINE r == Head(toParent[c])
  <2>1. r \in Requests
    BY HeadIsQueued DEF Receive
  <2>2. attached[c] <= 1 \/ attached[c] > 1
    BY DEF TypeOK
  <2>3. Orderly /\ attached[c] <= 1 => Orderly'
    BY <2>1, ReceiveKeeps
  <2>4. QED
    BY <1>2, <1>4, <2>2, <2>3 DEF SentOnce
<1>5. QED
  BY <1>3, <1>4 DEF Receive

LEMMA StepNotMade ==
  TypeOK /\ NotMade /\ [Next]_vars => NotMade'
<1> SUFFICES ASSUME TypeOK, NotMade, [Next]_vars, NEW q \in Requests,
                    stage'[q] = "idle"
             PROVE  outcome'[q] = "new"
  BY DEF NotMade
<1> USE DEF TypeOK, NotMade
<1>1. ASSUME NEW r \in Requests, InChild(r)
      PROVE  outcome'[q] = "new"
  <2>1. CASE Request(r)
    BY <2>1 DEF Request
  <2>2. CASE ReadFails(r)
    BY <2>2 DEF ReadFails
  <2>3. CASE Send(r)
    BY <2>3 DEF Send
  <2>4. CASE AnswerOwn(r) \/ Abort(r) \/ Settle(r)
    BY <2>4 DEF AnswerOwn, Abort, Settle
  <2>5. QED
    BY <1>1, <2>1, <2>2, <2>3, <2>4 DEF InChild
<1>2. ASSUME NEW r \in Requests, InParent(r)
      PROVE  outcome'[q] = "new"
  BY <1>2 DEF InParent, Leave, Reject, Reply, requestVars
<1>3. ASSUME NEW c \in Children, DeliverResponse(c)
      PROVE  outcome'[q] = "new"
  BY <1>3 DEF DeliverResponse, Resolve
<1>4. ASSUME NEW c \in Children, DeliverUnreadable(c) \/ DeliverForeign(c)
      PROVE  outcome'[q] = "new"
  BY <1>4 DEF DeliverUnreadable, DeliverForeign, Resolve
<1>5. ASSUME NEW c \in Children,
             \/ DeliverTwice(c) \/ DisposeChild(c) \/ Exit(c)
             \/ SetUp(c) \/ Dispose(c) \/ Receive(c)
      PROVE  outcome'[q] = "new"
  BY <1>5 DEF DeliverTwice, DisposeChild, Exit, SetUp, Dispose, Receive, requestVars
<1>6. CASE UNCHANGED vars
  BY <1>6 DEF vars, requestVars
<1>7. QED
  BY <1>1, <1>2, <1>3, <1>4, <1>5, <1>6 DEF Next, Deliver

\* A response that finds its request handled was not the only one, unless the child
\* has answered the request itself.
LEMMA TwiceNeedsTwoAnswers ==
  ASSUME TypeOK, Addressed, SentOnce, CrashNeedsTwoAnswers,
         NEW c \in Children, DeliverTwice(c)
  PROVE  CrashNeedsTwoAnswers'
<1> DEFINE m == Head(toChild[c])
           R == {r \in ListenersIn(c) : Concerns(m, r)}
<1>1. m.id \in Requests /\ Answered(m.id)
  BY HeadIsAnswer DEF DeliverTwice
<1>2. R \subseteq {m.id}
  BY ReachesOne
<1>3. crashed' = crashed \cup (R \cap handled) /\ own' = own /\ doubled' = doubled
  BY DEF DeliverTwice, requestVars
<1> HIDE DEF m, R
<1>4. m.id \in mocked => doubled
  BY <1>1, Zenon DEF SentOnce, Orderly, InOnePlace
<1>5. \A r \in crashed' : r \in crashed \/ (r = m.id /\ r \in handled)
  BY <1>2, <1>3
<1>6. \A r \in crashed' : r \in own \/ doubled
  BY <1>4, <1>5 DEF CrashNeedsTwoAnswers, handled
<1>7. QED
  BY <1>3, <1>6 DEF CrashNeedsTwoAnswers

\* Otherwise nothing crashes, and what the child or the parent has done is not undone.
LEMMA NoCrash ==
  ASSUME CrashNeedsTwoAnswers, crashed' = crashed, own \subseteq own',
         doubled => doubled'
  PROVE  CrashNeedsTwoAnswers'
BY DEF CrashNeedsTwoAnswers

LEMMA StepIInv == IInv /\ [Next]_vars => IInv'
<1> SUFFICES ASSUME IInv, [Next]_vars PROVE IInv'
  OBVIOUS
<1>1. TypeOK /\ Addressed /\ NotMade /\ SentOnce /\ CrashNeedsTwoAnswers
  BY DEF IInv
<1>2. TypeOK' /\ NotMade'
  BY <1>1, StepTypeOK, StepNotMade
<1>3. ASSUME Quiet, crashed' = crashed, own \subseteq own'
      PROVE  Addressed' /\ SentOnce' /\ CrashNeedsTwoAnswers'
  <2>1. doubled' = doubled
    BY <1>3 DEF Quiet
  <2>2. Addressed' /\ (Orderly => Orderly')
    BY <1>1, <1>3, QuietKeeps
  <2>3. QED
    BY <1>1, <1>3, <2>1, <2>2, NoCrash DEF SentOnce
<1>4. CASE UNCHANGED vars
  <2>1. crashed' = crashed /\ own \subseteq own'
    BY <1>4 DEF vars, requestVars, parentVars, historyVars
  <2>2. QED
    BY <1>1, <1>2, <1>3, <1>4, <2>1, QuietSteps DEF IInv
<1>5. ASSUME NEW r \in Requests, InChild(r)
      PROVE  IInv'
  <2>1. CASE Send(r)
    <3>1. crashed' = crashed /\ own' = own /\ doubled' = doubled
      BY <2>1 DEF Send, parentVars, historyVars
    <3>2. Addressed' /\ (Orderly => Orderly')
      BY <1>1, <2>1, SendKeeps
    <3>3. SentOnce'
      BY <1>1, <3>1, <3>2 DEF SentOnce
    <3>4. CrashNeedsTwoAnswers'
      BY <1>1, <3>1, NoCrash
    <3>5. QED
      BY <1>2, <3>2, <3>3, <3>4 DEF IInv
  <2>2. CASE Request(r) \/ ReadFails(r) \/ AnswerOwn(r) \/ Abort(r) \/ Settle(r)
    <3>1. crashed' = crashed /\ own \subseteq own'
      BY <2>2 DEF Request, ReadFails, AnswerOwn, Abort, Settle, parentVars, historyVars
    <3>2. QED
      BY <1>1, <1>2, <1>3, <2>2, <3>1, QuietSteps DEF IInv
  <2>3. QED
    BY <1>5, <2>1, <2>2 DEF InChild
<1>6. ASSUME NEW r \in Requests, InParent(r)
      PROVE  IInv'
  <2>1. crashed' = crashed /\ own' = own /\ doubled' = doubled
    BY <1>6 DEF InParent, Leave, Reject, Reply, requestVars, historyVars
  <2>2. \/ Leave(r) \/ Reject(r)
        \/ Reply(r) /\ UNCHANGED toChild
        \/ /\ Reply(r)
           /\ toChild' = [toChild EXCEPT ![ChildOf[r]] = Append(@, AnswerTo(r))]
    BY <1>6 DEF InParent, Reply, AnswerTo
  <2>3. Addressed' /\ (Orderly => Orderly')
    BY <1>1, <2>2, LeaveKeeps, ReplyKeeps
  <2>4. SentOnce'
    BY <1>1, <2>1, <2>3 DEF SentOnce
  <2>5. CrashNeedsTwoAnswers'
    BY <1>1, <2>1, NoCrash
  <2>6. QED
    BY <1>2, <2>3, <2>4, <2>5 DEF IInv
<1>7. ASSUME NEW c \in Children, DeliverResponse(c)
      PROVE  IInv'
  <2>1. crashed' = crashed /\ own' = own /\ doubled' = doubled
    BY <1>7 DEF DeliverResponse, parentVars, historyVars
  <2>2. Addressed'
    <3>1. Losing
      BY <1>1, <1>7, ChildChannelShrinks DEF DeliverResponse
    <3>2. QED
      BY <1>1, <3>1, LosingAddressed
  <2>3. Orderly => Orderly'
    <3>1. Head(toChild[c]) \in Message
      BY <1>1, <1>7, DeliverTypes DEF DeliverResponse
    <3>2. QED
      BY <1>1, <1>7, <3>1, DeliverKeeps
  <2>4. SentOnce'
    BY <1>1, <2>1, <2>3 DEF SentOnce
  <2>5. CrashNeedsTwoAnswers'
    BY <1>1, <2>1, NoCrash
  <2>6. QED
    BY <1>2, <2>2, <2>4, <2>5 DEF IInv
<1>8. ASSUME NEW c \in Children, Exit(c) \/ DeliverTwice(c) \/ DeliverUnreadable(c)
      PROVE  IInv'
  <2>1. Addressed' /\ (Orderly => Orderly') /\ doubled' = doubled
    BY <1>1, <1>8, GoingKeeps
  <2>2. SentOnce'
    BY <1>1, <2>1 DEF SentOnce
  <2>3. CrashNeedsTwoAnswers'
    <3>1. CASE DeliverTwice(c)
      BY <1>1, <3>1, TwiceNeedsTwoAnswers
    <3>2. CASE Exit(c) \/ DeliverUnreadable(c)
      <4>1. crashed' = crashed /\ own' = own
        BY <3>2 DEF Exit, DeliverUnreadable, requestVars, parentVars, historyVars
      <4>2. QED
        BY <1>1, <2>1, <4>1, NoCrash
    <3>3. QED
      BY <1>8, <3>1, <3>2
  <2>4. QED
    BY <1>2, <2>1, <2>2, <2>3 DEF IInv
<1>9. ASSUME NEW c \in Children,
             DisposeChild(c) \/ SetUp(c) \/ Dispose(c) \/ DeliverForeign(c)
      PROVE  IInv'
  <2>1. crashed' = crashed /\ own' = own
    BY <1>9 DEF DisposeChild, SetUp, Dispose, DeliverForeign, requestVars, historyVars
  <2>2. QED
    BY <1>1, <1>2, <1>3, <1>9, <2>1, QuietSteps DEF IInv
<1>10. ASSUME NEW c \in Children, Receive(c)
       PROVE  IInv'
  <2>1. crashed' = crashed /\ own' = own
    BY <1>10 DEF Receive, requestVars
  <2>2. doubled => doubled'
    BY <1>10 DEF Receive
  <2>3. Addressed' /\ SentOnce'
    BY <1>1, <1>10, TakeKeeps
  <2>4. CrashNeedsTwoAnswers'
    BY <1>1, <2>1, <2>2, NoCrash
  <2>5. QED
    BY <1>2, <2>3, <2>4 DEF IInv
<1>11. QED
  BY <1>4, <1>5, <1>6, <1>7, <1>8, <1>9, <1>10 DEF Next, Deliver

-----------------------------------------------------------------------------
(* RemoteRequest.                                                          *)

Spoiled == {r \in Requests : stage[r] = "released"}

LEMMA RemoteInit == Init => Remote!Init
BY DEF Init, Remote!Init

\* Other steps than these do not concern the requests themselves.
LEMMA RemoteStutters ==
  ASSUME UNCHANGED requestVars
  PROVE  UNCHANGED Remote!vars
BY DEF requestVars, Remote!vars

LEMMA RemoteRequestSteps ==
  ASSUME TypeOK, NotMade, NEW r \in Requests, InChild(r)
  PROVE  [Remote!Next]_Remote!vars
<1>1. CASE Request(r)
  <2>1. /\ outcome[r] = "new" /\ outcome' = [outcome EXCEPT ![r] = "pending"]
        /\ response' = response
    BY <1>1 DEF Request, NotMade
  <2>2. Spoiled' = Spoiled
    BY <1>1 DEF Request, Spoiled, TypeOK
  <2>3. Remote!Make(r)
    BY <2>1, <2>2 DEF Remote!Make, Spoiled
  <2>4. QED
    BY <2>3 DEF Remote!Next
<1>2. CASE ReadFails(r)
  <2>1. Spoiled' = Spoiled /\ response' = response
    BY <1>2 DEF ReadFails, Spoiled, TypeOK
  <2>2. CASE outcome[r] = "pending"
    <3>1. Remote!EndElsewhere(r)
      BY <1>2, <2>1, <2>2 DEF ReadFails, TypeOK, Remote!EndElsewhere, Spoiled
    <3>2. QED
      BY <3>1 DEF Remote!Next
  <2>3. CASE outcome[r] # "pending"
    <3>1. outcome' = outcome
      BY <1>2, <2>3 DEF ReadFails, TypeOK
    <3>2. QED
      BY <2>1, <3>1 DEF Remote!vars, Spoiled
  <2>4. QED
    BY <2>2, <2>3
<1>3. CASE Send(r)
  <2>1. Spoiled' = Spoiled /\ response' = response /\ outcome' = outcome
    BY <1>3 DEF Send, Spoiled, TypeOK
  <2>2. QED
    BY <2>1 DEF Remote!vars, Spoiled
<1>4. CASE AnswerOwn(r)
  <2>1. stage' = stage /\ response' = response
    BY <1>4 DEF AnswerOwn
  <2>2. CASE outcome[r] = "pending"
    <3>1. Remote!EndElsewhere(r)
      BY <1>4, <2>1, <2>2 DEF AnswerOwn, TypeOK, Remote!EndElsewhere
    <3>2. QED
      BY <3>1 DEF Remote!Next
  <2>3. CASE outcome[r] # "pending"
    <3>1. outcome' = outcome
      BY <1>4, <2>3 DEF AnswerOwn, TypeOK
    <3>2. QED
      BY <2>1, <3>1 DEF Remote!vars
  <2>4. QED
    BY <2>2, <2>3
<1>5. CASE Abort(r)
  <2>1. Remote!EndElsewhere(r)
    BY <1>5 DEF Abort, Remote!EndElsewhere
  <2>2. QED
    BY <2>1 DEF Remote!Next
<1>6. CASE Settle(r)
  <2>1. Remote!PerformAsIs(r)
    BY <1>6 DEF Settle, Remote!PerformAsIs
  <2>2. QED
    BY <2>1 DEF Remote!Next
<1>7. QED
  BY <1>1, <1>2, <1>3, <1>4, <1>5, <1>6, RemoteStutters DEF InChild

LEMMA RemoteSpoil ==
  ASSUME NEW c \in Children, DeliverForeign(c) \/ DeliverUnreadable(c)
  PROVE  [Remote!Next]_Remote!vars
<1>1. outcome' = outcome /\ response' = response
  BY DEF DeliverForeign, DeliverUnreadable
<1>2. Spoiled \subseteq Spoiled' /\ Spoiled' \subseteq Requests
  BY DEF DeliverForeign, DeliverUnreadable, Resolve, Spoiled
<1>3. Remote!Spoil
  BY <1>1, <1>2 DEF Remote!Spoil, Spoiled
<1>4. QED
  BY <1>3 DEF Remote!Next

LEMMA RemoteMock ==
  ASSUME TypeOK, Addressed, NEW c \in Children, DeliverResponse(c)
  PROVE  [Remote!Next]_Remote!vars
<1> DEFINE m == Head(toChild[c])
           R == {r \in ListenersIn(c) : Concerns(m, r)}
<1>1. m.id \in Requests /\ m = AnswerTo(m.id)
  BY HeadIsAnswer DEF DeliverResponse
<1>2. m.made = m.id /\ R \subseteq {m.id}
  BY <1>1, ReachesOne DEF AnswerTo
<1>3. /\ Resolve(R, "over")
      /\ outcome' = [r \in Requests |->
                       IF r \in R /\ outcome[r] = "pending" THEN "mocked" ELSE outcome[r]]
      /\ response' = [r \in Requests |->
                        IF r \in R /\ outcome[r] = "pending" THEN {m.made} ELSE response[r]]
  BY DEF DeliverResponse
<1> HIDE DEF m, R
<1>4. Spoiled' = Spoiled
  BY <1>3 DEF Resolve, Spoiled
<1>5. CASE m.id \in R /\ outcome[m.id] = "pending"
  <2>1. \A r \in Requests : (r \in R /\ outcome[r] = "pending") <=> r = m.id
    BY <1>2, <1>5
  <2>2. /\ outcome' = [outcome EXCEPT ![m.id] = "mocked"]
        /\ response' = [response EXCEPT ![m.id] = {m.id}]
    BY <1>1, <1>2, <1>3, <2>1 DEF TypeOK
  <2>3. Remote!Mock(m.id)
    BY <1>4, <1>5, <2>2 DEF Remote!Mock, Spoiled
  <2>4. QED
    BY <1>1, <2>3 DEF Remote!Next
<1>6. CASE ~(m.id \in R /\ outcome[m.id] = "pending")
  <2>1. \A r \in Requests : ~(r \in R /\ outcome[r] = "pending")
    BY <1>2, <1>6
  <2>2. outcome' = outcome /\ response' = response
    BY <1>3, <2>1 DEF TypeOK
  <2>3. QED
    BY <1>4, <2>2 DEF Remote!vars, Spoiled
<1>7. QED
  BY <1>5, <1>6

LEMMA RemoteStep == IInv /\ [Next]_vars => [Remote!Next]_Remote!vars
<1> SUFFICES ASSUME IInv, [Next]_vars PROVE [Remote!Next]_Remote!vars
  OBVIOUS
<1>1. TypeOK /\ Addressed /\ NotMade
  BY DEF IInv
<1>2. ASSUME NEW r \in Requests, InParent(r)
      PROVE  UNCHANGED requestVars
  BY <1>2 DEF InParent, Leave, Reject, Reply
<1>3. ASSUME NEW c \in Children,
             \/ DeliverTwice(c) \/ DisposeChild(c) \/ Exit(c)
             \/ SetUp(c) \/ Dispose(c) \/ Receive(c)
      PROVE  UNCHANGED requestVars
  BY <1>3 DEF DeliverTwice, DisposeChild, Exit, SetUp, Dispose, Receive
<1>4. UNCHANGED vars => UNCHANGED requestVars
  BY DEF vars
<1>5. QED
  BY <1>1, <1>2, <1>3, <1>4, RemoteStutters, RemoteRequestSteps, RemoteSpoil, RemoteMock
  DEF Next, Deliver

-----------------------------------------------------------------------------
(* Theorems.                                                               *)

\* The strengthening holds in every reachable state.
THEOREM Invariance == Spec => []IInv
BY InitIInv, StepIInv, PTL DEF Spec

\* Every variable of the children, the channels and the resolvers keeps its type.
THEOREM TypeCorrect == Spec => []TypeOK
<1>1. IInv => TypeOK
  BY DEF IInv
<1>2. QED
  BY <1>1, Invariance, PTL

\* However many children and requests there are, and however their messages overtake
\* one another: a message event throws in respondWith() only for a request that a
\* listener of the child has answered, or if a resolver has listened twice.
THEOREM CrashesNeedTwoAnswers == Spec => []CrashNeedsTwoAnswers
<1>1. IInv => CrashNeedsTwoAnswers
  BY DEF IInv
<1>2. QED
  BY <1>1, Invariance, PTL

\* Children, channels and resolvers together do what RemoteRequest promises of each
\* request: one end, and as a mock only the response made for it.
THEOREM RemoteRequestsAreKept == Spec => ImplementsRemoteRequest
<1>1. Init => Remote!Init
  BY RemoteInit
<1>2. IInv /\ [Next]_vars => [Remote!Next]_Remote!vars
  BY RemoteStep
<1>3. QED
  BY <1>1, <1>2, Invariance, PTL DEF Spec, ImplementsRemoteRequest, Remote!Spec

-----------------------------------------------------------------------------
(* Nobody waits in vain.                                                   *)

\* A request is on its way to the parent, is handled there, or has its answer coming.
Moving(r) == Queued(r) \/ asking[r] > 0 \/ Answered(r)

\* A request that is pending has a listener that goes on; one that waits for the parent
\* is listened for, and is moving unless the parent has given it up.
Awaited(r) ==
  /\ outcome[r] = "pending" => stage[r] \in {"reading", "waiting", "released"}
  /\ stage[r] = "waiting" /\ ChildOf[r] \in intercepting => r \in listening
  /\ stage[r] = "waiting" /\ ChildOf[r] \in running \cap intercepting =>
       r \in lost \/ Moving(r)
OwnLatest == \A c \in Children : \A r \in latest[c] : ChildOf[r] = c

DInv == OwnLatest /\ \A r \in Requests : Awaited(r)

NoDeadEnd ==
  \A r \in Requests :
    outcome[r] = "pending" /\ ChildOf[r] \in running \cap intercepting =>
      \/ stage[r] \in {"reading", "released"}
      \/ r \in listening /\ (r \in lost \/ Moving(r))

\* A step that is not about the stage of a request.
LEMMA AwaitedFrame ==
  ASSUME NEW r \in Requests, Awaited(r),
         stage'[r] = stage[r],
         outcome'[r] = outcome[r] \/ outcome'[r] # "pending",
         ChildOf[r] \in intercepting' => ChildOf[r] \in intercepting,
         ChildOf[r] \in running' => ChildOf[r] \in running,
         r \in lost => r \in lost',
         r \in listening /\ ChildOf[r] \in intercepting' => r \in listening',
         Moving(r) /\ ChildOf[r] \in running' => r \in lost' \/ Moving(r)'
  PROVE  Awaited(r)'
BY DEF Awaited

\* The channels that other requests use are left alone.
LEMMA QueuesFrame ==
  ASSUME NEW r \in Requests, UNCHANGED channelVars, asking'[r] = asking[r]
  PROVE  Moving(r) => Moving(r)'
BY DEF Moving, Queued, Answered, channelVars

LEMMA ChildDInv ==
  ASSUME TypeOK, DInv, NEW q \in Requests, InChild(q)
  PROVE  DInv'
<1>1. CASE Send(q)
  <2> DEFINE c == ChildOf[q]
  <2>1. c \in Children /\ \A r \in Requests : ChildOf[r] \in Children
    BY ChildOfAssumption
  <2>2. toParent[c] \in Seq(Requests)
    BY <2>1 DEF TypeOK
  <2>3. ToSet(Append(toParent[c], q)) = ToSet(toParent[c]) \cup {q}
    BY <2>2, AppendToQueue
  <2>4. /\ stage' = [stage EXCEPT ![q] = "waiting"]
        /\ toParent' = [toParent EXCEPT ![c] = Append(toParent[c], q)]
        /\ latest' = [latest EXCEPT ![c] = {q}]
        /\ listening' = listening \cup {q}
        /\ UNCHANGED <<running, intercepting, outcome, toChild, asking, lost>>
        /\ stage[q] = "reading"
    BY <1>1 DEF Send, parentVars, historyVars
  <2>5. OwnLatest'
    BY <2>4 DEF DInv, OwnLatest, TypeOK
  <2>6. \A d \in Children : ToSet(toParent[d]) \subseteq ToSet(toParent'[d])
    BY <2>3, <2>4 DEF TypeOK
  <2>7. q \in ToSet(toParent'[c])
    BY <2>1, <2>3, <2>4 DEF TypeOK
  <2>8. ASSUME NEW r \in Requests PROVE Awaited(r)'
    <3>1. CASE r = q
      <4>1. stage'[q] = "waiting" /\ q \in listening'
        BY <2>4 DEF TypeOK
      <4>2. Moving(q)'
        BY <2>7 DEF Moving, Queued
      <4>3. QED
        BY <3>1, <4>1, <4>2 DEF Awaited
    <3>2. CASE r # q
      <4>1. stage'[r] = stage[r]
        BY <2>4, <3>2 DEF TypeOK
      <4>2. Moving(r) => Moving(r)'
        BY <2>1, <2>4, <2>6 DEF Moving, Queued, Answered
      <4>3. QED
        BY <2>4, <4>1, <4>2, AwaitedFrame DEF DInv
    <3>3. QED
      BY <3>1, <3>2
  <2>9. QED
    BY <2>5, <2>8 DEF DInv
<1>2. CASE ~Send(q)
  <2>1. /\ UNCHANGED <<running, intercepting, latest, listening, toParent, toChild, asking, lost>>
        /\ \A r \in Requests \ {q} : stage'[r] = stage[r] /\ outcome'[r] = outcome[r]
        /\ \/ stage'[q] = "reading"
           \/ outcome'[q] # "pending" /\ (stage' = stage \/ stage'[q] # "waiting")
    <3>1. CASE Request(q)
      BY <3>1 DEF Request, TypeOK, childVars, channelVars, parentVars, historyVars
    <3>2. CASE ReadFails(q)
      BY <3>2 DEF ReadFails, TypeOK, childVars, channelVars, parentVars, historyVars
    <3>3. CASE AnswerOwn(q) \/ Abort(q) \/ Settle(q)
      BY <3>3
      DEF AnswerOwn, Abort, Settle, TypeOK, childVars, channelVars, parentVars, historyVars
    <3>4. QED
      BY <1>2, <3>1, <3>2, <3>3 DEF InChild
  <2>2. OwnLatest'
    BY <2>1 DEF DInv, OwnLatest
  <2>3. ASSUME NEW r \in Requests PROVE Awaited(r)'
    <3>1. Moving(r) => Moving(r)'
      BY <2>1, QueuesFrame DEF channelVars
    <3>2. CASE stage'[r] = stage[r] /\ (outcome'[r] = outcome[r] \/ outcome'[r] # "pending")
      BY <2>1, <3>1, <3>2, AwaitedFrame DEF DInv
    <3>3. CASE r = q /\ ~(stage'[r] = stage[r] /\ outcome'[r] # "pending")
      BY <2>1, <3>3 DEF Awaited
    <3>4. QED
      BY <2>1, <3>2, <3>3
  <2>4. QED
    BY <2>2, <2>3 DEF DInv
<1>3. QED
  BY <1>1, <1>2

LEMMA ParentDInv ==
  ASSUME TypeOK, Addressed, DInv, NEW q \in Requests, InParent(q)
  PROVE  DInv'
<1> DEFINE c == ChildOf[q]
<1>1. c \in Children /\ \A r \in Requests : ChildOf[r] \in Children
  BY ChildOfAssumption
<1>2. /\ UNCHANGED <<running, intercepting, latest, listening, stage, outcome, toParent>>
      /\ asking' = [asking EXCEPT ![q] = @ - 1]
      /\ \/ lost' = lost \cup {q} /\ toChild' = toChild
         \/ /\ c \in running /\ lost' = lost
            /\ toChild' = [toChild EXCEPT ![c] = Append(toChild[c], AnswerTo(q))]
         \/ c \notin running /\ lost' = lost /\ toChild' = toChild
  BY DEF InParent, Leave, Reject, Reply, AnswerTo, childVars, requestVars, channelVars,
         historyVars
<1>3. OwnLatest'
  BY <1>2 DEF DInv, OwnLatest
<1>4. AnswerTo(q) \in Message /\ toChild[c] \in Seq(Message)
  BY <1>1 DEF AnswerTo, Message, TypeOK
<1>5. ToSet(Append(toChild[c], AnswerTo(q))) = ToSet(toChild[c]) \cup {AnswerTo(q)}
  BY <1>4, AppendToQueue
<1>6. \A d \in Children : ToSet(toChild[d]) \subseteq ToSet(toChild'[d])
  BY <1>2, <1>5 DEF TypeOK
<1>7. q \in lost' \/ Answered(q)' \/ c \notin running
  BY <1>1, <1>2, <1>5 DEF Answered, TypeOK
<1>8. ASSUME NEW r \in Requests PROVE Awaited(r)'
  <2>1. Moving(r) /\ ChildOf[r] \in running' => r \in lost' \/ Moving(r)'
    <3>1. CASE r = q
      BY <1>2, <1>7, <3>1 DEF Moving
    <3>2. CASE r # q
      <4>1. asking'[r] = asking[r]
        BY <1>2, <3>2 DEF TypeOK
      <4>2. AnswerTo(r)' = AnswerTo(r)
        BY DEF AnswerTo
      <4>3. QED
        BY <1>1, <1>2, <1>6, <4>1, <4>2 DEF Moving, Queued, Answered
    <3>3. QED
      BY <3>1, <3>2
  <2>2. QED
    BY <1>2, <2>1, AwaitedFrame DEF DInv
<1>9. QED
  BY <1>3, <1>8 DEF DInv

\* A message is delivered: whom it concerns does not wait any more.
LEMMA DeliverDInv ==
  ASSUME TypeOK, DInv, NEW c \in Children, Deliver(c)
  PROVE  DInv'
<1>1. \A r \in Requests : ChildOf[r] \in Children
  BY ChildOfAssumption
<1>2. UNCHANGED <<intercepting, latest, listening, toParent, asking, lost>>
  BY DEF Deliver, DeliverResponse, DeliverUnreadable, DeliverTwice, childVars, requestVars,
         parentVars, historyVars
<1>3. OwnLatest'
  BY <1>2 DEF DInv, OwnLatest
<1>4. CASE DeliverTwice(c)
  <2>1. /\ running' = running \ {c} /\ stage' = stage /\ outcome' = outcome
        /\ toChild' = [toChild EXCEPT ![c] = <<>>]
    BY <1>4 DEF DeliverTwice, requestVars
  <2>2. ASSUME NEW r \in Requests PROVE Awaited(r)'
    <3>1. Moving(r) /\ ChildOf[r] \in running' => Moving(r)'
      BY <1>1, <1>2, <2>1 DEF Moving, Queued, Answered, AnswerTo, TypeOK
    <3>2. QED
      BY <1>2, <2>1, <2>2, <3>1, AwaitedFrame DEF DInv
  <2>3. QED
    BY <1>3, <2>2 DEF DInv
<1>5. CASE DeliverResponse(c) \/ DeliverUnreadable(c)
  <2> DEFINE m == Head(toChild[c])
  <2>1. PICK R : R = {r \in ListenersIn(c) : Concerns(m, r)}
    OBVIOUS
  <2>2. /\ running' = running /\ toChild[c] # <<>>
        /\ toChild' = [toChild EXCEPT ![c] = Tail(@)]
        /\ \/ /\ Resolve(R, "over")
              /\ outcome' = [r \in Requests |->
                               IF r \in R /\ outcome[r] = "pending" THEN "mocked"
                               ELSE outcome[r]]
           \/ Resolve(R, "released") /\ outcome' = outcome
    BY <1>5, <2>1 DEF DeliverResponse, DeliverUnreadable, childVars
  <2>3. toChild[c] \in Seq(Message)
    BY DEF TypeOK
  <2>4. ToSet(toChild[c]) = ToSet(Tail(toChild[c])) \cup {m}
    BY <2>2, <2>3, TailOfQueue
  <2>5. \A r \in Requests : AnswerTo(r) = m => m.id = r
    BY DEF AnswerTo
  <2> HIDE DEF m
  <2>6. ASSUME NEW r \in Requests, r \notin R, ~(AnswerTo(r) = m /\ ChildOf[r] = c)
        PROVE  Awaited(r)'
    <3>1. stage'[r] = stage[r] /\ outcome'[r] = outcome[r]
      BY <2>2, <2>6 DEF Resolve
    <3>2. AnswerTo(r) \in ToSet(toChild[ChildOf[r]]) =>
            AnswerTo(r) \in ToSet(toChild'[ChildOf[r]])
      BY <1>1, <2>2, <2>4, <2>6 DEF TypeOK
    <3>3. Moving(r) => Moving(r)'
      BY <1>2, <3>2 DEF Moving, Queued, Answered, AnswerTo
    <3>4. QED
      BY <1>2, <2>2, <3>1, <3>3, AwaitedFrame DEF DInv
  <2>7. ASSUME NEW r \in Requests, r \in R
        PROVE  Awaited(r)'
    <3>1. stage'[r] # "waiting"
      BY <2>2, <2>7 DEF Resolve
    <3>2. outcome'[r] = "pending" => stage'[r] \in {"reading", "waiting", "released"}
      <4>1. outcome[r] = "pending" => stage[r] \in {"reading", "waiting", "released"}
        BY DEF DInv, Awaited
      <4>2. QED
        BY <2>2, <2>7, <4>1 DEF Resolve
    <3>3. QED
      BY <3>1, <3>2 DEF Awaited
  <2>8. ASSUME NEW r \in Requests, r \notin R, AnswerTo(r) = m, ChildOf[r] = c
        PROVE  Awaited(r)'
    <3>1. r \notin listening
      BY <2>1, <2>5, <2>8 DEF ListenersIn, Concerns
    <3>2. stage'[r] = stage[r] /\ outcome'[r] = outcome[r]
      BY <2>2, <2>8 DEF Resolve
    <3>3. QED
      BY <1>2, <2>2, <3>1, <3>2 DEF DInv, Awaited
  <2>9. QED
    BY <1>3, <2>6, <2>7, <2>8 DEF DInv
<1>6. QED
  BY <1>4, <1>5 DEF Deliver

LEMMA ReceiveDInv ==
  ASSUME TypeOK, DInv, NEW c \in Children, Receive(c)
  PROVE  DInv'
<1>1. \A r \in Requests : ChildOf[r] \in Children
  BY ChildOfAssumption
<1>2. PICK q : q = Head(toParent[c])
  OBVIOUS
<1>3. toParent[c] \in Seq(Requests) /\ toParent[c] # <<>>
  BY DEF Receive, TypeOK
<1>4. q \in Requests /\ ToSet(toParent[c]) = ToSet(Tail(toParent[c])) \cup {q}
  BY <1>2, <1>3, TailOfQueue
<1>5. /\ UNCHANGED <<running, intercepting, latest, listening, stage, outcome, toChild>>
      /\ toParent' = [toParent EXCEPT ![c] = Tail(@)]
      /\ \/ lost' = lost \cup {q} /\ asking' = asking
         \/ /\ attached[c] > 0 /\ lost' = lost
            /\ asking' = [asking EXCEPT ![q] = @ + attached[c]]
  BY <1>2 DEF Receive, childVars, requestVars
<1>6. attached[c] \in Nat /\ \A r \in Requests : asking[r] \in Nat
  BY MaxAttachedAssumption DEF TypeOK
<1>7. /\ \A r \in Requests : asking[r] > 0 => asking'[r] > 0
      /\ q \in lost' \/ asking'[q] > 0
  <2>1. CASE lost' = lost \cup {q} /\ asking' = asking
    BY <2>1
  <2>2. CASE attached[c] > 0 /\ asking' = [asking EXCEPT ![q] = @ + attached[c]]
    <3>1. \A r \in Requests : asking'[r] = IF r = q THEN asking[q] + attached[c]
                                           ELSE asking[r]
      BY <2>2 DEF TypeOK
    <3>2. QED
      BY <1>4, <1>6, <2>2, <3>1
  <2>3. QED
    BY <1>5, <2>1, <2>2
<1>8. OwnLatest'
  BY <1>5 DEF DInv, OwnLatest
<1>9. ASSUME NEW r \in Requests PROVE Awaited(r)'
  <2>1. Queued(r) => r = q \/ Queued(r)'
    BY <1>1, <1>4, <1>5 DEF Queued, TypeOK
  <2>2. Moving(r) => r \in lost' \/ Moving(r)'
    BY <1>5, <1>7, <2>1 DEF Moving, Answered, AnswerTo
  <2>3. QED
    BY <1>5, <2>2, AwaitedFrame DEF DInv
<1>10. QED
  BY <1>8, <1>9 DEF DInv

\* What else happens to a child or to its resolver.
LEMMA LifeDInv ==
  ASSUME TypeOK, DInv, NEW c \in Children,
         DisposeChild(c) \/ Exit(c) \/ SetUp(c) \/ Dispose(c) \/ DeliverForeign(c)
  PROVE  DInv'
<1>1. \A r \in Requests : ChildOf[r] \in Children
  BY ChildOfAssumption
<1>2. UNCHANGED <<latest, toParent, asking, lost, outcome>>
  BY DEF DisposeChild, Exit, SetUp, Dispose, DeliverForeign, childVars, requestVars,
         channelVars, parentVars, historyVars
<1>3. OwnLatest'
  BY <1>2 DEF DInv, OwnLatest
<1>4. ASSUME NEW r \in Requests PROVE Awaited(r)'
  <2>1. CASE DeliverForeign(c)
    <3>1. UNCHANGED <<running, intercepting, listening, toChild>>
      BY <2>1 DEF DeliverForeign, childVars, channelVars
    <3>2. Moving(r) => Moving(r)'
      BY <1>2, <3>1, QueuesFrame DEF channelVars
    <3>3. \/ stage'[r] = stage[r]
          \/ stage'[r] = "released"
      BY <2>1 DEF DeliverForeign, Resolve
    <3>4. CASE stage'[r] = stage[r]
      BY <1>2, <3>1, <3>2, <3>4, AwaitedFrame DEF DInv
    <3>5. CASE stage'[r] = "released"
      BY <3>5 DEF Awaited
    <3>6. QED
      BY <3>3, <3>4, <3>5
  <2>2. CASE DisposeChild(c)
    <3>1. /\ UNCHANGED <<running, stage, toChild>>
          /\ intercepting' = intercepting \ {c}
          /\ listening' = listening \ latest[c]
      BY <2>2 DEF DisposeChild, requestVars, channelVars
    <3>2. Moving(r) => Moving(r)'
      BY <1>2, <3>1, QueuesFrame DEF channelVars
    <3>3. r \in listening /\ ChildOf[r] \in intercepting' => r \in listening'
      BY <3>1 DEF DInv, OwnLatest
    <3>4. QED
      BY <1>2, <3>1, <3>2, <3>3, AwaitedFrame DEF DInv
  <2>3. CASE Exit(c)
    <3>1. /\ UNCHANGED <<intercepting, listening, stage>>
          /\ running' = running \ {c}
          /\ toChild' = [toChild EXCEPT ![c] = <<>>]
      BY <2>3 DEF Exit, requestVars
    <3>2. Moving(r) /\ ChildOf[r] \in running' => Moving(r)'
      BY <1>1, <1>2, <3>1 DEF Moving, Queued, Answered, AnswerTo, TypeOK
    <3>3. QED
      BY <1>2, <3>1, <3>2, AwaitedFrame DEF DInv
  <2>4. CASE SetUp(c) \/ Dispose(c)
    <3>1. UNCHANGED <<running, intercepting, listening, stage, toChild>>
      BY <2>4 DEF SetUp, Dispose, childVars, requestVars, channelVars
    <3>2. Moving(r) => Moving(r)'
      BY <1>2, <3>1, QueuesFrame DEF channelVars
    <3>3. QED
      BY <1>2, <3>1, <3>2, AwaitedFrame DEF DInv
  <2>5. QED
    BY <2>1, <2>2, <2>3, <2>4
<1>5. QED
  BY <1>3, <1>4 DEF DInv

LEMMA StepDInv == IInv /\ DInv /\ [Next]_vars => DInv'
<1> SUFFICES ASSUME TypeOK, Addressed, DInv, [Next]_vars PROVE DInv'
  BY DEF IInv
<1>1. CASE UNCHANGED vars
  <2>1. /\ UNCHANGED <<running, intercepting, latest, listening, stage, outcome, lost, asking>>
        /\ UNCHANGED channelVars
    BY <1>1 DEF vars, childVars, requestVars, parentVars, historyVars
  <2>2. \A r \in Requests : Moving(r) => Moving(r)'
    BY <2>1, QueuesFrame
  <2>3. \A r \in Requests : Awaited(r)'
    BY <2>1, <2>2, AwaitedFrame DEF DInv
  <2>4. QED
    BY <2>1, <2>3 DEF DInv, OwnLatest
<1>2. QED
  BY <1>1, ChildDInv, ParentDInv, DeliverDInv, ReceiveDInv, LifeDInv DEF Next

LEMMA InitDInv == Init => DInv
BY DEF Init, DInv, OwnLatest, Awaited

\* The safe half of EveryRequestIsAnswered: a request of a child that lives and intercepts
\* is decided, or its listener goes on by itself, or it is listened for and is on its way,
\* in the parent, or its answer is; otherwise the parent has given it up
\* (RemoteHttpInterceptor.ts, RemoteHttpResolver).
THEOREM NobodyWaitsInVain == Spec => []NoDeadEnd
<1>1. Spec => [](IInv /\ DInv)
  BY InitIInv, StepIInv, InitDInv, StepDInv, PTL DEF Spec
<1>2. DInv => NoDeadEnd
  BY DEF DInv, Awaited, NoDeadEnd
<1>3. QED
  BY <1>1, <1>2, PTL
=============================================================================
