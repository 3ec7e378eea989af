------------------------ MODULE RequestHandlingProofs ------------------------
(***************************************************************************)
(* The safety properties of RequestHandling hold for any set of requests,  *)
(* any set of listeners and whatever they answer or throw, and no request  *)
(* waits for something that nobody is left to settle.                      *)
(***************************************************************************)
EXTENDS RequestHandling, TLAPS

\* Removing one element from a sequence without repetitions leaves a sequence
\* without repetitions, of all the other elements.
LEMMA RemoveAtKeepsDistinct ==
  ASSUME NEW S, NEW s \in Seq(S), NEW i \in DOMAIN s,
         \A j, k \in DOMAIN s : s[j] = s[k] => j = k
  PROVE  /\ RemoveAt(s, i) \in Seq(S)
         /\ \A j, k \in DOMAIN RemoveAt(s, i) :
              RemoveAt(s, i)[j] = RemoveAt(s, i)[k] => j = k
         /\ ToSet(RemoveAt(s, i)) \subseteq ToSet(s) \ {s[i]}
PROOF
<1> DEFINE t == RemoveAt(s, i)
<1>1. /\ i \in 1..Len(s) /\ Len(s) \in Nat /\ i \in Nat
      /\ SubSeq(s, 1, i - 1) \in Seq(S)
      /\ SubSeq(s, i + 1, Len(s)) \in Seq(S)
  OBVIOUS
<1>2. t \in Seq(S)
  BY <1>1 DEF RemoveAt
<1>3. Len(SubSeq(s, 1, i - 1)) = i - 1 /\ Len(SubSeq(s, i + 1, Len(s))) = Len(s) - i
  BY <1>1
<1>4. Len(t) = Len(s) - 1
  BY <1>1, <1>3 DEF RemoveAt
<1>5. \A k \in 1..(Len(s) - 1) : t[k] = IF k < i THEN s[k] ELSE s[k + 1]
  <2> SUFFICES ASSUME NEW k \in 1..(Len(s) - 1)
              PROVE  t[k] = IF k < i THEN s[k] ELSE s[k + 1]
    OBVIOUS
  <2>1. CASE k < i
    <3>1. t[k] = SubSeq(s, 1, i - 1)[k]
      BY <1>1, <1>3, <2>1 DEF RemoveAt
    <3> QED
      BY <1>1, <2>1, <3>1
  <2>2. CASE k >= i
    <3> DEFINE a == SubSeq(s, 1, i - 1)
               b == SubSeq(s, i + 1, Len(s))
               n == k - (i - 1)
    <3>1. n \in 1..(Len(s) - i) /\ n \in Nat
      BY <1>1, <2>2
    <3>2. b[n] = s[(i + 1) + n - 1]
      <4>1. \A m \in 1..(Len(s) + 1) : \A q \in 1..(Len(s) - m + 1) :
              SubSeq(s, m, Len(s))[q] = s[m + q - 1]
        OBVIOUS
      <4>2. i + 1 \in 1..(Len(s) + 1) /\ Len(s) - (i + 1) + 1 = Len(s) - i
        BY <1>1
      <4> HIDE DEF n
      <4> QED
        BY <3>1, <4>1, <4>2
    <3>3. (a \o b)[Len(a) + n] = b[n]
      <4>1. a \in Seq(S) /\ b \in Seq(S) /\ n \in 1..Len(b)
        BY <1>1, <1>3, <3>1
      <4> HIDE DEF a, b, n
      <4> QED
        BY <4>1
    <3>4. Len(a) + n = k /\ (i + 1) + n - 1 = k + 1
      BY <1>1, <1>3
    <3>5. t[k] = s[k + 1]
      BY <3>2, <3>3, <3>4 DEF RemoveAt
    <3> QED
      BY <1>1, <2>2, <3>5
  <2> QED
    BY <1>1, <2>1, <2>2
<1>6. DOMAIN t = 1..(Len(s) - 1)
  BY <1>2, <1>4
<1> HIDE DEF t
<1>7. \A j, k \in DOMAIN t : t[j] = t[k] => j = k
  <2> SUFFICES ASSUME NEW j \in 1..(Len(s) - 1), NEW k \in 1..(Len(s) - 1),
                      t[j] = t[k]
              PROVE  j = k
    BY <1>6
  <2> DEFINE at(n) == IF n < i THEN n ELSE n + 1
  <2>1. at(j) \in DOMAIN s /\ at(k) \in DOMAIN s
    BY <1>1
  <2>2. s[at(j)] = s[at(k)]
    BY <1>5
  <2>3. at(j) = at(k)
    BY <2>1, <2>2
  <2> QED
    BY <1>1, <2>3
<1>8. \A k \in DOMAIN t : t[k] \in ToSet(s) /\ t[k] # s[i]
  BY <1>1, <1>5, <1>6 DEF ToSet
<1>9. ToSet(t) \subseteq ToSet(s) \ {s[i]}
  BY <1>8 DEF ToSet
<1> QED
  BY <1>2, <1>7, <1>9 DEF t

\* Adding a listener that is not there keeps the listeners distinct.
LEMMA AppendKeepsDistinct ==
  ASSUME NEW S, NEW s \in Seq(S), NEW x \in S, x \notin ToSet(s),
         \A j, k \in DOMAIN s : s[j] = s[k] => j = k
  PROVE  /\ Append(s, x) \in Seq(S)
         /\ \A j, k \in DOMAIN Append(s, x) :
              Append(s, x)[j] = Append(s, x)[k] => j = k
         /\ ToSet(Append(s, x)) = ToSet(s) \cup {x}
PROOF
<1> DEFINE t == Append(s, x)
<1>1. t \in Seq(S) /\ DOMAIN t = 1..(Len(s) + 1)
  OBVIOUS
<1>2. DOMAIN s = 1..Len(s) /\ Len(s) \in Nat
  OBVIOUS
<1>3. t[Len(s) + 1] = x /\ \A j \in 1..Len(s) : t[j] = s[j]
  OBVIOUS
<1>4. \A j \in 1..Len(s) : s[j] # x
  BY <1>2 DEF ToSet
<1> HIDE DEF t
<1>5. \A j, k \in DOMAIN t : t[j] = t[k] => j = k
  BY <1>1, <1>2, <1>3, <1>4
<1>6. ToSet(t) = ToSet(s) \cup {x}
  BY <1>1, <1>2, <1>3 DEF ToSet
<1> QED
  BY <1>1, <1>5, <1>6 DEF t

\* No listener is registered twice.
Distinct == \A i, j \in DOMAIN registered : registered[i] = registered[j] => i = j

\* The inductive invariant, seen from one request.
Local(q) ==
  /\ phase[q] = "idle" => /\ todo[q] = <<>>
                          /\ thrown[q] = "none"
                          /\ response[q] = "pending"
  /\ phase[q] # "idle" /\ todo[q] = <<>> /\ thrown[q] = "none" =>
       response[q] # "pending"
  /\ todo[q] # <<>> => todo[q][Len(todo[q])] = q /\ thrown[q] = "none"
  /\ \A i \in DOMAIN todo[q] : todo[q][i] = q => i = Len(todo[q])
  /\ reached[q] => phase[q] # "idle"
  /\ phase[q] = "exception" => thrown[q] = "exception"
  /\ phase[q] = "exception" /\ xTodo[q] = 0 => xResponse[q] # "pending"
  /\ phase[q] = "settled" <=> outcome[q] # "pending"
  /\ outcome[q] # "pending" /\ ~aborted[q] /\ thrown[q] = "none" =>
       response[q] # "pending" /\ outcome[q] = OutcomeOf(response[q])
  /\ response[q] = "undefined" => todo[q] = <<>> /\ thrown[q] = "none"
  /\ q \in ToSet(registered) =>
       phase[q] # "idle" /\ (todo[q] # <<>> \/ thrown[q] # "none")

\* IInv says the same of every request.
LEMMA LocalView == IInv <=> TypeOK /\ Distinct /\ \A q \in Requests : Local(q)
BY DEF IInv, Bookkeeping, UndefinedMeansAllReturned, SentinelsAccountedFor,
       AnswerDecides, Distinct, Local

LEMMA LocalViewPrime ==
  IInv' <=> TypeOK' /\ Distinct' /\ (\A q \in Requests : Local(q)')
BY DEF IInv, Bookkeeping, UndefinedMeansAllReturned, SentinelsAccountedFor,
       AnswerDecides, Distinct, Local

\* Unregistering a listener keeps the listeners distinct and takes it out.
LEMMA UnregisterRemoves ==
  ASSUME TypeOK, Distinct, NEW l, Unregister(l)
  PROVE  /\ registered' \in Seq(Listeners \cup Requests)
         /\ Distinct'
         /\ ToSet(registered') \subseteq ToSet(registered) \ {l}
PROOF
<1>1. registered \in Seq(Listeners \cup Requests)
  BY DEF TypeOK
<1>2. CASE l \notin ToSet(registered) /\ UNCHANGED registered
  BY <1>1, <1>2 DEF Distinct
<1>3. CASE \E i \in DOMAIN registered :
             registered[i] = l /\ registered' = RemoveAt(registered, i)
  <2>1. PICK i \in DOMAIN registered :
          registered[i] = l /\ registered' = RemoveAt(registered, i)
    BY <1>3
  <2> QED
    BY <1>1, <2>1, RemoveAtKeepsDistinct DEF Distinct
<1> QED
  BY <1>2, <1>3 DEF Unregister

\* A step that leaves a request's own state alone and does not register its
\* sentinel preserves the invariant of that request.
LEMMA Frame ==
  ASSUME NEW q \in Requests, Local(q),
         phase'[q] = phase[q], todo'[q] = todo[q], thrown'[q] = thrown[q],
         reached'[q] = reached[q], response'[q] = response[q],
         aborted'[q] = aborted[q], outcome'[q] = outcome[q],
         xTodo'[q] = xTodo[q], xResponse'[q] = xResponse[q],
         q \in ToSet(registered') => q \in ToSet(registered)
  PROVE  Local(q)'
BY DEF Local, OutcomeOf, xVars

\* What is left of a sequence of listeners after the first one had its turn.
LEMMA TailOfTodo ==
  ASSUME NEW S, NEW s \in Seq(S), s # <<>>
  PROVE  /\ Tail(s) \in Seq(S)
         /\ Len(s) \in Nat \ {0}
         /\ Len(Tail(s)) = Len(s) - 1
         /\ Head(s) = s[1]
         /\ Head(s) \in S
         /\ \A i \in DOMAIN Tail(s) : i + 1 \in DOMAIN s /\ Tail(s)[i] = s[i + 1]
         /\ (Tail(s) = <<>>) <=> (Len(s) = 1)
PROOF
<1>1. Len(s) \in Nat \ {0}
  OBVIOUS
<1>2. Tail(s) \in Seq(S) /\ Len(Tail(s)) = Len(s) - 1
  OBVIOUS
<1>3. Head(s) = s[1] /\ Head(s) \in S
  OBVIOUS
<1>4. \A i \in DOMAIN Tail(s) : i + 1 \in DOMAIN s /\ Tail(s)[i] = s[i + 1]
  OBVIOUS
<1>5. (Tail(s) = <<>>) <=> (Len(Tail(s)) = 0)
  <2>1. \A t \in Seq(S) : (t = <<>>) <=> (Len(t) = 0)
    OBVIOUS
  <2> QED
    BY <1>2, <2>1, Zenon
<1> QED
  BY <1>1, <1>2, <1>3, <1>4, <1>5

\* When the head of an emission is not its own sentinel, the sentinel is still
\* the last listener of what remains.
LEMMA SentinelStaysLast ==
  ASSUME NEW S, NEW s \in Seq(S), s # <<>>, NEW r, s[Len(s)] = r,
         \A i \in DOMAIN s : s[i] = r => i = Len(s),
         Head(s) # r
  PROVE  /\ Tail(s) # <<>>
         /\ Tail(s)[Len(Tail(s))] = r
         /\ \A i \in DOMAIN Tail(s) : Tail(s)[i] = r => i = Len(Tail(s))
PROOF
<1> DEFINE t == Tail(s)
<1>1. /\ Len(s) \in Nat \ {0}
      /\ Len(t) = Len(s) - 1
      /\ Head(s) = s[1]
      /\ \A i \in DOMAIN t : i + 1 \in DOMAIN s /\ t[i] = s[i + 1]
      /\ (t = <<>>) <=> (Len(s) = 1)
  BY TailOfTodo
<1>2. DOMAIN t = 1..Len(t) /\ DOMAIN s = 1..Len(s)
  OBVIOUS
<1> HIDE DEF t
<1>3. Len(s) # 1
  BY <1>1
<1>4. t[Len(t)] = r
  BY <1>1, <1>2, <1>3
<1>5. \A i \in DOMAIN t : t[i] = r => i = Len(t)
  BY <1>1, <1>2
<1> QED
  BY <1>1, <1>3, <1>4, <1>5 DEF t

\* The initial states satisfy the inductive invariant.
LEMMA InitIInv == Init => IInv
PROOF
<1> SUFFICES ASSUME Init PROVE IInv
  OBVIOUS
<1>1. TypeOK
  BY ExceptionListenersAssumption DEF Init, TypeOK
<1>2. Distinct
  BY DEF Init, Distinct
<1>3. \A q \in Requests : Local(q)
  BY DEF Init, Local, ToSet
<1> QED
  BY <1>1, <1>2, <1>3, LocalView

\* Adding and removing a listener of the developer.
LEMMA OnIInv ==
  ASSUME IInv, NEW l \in Listeners, On(l)
  PROVE  IInv'
PROOF
<1>1. TypeOK /\ Distinct /\ \A q \in Requests : Local(q)
  BY LocalView
<1>2. /\ registered' \in Seq(Listeners \cup Requests)
      /\ Distinct'
      /\ ToSet(registered') = ToSet(registered) \cup {l}
  <2>1. /\ registered \in Seq(Listeners \cup Requests)
        /\ l \in Listeners \cup Requests
        /\ l \notin ToSet(registered)
        /\ registered' = Append(registered, l)
    BY <1>1 DEF TypeOK, On
  <2> QED
    BY <1>1, <2>1, AppendKeepsDistinct DEF Distinct
<1>3. TypeOK'
  BY <1>1, <1>2 DEF TypeOK, On, xVars
<1>4. ASSUME NEW q \in Requests PROVE Local(q)'
  <2>1. q \in ToSet(registered') => q \in ToSet(registered)
    BY <1>2, RequestsAssumption
  <2> QED
    BY <1>1, <2>1, Frame DEF On, xVars
<1> QED
  BY <1>2, <1>3, <1>4, LocalViewPrime

LEMMA OffIInv ==
  ASSUME IInv, NEW l \in Listeners, Off(l)
  PROVE  IInv'
PROOF
<1>1. TypeOK /\ Distinct /\ \A q \in Requests : Local(q)
  BY LocalView
<1>2. /\ registered' \in Seq(Listeners \cup Requests)
      /\ Distinct'
      /\ ToSet(registered') \subseteq ToSet(registered) \ {l}
  BY <1>1, UnregisterRemoves DEF Off
<1>3. TypeOK'
  BY <1>1, <1>2 DEF TypeOK, Off, xVars
<1>4. ASSUME NEW q \in Requests PROVE Local(q)'
  BY <1>1, <1>2, Frame DEF Off, xVars
<1> QED
  BY <1>2, <1>3, <1>4, LocalViewPrime

\* The sentinel is the last listener of the emission it belongs to, and its
\* request had no sentinel before.
LEMMA StartIInv ==
  ASSUME IInv, NEW r \in Requests, Start(r)
  PROVE  IInv'
PROOF
<1>1. TypeOK /\ Distinct /\ \A q \in Requests : Local(q)
  BY LocalView
<1>2. /\ registered \in Seq(Listeners \cup Requests)
      /\ r \in Listeners \cup Requests
      /\ r \notin ToSet(registered)
      /\ registered' = Append(registered, r)
  BY <1>1 DEF TypeOK, Start, Local
<1>3. /\ registered' \in Seq(Listeners \cup Requests)
      /\ Distinct'
      /\ ToSet(registered') = ToSet(registered) \cup {r}
  BY <1>1, <1>2, AppendKeepsDistinct DEF Distinct
<1>4. todo' = [todo EXCEPT ![r] = registered']
  BY DEF Start
<1>5. TypeOK'
  BY <1>1, <1>3, <1>4 DEF TypeOK, Start, xVars
<1>6. ASSUME NEW q \in Requests PROVE Local(q)'
  <2>1. CASE q = r
    <3>1. /\ todo'[r] = registered' /\ phase'[r] = "racing"
          /\ thrown'[r] = "none" /\ response'[r] = "pending"
          /\ reached'[r] = reached[r] /\ outcome'[r] = outcome[r]
          /\ outcome[r] = "pending"
      BY <1>1, <1>4 DEF TypeOK, Start, Local
    <3>2. /\ Len(registered') = Len(registered) + 1
          /\ Len(registered) \in Nat
          /\ registered'[Len(registered')] = r
          /\ DOMAIN registered' = 1..Len(registered')
      BY <1>2, <1>3
    <3>3. registered' # <<>>
      BY <3>2, <1>3
    <3>4. \A i \in DOMAIN registered' : registered'[i] = r => i = Len(registered')
      <4>1. Len(registered') \in DOMAIN registered'
        BY <3>2
      <4> QED
        BY <1>3, <3>2, <4>1 DEF Distinct
    <3> QED
      BY <2>1, <3>1, <3>2, <3>3, <3>4 DEF Local
  <2>2. CASE q # r
    <3>1. todo'[q] = todo[q] /\ phase'[q] = phase[q]
      BY <1>1, <1>4, <2>2 DEF TypeOK, Start
    <3> QED
      BY <1>1, <1>3, <2>2, <3>1, Frame DEF Start, xVars
  <2> QED
    BY <2>1, <2>2
<1> QED
  BY <1>3, <1>5, <1>6, LocalViewPrime

\* The steps of an emission.
LEMMA ListenerReturnsIInv ==
  ASSUME IInv, NEW r \in Requests, ListenerReturns(r)
  PROVE  IInv'
PROOF
<1>1. TypeOK /\ Distinct /\ \A q \in Requests : Local(q)
  BY LocalView
<1>2. todo[r] \in Seq(Listeners \cup Requests) /\ todo[r] # <<>>
  BY <1>1 DEF TypeOK, ListenerReturns, Running
<1>3. /\ Tail(todo[r]) \in Seq(Listeners \cup Requests)
      /\ todo' = [todo EXCEPT ![r] = Tail(todo[r])]
  BY <1>2, TailOfTodo DEF ListenerReturns
<1>4. TypeOK'
  BY <1>1, <1>3 DEF TypeOK, ListenerReturns, xVars
<1>5. Distinct'
  BY <1>1 DEF Distinct, ListenerReturns
<1>6. ASSUME NEW q \in Requests PROVE Local(q)'
  <2>1. CASE q = r
    <3>1. Head(todo[r]) # r
      BY RequestsAssumption DEF ListenerReturns, Running
    <3>2. /\ todo[r][Len(todo[r])] = r
          /\ \A i \in DOMAIN todo[r] : todo[r][i] = r => i = Len(todo[r])
          /\ phase[r] # "idle" /\ thrown[r] = "none" /\ response[r] # "undefined"
      BY <1>1, <1>2 DEF Local
    <3>3. /\ todo'[r] # <<>>
          /\ todo'[r][Len(todo'[r])] = r
          /\ \A i \in DOMAIN todo'[r] : todo'[r][i] = r => i = Len(todo'[r])
      <4>1. todo'[r] = Tail(todo[r])
        BY <1>1, <1>3 DEF TypeOK
      <4> QED
        BY <1>2, <3>1, <3>2, <4>1, SentinelStaysLast
    <3>4. Local(r)
      BY <1>1
    <3> QED
      BY <1>2, <2>1, <3>2, <3>3, <3>4 DEF Local, ListenerReturns, xVars
  <2>2. CASE q # r
    <3>1. todo'[q] = todo[q] /\ reached'[q] = reached[q]
      BY <1>1, <1>3, <2>2 DEF TypeOK, ListenerReturns
    <3> QED
      BY <1>1, <3>1, Frame DEF ListenerReturns, xVars
  <2> QED
    BY <2>1, <2>2
<1> QED
  BY <1>4, <1>5, <1>6, LocalViewPrime

LEMMA ListenerThrowsIInv ==
  ASSUME IInv, NEW r \in Requests, NEW e \in Throwables, ListenerThrows(r, e)
  PROVE  IInv'
PROOF
<1>1. TypeOK /\ Distinct /\ \A q \in Requests : Local(q)
  BY LocalView
<1>2. TypeOK'
  BY <1>1 DEF TypeOK, ListenerThrows, xVars
<1>3. Distinct'
  BY <1>1 DEF Distinct, ListenerThrows
<1>4. ASSUME NEW q \in Requests PROVE Local(q)'
  <2>1. CASE q = r
    <3>1. /\ todo'[r] = <<>> /\ thrown'[r] = e /\ e # "none" /\ todo[r] # <<>>
          /\ reached'[r] = TRUE
      BY <1>1, ThrowablesAssumption DEF TypeOK, ListenerThrows, Running
    <3>2. phase[r] \notin {"idle", "exception"} /\ response[r] # "undefined"
      BY <1>1, <3>1 DEF Local
    <3>3. \A i \in DOMAIN todo'[r] : todo'[r][i] = r => i = Len(todo'[r])
      BY <3>1
    <3>4. phase[r] = "settled" <=> outcome[r] # "pending"
      BY <1>1 DEF Local
    <3> QED
      BY <2>1, <3>1, <3>2, <3>3, <3>4 DEF Local, ListenerThrows, xVars
  <2>2. CASE q # r
    <3>1. todo'[q] = todo[q] /\ reached'[q] = reached[q] /\ thrown'[q] = thrown[q]
      BY <1>1, <2>2 DEF TypeOK, ListenerThrows
    <3> QED
      BY <1>1, <3>1, Frame DEF ListenerThrows, xVars
  <2> QED
    BY <2>1, <2>2
<1> QED
  BY <1>2, <1>3, <1>4, LocalViewPrime

\* A sentinel takes itself off the emitter whoever calls it, but only resolves
\* the promise of its own request, whose emission it ends.
LEMMA RunSentinelIInv ==
  ASSUME IInv, NEW r \in Requests, RunSentinel(r)
  PROVE  IInv'
PROOF
<1>1. TypeOK /\ Distinct /\ \A q \in Requests : Local(q)
  BY LocalView
<1>2. todo[r] \in Seq(Listeners \cup Requests) /\ todo[r] # <<>>
  BY <1>1 DEF TypeOK, RunSentinel
<1>3. /\ Tail(todo[r]) \in Seq(Listeners \cup Requests)
      /\ todo' = [todo EXCEPT ![r] = Tail(todo[r])]
      /\ todo'[r] = Tail(todo[r])
  BY <1>1, <1>2, TailOfTodo DEF RunSentinel, TypeOK
<1>4. /\ registered' \in Seq(Listeners \cup Requests)
      /\ Distinct'
      /\ ToSet(registered') \subseteq ToSet(registered) \ {Head(todo[r])}
  BY <1>1, UnregisterRemoves DEF RunSentinel
<1>5. TypeOK'
  BY <1>1, <1>3, <1>4 DEF TypeOK, RunSentinel, xVars
<1>6. ASSUME NEW q \in Requests PROVE Local(q)'
  <2>1. CASE q = r
    <3>1. /\ todo[r][Len(todo[r])] = r
          /\ \A i \in DOMAIN todo[r] : todo[r][i] = r => i = Len(todo[r])
          /\ phase[r] # "idle" /\ thrown[r] = "none" /\ response[r] # "undefined"
          /\ Local(r)
      BY <1>1, <1>2 DEF Local
    <3>2. CASE Head(todo[r]) = r
      <4>1. Tail(todo[r]) = <<>>
        <5>1. 1 \in DOMAIN todo[r] /\ Head(todo[r]) = todo[r][1]
          BY <1>2
        <5>2. Len(todo[r]) = 1
          BY <3>1, <3>2, <5>1
        <5> QED
          BY <1>2, <5>2, TailOfTodo
      <4>2. \A i \in DOMAIN todo'[r] : todo'[r][i] = r => i = Len(todo'[r])
        BY <1>3, <4>1
      <4>3. response'[r] # "pending" /\
              (response[r] # "pending" => response'[r] = response[r])
        BY <1>1, <3>2 DEF TypeOK, RunSentinel
      <4>4. r \notin ToSet(registered')
        BY <1>4, <3>2
      <4> QED
        BY <2>1, <1>3, <3>1, <4>1, <4>2, <4>3, <4>4 DEF Local, RunSentinel, OutcomeOf, xVars
    <3>3. CASE Head(todo[r]) # r
      <4>1. /\ todo'[r] # <<>>
            /\ todo'[r][Len(todo'[r])] = r
            /\ \A i \in DOMAIN todo'[r] : todo'[r][i] = r => i = Len(todo'[r])
        BY <1>2, <1>3, <3>1, <3>3, SentinelStaysLast
      <4>2. response' = response
        BY <3>3 DEF RunSentinel
      <4> QED
        BY <2>1, <3>1, <4>1, <4>2 DEF Local, RunSentinel, OutcomeOf, xVars
    <3> QED
      BY <3>2, <3>3
  <2>2. CASE q # r
    <3>1. todo'[q] = todo[q] /\ response'[q] = response[q]
      BY <1>1, <1>3, <2>2 DEF TypeOK, RunSentinel
    <3>2. q \in ToSet(registered') => q \in ToSet(registered)
      BY <1>4
    <3> QED
      BY <1>1, <3>1, <3>2, Frame DEF RunSentinel, xVars
  <2> QED
    BY <2>1, <2>2
<1> QED
  BY <1>4, <1>5, <1>6, LocalViewPrime

\* The controller and the signal.
LEMMA AnswerIInv ==
  ASSUME IInv, NEW r \in Requests, NEW a \in Answers, Answer(r, a)
  PROVE  IInv'
PROOF
<1>1. TypeOK /\ Distinct /\ \A q \in Requests : Local(q)
  BY LocalView
<1>2. TypeOK'
  BY <1>1 DEF TypeOK, Answer, xVars
<1>3. Distinct'
  BY <1>1 DEF Distinct, Answer
<1>4. ASSUME NEW q \in Requests PROVE Local(q)'
  <2>1. CASE q = r
    <3>1. phase[r] # "idle"
      BY <1>1 DEF Answer, Running, Local
    <3>2. a \notin {"pending", "undefined"}
      BY AnswersAssumption
    <3>3. response'[r] = IF response[r] = "pending" THEN a ELSE response[r]
      BY <1>1 DEF TypeOK, Answer
    <3>4. Local(r)
      BY <1>1
    <3> QED
      BY <2>1, <3>1, <3>2, <3>3, <3>4 DEF Local, Answer, OutcomeOf, xVars
  <2>2. CASE q # r
    <3>1. response'[q] = response[q]
      BY <1>1, <2>2 DEF TypeOK, Answer
    <3> QED
      BY <1>1, <3>1, Frame DEF Answer, xVars
  <2> QED
    BY <2>1, <2>2
<1> QED
  BY <1>2, <1>3, <1>4, LocalViewPrime

LEMMA AbortIInv ==
  ASSUME IInv, NEW r \in Requests, Abort(r)
  PROVE  IInv'
PROOF
<1>1. TypeOK /\ Distinct /\ \A q \in Requests : Local(q)
  BY LocalView
<1>2. TypeOK'
  BY <1>1 DEF TypeOK, Abort, xVars
<1>3. Distinct'
  BY <1>1 DEF Distinct, Abort
<1>4. ASSUME NEW q \in Requests PROVE Local(q)'
  <2>1. CASE q = r
    BY <1>1, <2>1 DEF Local, Abort, xVars
  <2>2. CASE q # r
    <3>1. aborted'[q] = aborted[q]
      BY <1>1, <2>2 DEF TypeOK, Abort
    <3> QED
      BY <1>1, <3>1, Frame DEF Abort, xVars
  <2> QED
    BY <2>1, <2>2
<1> QED
  BY <1>2, <1>3, <1>4, LocalViewPrime

\* Once the race is settled the request gets its outcome, unless a listener
\* threw and somebody listens to "unhandledException".
LEMMA WakeIInv ==
  ASSUME IInv, NEW r \in Requests, Wake(r)
  PROVE  IInv'
PROOF
<1>1. TypeOK /\ Distinct /\ \A q \in Requests : Local(q)
  BY LocalView
<1>2. /\ thrown[r] \in {"interceptorError", "nodeError", "response", "networkError",
                        "exception", "none"}
      /\ response[r] \in {"response", "networkError", "error", "object", "nothing",
                          "undefined", "pending"}
  BY <1>1, AnswersAssumption, ThrowablesAssumption DEF TypeOK
<1>3. /\ outcome[r] = "pending" /\ thrown[r] = "none" /\ ~aborted[r] =>
           response[r] # "pending"
      /\ phase[r] = "racing" /\ outcome[r] = "pending"
  BY <1>1 DEF Wake, RaceIsSettled, Local
<1>4. CASE /\ phase' = [phase EXCEPT ![r] = "exception"]
           /\ thrown[r] = "exception"
           /\ xListeners > 0
           /\ xTodo' = [xTodo EXCEPT ![r] = xListeners]
           /\ UNCHANGED <<xHandled, xResponse, outcome>>
  <2>1. TypeOK'
    BY <1>1, <1>4 DEF TypeOK, Wake
  <2>2. Distinct'
    BY <1>1 DEF Distinct, Wake
  <2>3. ASSUME NEW q \in Requests PROVE Local(q)'
    <3>1. CASE q = r
      <4>1. phase'[r] = "exception" /\ xTodo'[r] = xListeners
        BY <1>1, <1>4 DEF TypeOK
      <4>2. xTodo'[r] # 0
        BY <1>4, <4>1
      <4> QED
        BY <1>1, <1>3, <1>4, <3>1, <4>1, <4>2 DEF Local, Wake
    <3>2. CASE q # r
      <4>1. phase'[q] = phase[q]
        BY <1>1, <1>4, <3>2 DEF TypeOK
      <4>2. xTodo'[q] = xTodo[q] /\ xResponse'[q] = xResponse[q]
        BY <1>1, <1>4, <3>2 DEF TypeOK
      <4> QED
        BY <1>1, <1>4, <4>1, <4>2, Frame DEF Wake
    <3> QED
      BY <3>1, <3>2
  <2> QED
    BY <2>1, <2>2, <2>3, LocalViewPrime
<1>5. ASSUME NEW o \in Outcomes, Settle(r, o),
             aborted[r] \/ thrown[r] # "none" \/
               (o = OutcomeOf(response[r]) /\ response[r] # "pending")
      PROVE  IInv'
  <2>1. TypeOK'
    BY <1>1, <1>5 DEF TypeOK, Wake, Settle, xVars
  <2>2. Distinct'
    BY <1>1 DEF Distinct, Wake
  <2>3. ASSUME NEW q \in Requests PROVE Local(q)'
    <3>1. CASE q = r
      <4>1. phase'[r] = "settled" /\ outcome'[r] = o /\ o # "pending"
        BY <1>1, <1>5 DEF TypeOK, Settle, Outcomes
      <4> QED
        BY <1>1, <1>3, <1>5, <3>1, <4>1 DEF Local, Wake, OutcomeOf, xVars
    <3>2. CASE q # r
      <4>1. phase'[q] = phase[q] /\ outcome'[q] = outcome[q]
        BY <1>1, <1>5, <3>2 DEF TypeOK, Settle
      <4> QED
        BY <1>1, <1>5, <4>1, Frame DEF Wake, Settle, xVars
    <3> QED
      BY <3>1, <3>2
  <2> QED
    BY <2>1, <2>2, <2>3, LocalViewPrime
<1>6. CASE aborted[r] /\ Settle(r, "abort")
  BY <1>5, <1>6 DEF Outcomes
<1>7. CASE /\ ~aborted[r] /\ thrown[r] \notin {"none", "exception"}
           /\ Settle(r, OutcomeOfThrown(thrown[r]))
  <2>1. OutcomeOfThrown(thrown[r]) \in Outcomes
    BY <1>2, <1>7 DEF OutcomeOfThrown, Outcomes
  <2> QED
    BY <1>5, <1>7, <2>1
<1>8. CASE thrown[r] = "exception" /\ Settle(r, "serverError")
  BY <1>5, <1>8 DEF Outcomes
<1>9. CASE ~aborted[r] /\ thrown[r] = "none" /\ Settle(r, OutcomeOf(response[r]))
  <2>1. OutcomeOf(response[r]) \in Outcomes /\ response[r] # "pending"
    BY <1>2, <1>3, <1>9 DEF OutcomeOf, Outcomes
  <2> QED
    BY <1>5, <1>9, <2>1
<1> QED
  BY <1>4, <1>6, <1>7, <1>8, <1>9 DEF Wake

\* What happens to the controller of an exception does not show outside it.
LEMMA ExceptionStepIInv ==
  ASSUME IInv, NEW r \in Requests,
         ExceptionListenerReturns(r) \/ (\E a \in Answers : AnswerException(r, a))
  PROVE  IInv'
PROOF
<1>1. TypeOK /\ Distinct /\ \A q \in Requests : Local(q)
  BY LocalView
<1>2. UNCHANGED <<registered, phase, todo, thrown, reached, response, aborted,
                  outcome>>
  BY DEF ExceptionListenerReturns, AnswerException
<1>3. TypeOK'
  <2>1. CASE ExceptionListenerReturns(r)
    <3>1. xTodo[r] - 1 \in 0..ExceptionListeners
      BY <1>1, <2>1, ExceptionListenersAssumption
         DEF TypeOK, ExceptionListenerReturns
    <3> QED
      BY <1>1, <2>1, <3>1 DEF TypeOK, ExceptionListenerReturns
  <2>2. ASSUME NEW a \in Answers, AnswerException(r, a) PROVE TypeOK'
    BY <1>1, <2>2 DEF TypeOK, AnswerException
  <2> QED
    BY <2>1, <2>2
<1>4. Distinct'
  BY <1>1, <1>2 DEF Distinct
<1>5. xTodo'[r] = 0 /\ phase[r] = "exception" => xResponse'[r] # "pending"
  <2>1. CASE ExceptionListenerReturns(r)
    BY <1>1, <2>1 DEF TypeOK, ExceptionListenerReturns
  <2>2. ASSUME NEW a \in Answers, AnswerException(r, a)
        PROVE  xTodo'[r] = 0 /\ phase[r] = "exception" => xResponse'[r] # "pending"
    BY <1>1, <2>2, AnswersAssumption DEF TypeOK, AnswerException
  <2> QED
    BY <2>1, <2>2
<1>6. ASSUME NEW q \in Requests PROVE Local(q)'
  <2>1. CASE q = r
    BY <1>1, <1>2, <1>5, <2>1 DEF Local
  <2>2. CASE q # r
    <3>1. xTodo'[q] = xTodo[q] /\ xResponse'[q] = xResponse[q]
      BY <1>1, <2>2 DEF TypeOK, ExceptionListenerReturns, AnswerException
    <3> QED
      BY <1>1, <1>2, <3>1, Frame
  <2> QED
    BY <2>1, <2>2
<1> QED
  BY <1>3, <1>4, <1>6, LocalViewPrime

\* However the exception is translated, the request gets its outcome.
LEMMA ExceptionSettlesIInv ==
  ASSUME IInv, NEW r \in Requests,
         ExceptionListenerThrows(r) \/ WakeFromException(r)
  PROVE  IInv'
PROOF
<1>1. TypeOK /\ Distinct /\ \A q \in Requests : Local(q)
  BY LocalView
<1>2. /\ UNCHANGED <<registered, xListeners, todo, thrown, reached, handled,
                     response, aborted>>
      /\ phase[r] = "exception"
  BY DEF ExceptionListenerThrows, WakeFromException
<1>3. thrown[r] = "exception"
  BY <1>1, <1>2 DEF Local
<1>4. PICK o \in Outcomes : Settle(r, o)
  <2>1. CASE ExceptionListenerThrows(r)
    BY <2>1 DEF ExceptionListenerThrows, Outcomes
  <2>2. CASE WakeFromException(r)
    <3> DEFINE w == IF OutcomeOf(xResponse[r]) = "passthrough"
                      THEN "serverError" ELSE OutcomeOf(xResponse[r])
    <3>1. xResponse[r] \in {"response", "networkError", "error", "object",
                            "nothing", "undefined", "pending"}
      BY <1>1, AnswersAssumption DEF TypeOK
    <3>2. xResponse[r] # "pending"
      BY <1>1, <2>2 DEF WakeFromException, Local
    <3>3. w \in Outcomes
      BY <3>1, <3>2 DEF OutcomeOf, Outcomes
    <3> QED
      BY <2>2, <3>3 DEF WakeFromException
  <2> QED
    BY <2>1, <2>2
<1>5. TypeOK'
  BY <1>1, <1>2, <1>4 DEF TypeOK, Settle, xVars
<1>6. Distinct'
  BY <1>1, <1>2 DEF Distinct
<1>7. ASSUME NEW q \in Requests PROVE Local(q)'
  <2>1. CASE q = r
    <3>1. phase'[r] = "settled" /\ outcome'[r] = o /\ o # "pending"
      BY <1>1, <1>4 DEF TypeOK, Settle, Outcomes
    <3> QED
      BY <1>1, <1>2, <1>3, <2>1, <3>1 DEF Local
  <2>2. CASE q # r
    <3>1. phase'[q] = phase[q] /\ outcome'[q] = outcome[q]
      BY <1>1, <1>4, <2>2 DEF TypeOK, Settle
    <3>2. Local(q) /\ UNCHANGED <<xTodo, xResponse>>
      BY <1>1, <1>4 DEF Settle, xVars
    <3> QED
      BY <1>2, <3>1, <3>2, Frame
  <2> QED
    BY <2>1, <2>2
<1> QED
  BY <1>5, <1>6, <1>7, LocalViewPrime

\* Nothing happens.
LEMMA StutterIInv == IInv /\ UNCHANGED vars => IInv'
PROOF
<1> SUFFICES ASSUME IInv, UNCHANGED vars PROVE IInv'
  OBVIOUS
<1>1. TypeOK /\ Distinct /\ \A q \in Requests : Local(q)
  BY LocalView
<1>2. TypeOK' /\ Distinct'
  BY <1>1 DEF TypeOK, Distinct, vars
<1>3. ASSUME NEW q \in Requests PROVE Local(q)'
  BY <1>1, Frame DEF vars
<1> QED
  BY <1>2, <1>3, LocalViewPrime

\* Every step preserves the inductive invariant: one case per action.
LEMMA StepIInv == IInv /\ [Next]_vars => IInv'
PROOF
<1> SUFFICES ASSUME IInv, [Next]_vars PROVE IInv'
  OBVIOUS
<1>1. ASSUME NEW l \in Listeners, On(l) PROVE IInv'
  BY <1>1, OnIInv
<1>2. ASSUME NEW l \in Listeners, Off(l) PROVE IInv'
  BY <1>2, OffIInv
<1>3. ASSUME NEW r \in Requests, Library(r) PROVE IInv'
  BY <1>3, RunSentinelIInv, WakeIInv, ExceptionSettlesIInv DEF Library
<1>4. ASSUME NEW r \in Requests, Developer(r) PROVE IInv'
  <2>1. ASSUME NEW e \in Throwables, ListenerThrows(r, e) PROVE IInv'
    BY <2>1, ListenerThrowsIInv
  <2>2. ASSUME NEW a \in Answers, Answer(r, a) \/ AnswerException(r, a)
        PROVE  IInv'
    BY <2>2, AnswerIInv, ExceptionStepIInv
  <2>3. CASE Start(r) \/ Abort(r) \/ ListenerReturns(r)
    BY <2>3, StartIInv, AbortIInv, ListenerReturnsIInv
  <2>4. CASE ExceptionListenerReturns(r) \/ ExceptionListenerThrows(r)
    BY <2>4, ExceptionStepIInv, ExceptionSettlesIInv
  <2> QED
    BY <1>4, <2>1, <2>2, <2>3, <2>4 DEF Developer
<1>5. CASE UNCHANGED vars
  BY <1>5, StutterIInv
<1> QED
  BY <1>1, <1>2, <1>3, <1>4, <1>5 DEF Next

\* The inductive invariant always holds.
THEOREM Invariance == Spec => []IInv
PROOF
<1>1. Init => IInv
  BY InitIInv
<1>2. IInv /\ [Next]_vars => IInv'
  BY StepIInv
<1> QED
  BY <1>1, <1>2, PTL DEF Spec

-----------------------------------------------------------------------------
(* What follows for any set of requests and listeners.                     *)

\* The state stays within its types: no listener that is unknown to the emitter
\* is ever awaited, and no promise is resolved with anything but an answer.
THEOREM TypeCorrect == Spec => []TypeOK
PROOF
<1>1. IInv => TypeOK
  BY DEF IInv
<1> QED
  BY <1>1, Invariance, PTL

\* However many requests share the emitter and however their emissions
\* interleave, a request is not passed through before its own listeners are done.
THEOREM NoEarlyPassthrough == Spec => []UndefinedMeansAllReturned
PROOF
<1>1. IInv => UndefinedMeansAllReturned
  BY DEF IInv
<1> QED
  BY <1>1, Invariance, PTL

\* The sentinels that stay on the emitter are those of the requests in progress
\* and of the requests whose listener threw.
THEOREM SentinelsAreTakenOff == Spec => []SentinelsAccountedFor
PROOF
<1>1. IInv => SentinelsAccountedFor
  BY DEF IInv
<1> QED
  BY <1>1, Invariance, PTL

\* The first answer is what the interceptor is told to use.
THEOREM FirstAnswerDecides == Spec => []AnswerDecides
PROOF
<1>1. IInv => AnswerDecides
  BY DEF IInv
<1> QED
  BY <1>1, Invariance, PTL

-----------------------------------------------------------------------------
(* Nobody waits in vain.                                                   *)

\* As long as the race is open the emission goes on, with the request's own sentinel
\* as its last listener: it resolves the promise if nobody does.  After the listeners
\* for an exception the promise made for it is resolved.
NoDeadEnd ==
  \A r \in Requests :
    /\ phase[r] # "idle" /\ outcome[r] = "pending" => phase[r] \in {"racing", "exception"}
    /\ phase[r] = "racing" =>
         RaceIsSettled(r) \/ (todo[r] # <<>> /\ todo[r][Len(todo[r])] = r)
    /\ phase[r] = "exception" => xTodo[r] > 0 \/ xResponse[r] # "pending"

\* The safe half of AnsweredRequestsWakeUp and EveryRequestSettles: whichever listeners
\* throw, answer or are removed while handleRequest() waits, what it waits for is
\* settled, or a listener or a sentinel that settles it is still to run.
THEOREM NobodyWaitsInVain == Spec => []NoDeadEnd
PROOF
<1>1. ASSUME IInv, NEW r \in Requests, phase[r] # "idle", outcome[r] = "pending"
      PROVE  phase[r] \in {"racing", "exception"}
  BY <1>1 DEF IInv, TypeOK, Bookkeeping
<1>2. ASSUME IInv, NEW r \in Requests, phase[r] = "racing", ~RaceIsSettled(r)
      PROVE  todo[r] # <<>> /\ todo[r][Len(todo[r])] = r
  <2>1. thrown[r] = "none" /\ response[r] = "pending"
    BY <1>2 DEF RaceIsSettled
  <2>2. todo[r] # <<>>
    BY <1>2, <2>1 DEF IInv, Bookkeeping
  <2> QED
    BY <1>2, <2>2 DEF IInv, Bookkeeping
<1>3. ASSUME IInv, NEW r \in Requests, phase[r] = "exception"
      PROVE  xTodo[r] > 0 \/ xResponse[r] # "pending"
  <2>1. xTodo[r] \in Nat
    BY <1>3, ExceptionListenersAssumption DEF IInv, TypeOK
  <2>2. xTodo[r] = 0 => xResponse[r] # "pending"
    BY <1>3 DEF IInv, Bookkeeping
  <2> QED
    BY <2>1, <2>2
<1>4. IInv => NoDeadEnd
  BY <1>1, <1>2, <1>3 DEF NoDeadEnd
<1> QED
  BY <1>4, Invariance, PTL
=============================================================================
