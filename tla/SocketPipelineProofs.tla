------------------------ MODULE SocketPipelineProofs ------------------------
(***************************************************************************)
(* The write callbacks and the order of the events of the mock socket, for *)
(* any number of writes, responses and chunks.  The invariant has two      *)
(* halves that do not depend on each other: the writes and the stages of   *)
(* the request, and the events.                                            *)
(***************************************************************************)
EXTENDS SocketPipeline, SequenceTheorems, TLAPS

-----------------------------------------------------------------------------
(* The writes.                                                             *)

WriteTypes ==
  /\ written \in 0..MaxWrites
  /\ buffer \in Seq(Writes)
  /\ uncalled \subseteq ToSet(buffer)
  /\ called \in [Writes -> Nat]
  /\ forwarded \in Seq(Writes)
  /\ owed \subseteq ToSet(forwarded)
  /\ dropped \subseteq Writes

StateTypes ==
  /\ socketState \in {"unknown", "mock", "passthrough"}
  /\ destroyed \in BOOLEAN
  /\ original \in BOOLEAN
  /\ request \in {"none", "asking", "internal", "decided", "stuck"}
  /\ responding \in {"no", "reading", "retrying", "done"}
  /\ headSent \in BOOLEAN
  /\ garbled \in BOOLEAN

\* A request is mocked or passed on, never both; the original socket exists from the
\* passthrough on, unless the mock socket was destroyed before.
Stages ==
  /\ socketState = "passthrough" => /\ original \/ destroyed
                                    /\ request \in {"internal", "decided"}
                                    /\ responding = "no"
  /\ original => socketState = "passthrough"
  /\ request # "decided" => responding = "no"
  /\ responding # "no" => socketState = "mock"

\* Before the original socket exists the buffer has every write; then it has none.
Buffered ==
  /\ ~original => /\ buffer = [i \in 1..written |-> i]
                  /\ forwarded = <<>>
                  /\ owed = {}
                  /\ dropped = {}
  /\ original => uncalled = {}
  /\ dropped \subseteq 1..written
  /\ uncalled \subseteq 1..written
  /\ owed \subseteq 1..written

\* A callback that has been called is neither kept nor owed.
Calls ==
  \A w \in Writes :
    \/ called[w] = 0
    \/ called[w] = 1 /\ w \notin uncalled /\ w \notin owed /\ w <= written

WInv ==
  WriteTypes /\ StateTypes /\ Stages /\ Buffered /\ Calls /\ PassedOnComplete

LEMMA InitWInv == Init => WInv
<1> SUFFICES ASSUME Init PROVE WInv
  OBVIOUS
<1>1. <<>> \in Seq(Writes)
  OBVIOUS
<1>2. called \in [Writes -> Nat] /\ \A w \in Writes : called[w] = 0
  BY DEF Init
<1>3. WriteTypes
  BY <1>1, <1>2, BoundsAssumption DEF Init, WriteTypes
<1>4. StateTypes
  BY DEF Init, StateTypes
<1>5. [i \in 1..0 |-> i] = <<>>
  OBVIOUS
<1>6. Buffered
  BY <1>5 DEF Init, Buffered
<1>7. Stages /\ Calls /\ PassedOnComplete
  BY <1>2 DEF Init, Stages, Calls, PassedOnComplete
<1>8. QED
  BY <1>3, <1>4, <1>6, <1>7 DEF WInv

\* The buffer of n writes.
LEMMA AllWrites ==
  ASSUME NEW n \in 0..MaxWrites
  PROVE  /\ [i \in 1..n |-> i] \in Seq(Writes)
         /\ Len([i \in 1..n |-> i]) = n
         /\ ToSet([i \in 1..n |-> i]) = 1..n
<1>1. n \in Nat /\ 1..n \subseteq Writes
  BY BoundsAssumption DEF Writes
<1>2. QED
  BY <1>1 DEF ToSet

\* What callbacks write is added to the buffer in order.
LEMMA MoreWrites ==
  ASSUME NEW m \in 0..MaxWrites, NEW n \in 0..(MaxWrites - m)
  PROVE  [i \in 1..m |-> i] \o [i \in 1..n |-> m + i] = [i \in 1..(m + n) |-> i]
<1> DEFINE s == [i \in 1..m |-> i]
           t == [i \in 1..n |-> m + i]
<1>1. m \in Nat /\ n \in Nat
  BY BoundsAssumption
<1>2. s \in Seq(Nat) /\ t \in Seq(Nat) /\ Len(s) = m /\ Len(t) = n
  BY <1>1
<1>3. \A i \in 1..m : s[i] = i
  OBVIOUS
<1>4. \A i \in 1..n : t[i] = m + i
  OBVIOUS
<1> HIDE DEF s, t
<1>5. /\ s \o t \in Seq(Nat)
      /\ Len(s \o t) = m + n
      /\ \A i \in 1..(m + n) : (s \o t)[i] = IF i <= m THEN s[i] ELSE t[i - m]
  BY <1>1, <1>2, ConcatProperties
<1>6. \A i \in 1..(m + n) : (s \o t)[i] = i
  <2> TAKE i \in 1..(m + n)
  <2>1. CASE i <= m
    BY <2>1, <1>1, <1>3, <1>5
  <2>2. CASE i > m
    <3>1. (s \o t)[i] = t[i - m] /\ i - m \in 1..n
      BY <2>2, <1>1, <1>5
    <3>2. QED
      BY <3>1, <1>1, <1>4
  <2>3. i <= m \/ i > m
    BY <1>1
  <2>4. QED
    BY <2>1, <2>2, <2>3
<1> DEFINE u == [i \in 1..(m + n) |-> i]
<1>7. u \in Seq(Nat) /\ Len(u) = m + n /\ \A i \in 1..(m + n) : u[i] = i
  BY <1>1
<1> HIDE DEF u
<1>8. s \o t = u
  BY <1>1, <1>5, <1>6, <1>7, SeqEqual
<1>9. QED
  BY <1>8 DEF s, t, u

LEMMA OneMoreWrite ==
  ASSUME NEW m \in 0..MaxWrites, m < MaxWrites
  PROVE  Append([i \in 1..m |-> i], m + 1) = [i \in 1..(m + 1) |-> i]
<1> DEFINE s == [i \in 1..m |-> i]
           t == Append(s, m + 1)
           u == [i \in 1..(m + 1) |-> i]
<1>1. m \in Nat
  BY BoundsAssumption
<1>2. s \in Seq(Nat) /\ Len(s) = m /\ \A i \in 1..m : s[i] = i
  BY <1>1
<1>3. u \in Seq(Nat) /\ Len(u) = m + 1 /\ \A i \in 1..(m + 1) : u[i] = i
  BY <1>1
<1> HIDE DEF s, u
<1>4. t \in Seq(Nat) /\ Len(t) = m + 1 /\ t[m + 1] = m + 1 /\ \A i \in 1..m : t[i] = i
  BY <1>1, <1>2, AppendProperties
<1> HIDE DEF t
<1>5. \A i \in 1..(m + 1) : t[i] = u[i]
  <2> TAKE i \in 1..(m + 1)
  <2>1. i = m + 1 \/ i \in 1..m
    BY <1>1
  <2>2. QED
    BY <2>1, <1>3, <1>4
<1>6. t = u
  BY <1>1, <1>3, <1>4, <1>5, SeqEqual
<1>7. QED
  BY <1>6 DEF s, t, u

\* Before the passthrough there is no original socket.
LEMMA NotYetOriginal ==
  ASSUME WInv, socketState # "passthrough"
  PROVE  /\ original = FALSE
         /\ buffer = [i \in 1..written |-> i]
         /\ forwarded = <<>> /\ owed = {} /\ dropped = {}
BY DEF WInv, Stages, StateTypes, Buffered

\* What the state of the writes keeps of the invariant.
Written == WriteTypes /\ Buffered /\ Calls /\ PassedOnComplete

LEMMA FlushKeeps ==
  ASSUME WInv, socketState # "passthrough", FlushWriteBuffer(buffer, uncalled),
         UNCHANGED <<forwarded, owed, dropped, original>>
  PROVE  Written'
<1>1. /\ original = FALSE
      /\ buffer = [i \in 1..written |-> i]
      /\ forwarded = <<>> /\ owed = {} /\ dropped = {}
  BY NotYetOriginal
<1>2. written \in 0..MaxWrites /\ written \in Nat
  BY BoundsAssumption DEF WInv, WriteTypes
<1>3. PICK n \in 0..Room :
        LET new == [i \in 1..n |-> written + i] IN
        /\ written' = written + n
        /\ buffer' = buffer \o new
        /\ called' = [w \in Writes |->
                        IF w \in uncalled \cup ToSet(new) THEN called[w] + 1
                        ELSE called[w]]
        /\ uncalled' = {}
  BY DEF FlushWriteBuffer
<1> DEFINE new == [i \in 1..n |-> written + i]
<1>4. n \in 0..(MaxWrites - written) /\ n \in Nat
  BY <1>2, BoundsAssumption DEF Room
<1>5. written' \in 0..MaxWrites /\ written <= written'
  BY <1>2, <1>3, <1>4, BoundsAssumption
<1>6. buffer' = [i \in 1..written' |-> i]
  BY <1>1, <1>2, <1>3, <1>4, MoreWrites
<1>7. buffer' \in Seq(Writes)
  BY <1>5, <1>6, AllWrites
<1>8. \A w \in ToSet(new) : w > written /\ w <= written'
  BY <1>2, <1>3, <1>4 DEF ToSet
<1> HIDE DEF new
<1>9. called' = [w \in Writes |->
                   IF w \in uncalled \cup ToSet(new) THEN called[w] + 1 ELSE called[w]]
  BY <1>3 DEF new
<1>10. called' \in [Writes -> Nat]
  BY <1>9 DEF WInv, WriteTypes
<1>11. WriteTypes'
  BY <1>1, <1>3, <1>5, <1>7, <1>10 DEF WInv, WriteTypes
<1>12. Buffered'
  BY <1>1, <1>3, <1>6 DEF Buffered
<1>13. Calls'
  <2> SUFFICES ASSUME NEW w \in Writes
               PROVE  called'[w] = 0 \/ (called'[w] = 1 /\ w <= written')
    BY <1>1, <1>3 DEF Calls
  <2>1. w \in Nat
    BY BoundsAssumption DEF Writes
  <2>2. called[w] = 0 \/ (called[w] = 1 /\ w \notin uncalled /\ w <= written)
    BY DEF WInv, Calls
  <2>3. CASE w \in uncalled \cup ToSet(new)
    <3>1. called[w] = 0
      BY <2>1, <2>2, <2>3, <1>2, <1>8
    <3>2. w <= written'
      BY <2>1, <2>3, <1>2, <1>5, <1>8 DEF WInv, Buffered
    <3>3. QED
      BY <3>1, <3>2, <2>3, <1>9
  <2>4. CASE w \notin uncalled \cup ToSet(new)
    <3>1. called'[w] = called[w]
      BY <2>4, <1>9
    <3>2. w <= written => w <= written'
      BY <2>1, <1>2, <1>5
    <3>3. QED
      BY <3>1, <3>2, <2>2
  <2>5. QED
    BY <2>3, <2>4
<1>14. PassedOnComplete'
  BY <1>1 DEF PassedOnComplete
<1>15. QED
  BY <1>11, <1>12, <1>13, <1>14 DEF Written

LEMMA ForwardKeeps ==
  ASSUME WInv, socketState # "passthrough",
         NEW left, written' \in written..MaxWrites, left \subseteq 1..written',
         \A w \in left : called[w] = 0,
         ForwardInto([i \in 1..written' |-> i], left),
         UNCHANGED <<called, dropped, destroyed>>
  PROVE  /\ Written'
         /\ original' \in BOOLEAN
         /\ socketState' = "passthrough"
         /\ original' \/ destroyed'
<1> DEFINE old == [i \in 1..written' |-> i]
<1>1. /\ original = FALSE
      /\ forwarded = <<>> /\ owed = {} /\ dropped = {}
  BY NotYetOriginal
<1>2. written' \in 0..MaxWrites /\ written \in Nat /\ written <= written'
  BY BoundsAssumption DEF WInv, WriteTypes
<1>3. old \in Seq(Writes) /\ Len(old) = written' /\ ToSet(old) = 1..written'
  BY <1>2, AllWrites
<1>4. \A i, j \in DOMAIN old : i < j => old[i] < old[j]
  OBVIOUS
<1>5. called' \in [Writes -> Nat]
  BY DEF WInv, WriteTypes
<1>6. Calls' <=> \A w \in Writes :
        called[w] = 0 \/ (called[w] = 1 /\ w \notin uncalled' /\ w \notin owed' /\ w <= written')
  BY DEF Calls
<1>7. \A w \in Writes : called[w] = 0 \/ (called[w] = 1 /\ w \notin left /\ w <= written')
  <2> TAKE w \in Writes
  <2>1. called[w] = 0 \/ (called[w] = 1 /\ w <= written)
    BY DEF WInv, Calls
  <2>2. w \in Nat
    BY BoundsAssumption DEF Writes
  <2>3. QED
    BY <2>1, <2>2, <1>2
<1> HIDE DEF old
<1>8. CASE /\ destroyed
           /\ buffer' = old
           /\ uncalled' = left
           /\ UNCHANGED <<forwarded, owed, original>>
  <2>1. WriteTypes'
    BY <1>1, <1>2, <1>3, <1>5, <1>8 DEF WInv, WriteTypes
  <2>2. Buffered'
    BY <1>1, <1>8 DEF Buffered, old
  <2>3. Calls'
    BY <1>1, <1>6, <1>7, <1>8
  <2>4. PassedOnComplete'
    BY <1>1, <1>8 DEF PassedOnComplete
  <2>5. QED
    BY <1>1, <1>8, <2>1, <2>2, <2>3, <2>4 DEF Written, ForwardInto
<1>9. CASE /\ ~destroyed
           /\ original' = TRUE
           /\ forwarded' = forwarded \o old
           /\ owed' = owed \cup left
           /\ buffer' = <<>>
           /\ uncalled' = {}
  <2>1. forwarded' = old
    BY <1>1, <1>3, <1>9, ConcatEmptySeq
  <2>2. WriteTypes'
    BY <1>1, <1>2, <1>3, <1>5, <1>9, <2>1 DEF WInv, WriteTypes
  <2>3. Buffered'
    BY <1>1, <1>9 DEF Buffered
  <2>4. Calls'
    BY <1>1, <1>6, <1>7, <1>9
  <2>5. PassedOnComplete'
    BY <1>1, <1>3, <1>4, <1>9, <2>1 DEF PassedOnComplete
  <2>6. QED
    BY <1>9, <2>2, <2>3, <2>4, <2>5 DEF Written, ForwardInto
<1>10. QED
  BY <1>8, <1>9 DEF ForwardInto, old

\* A step that leaves the writes and the original socket alone.
LEMMA SameWrites ==
  ASSUME Written, UNCHANGED <<writeVars, original>>
  PROVE  Written'
BY DEF Written, writeVars, WriteTypes, Buffered, Calls, PassedOnComplete

LEMMA WriteBufferedKeeps == WInv /\ WriteBuffered => WInv'
<1> SUFFICES ASSUME WInv, WriteBuffered PROVE WInv'
  OBVIOUS
<1> DEFINE new == Append(buffer, written + 1)
           left == uncalled \cup {written + 1}
<1>1. /\ original = FALSE
      /\ buffer = [i \in 1..written |-> i]
      /\ forwarded = <<>> /\ owed = {} /\ dropped = {}
  BY NotYetOriginal DEF WriteBuffered
<1>2. /\ written \in 0..MaxWrites /\ written \in Nat
      /\ written < MaxWrites
      /\ written' = written + 1
      /\ written' \in written..MaxWrites /\ written' \in 0..MaxWrites
  BY BoundsAssumption DEF WInv, WriteTypes, WriteBuffered, Room
<1>3. new = [i \in 1..written' |-> i]
  BY <1>1, <1>2, OneMoreWrite
<1>4. left \subseteq 1..written' /\ written' \in Writes
  BY <1>2, BoundsAssumption DEF WInv, Buffered, Writes
<1>5. \A w \in left : called[w] = 0
  <2>1. \A w \in uncalled : w \in Writes
    BY <1>2, <1>4, BoundsAssumption DEF WInv, Buffered, Writes
  <2>2. \A w \in Writes : w \in uncalled \/ w > written => called[w] = 0
    <3> TAKE w \in Writes
    <3>1. w \in Nat
      BY BoundsAssumption DEF Writes
    <3>2. called[w] = 0 \/ (w \notin uncalled /\ w <= written)
      BY DEF WInv, Calls
    <3>3. QED
      BY <3>1, <3>2, <1>2
  <2>3. QED
    BY <2>1, <2>2, <1>2, <1>4
<1>6. UNCHANGED <<called, dropped, destroyed, responding, headSent, garbled>>
  BY DEF WriteBuffered, responseVars
<1>7. CASE /\ buffer' = new
           /\ uncalled' = left
           /\ \/ request = "none" /\ request' = "asking"
              \/ UNCHANGED request
           /\ UNCHANGED <<forwarded, owed, original, socketState>>
  <2>1. WriteTypes'
    <3>1. buffer' \in Seq(Writes) /\ ToSet(buffer') = 1..written'
      BY <1>2, <1>3, <1>7, AllWrites
    <3>2. QED
      BY <1>1, <1>2, <1>4, <1>6, <1>7, <3>1 DEF WInv, WriteTypes
  <2>2. Buffered'
    BY <1>1, <1>3, <1>4, <1>6, <1>7 DEF Buffered
  <2>3. Calls'
    <3> SUFFICES ASSUME NEW w \in Writes
                 PROVE  called[w] = 0 \/ (called[w] = 1 /\ w \notin left /\ w <= written')
      BY <1>1, <1>6, <1>7 DEF Calls
    <3>1. w \in Nat
      BY BoundsAssumption DEF Writes
    <3>2. called[w] = 0 \/ (called[w] = 1 /\ w <= written)
      BY DEF WInv, Calls
    <3>3. QED
      BY <3>1, <3>2, <1>2, <1>5
  <2>4. PassedOnComplete'
    BY <1>1, <1>7 DEF PassedOnComplete
  <2>5. StateTypes' /\ Stages'
    BY <1>6, <1>7 DEF WInv, StateTypes, Stages
  <2>6. QED
    BY <2>1, <2>2, <2>3, <2>4, <2>5 DEF WInv
<1>8. CASE /\ request = "none"
           /\ request' = "internal"
           /\ ForwardInto(new, left)
  <2>1. /\ Written'
        /\ original' \in BOOLEAN
        /\ socketState' = "passthrough"
        /\ original' \/ destroyed'
    BY <1>2, <1>3, <1>4, <1>5, <1>6, <1>8, ForwardKeeps DEF WriteBuffered
  <2>2. responding = "no"
    BY <1>8 DEF WInv, Stages
  <2>3. StateTypes' /\ Stages'
    BY <1>6, <1>8, <2>1, <2>2 DEF WInv, StateTypes, Stages
  <2>4. QED
    BY <2>1, <2>3 DEF WInv, Written
<1>9. QED
  BY <1>7, <1>8 DEF WriteBuffered

LEMMA WriteForwardedKeeps == WInv /\ WriteForwarded => WInv'
<1> SUFFICES ASSUME WInv, WriteForwarded PROVE WInv'
  OBVIOUS
<1>1. /\ written \in 0..MaxWrites /\ written \in Nat
      /\ written < MaxWrites
      /\ ~destroyed
      /\ written' = written + 1
      /\ written' \in 0..MaxWrites /\ written' \in Writes
  BY BoundsAssumption DEF WInv, WriteTypes, StateTypes, WriteForwarded, Room, Writes
<1>2. original = TRUE /\ buffer = <<>> /\ uncalled = {}
  BY <1>1 DEF WInv, Stages, StateTypes, WriteForwarded, Buffered, PassedOnComplete
<1>3. /\ ToSet(forwarded) = (1..written) \ dropped
      /\ \A i, j \in DOMAIN forwarded : i < j => forwarded[i] < forwarded[j]
      /\ dropped \subseteq 1..written
      /\ owed \subseteq 1..written
      /\ owed \subseteq ToSet(forwarded)
      /\ forwarded \in Seq(Writes)
  BY <1>2 DEF WInv, PassedOnComplete, Buffered, WriteTypes
<1>4. UNCHANGED <<buffer, uncalled, called, original>>
  BY DEF WriteForwarded, stateVars
<1>5. StateTypes' /\ Stages'
  BY DEF WInv, StateTypes, Stages, WriteForwarded, stateVars, responseVars
<1>6. \A w \in Writes :
        called[w] = 0 \/ (called[w] = 1 /\ w \notin owed /\ w < written' /\ w <= written')
  <2> TAKE w \in Writes
  <2>1. w \in Nat
    BY BoundsAssumption DEF Writes
  <2>2. called[w] = 0 \/ (called[w] = 1 /\ w \notin owed /\ w <= written)
    BY DEF WInv, Calls
  <2>3. QED
    BY <2>1, <2>2, <1>1
<1>7. 1..written' = (1..written) \cup {written'}
  BY <1>1
<1>8. CASE /\ forwarded' = Append(forwarded, written + 1)
           /\ owed' = owed \cup {written + 1}
           /\ UNCHANGED dropped
  <2> DEFINE n == Len(forwarded)
  <2>1. /\ forwarded' \in Seq(Writes)
        /\ Len(forwarded') = n + 1
        /\ \A i \in 1..n : forwarded'[i] = forwarded[i]
        /\ forwarded'[n + 1] = written'
        /\ n \in Nat
        /\ DOMAIN forwarded = 1..n
        /\ DOMAIN forwarded' = 1..(n + 1)
    BY <1>1, <1>3, <1>8, AppendProperties, LenProperties
  <2> HIDE DEF n
  <2>2. ToSet(forwarded') = ToSet(forwarded) \cup {written'}
    <3>1. 1..(n + 1) = (1..n) \cup {n + 1}
      BY <2>1
    <3>2. QED
      BY <2>1, <3>1 DEF ToSet
  <2>3. ToSet(forwarded') = (1..written') \ dropped'
    BY <1>1, <1>3, <1>7, <1>8, <2>2
  <2>4. \A i \in 1..n : forwarded[i] < written'
    <3> TAKE i \in 1..n
    <3>1. forwarded[i] \in ToSet(forwarded)
      BY <2>1 DEF ToSet
    <3>2. forwarded[i] \in 1..written
      BY <3>1, <1>3
    <3>3. QED
      BY <3>2, <1>1
  <2>5. \A i, j \in DOMAIN forwarded' : i < j => forwarded'[i] < forwarded'[j]
    <3> SUFFICES ASSUME NEW i \in 1..(n + 1), NEW j \in 1..(n + 1), i < j
                 PROVE  forwarded'[i] < forwarded'[j]
      BY <2>1
    <3>1. i \in 1..n
      BY <2>1
    <3>2. j = n + 1 \/ j \in 1..n
      BY <2>1
    <3>3. QED
      BY <3>1, <3>2, <2>1, <2>4, <1>3
  <2>6. WriteTypes'
    BY <1>1, <1>2, <1>3, <1>4, <1>8, <2>1, <2>2 DEF WInv, WriteTypes
  <2>7. Buffered'
    BY <1>2, <1>3, <1>4, <1>7, <1>8, <1>1 DEF Buffered
  <2>8. Calls'
    <3>1. \A w \in Writes : w < written' => w # written'
      BY <1>1, BoundsAssumption DEF Writes
    <3>2. QED
      BY <1>1, <1>2, <1>4, <1>6, <1>8, <3>1 DEF Calls
  <2>9. PassedOnComplete'
    BY <1>2, <1>4, <2>3, <2>5 DEF PassedOnComplete
  <2>10. QED
    BY <1>5, <2>6, <2>7, <2>8, <2>9 DEF WInv
<1>9. CASE /\ dropped' = dropped \cup {written + 1}
           /\ UNCHANGED <<forwarded, owed>>
  <2>1. WriteTypes'
    BY <1>1, <1>2, <1>3, <1>4, <1>9 DEF WInv, WriteTypes
  <2>2. Buffered'
    BY <1>1, <1>2, <1>3, <1>4, <1>7, <1>9 DEF Buffered
  <2>3. Calls'
    BY <1>2, <1>4, <1>6, <1>9 DEF Calls
  <2>4. (1..written') \ dropped' = (1..written) \ dropped
    BY <1>1, <1>7, <1>9
  <2>5. PassedOnComplete'
    BY <1>2, <1>3, <1>4, <1>9, <2>4 DEF PassedOnComplete
  <2>6. QED
    BY <1>5, <2>1, <2>2, <2>3, <2>5 DEF WInv
<1>10. QED
  BY <1>8, <1>9 DEF WriteForwarded

\* respondWith() makes up a connection only before the passthrough.
LEMMA StartKeeps ==
  ASSUME WInv, NEW next \in {"reading", "retrying"}, Start(next),
         socketState # "passthrough", request' = "decided"
  PROVE  WInv'
<1>1. /\ FlushWriteBuffer(buffer, uncalled)
      /\ UNCHANGED <<forwarded, owed, dropped, original, destroyed>>
      /\ socketState' = "mock" /\ responding' = next
      /\ headSent' = FALSE /\ garbled' = headSent
  BY DEF Start
<1>2. Written'
  BY <1>1, FlushKeeps
<1>3. StateTypes'
  BY <1>1 DEF WInv, StateTypes
<1>4. original = FALSE
  BY NotYetOriginal
<1>5. Stages'
  BY <1>1, <1>4 DEF Stages
<1>6. QED
  BY <1>2, <1>3, <1>5 DEF WInv, Written

\* A callback that is called and forgotten.
LEMMA CallBackKeeps ==
  ASSUME WInv, NEW callees \in SUBSET Writes,
         callees \subseteq uncalled \cup owed,
         called' = [w \in Writes |-> IF w \in callees THEN called[w] + 1 ELSE called[w]],
         uncalled' = uncalled \ callees, owed' = owed \ callees,
         UNCHANGED <<written, buffer, forwarded, dropped, original>>
  PROVE  Written'
<1>1. called' \in [Writes -> Nat]
  BY DEF WInv, WriteTypes
<1>2. WriteTypes'
  BY <1>1 DEF WInv, WriteTypes
<1>3. Buffered'
  BY DEF WInv, Buffered
<1>4. Calls'
  <2> SUFFICES ASSUME NEW w \in Writes
               PROVE  \/ called'[w] = 0
                      \/ called'[w] = 1 /\ w \notin uncalled' /\ w \notin owed' /\ w <= written
    BY DEF Calls
  <2>1. \/ called[w] = 0
        \/ called[w] = 1 /\ w \notin uncalled /\ w \notin owed /\ w <= written
    BY DEF WInv, Calls
  <2>2. CASE w \in callees
    <3>1. called[w] = 0
      BY <2>1, <2>2
    <3>2. w \in 1..written /\ written \in Nat
      BY <2>2, BoundsAssumption DEF WInv, Buffered, WriteTypes
    <3>3. QED
      BY <3>1, <3>2, <2>2
  <2>3. CASE w \notin callees
    BY <2>1, <2>3
  <2>4. QED
    BY <2>2, <2>3
<1>5. PassedOnComplete'
  BY DEF WInv, PassedOnComplete
<1>6. QED
  BY <1>2, <1>3, <1>4, <1>5 DEF Written

LEMMA ReadKeeps == WInv /\ (ReadRequestBody \/ ReadRequestBodyLate) => WInv'
<1> SUFFICES ASSUME WInv, ReadRequestBody \/ ReadRequestBodyLate PROVE WInv'
  OBVIOUS
<1>1. /\ UNCHANGED <<socketState, destroyed, original, request, responding, headSent,
                     garbled, forwarded, owed, dropped>>
      /\ StateTypes' /\ Stages'
  BY DEF WInv, StateTypes, Stages, ReadRequestBody, ReadRequestBodyLate, stateVars,
         responseVars
<1>2. CASE ReadRequestBody
  <2>1. Written'
    BY <1>1, <1>2, FlushKeeps DEF ReadRequestBody
  <2>2. QED
    BY <1>1, <2>1 DEF WInv, Written
<1>3. CASE ReadRequestBodyLate
  <2>1. CASE original
    <3>1. uncalled = {} /\ uncalled \subseteq Writes
      BY <2>1 DEF WInv, Buffered
    <3>2. /\ called' = [w \in Writes |-> IF w \in uncalled THEN called[w] + 1 ELSE called[w]]
          /\ uncalled' = uncalled \ uncalled /\ owed' = owed \ uncalled
          /\ UNCHANGED <<written, buffer, forwarded, dropped, original>>
      BY <1>1, <1>3, <3>1 DEF ReadRequestBodyLate
    <3>3. Written'
      BY <3>1, <3>2, CallBackKeeps
    <3>4. QED
      BY <1>1, <3>3 DEF WInv, Written
  <2>2. CASE ~original
    <3>1. owed = {}
      BY <2>2 DEF WInv, Buffered
    <3>2. uncalled \subseteq Writes
      BY BoundsAssumption DEF WInv, Buffered, WriteTypes, Writes
    <3>3. /\ called' = [w \in Writes |-> IF w \in uncalled THEN called[w] + 1 ELSE called[w]]
          /\ uncalled' = uncalled \ uncalled /\ owed' = owed \ uncalled
          /\ UNCHANGED <<written, buffer, forwarded, dropped, original>>
      BY <1>1, <1>3, <3>1 DEF ReadRequestBodyLate
    <3>4. Written'
      BY <3>2, <3>3, CallBackKeeps
    <3>5. QED
      BY <1>1, <3>4 DEF WInv, Written
  <2>3. QED
    BY <2>1, <2>2
<1>4. QED
  BY <1>2, <1>3

LEMMA OriginalCallsBackKeeps ==
  ASSUME WInv, NEW w \in Writes, OriginalCallsBack(w)
  PROVE  WInv'
<1>1. /\ w \in owed
      /\ owed' = owed \ {w}
      /\ called' = [called EXCEPT ![w] = @ + 1]
      /\ UNCHANGED <<written, buffer, uncalled, forwarded, dropped, original>>
      /\ UNCHANGED <<socketState, destroyed, request, responding, headSent, garbled>>
  BY DEF OriginalCallsBack, stateVars, responseVars
<1>2. uncalled = {}
  BY <1>1 DEF WInv, Buffered, StateTypes
<1>3. called' = [v \in Writes |-> IF v \in {w} THEN called[v] + 1 ELSE called[v]]
  BY <1>1 DEF WInv, WriteTypes
<1>4. Written'
  <2>1. {w} \in SUBSET Writes /\ {w} \subseteq uncalled \cup owed
    BY <1>1
  <2>2. uncalled' = uncalled \ {w}
    BY <1>1, <1>2
  <2>3. QED
    BY <1>1, <1>3, <2>1, <2>2, CallBackKeeps
<1>5. StateTypes' /\ Stages'
  BY <1>1 DEF WInv, StateTypes, Stages
<1>6. QED
  BY <1>4, <1>5 DEF WInv, Written

LEMMA DecideKeeps == WInv /\ Decide => WInv'
<1> SUFFICES ASSUME WInv, Decide PROVE WInv'
  OBVIOUS
<1>1. request = "asking" /\ socketState # "passthrough" /\ responding = "no"
  BY DEF Decide, PassThrough, ErrorWith, IgnoreError, RespondWith, WInv, Stages
<1>2. Written
  BY DEF WInv, Written
<1>3. CASE PassThrough
  <2>1. /\ buffer = [i \in 1..written |-> i]
        /\ uncalled \subseteq 1..written
    BY <1>1, NotYetOriginal DEF WInv, Buffered
  <2>2. written' = written /\ written' \in written..MaxWrites
    BY <1>3, BoundsAssumption DEF PassThrough, WInv, WriteTypes
  <2>3. \A w \in uncalled : called[w] = 0
    <3> TAKE w \in uncalled
    <3>1. w \in Writes
      BY <2>1, BoundsAssumption DEF WInv, WriteTypes, Writes
    <3>2. QED
      BY <3>1 DEF WInv, Calls
  <2>4. /\ ForwardInto([i \in 1..written' |-> i], uncalled)
        /\ UNCHANGED <<called, dropped, destroyed, responding, headSent, garbled>>
        /\ request' = "decided"
    BY <1>3, <2>1, <2>2 DEF PassThrough, responseVars
  <2>5. /\ Written'
        /\ original' \in BOOLEAN
        /\ socketState' = "passthrough"
        /\ original' \/ destroyed'
    BY <1>1, <2>1, <2>2, <2>3, <2>4, ForwardKeeps
  <2>6. StateTypes' /\ Stages'
    BY <1>1, <2>4, <2>5 DEF WInv, StateTypes, Stages
  <2>7. QED
    BY <2>5, <2>6 DEF WInv, Written
<1>4. CASE ErrorWith
  <2>1. /\ UNCHANGED <<writeVars, socketState, original, responding, headSent, garbled>>
        /\ destroyed' = TRUE /\ request' = "decided"
    BY <1>4 DEF ErrorWith, DestroyWithError, responseVars
  <2>2. StateTypes' /\ Stages'
    BY <1>1, <2>1 DEF WInv, StateTypes, Stages
  <2>3. QED
    BY <1>2, <2>1, <2>2, SameWrites DEF WInv, Written
<1>5. CASE IgnoreError
  <2>1. /\ UNCHANGED <<writeVars, socketState, destroyed, original, responding, headSent, garbled>>
        /\ request' = "stuck"
    BY <1>5 DEF IgnoreError, responseVars
  <2>2. StateTypes' /\ Stages'
    BY <1>1, <2>1 DEF WInv, StateTypes, Stages
  <2>3. QED
    BY <1>2, <2>1, <2>2, SameWrites DEF WInv, Written
<1>6. CASE RespondWith
  <2>1. CASE Start("reading")
    BY <1>1, <1>6, <2>1, StartKeeps DEF RespondWith
  <2>2. CASE UNCHANGED <<writeVars, socketState, destroyed, original, responseVars>>
    <3>1. StateTypes' /\ Stages'
      BY <1>1, <1>6, <2>2 DEF WInv, StateTypes, Stages, RespondWith, responseVars
    <3>2. QED
      BY <1>2, <2>2, <3>1, SameWrites DEF WInv, Written
  <2>3. QED
    BY <1>6, <2>1, <2>2 DEF RespondWith
<1>7. QED
  BY <1>3, <1>4, <1>5, <1>6 DEF Decide

LEMMA RespondKeeps == WInv /\ Response => WInv'
<1> SUFFICES ASSUME WInv, Response PROVE WInv'
  OBVIOUS
<1>1. responding \in {"reading", "retrying"} /\ socketState = "mock" /\ request = "decided"
  BY DEF Response, RespondChunk, RespondEnd, RespondFails, WInv, Stages
<1>2. Written
  BY DEF WInv, Written
<1>3. ASSUME UNCHANGED <<writeVars, socketState, destroyed, original, request, garbled>>,
             headSent' \in BOOLEAN, responding' \in {responding, "done"}
      PROVE  WInv'
  <2>1. StateTypes' /\ Stages'
    BY <1>1, <1>3 DEF WInv, StateTypes, Stages
  <2>2. QED
    BY <1>2, <1>3, <2>1, SameWrites DEF WInv, Written
<1>4. \A tail : ServerWrite(tail) => headSent' \in BOOLEAN
  BY DEF ServerWrite, WInv, StateTypes
<1>5. CASE RespondChunk
  BY <1>3, <1>4, <1>5 DEF RespondChunk, stateVars
<1>6. CASE RespondEnd
  <2>1. headSent' \in BOOLEAN
    BY <1>4, <1>6 DEF RespondEnd, WInv, StateTypes
  <2>2. QED
    BY <1>3, <1>6, <2>1 DEF RespondEnd, stateVars
<1>7. CASE RespondFails
  <2>1. CASE Start("retrying")
    BY <1>1, <1>7, <2>1, StartKeeps DEF RespondFails
  <2>2. CASE /\ responding' = "done"
             /\ UNCHANGED <<writeVars, socketState, destroyed, original, headSent, garbled>>
    <3>1. headSent' \in BOOLEAN
      BY <2>2 DEF WInv, StateTypes
    <3>2. QED
      BY <1>3, <1>7, <2>2, <3>1 DEF RespondFails
  <2>3. QED
    BY <1>7, <2>1, <2>2 DEF RespondFails
<1>8. QED
  BY <1>5, <1>6, <1>7 DEF Response

LEMMA StepWInv == WInv /\ [Next]_vars => WInv'
<1> SUFFICES ASSUME WInv, [Next]_vars PROVE WInv'
  OBVIOUS
<1>1. Written
  BY DEF WInv, Written
<1>2. ASSUME UNCHANGED <<writeVars, stateVars, responseVars>>
      PROVE  WInv'
  <2>1. StateTypes' /\ Stages'
    BY <1>2 DEF WInv, StateTypes, Stages, stateVars, responseVars
  <2>2. QED
    BY <1>1, <1>2, <2>1, SameWrites DEF WInv, Written, stateVars
<1>3. CASE Client
  <2>1. CASE Destroy
    <3>1. /\ UNCHANGED <<writeVars, socketState, original, request, responseVars>>
          /\ destroyed' = TRUE
      BY <2>1 DEF Destroy, DestroyWithError
    <3>2. StateTypes' /\ Stages'
      BY <3>1 DEF WInv, StateTypes, Stages, responseVars
    <3>3. QED
      BY <1>1, <3>1, <3>2, SameWrites DEF WInv, Written
  <2>2. QED
    BY <1>3, <2>1, WriteBufferedKeeps, WriteForwardedKeeps DEF Client
<1>4. CASE Original
  BY <1>2, <1>4, OriginalCallsBackKeeps DEF Original, OriginalData, OriginalEnds
<1>5. CASE \E h \in Heads : ListenersReturn(h)
  BY <1>2, <1>5 DEF ListenersReturn
<1>6. CASE \E n \in DOMAIN raised : EmitDeferred(n)
  BY <1>2, <1>6 DEF EmitDeferred
<1>7. CASE Read
  BY <1>2, <1>7 DEF Read
<1>8. CASE UNCHANGED vars
  BY <1>2, <1>8 DEF vars
<1>9. QED
  BY <1>3, <1>4, <1>5, <1>6, <1>7, <1>8, ReadKeeps, DecideKeeps, RespondKeeps DEF Next

-----------------------------------------------------------------------------
(* No callback is forgotten.                                               *)

Held(w) == w \in uncalled \/ w \in owed \/ w \in dropped
Kept == \A w \in 1..written : called[w] # 0 \/ Held(w)

\* It is enough to look at the callbacks somebody had to call, and at the new ones.
LEMMA KeptNext ==
  ASSUME Kept,
         \A w \in 1..written : called[w] # 0 => called'[w] # 0,
         \A w \in 1..written : Held(w) => called'[w] # 0 \/ Held(w)',
         \A w \in 1..written' : w \in 1..written \/ called'[w] # 0 \/ Held(w)'
  PROVE  Kept'
BY DEF Kept

LEMMA FlushKept ==
  ASSUME WInv, Kept, socketState # "passthrough", FlushWriteBuffer(buffer, uncalled),
         UNCHANGED <<forwarded, owed, dropped, original>>
  PROVE  Kept'
<1>1. owed = {} /\ dropped = {}
  BY NotYetOriginal
<1>2. written \in 0..MaxWrites /\ written \in Nat /\ called \in [Writes -> Nat]
  BY BoundsAssumption DEF WInv, WriteTypes
<1>3. PICK n \in 0..Room :
        LET new == [i \in 1..n |-> written + i] IN
        /\ written' = written + n
        /\ called' = [w \in Writes |->
                        IF w \in uncalled \cup ToSet(new) THEN called[w] + 1
                        ELSE called[w]]
  BY DEF FlushWriteBuffer
<1> DEFINE new == [i \in 1..n |-> written + i]
<1>4. n \in Nat /\ written + n <= MaxWrites
  BY <1>2, BoundsAssumption DEF Room
<1>5. \A w \in 1..(written + n) : w \in Writes
  BY <1>2, <1>4, BoundsAssumption DEF Writes
<1>6. \A w \in 1..(written + n) : w \in 1..written \/ w \in ToSet(new)
  <2> TAKE w \in 1..(written + n)
  <2>1. CASE w > written
    <3>1. w - written \in 1..n /\ written + (w - written) = w
      BY <2>1, <1>2, <1>4
    <3>2. new[w - written] = w /\ DOMAIN new = 1..n
      BY <3>1
    <3>3. QED
      BY <3>1, <3>2 DEF ToSet
  <2>2. CASE ~(w > written)
    BY <2>2, <1>2, <1>4
  <2>3. QED
    BY <2>1, <2>2
<1> HIDE DEF new
<1>7. called' = [w \in Writes |->
                   IF w \in uncalled \cup ToSet(new) THEN called[w] + 1 ELSE called[w]]
  BY <1>3 DEF new
<1>8. /\ \A w \in 1..(written + n) : called[w] \in Nat
      /\ \A w \in 1..(written + n) : w \in uncalled \/ w \in ToSet(new) => called'[w] = called[w] + 1
      /\ \A w \in 1..(written + n) : called'[w] = called[w] + 1 \/ called'[w] = called[w]
  BY <1>2, <1>5, <1>7
<1>9. \A w \in 1..written : w \in 1..(written + n)
  BY <1>2, <1>4
<1>10. written' = written + n
  BY <1>3
<1>11. \A w \in 1..written : called[w] # 0 => called'[w] # 0
  BY <1>8, <1>9
<1>12. \A w \in 1..written : Held(w) => called'[w] # 0
  BY <1>1, <1>8, <1>9 DEF Held
<1>13. \A w \in 1..written' : w \in 1..written \/ called'[w] # 0
  BY <1>6, <1>8, <1>10
<1>14. QED
  BY <1>11, <1>12, <1>13, KeptNext

LEMMA ForwardKept ==
  ASSUME WInv, Kept, socketState # "passthrough",
         NEW old, NEW left, ForwardInto(old, left),
         UNCHANGED <<called, dropped>>,
         uncalled \subseteq left,
         \A w \in 1..written' : w \in 1..written \/ w \in left
  PROVE  Kept'
<1>1. owed = {} /\ dropped = {}
  BY NotYetOriginal
<1>2. left \subseteq uncalled' \cup owed'
  BY DEF ForwardInto
<1>3. \A w \in left : Held(w)'
  BY <1>2 DEF Held
<1>4. \A w \in 1..written : Held(w) => Held(w)'
  BY <1>1, <1>3 DEF Held
<1>5. QED
  BY <1>3, <1>4, KeptNext

LEMMA WriteKept ==
  ASSUME WInv, Kept, WriteBuffered \/ WriteForwarded
  PROVE  Kept'
<1>1. written \in Nat /\ written' = written + 1
  BY BoundsAssumption DEF WInv, WriteTypes, WriteBuffered, WriteForwarded
<1>2. \A w \in 1..written' : w \in 1..written \/ w = written + 1
  BY <1>1
<1>3. called' = called
  BY DEF WriteBuffered, WriteForwarded
<1>4. CASE WriteBuffered
  <2> DEFINE new == Append(buffer, written + 1)
             left == uncalled \cup {written + 1}
  <2>1. CASE uncalled' = left /\ UNCHANGED <<owed, dropped>>
    BY <1>2, <1>3, <2>1, KeptNext DEF Held
  <2>2. CASE ForwardInto(new, left)
    <3>1. UNCHANGED <<called, dropped>> /\ socketState # "passthrough"
      BY <1>4 DEF WriteBuffered
    <3>2. uncalled \subseteq left /\ \A w \in 1..written' : w \in 1..written \/ w \in left
      BY <1>2
    <3> HIDE DEF new, left
    <3>3. QED
      BY <2>2, <3>1, <3>2, ForwardKept
  <2>3. QED
    BY <1>4, <2>1, <2>2 DEF WriteBuffered
<1>5. CASE WriteForwarded
  <2>1. /\ uncalled' = uncalled
        /\ \/ owed' = owed \cup {written + 1} /\ dropped' = dropped
           \/ dropped' = dropped \cup {written + 1} /\ owed' = owed
    BY <1>5 DEF WriteForwarded
  <2>2. QED
    BY <1>2, <1>3, <2>1, KeptNext DEF Held
<1>6. QED
  BY <1>4, <1>5

\* Callbacks that are called in passthrough.
LEMMA CallBackKept ==
  ASSUME WInv, Kept, NEW S \in SUBSET Writes,
         called' = [w \in Writes |-> IF w \in S THEN called[w] + 1 ELSE called[w]],
         uncalled \subseteq uncalled' \cup S, owed \subseteq owed' \cup S,
         UNCHANGED <<written, dropped>>
  PROVE  Kept'
<1>1. written \in 0..MaxWrites /\ called \in [Writes -> Nat]
  BY DEF WInv, WriteTypes
<1>2. \A w \in 1..written : w \in Writes
  BY <1>1, BoundsAssumption DEF Writes
<1>3. /\ \A w \in 1..written : called[w] \in Nat
      /\ \A w \in 1..written : called'[w] = IF w \in S THEN called[w] + 1 ELSE called[w]
  BY <1>1, <1>2
<1>4. \A w \in 1..written : called[w] # 0 => called'[w] # 0
  BY <1>3
<1>5. \A w \in S : w \in 1..written => called'[w] # 0
  BY <1>3
<1>6. \A w \in 1..written : Held(w) => called'[w] # 0 \/ Held(w)'
  BY <1>5 DEF Held
<1>7. QED
  BY <1>4, <1>6, KeptNext

LEMMA SameWritesKept ==
  ASSUME Kept, UNCHANGED writeVars
  PROVE  Kept'
BY DEF Kept, Held, writeVars

LEMMA StartKept ==
  ASSUME WInv, Kept, socketState # "passthrough", NEW next, Start(next)
  PROVE  Kept'
BY FlushKept DEF Start

LEMMA NextKept == WInv /\ Kept /\ [Next]_vars => Kept'
<1> SUFFICES ASSUME WInv, Kept, [Next]_vars PROVE Kept'
  OBVIOUS
<1>1. CASE Client
  BY <1>1, WriteKept, SameWritesKept DEF Client, Destroy, DestroyWithError
<1>2. CASE ReadRequestBody
  BY <1>2, FlushKept DEF ReadRequestBody, stateVars
<1>3. CASE ReadRequestBodyLate
  <2>1. uncalled \in SUBSET Writes
    BY BoundsAssumption DEF WInv, Buffered, WriteTypes, Writes
  <2>2. QED
    BY <1>3, <2>1, CallBackKept DEF ReadRequestBodyLate
<1>4. CASE Decide
  <2>1. CASE PassThrough
    <3>1. socketState # "passthrough"
      BY <2>1 DEF PassThrough, WInv, Stages
    <3>2. /\ ForwardInto(buffer, uncalled)
          /\ UNCHANGED <<written, called, dropped>>
      BY <2>1 DEF PassThrough
    <3>3. QED
      BY <3>1, <3>2, ForwardKept
  <2>2. CASE ErrorWith \/ IgnoreError
    BY <2>2, SameWritesKept DEF ErrorWith, IgnoreError, DestroyWithError
  <2>3. CASE RespondWith
    <3>1. socketState # "passthrough"
      BY <2>3 DEF RespondWith, WInv, Stages
    <3>2. QED
      BY <2>3, <3>1, StartKept, SameWritesKept DEF RespondWith
  <2>4. QED
    BY <1>4, <2>1, <2>2, <2>3 DEF Decide
<1>5. CASE Response
  <2>1. CASE RespondFails
    <3>1. socketState # "passthrough"
      BY <2>1 DEF RespondFails, WInv, Stages
    <3>2. QED
      BY <2>1, <3>1, StartKept, SameWritesKept DEF RespondFails
  <2>2. QED
    BY <1>5, <2>1, SameWritesKept DEF Response, RespondChunk, RespondEnd
<1>6. CASE Original
  <2>1. ASSUME NEW v \in Writes, OriginalCallsBack(v)
        PROVE  Kept'
    <3>1. called' = [w \in Writes |-> IF w \in {v} THEN called[w] + 1 ELSE called[w]]
      BY <2>1 DEF OriginalCallsBack, WInv, WriteTypes
    <3>2. /\ uncalled \subseteq uncalled' \cup {v}
          /\ owed \subseteq owed' \cup {v}
          /\ UNCHANGED <<written, dropped>>
      BY <2>1 DEF OriginalCallsBack
    <3>3. {v} \in SUBSET Writes
      OBVIOUS
    <3>4. QED
      BY <3>1, <3>2, <3>3, CallBackKept
  <2>2. CASE OriginalData \/ OriginalEnds
    BY <2>2, SameWritesKept DEF OriginalData, OriginalEnds
  <2>3. QED
    BY <1>6, <2>1, <2>2 DEF Original
<1>7. CASE (\E h \in Heads : ListenersReturn(h)) \/ (\E n \in DOMAIN raised : EmitDeferred(n))
  BY <1>7, SameWritesKept DEF ListenersReturn, EmitDeferred
<1>8. CASE Read
  BY <1>8, SameWritesKept DEF Read
<1>9. CASE UNCHANGED vars
  BY <1>9, SameWritesKept DEF vars
<1>10. QED
  BY <1>1, <1>2, <1>3, <1>4, <1>5, <1>6, <1>7, <1>8, <1>9 DEF Next

-----------------------------------------------------------------------------
(* The events.                                                             *)

EventTypes ==
  /\ pushes \in 0..MaxPushes
  /\ heads \in 0..MaxHeads
  /\ returned \subseteq 1..heads
  /\ raised \in Seq(Event)
  /\ seen \in Seq(DOMAIN raised)

\* An event waits for the last response announced when it was raised, its own one or a
\* later one; if there was none, it has been emitted.
Raising ==
  /\ \A n \in DOMAIN raised :
       raised[n].of \in 0..raised[n].behind /\ raised[n].behind <= heads
  /\ \A n \in DOMAIN raised : raised[n].behind = 0 => n \in ToSet(seen)
  /\ \A m, n \in DOMAIN raised : m < n => raised[m].behind <= raised[n].behind

\* An event that has been emitted waits no more, nor does any that was raised before
\* it and waited for the same response.
Seeing ==
  /\ \A n \in ToSet(seen) : raised[n].behind \in returned \cup {0}
  /\ \A n \in ToSet(seen) : \A m \in DOMAIN raised :
       m < n /\ raised[m].behind = raised[n].behind => m \in ToSet(seen)

InOrder ==
  \A i, j \in DOMAIN seen :
    i < j /\ seen[j] < seen[i] => raised[seen[j]].behind < raised[seen[i]].behind

EInv == EventTypes /\ Raising /\ Seeing /\ InOrder

\* What the stream holds is of a response that has been announced.
Unread == [name : Names, of : 0..MaxHeads]

StreamOK ==
  /\ unread \in Seq(Unread)
  /\ \A n \in 1..Len(unread) : unread[n].of <= heads

LEMMA InitEInv == Init => EInv
<1> SUFFICES ASSUME Init PROVE EInv
  OBVIOUS
<1>1. raised = <<>> /\ seen = <<>> /\ pushes = 0 /\ heads = 0 /\ returned = {}
  BY DEF Init
<1>2. raised \in Seq(Event) /\ DOMAIN raised = {}
  BY <1>1
<1>3. seen \in Seq(DOMAIN raised) /\ DOMAIN seen = {} /\ ToSet(seen) = {}
  BY <1>1 DEF ToSet
<1>4. EventTypes
  BY <1>1, <1>2, <1>3, BoundsAssumption DEF EventTypes
<1>5. QED
  BY <1>2, <1>3, <1>4 DEF EInv, Raising, Seeing, InOrder

\* What is raised is added at the end.
LEMMA RaisedNext ==
  ASSUME EInv, NEW names \in Seq(Names), NEW of \in 0..heads',
         heads' \in 0..MaxHeads, Raise(names, of, heads')
  PROVE  /\ raised' \in Seq(Event)
         /\ Len(raised) \in Nat /\ Len(names) \in Nat
         /\ DOMAIN raised = 1..Len(raised)
         /\ DOMAIN raised' = 1..(Len(raised) + Len(names))
         /\ \A n \in 1..Len(raised) : raised'[n] = raised[n]
         /\ \A n \in (Len(raised) + 1)..(Len(raised) + Len(names)) :
              raised'[n].of = of /\ raised'[n].behind = heads'
<1> DEFINE k == Len(raised)
           n == Len(names)
           event(i) == [name |-> names[i], of |-> of, behind |-> heads']
           new == [i \in 1..n |-> event(i)]
<1>1. raised \in Seq(Event)
  BY DEF EInv, EventTypes
<1>2. n \in Nat /\ k \in Nat
  BY <1>1
<1>3. \A i \in 1..n : event(i) \in Event /\ event(i).of = of /\ event(i).behind = heads'
  <2>1. of \in 0..MaxHeads
    BY BoundsAssumption
  <2>2. \A i \in 1..n : names[i] \in Names
    BY ElementOfSeq
  <2>3. QED
    BY <2>1, <2>2 DEF Event
<1>4. raised' = raised \o new
  BY DEF Raise
<1> HIDE DEF event
<1>5. new \in Seq(Event) /\ Len(new) = n /\ \A i \in 1..n : new[i] = event(i)
  BY <1>2, <1>3
<1> HIDE DEF new
<1>6. /\ raised' \in Seq(Event)
      /\ Len(raised') = k + n
      /\ \A i \in 1..(k + n) : raised'[i] = IF i <= k THEN raised[i] ELSE new[i - k]
  <2>1. /\ raised \o new \in Seq(Event)
        /\ Len(raised \o new) = Len(raised) + Len(new)
        /\ \A i \in 1..(Len(raised) + Len(new)) :
             (raised \o new)[i] = IF i <= Len(raised) THEN raised[i] ELSE new[i - Len(raised)]
    BY <1>1, <1>5, ConcatProperties
  <2>2. QED
    BY <1>4, <1>5, <2>1
<1>7. DOMAIN raised = 1..k /\ DOMAIN raised' = 1..(k + n)
  BY <1>1, <1>6, LenProperties
<1>8. \A i \in 1..k : raised'[i] = raised[i]
  BY <1>2, <1>6
<1>9. \A i \in (k + 1)..(k + n) : raised'[i] = new[i - k] /\ i - k \in 1..n
  BY <1>2, <1>6
<1>10. QED
  BY <1>2, <1>3, <1>5, <1>6, <1>7, <1>8, <1>9

\* With no response announced, it is emitted at once.
LEMMA SeenNext ==
  ASSUME EInv, NEW names \in Seq(Names), NEW of, heads' = 0, Raise(names, of, heads')
  PROVE  LET k == Len(raised)
             n == Len(names)
         IN  /\ seen' \in Seq(1..(k + n))
             /\ Len(seen) \in Nat
             /\ DOMAIN seen = 1..Len(seen)
             /\ DOMAIN seen' = 1..(Len(seen) + n)
             /\ \A i \in 1..Len(seen) : seen'[i] = seen[i] /\ seen[i] \in 1..k
             /\ \A i \in (Len(seen) + 1)..(Len(seen) + n) : seen'[i] = k + (i - Len(seen))
             /\ ToSet(seen') = ToSet(seen) \cup (k + 1)..(k + n)
<1> DEFINE k == Len(raised)
           n == Len(names)
           l == Len(seen)
           new == [i \in 1..n |-> k + i]
<1>1. raised \in Seq(Event) /\ seen \in Seq(DOMAIN raised)
  BY DEF EInv, EventTypes
<1>2. n \in Nat /\ k \in Nat /\ l \in Nat /\ DOMAIN raised = 1..k
  BY <1>1, LenProperties
<1>3. seen' = seen \o new
  BY DEF Raise
<1>4. new \in Seq(1..(k + n)) /\ Len(new) = n /\ \A i \in 1..n : new[i] = k + i
  BY <1>2
<1>5. seen \in Seq(1..(k + n)) /\ \A i \in 1..l : seen[i] \in 1..k
  <2>1. 1..k \subseteq 1..(k + n)
    BY <1>2
  <2>2. QED
    BY <1>1, <1>2, <2>1, SeqMonotonic, ElementOfSeq
<1> HIDE DEF new
<1>6. /\ seen' \in Seq(1..(k + n))
      /\ Len(seen') = l + n
      /\ \A i \in 1..(l + n) : seen'[i] = IF i <= l THEN seen[i] ELSE new[i - l]
  <2>1. /\ seen \o new \in Seq(1..(k + n))
        /\ Len(seen \o new) = Len(seen) + Len(new)
        /\ \A i \in 1..(Len(seen) + Len(new)) :
             (seen \o new)[i] = IF i <= Len(seen) THEN seen[i] ELSE new[i - Len(seen)]
    <3> DEFINE S == 1..(k + n)
    <3>1. seen \in Seq(S) /\ new \in Seq(S)
      BY <1>4, <1>5
    <3> HIDE DEF S
    <3>2. /\ seen \o new \in Seq(S)
          /\ Len(seen \o new) = Len(seen) + Len(new)
          /\ \A i \in 1..(Len(seen) + Len(new)) :
               (seen \o new)[i] = IF i <= Len(seen) THEN seen[i] ELSE new[i - Len(seen)]
      BY <3>1, ConcatProperties
    <3>3. QED
      BY <3>2 DEF S
  <2>2. QED
    BY <1>3, <1>4, <2>1
<1>7. DOMAIN seen = 1..l /\ DOMAIN seen' = 1..(l + n)
  BY <1>1, <1>6, LenProperties
<1>8. \A i \in 1..l : seen'[i] = seen[i]
  BY <1>2, <1>6
<1>9. \A i \in (l + 1)..(l + n) : seen'[i] = k + (i - l)
  <2> TAKE i \in (l + 1)..(l + n)
  <2>1. seen'[i] = new[i - l] /\ i - l \in 1..n
    BY <1>2, <1>6
  <2>2. QED
    BY <2>1, <1>4
<1>10. ToSet(seen') = ToSet(seen) \cup (k + 1)..(k + n)
  <2>1. 1..(l + n) = (1..l) \cup (l + 1)..(l + n)
    BY <1>2
  <2>2. \A m \in (k + 1)..(k + n) :
          (m - k) + l \in (l + 1)..(l + n) /\ seen'[(m - k) + l] = m
    <3> TAKE m \in (k + 1)..(k + n)
    <3>1. (m - k) + l \in (l + 1)..(l + n) /\ k + (((m - k) + l) - l) = m
      BY <1>2
    <3>2. QED
      BY <3>1, <1>9
  <2>3. \A i \in (l + 1)..(l + n) : seen'[i] \in (k + 1)..(k + n)
    <3> TAKE i \in (l + 1)..(l + n)
    <3>1. k + (i - l) \in (k + 1)..(k + n)
      BY <1>2
    <3>2. QED
      BY <3>1, <1>9
  <2>4. ToSet(seen') = {seen'[i] : i \in (1..l) \cup (l + 1)..(l + n)}
    BY <1>7, <2>1 DEF ToSet
  <2>5. ToSet(seen) = {seen'[i] : i \in 1..l}
    BY <1>7, <1>8 DEF ToSet
  <2>6. (k + 1)..(k + n) = {seen'[i] : i \in (l + 1)..(l + n)}
    <3>1. (k + 1)..(k + n) \subseteq {seen'[i] : i \in (l + 1)..(l + n)}
      <4> SUFFICES ASSUME NEW m \in (k + 1)..(k + n)
                   PROVE  m \in {seen'[i] : i \in (l + 1)..(l + n)}
        OBVIOUS
      <4>1. (m - k) + l \in (l + 1)..(l + n) /\ seen'[(m - k) + l] = m
        BY <2>2
      <4>2. QED
        BY <4>1
    <3>2. {seen'[i] : i \in (l + 1)..(l + n)} \subseteq (k + 1)..(k + n)
      BY <2>3
    <3>3. QED
      BY <3>1, <3>2
  <2>7. QED
    BY <2>4, <2>5, <2>6
<1>11. QED
  BY <1>2, <1>5, <1>6, <1>7, <1>8, <1>9, <1>10

\* The invariant when something is raised before any response is announced.
LEMMA RaiseAtOnce ==
  ASSUME EInv, NEW names \in Seq(Names), NEW of \in 0..heads',
         Raise(names, of, heads'), heads' = 0, heads = 0,
         pushes' \in 0..MaxPushes, returned' = returned
  PROVE  EInv'
<1> DEFINE k == Len(raised)
           n == Len(names)
           l == Len(seen)
<1>1. heads' \in 0..MaxHeads
  BY BoundsAssumption
<1>2. /\ raised' \in Seq(Event)
      /\ k \in Nat /\ n \in Nat
      /\ DOMAIN raised = 1..k
      /\ DOMAIN raised' = 1..(k + n)
      /\ \A i \in 1..k : raised'[i] = raised[i]
      /\ \A i \in (k + 1)..(k + n) : raised'[i].of = of /\ raised'[i].behind = heads'
  BY <1>1, RaisedNext
<1>3. /\ seen' \in Seq(1..(k + n))
      /\ l \in Nat
      /\ DOMAIN seen = 1..l
      /\ DOMAIN seen' = 1..(l + n)
      /\ \A i \in 1..l : seen'[i] = seen[i] /\ seen[i] \in 1..k
      /\ \A i \in (l + 1)..(l + n) : seen'[i] = k + (i - l)
      /\ ToSet(seen') = ToSet(seen) \cup (k + 1)..(k + n)
  BY SeenNext
<1> HIDE DEF k, n, l
<1>4. \A i \in 1..(k + n) : i \in 1..k \/ i \in (k + 1)..(k + n)
  BY <1>2
<1>5. \A i \in 1..k : raised[i].behind = 0 /\ raised[i].of = 0
  <2> TAKE i \in 1..k
  <2>1. raised[i] \in Event
    BY <1>2, ElementOfSeq DEF EInv, EventTypes, k
  <2>2. raised[i].behind \in Nat
    BY <2>1, BoundsAssumption DEF Event
  <2>3. raised[i].of \in 0..raised[i].behind /\ raised[i].behind <= 0
    BY <1>2 DEF EInv, Raising
  <2>4. QED
    BY <2>2, <2>3
<1>6. \A i \in 1..(k + n) : raised'[i].behind = 0 /\ raised'[i].of = 0
  BY <1>2, <1>4, <1>5
<1>7. ToSet(seen') = 1..(k + n)
  <2>1. ToSet(seen) = 1..k
    <3>1. \A i \in 1..k : i \in ToSet(seen)
      BY <1>2, <1>5 DEF EInv, Raising
    <3>2. ToSet(seen) \subseteq 1..k
      BY <1>3 DEF ToSet
    <3>3. QED
      BY <3>1, <3>2
  <2>2. QED
    BY <1>2, <1>3, <2>1
<1>8. EventTypes'
  BY <1>1, <1>2, <1>3 DEF EInv, EventTypes
<1>9. Raising'
  BY <1>2, <1>6, <1>7 DEF Raising
<1>10. Seeing'
  BY <1>2, <1>6, <1>7 DEF Seeing
<1>11. InOrder'
  <2> SUFFICES ASSUME NEW i \in 1..(l + n), NEW j \in 1..(l + n), i < j, seen'[j] < seen'[i]
               PROVE  raised'[seen'[j]].behind < raised'[seen'[i]].behind
    BY <1>3 DEF InOrder
  <2>1. i \in 1..l \/ i \in (l + 1)..(l + n)
    BY <1>2, <1>3
  <2>2. CASE j \in (l + 1)..(l + n)
    <3>1. seen'[j] = k + (j - l)
      BY <1>3, <2>2
    <3>2. seen'[i] < k + (j - l)
      <4>1. CASE i \in 1..l
        <5>1. seen'[i] \in 1..k
          BY <1>3, <4>1
        <5>2. QED
          BY <5>1, <2>2, <1>2, <1>3
      <4>2. CASE i \in (l + 1)..(l + n)
        <5>1. seen'[i] = k + (i - l)
          BY <1>3, <4>2
        <5>2. QED
          BY <5>1, <1>2, <1>3
      <4>3. QED
        BY <2>1, <4>1, <4>2
    <3>3. seen'[i] \in Nat
      <4>1. CASE i \in 1..l
        BY <4>1, <1>3
      <4>2. CASE i \in (l + 1)..(l + n)
        <5>1. seen'[i] = k + (i - l)
          BY <4>2, <1>3
        <5>2. k + (i - l) \in Nat
          BY <4>2, <1>2, <1>3
        <5>3. QED
          BY <5>1, <5>2
      <4>3. QED
        BY <2>1, <4>1, <4>2
    <3>4. QED
      BY <3>1, <3>2, <3>3, <2>2, <1>2, <1>3
  <2>3. CASE j \in 1..l
    <3>1. i \in 1..l
      BY <2>3, <1>3
    <3>2. /\ raised[seen[j]].behind < raised[seen[i]].behind
          /\ seen'[i] = seen[i] /\ seen'[j] = seen[j]
          /\ seen[i] \in 1..k /\ seen[j] \in 1..k
      BY <2>3, <3>1, <1>3 DEF EInv, InOrder
    <3>3. QED
      BY <3>2, <1>2
  <2>4. QED
    BY <2>2, <2>3, <1>2, <1>3
<1>12. QED
  BY <1>8, <1>9, <1>10, <1>11 DEF EInv

\* The invariant when something is raised that has to wait.
LEMMA RaiseDeferred ==
  ASSUME EInv, NEW names \in Seq(Names), NEW of \in 0..heads',
         Raise(names, of, heads'), heads' \in heads..MaxHeads, heads' # 0,
         pushes' \in 0..MaxPushes, returned' = returned
  PROVE  EInv'
<1> DEFINE k == Len(raised)
           n == Len(names)
<1>1. heads \in 0..MaxHeads /\ heads' \in 0..MaxHeads /\ heads' > 0 /\ heads <= heads'
  BY BoundsAssumption DEF EInv, EventTypes
<1>2. /\ raised' \in Seq(Event)
      /\ k \in Nat /\ n \in Nat
      /\ DOMAIN raised = 1..k
      /\ DOMAIN raised' = 1..(k + n)
      /\ \A i \in 1..k : raised'[i] = raised[i]
      /\ \A i \in (k + 1)..(k + n) : raised'[i].of = of /\ raised'[i].behind = heads'
  BY <1>1, RaisedNext
<1>3. seen' = seen
  BY <1>1 DEF Raise
<1>4. seen \in Seq(1..k) /\ ToSet(seen) \subseteq 1..k /\ DOMAIN seen = 1..Len(seen)
  <2>1. seen \in Seq(1..k)
    BY <1>2 DEF EInv, EventTypes
  <2>2. QED
    BY <2>1, ElementOfSeq, LenProperties DEF ToSet
<1> HIDE DEF k, n
<1>5. \A i \in 1..(k + n) : i \in 1..k \/ i \in (k + 1)..(k + n)
  BY <1>2
<1>6. \A i \in 1..k : /\ raised[i].behind \in Nat
                       /\ raised[i].of \in 0..raised[i].behind
                       /\ raised[i].behind <= heads
                       /\ raised[i].behind <= heads'
  <2> TAKE i \in 1..k
  <2>1. raised[i] \in Event
    BY <1>2, ElementOfSeq DEF EInv, EventTypes, k
  <2>2. raised[i].behind \in Nat
    BY <2>1, BoundsAssumption DEF Event
  <2>3. raised[i].of \in 0..raised[i].behind /\ raised[i].behind <= heads
    BY <1>2 DEF EInv, Raising
  <2>4. QED
    BY <1>1, <2>2, <2>3
<1>7. EventTypes'
  <2>1. 1..k \subseteq 1..(k + n)
    BY <1>2
  <2>2. seen' \in Seq(1..(k + n))
    BY <1>3, <1>4, <2>1, SeqMonotonic
  <2>3. returned' \subseteq 1..heads'
    BY <1>1 DEF EInv, EventTypes
  <2>4. QED
    BY <1>1, <1>2, <2>2, <2>3 DEF EventTypes
<1>8. Raising'
  <2>1. \A i \in 1..(k + n) :
          raised'[i].of \in 0..raised'[i].behind /\ raised'[i].behind <= heads'
    BY <1>1, <1>2, <1>5, <1>6
  <2>2. \A i \in 1..(k + n) : raised'[i].behind = 0 => i \in ToSet(seen)
    BY <1>1, <1>2, <1>5 DEF EInv, Raising
  <2>3. \A i, j \in 1..(k + n) : i < j => raised'[i].behind <= raised'[j].behind
    <3> TAKE i, j \in 1..(k + n)
    <3> HAVE i < j
    <3>1. CASE j \in 1..k
      <4>1. i \in 1..k
        BY <3>1, <1>2
      <4>2. QED
        BY <3>1, <4>1, <1>2 DEF EInv, Raising
    <3>2. CASE j \in (k + 1)..(k + n)
      BY <3>2, <1>1, <1>2, <1>5, <1>6
    <3>3. QED
      BY <3>1, <3>2, <1>5
  <2>4. QED
    BY <1>2, <1>3, <2>1, <2>2, <2>3 DEF Raising
<1>9. Seeing'
  <2>1. \A i \in ToSet(seen) : raised'[i].behind \in returned' \cup {0}
    BY <1>2, <1>4 DEF EInv, Seeing
  <2>2. ASSUME NEW i \in ToSet(seen), NEW j \in 1..(k + n), j < i,
               raised'[j].behind = raised'[i].behind
        PROVE  j \in ToSet(seen)
    <3>1. i \in 1..k /\ j \in 1..k
      BY <1>2, <1>4, <2>2
    <3>2. QED
      BY <2>2, <3>1, <1>2 DEF EInv, Seeing
  <2>3. QED
    BY <1>2, <1>3, <2>1, <2>2 DEF Seeing
<1>10. InOrder'
  <2> SUFFICES ASSUME NEW i \in DOMAIN seen, NEW j \in DOMAIN seen, i < j, seen[j] < seen[i]
               PROVE  raised'[seen[j]].behind < raised'[seen[i]].behind
    BY <1>3 DEF InOrder
  <2>1. seen[i] \in 1..k /\ seen[j] \in 1..k
    BY <1>4 DEF ToSet
  <2>2. QED
    BY <2>1, <1>2 DEF EInv, InOrder
<1>11. QED
  BY <1>7, <1>8, <1>9, <1>10 DEF EInv

LEMMA RaiseKeeps ==
  ASSUME EInv, NEW names \in Seq(Names), NEW of \in 0..heads',
         Raise(names, of, heads'), heads' \in heads..MaxHeads,
         pushes' \in 0..MaxPushes, returned' = returned
  PROVE  EInv'
<1>1. heads' = 0 => heads = 0
  BY BoundsAssumption DEF EInv, EventTypes
<1>2. QED
  BY <1>1, RaiseAtOnce, RaiseDeferred

\* The parser may find heads while nothing is raised.
LEMMA MoreHeads ==
  ASSUME EInv, heads' \in heads..MaxHeads, pushes' \in 0..MaxPushes,
         returned' = returned, UNCHANGED eventVars
  PROVE  EInv'
<1>1. heads \in Nat /\ heads' \in 0..MaxHeads /\ heads <= heads' /\ heads' \in Nat
  BY BoundsAssumption DEF EInv, EventTypes
<1>2. raised' = raised /\ seen' = seen /\ returned' \subseteq 1..heads'
  BY <1>1 DEF eventVars, EInv, EventTypes
<1>3. EventTypes'
  BY <1>1, <1>2 DEF EInv, EventTypes
<1>4. \A n \in DOMAIN raised : raised[n].behind \in Nat
  <2>1. \A n \in DOMAIN raised : raised[n] \in Event
    BY ElementOfSeq, LenProperties DEF EInv, EventTypes
  <2>2. QED
    BY <2>1, BoundsAssumption DEF Event
<1>5. Raising'
  BY <1>1, <1>2, <1>4 DEF EInv, Raising
<1>6. Seeing' /\ InOrder'
  BY <1>2 DEF EInv, Seeing, InOrder
<1>7. QED
  BY <1>3, <1>5, <1>6 DEF EInv

LEMMA EmitKeeps ==
  ASSUME EInv, NEW names \in Seq(Names), Emit(names), UNCHANGED parserVars
  PROVE  EInv'
<1>1. /\ heads' = heads /\ pushes' = pushes /\ returned' = returned
      /\ Raise(names, 0, heads')
  BY DEF Emit, parserVars
<1>2. heads' \in heads..MaxHeads /\ pushes' \in 0..MaxPushes
  BY <1>1, BoundsAssumption DEF EInv, EventTypes
<1>3. 0 \in 0..heads'
  BY <1>2, BoundsAssumption DEF EInv, EventTypes
<1>4. QED
  BY <1>1, <1>2, <1>3, RaiseKeeps

\* What is pushed is added to what the stream holds.
LEMMA QueueKeeps ==
  ASSUME EInv, StreamOK, NEW names \in Seq(Names), NEW of \in 0..heads',
         Queue(names, of), heads' \in heads..MaxHeads
  PROVE  StreamOK'
<1> DEFINE k == Len(unread)
           n == Len(names)
           item(i) == [name |-> names[i], of |-> of]
           new == [i \in 1..n |-> item(i)]
<1>1. unread \in Seq(Unread) /\ k \in Nat /\ n \in Nat
  BY DEF StreamOK
<1>2. heads \in Nat /\ heads' \in Nat /\ heads <= heads' /\ of <= heads' /\ of \in 0..MaxHeads
  BY BoundsAssumption DEF EInv, EventTypes
<1>3. \A i \in 1..n : item(i) \in Unread /\ item(i).of = of
  <2>1. \A i \in 1..n : names[i] \in Names
    BY ElementOfSeq
  <2>2. QED
    BY <1>2, <2>1 DEF Unread
<1>4. \A u \in Unread : u.of \in Nat
  BY BoundsAssumption DEF Unread
<1>5. \A i \in 1..k : unread[i].of <= heads'
  <2>1. \A i \in 1..k : unread[i] \in Unread /\ unread[i].of <= heads
    BY <1>1, ElementOfSeq DEF StreamOK
  <2>2. QED
    BY <1>2, <1>4, <2>1
<1>6. CASE destroyed
  <2>1. unread' = unread
    BY <1>6 DEF Queue
  <2>2. QED
    BY <1>1, <1>5, <2>1 DEF StreamOK
<1>7. CASE ~destroyed
  <2>1. unread' = unread \o new
    BY <1>7 DEF Queue
  <2> HIDE DEF item
  <2>2. new \in Seq(Unread) /\ Len(new) = n /\ \A i \in 1..n : new[i] = item(i)
    BY <1>1, <1>3
  <2> HIDE DEF new
  <2>3. /\ unread' \in Seq(Unread)
        /\ Len(unread') = k + n
        /\ \A i \in 1..(k + n) : unread'[i] = IF i <= k THEN unread[i] ELSE new[i - k]
    <3>1. /\ unread \o new \in Seq(Unread)
          /\ Len(unread \o new) = Len(unread) + Len(new)
          /\ \A i \in 1..(Len(unread) + Len(new)) :
               (unread \o new)[i] = IF i <= Len(unread) THEN unread[i] ELSE new[i - Len(unread)]
      BY <1>1, <2>2, ConcatProperties
    <3>2. QED
      BY <2>1, <2>2, <3>1
  <2>4. \A i \in 1..(k + n) : unread'[i].of <= heads'
    <3> TAKE i \in 1..(k + n)
    <3>1. CASE i <= k
      BY <3>1, <1>1, <1>5, <2>3
    <3>2. CASE i > k
      <4>1. unread'[i] = new[i - k] /\ i - k \in 1..n
        BY <3>2, <1>1, <2>3
      <4>2. QED
        BY <4>1, <1>2, <1>3, <2>2
    <3>3. QED
      BY <3>1, <3>2, <1>1
  <2>5. QED
    BY <2>3, <2>4 DEF StreamOK
<1>8. QED
  BY <1>6, <1>7

\* The parser sees the heads before anything is raised or held.
LEMMA PushKeeps ==
  ASSUME EInv, StreamOK, NEW n \in Nat, NEW tail \in {<<>>, <<"end">>}, Push(n, tail)
  PROVE  EInv' /\ StreamOK'
<1>1. /\ <<"data">> \in Seq(Names)
      /\ tail \in Seq(Names)
      /\ <<"data">> \o tail \in Seq(Names)
  <2>1. "data" \in Names /\ "end" \in Names
    BY DEF Names
  <2> HIDE DEF Names
  <2>2. <<"data">> \in Seq(Names)
    BY <2>1
  <2>3. <<"end">> \in Seq(Names)
    BY <2>1
  <2>4. <<>> \in Seq(Names)
    OBVIOUS
  <2>5. tail \in Seq(Names)
    BY <2>3, <2>4
  <2>6. QED
    BY <2>2, <2>5, ConcatProperties
<1>2. /\ returned' = returned
      /\ pushes < MaxPushes /\ pushes' = pushes + 1
      /\ heads' = heads \/ heads' = heads + n
      /\ heads' <= MaxHeads
  BY DEF Push
<1>3. /\ heads' \in heads..MaxHeads /\ pushes' \in 0..MaxPushes
      /\ heads' \in 0..heads'
  BY <1>2, BoundsAssumption DEF EInv, EventTypes
<1>4. CASE Raise(<<"data">>, heads', heads') /\ Queue(tail, heads')
  BY <1>1, <1>2, <1>3, <1>4, RaiseKeeps, QueueKeeps
<1>5. CASE Queue(<<"data">> \o tail, heads') /\ UNCHANGED eventVars
  <2>1. StreamOK'
    BY <1>1, <1>3, <1>5, QueueKeeps
  <2>2. EInv'
    BY <1>2, <1>3, <1>5, MoreHeads
  <2>3. QED
    BY <2>1, <2>2
<1>6. QED
  BY <1>4, <1>5 DEF Push

\* What the stream holds becomes an event, which waits for the last response.
LEMMA ReadNextKeeps ==
  ASSUME EInv, StreamOK, Read
  PROVE  EInv' /\ StreamOK'
<1> DEFINE first == Head(unread)
<1>1. /\ unread \in Seq(Unread) /\ unread # <<>>
      /\ unread' = Tail(unread)
      /\ heads' = heads /\ pushes' = pushes /\ returned' = returned
      /\ Raise(<<first.name>>, first.of, heads')
  BY DEF Read, StreamOK
<1>2. /\ first = unread[1] /\ first \in Unread
      /\ Len(unread) \in Nat /\ Len(unread) > 0
  BY <1>1, HeadTailProperties, EmptySeq, ElementOfSeq
<1>3. /\ Tail(unread) \in Seq(Unread)
      /\ Len(Tail(unread)) = Len(unread) - 1
      /\ \A i \in 1..Len(Tail(unread)) : Tail(unread)[i] = unread[i + 1]
  BY <1>1, HeadTailProperties
<1> HIDE DEF first
<1>4. first.name \in Names /\ first.of \in Nat /\ first.of <= heads
  BY <1>2, BoundsAssumption DEF Unread, StreamOK
<1>5. heads' \in heads..MaxHeads /\ pushes' \in 0..MaxPushes /\ first.of \in 0..heads'
  BY <1>1, <1>4, BoundsAssumption DEF EInv, EventTypes
<1>6. <<first.name>> \in Seq(Names)
  BY <1>4
<1>7. EInv'
  BY <1>1, <1>5, <1>6, RaiseKeeps
<1>8. StreamOK'
  <2>1. \A i \in 1..Len(unread') : i + 1 \in 1..Len(unread) /\ unread'[i] = unread[i + 1]
    BY <1>1, <1>2, <1>3
  <2>2. QED
    BY <1>1, <1>3, <2>1 DEF StreamOK
<1>9. QED
  BY <1>7, <1>8

\* Events that have been waiting are emitted once the listeners have returned.
LEMMA EmitDeferredKeeps ==
  ASSUME EInv, NEW n \in DOMAIN raised, EmitDeferred(n)
  PROVE  EInv'
<1> DEFINE l == Len(seen)
           k == Len(raised)
<1>1. /\ n \notin ToSet(seen)
      /\ raised[n].behind \in returned
      /\ \A m \in 1..(n - 1) : m \in ToSet(seen) \/ raised[m].behind # raised[n].behind
      /\ seen' = Append(seen, n)
      /\ UNCHANGED <<pushes, heads, returned, raised>>
  BY DEF EmitDeferred, parserVars
<1>2. /\ raised \in Seq(Event) /\ seen \in Seq(DOMAIN raised)
      /\ DOMAIN raised = 1..k /\ k \in Nat
      /\ DOMAIN seen = 1..l /\ l \in Nat
  BY LenProperties DEF EInv, EventTypes
<1>3. /\ seen' \in Seq(DOMAIN raised)
      /\ DOMAIN seen' = 1..(l + 1)
      /\ \A i \in 1..l : seen'[i] = seen[i]
      /\ seen'[l + 1] = n
  BY <1>1, <1>2, AppendProperties, LenProperties
<1>4. \A i \in 1..l : seen[i] \in 1..k
  BY <1>2, ElementOfSeq
<1> HIDE DEF l, k
<1>5. \A i \in 1..(l + 1) : i \in 1..l \/ i = l + 1
  BY <1>2
<1>6. ToSet(seen') = ToSet(seen) \cup {n}
  <2>1. 1..(l + 1) = (1..l) \cup {l + 1}
    BY <1>2
  <2>2. QED
    BY <2>1, <1>2, <1>3 DEF ToSet
<1>7. EventTypes'
  BY <1>1, <1>3 DEF EInv, EventTypes
<1>8. Raising'
  BY <1>1, <1>6 DEF EInv, Raising
<1>9. Seeing'
  <2>1. \A i \in ToSet(seen') : raised[i].behind \in returned \cup {0}
    BY <1>1, <1>6 DEF EInv, Seeing
  <2>2. \A m \in 1..k : m < n => m \in 1..(n - 1)
    BY <1>2
  <2>3. \A i \in ToSet(seen') : \A m \in DOMAIN raised :
          m < i /\ raised[m].behind = raised[i].behind => m \in ToSet(seen')
    BY <1>1, <1>2, <1>6, <2>2 DEF EInv, Seeing
  <2>4. QED
    BY <1>1, <2>1, <2>3 DEF Seeing
<1>10. InOrder'
  <2> SUFFICES ASSUME NEW i \in 1..(l + 1), NEW j \in 1..(l + 1), i < j, seen'[j] < seen'[i]
               PROVE  raised[seen'[j]].behind < raised[seen'[i]].behind
    BY <1>1, <1>3 DEF InOrder
  <2>1. i \in 1..l
    BY <1>2
  <2>2. CASE j \in 1..l
    BY <2>1, <2>2, <1>2, <1>3 DEF EInv, InOrder
  <2>3. CASE j = l + 1
    <3> DEFINE s == seen[i]
    <3>1. s \in 1..k /\ n \in 1..k /\ n < s /\ s \in ToSet(seen)
      BY <2>1, <2>3, <1>2, <1>3, <1>4 DEF ToSet
    <3>2. seen'[j] = n /\ seen'[i] = s
      BY <2>1, <2>3, <1>3
    <3> HIDE DEF s
    <3>3. raised[n].behind # raised[s].behind
      BY <3>1, <1>1, <1>2 DEF EInv, Seeing
    <3>4. raised[n].behind <= raised[s].behind
      BY <3>1, <1>2 DEF EInv, Raising
    <3>5. raised[n].behind \in Nat /\ raised[s].behind \in Nat
      <4>1. raised[n] \in Event /\ raised[s] \in Event
        BY <3>1, <1>2
      <4>2. QED
        BY <4>1, BoundsAssumption DEF Event
    <3>6. QED
      BY <3>2, <3>3, <3>4, <3>5
  <2>4. QED
    BY <2>2, <2>3, <1>5
<1>11. QED
  BY <1>7, <1>8, <1>9, <1>10 DEF EInv

LEMMA StepEInv == EInv /\ StreamOK /\ [Next]_vars => EInv' /\ StreamOK'
<1> SUFFICES ASSUME EInv, StreamOK, [Next]_vars PROVE EInv' /\ StreamOK'
  OBVIOUS
<1>1. ASSUME UNCHANGED <<parserVars, eventVars>>
      PROVE  EInv' /\ StreamOK'
  BY <1>1 DEF EInv, EventTypes, Raising, Seeing, InOrder, StreamOK, parserVars, eventVars
<1>2. ASSUME UNCHANGED <<heads, unread>>
      PROVE  StreamOK'
  BY <1>2 DEF StreamOK
<1>3. ASSUME NEW names \in Seq(Names), Emit(names), UNCHANGED parserVars
      PROVE  EInv' /\ StreamOK'
  BY <1>2, <1>3, EmitKeeps DEF parserVars
<1>4. /\ <<>> \in Seq(Names)
      /\ <<"end">> \in Seq(Names)
      /\ <<"close">> \in Seq(Names)
      /\ <<"error">> \in Seq(Names)
      /\ <<"error", "close">> \in Seq(Names)
      /\ <<"end", "close">> \in Seq(Names)
      /\ <<"lookup", "connect", "ready">> \in Seq(Names)
  <2>1. /\ "end" \in Names /\ "close" \in Names /\ "error" \in Names
        /\ "lookup" \in Names /\ "connect" \in Names /\ "ready" \in Names
    BY DEF Names
  <2>2. <<>> \in Seq(Names)
    OBVIOUS
  <2>3. QED
    BY <2>1, <2>2
<1>5. CASE Client
  BY <1>1, <1>3, <1>4, <1>5
  DEF Client, WriteBuffered, WriteForwarded, Destroy, DestroyWithError
<1>6. CASE ReadRequestBody \/ ReadRequestBodyLate
  BY <1>1, <1>6 DEF ReadRequestBody, ReadRequestBodyLate
<1>7. ASSUME NEW next, Start(next)
      PROVE  EInv' /\ StreamOK'
  BY <1>3, <1>4, <1>7 DEF Start
<1>8. CASE Decide
  BY <1>1, <1>3, <1>4, <1>7, <1>8
  DEF Decide, PassThrough, ErrorWith, IgnoreError, RespondWith, DestroyWithError
<1>9. ASSUME NEW tail \in {<<>>, <<"end">>}, ServerWrite(tail)
      PROVE  EInv' /\ StreamOK'
  <2>1. (IF headSent \/ garbled THEN 0 ELSE 1) \in Nat
    OBVIOUS
  <2>2. QED
    BY <1>1, <1>9, <2>1, PushKeeps DEF ServerWrite
<1>10. CASE Response
  <2>1. CASE RespondChunk
    BY <1>9, <2>1 DEF RespondChunk
  <2>2. CASE RespondEnd
    <3>1. PICK tail \in {<<>>, <<"end">>} :
            \/ ServerWrite(tail)
            \/ Queue(tail, heads) /\ UNCHANGED <<pushes, heads, returned, eventVars>>
      BY <2>2 DEF RespondEnd
    <3>2. CASE ServerWrite(tail)
      BY <1>9, <3>2
    <3>3. CASE Queue(tail, heads) /\ UNCHANGED <<pushes, heads, returned, eventVars>>
      <4>1. tail \in Seq(Names)
        BY <1>4
      <4>2. heads' = heads /\ heads \in 0..heads' /\ heads' \in heads..MaxHeads
        BY <3>3, BoundsAssumption DEF EInv, EventTypes
      <4>3. StreamOK'
        BY <3>3, <4>1, <4>2, QueueKeeps
      <4>4. EInv'
        BY <3>3 DEF EInv, EventTypes, Raising, Seeing, InOrder, eventVars
      <4>5. QED
        BY <4>3, <4>4
    <3>4. QED
      BY <3>1, <3>2, <3>3
  <2>3. CASE RespondFails
    BY <1>1, <1>7, <2>3 DEF RespondFails, eventVars
  <2>4. QED
    BY <1>10, <2>1, <2>2, <2>3 DEF Response
<1>11. CASE Original
  <2>1. CASE OriginalData
    BY <2>1, PushKeeps DEF OriginalData
  <2>2. CASE OriginalEnds
    <3>1. /\ Raise(<<"end", "close">>, heads', heads')
          /\ heads' = heads /\ pushes' = pushes /\ returned' = returned
          /\ unread' = unread
      BY <2>2 DEF OriginalEnds, parserVars
    <3>2. heads' \in heads..MaxHeads /\ pushes' \in 0..MaxPushes /\ heads' \in 0..heads'
      BY <3>1, BoundsAssumption DEF EInv, EventTypes
    <3>3. QED
      BY <1>2, <1>4, <3>1, <3>2, RaiseKeeps
  <2>3. QED
    BY <1>1, <1>11, <2>1, <2>2 DEF Original, OriginalCallsBack
<1>12. CASE Read
  BY <1>12, ReadNextKeeps
<1>13. ASSUME NEW h \in Heads, ListenersReturn(h)
       PROVE  EInv' /\ StreamOK'
  BY <1>2, <1>13
  DEF ListenersReturn, eventVars, EInv, EventTypes, Raising, Seeing, InOrder
<1>14. ASSUME NEW n \in DOMAIN raised, EmitDeferred(n)
       PROVE  EInv' /\ StreamOK'
  BY <1>2, <1>14, EmitDeferredKeeps DEF EmitDeferred, parserVars
<1>15. CASE UNCHANGED vars
  BY <1>1, <1>15 DEF vars
<1>16. QED
  BY <1>5, <1>6, <1>8, <1>10, <1>11, <1>12, <1>13, <1>14, <1>15 DEF Next

-----------------------------------------------------------------------------
(* The theorems.                                                           *)

THEOREM WritesInvariant == Spec => []WInv
BY InitWInv, StepWInv, PTL DEF Spec

THEOREM EventsInvariant == Spec => [](EInv /\ StreamOK)
<1>1. Init => StreamOK
  BY DEF Init, StreamOK
<1>2. QED
  BY <1>1, InitEInv, StepEInv, PTL DEF Spec

\* The variables have their types.
THEOREM TypeCorrect == Spec => []TypeOK
<1>1. WInv /\ EInv /\ StreamOK => TypeOK
  BY DEF WInv, EInv, TypeOK, WriteTypes, StateTypes, EventTypes, StreamOK, Unread
<1>2. QED
  BY <1>1, WritesInvariant, EventsInvariant, PTL

\* No write callback is called twice (flushWriteBuffer(), passthrough()).
THEOREM CallbacksOnce == Spec => []CallbackOnce
<1>1. WInv => CallbackOnce
  BY DEF WInv, Calls, CallbackOnce
<1>2. QED
  BY <1>1, WritesInvariant, PTL

\* The original socket gets every write, in order and once.
THEOREM PassedOn == Spec => []PassedOnComplete
<1>1. WInv => PassedOnComplete
  BY DEF WInv
<1>2. QED
  BY <1>1, WritesInvariant, PTL

\* Every write has been called back once, or its callback is in one place only, where
\* somebody has to call it: the mock socket, if the request is not passed on yet or the
\* socket was destroyed before, or the original socket.  Only that of an empty chunk in
\* passthrough is lost.
CallbackInOnePlace ==
  \A w \in 1..written :
    \/ called[w] = 1 /\ w \notin uncalled /\ w \notin owed
    \/ called[w] = 0 /\ w \in uncalled /\ w \notin owed /\ ~original
    \/ called[w] = 0 /\ w \in owed /\ w \notin uncalled /\ original
    \/ called[w] = 0 /\ w \in dropped /\ original

\* The safe half of CallbacksCome: no way through the buffer loses a callback
\* (flushWriteBuffer(), passthrough(), write()).
THEOREM NoCallbackForgotten == Spec => []CallbackInOnePlace
<1>1. Spec => [](WInv /\ Kept)
  <2>1. Init => Kept
    BY DEF Init, Kept
  <2>2. QED
    BY <2>1, InitWInv, StepWInv, NextKept, PTL DEF Spec
<1>2. WInv /\ Kept => CallbackInOnePlace
  <2> SUFFICES ASSUME WInv, Kept, NEW w \in 1..written
               PROVE  \/ called[w] = 1 /\ w \notin uncalled /\ w \notin owed
                      \/ called[w] = 0 /\ w \in uncalled /\ w \notin owed /\ ~original
                      \/ called[w] = 0 /\ w \in owed /\ w \notin uncalled /\ original
                      \/ called[w] = 0 /\ w \in dropped /\ original
    BY DEF CallbackInOnePlace
  <2>1. w \in Writes
    BY BoundsAssumption DEF WInv, WriteTypes, Writes
  <2>2. \/ called[w] = 0
        \/ called[w] = 1 /\ w \notin uncalled /\ w \notin owed
    BY <2>1 DEF WInv, Calls
  <2>3. called[w] # 0 \/ w \in uncalled \/ w \in owed \/ w \in dropped
    BY DEF Kept, Held
  <2>4. /\ ~original => owed = {} /\ dropped = {}
        /\ original => uncalled = {}
    BY DEF WInv, Buffered
  <2>5. QED
    BY <2>2, <2>3, <2>4
<1>3. QED
  BY <1>1, <1>2, PTL

\* A request that is mocked is not passed on as well.
THEOREM MockedOrPassedOn == Spec => []Stages
<1>1. WInv => Stages
  BY DEF WInv
<1>2. QED
  BY <1>1, WritesInvariant, PTL

\* What has a part of a response is not emitted before its "response" listeners have
\* returned, or those of a later response announced before the stream made an event
\* of it; and events keep their order among those that wait for the same listeners
\* (emit(), push()).
THEOREM ListenersAreFirst == Spec => []ListenersFirst
<1>1. EInv => ListenersFirst
  <2> SUFFICES ASSUME EInv PROVE ListenersFirst
    OBVIOUS
  <2>1. \A i \in DOMAIN seen : seen[i] \in DOMAIN raised /\ seen[i] \in ToSet(seen)
    BY ElementOfSeq, LenProperties DEF EInv, EventTypes, ToSet
  <2>2. ASSUME NEW i \in DOMAIN seen
        PROVE  LET e == raised[seen[i]]
               IN  e.of \in returned \cup {0} \/ (e.of < e.behind /\ e.behind \in returned)
    <3> DEFINE e == raised[seen[i]]
    <3>1. e.of \in 0..e.behind /\ e.behind \in returned \cup {0}
      BY <2>1, <2>2 DEF EInv, Raising, Seeing
    <3>2. e.behind \in Nat
      <4>1. e \in Event
        BY <2>1, <2>2, ElementOfSeq, LenProperties DEF EInv, EventTypes
      <4>2. QED
        BY <4>1, BoundsAssumption DEF Event
    <3> HIDE DEF e
    <3>3. QED
      BY <3>1, <3>2 DEF e
  <2>3. QED
    BY <2>2 DEF EInv, InOrder, ListenersFirst
<1>2. QED
  BY <1>1, EventsInvariant, PTL
=============================================================================
