------------------------- MODULE XhrControllerProofs -------------------------
(***************************************************************************)
(* For any number of uses and chunks: the types, that the native request   *)
(* stays out of a use that is answered, that the events come in order,     *)
(* that a response is announced as what it is, and that there is always    *)
(* somebody who can take a request further.                                *)
(***************************************************************************)
EXTENDS XhrController, SequenceTheorems, TLAPS

Answering == {"upload", "measuring", "streaming"}

\* Only an answered request is played back, and it stays answered.
Marked ==
  /\ defined \/ shadow # -1 => handled
  /\ \A s \in Sends : phase[s] \in Answering => handled

\* Uses are made in order.
UsesInOrder == \A s \in Sends : s > sends => phase[s] = "idle"

\* A clean XMLHttpRequest: all uses but the last one were performed.  Until the last
\* one is performed, too, the native request waits; an answered one never is.
LastUse ==
  clean =>
    /\ \A s \in Sends : s < sends => phase[s] = "performed"
    /\ sends > 0 /\ phase[sends] # "performed" => native = OPENED /\ ~inFlight
    /\ handled => sends > 0 /\ phase[sends] # "performed"

IInv == TypeOK /\ Marked /\ UsesInOrder /\ LastUse

-----------------------------------------------------------------------------
(* Types.                                                                  *)

LEMMA ConcatType ==
  ASSUME NEW S, NEW a \in Seq(S), NEW b \in Seq(S)
  PROVE  a \o b \in Seq(S)
BY ConcatProperties

LEMMA PrefixType ==
  ASSUME NEW S, NEW a \in Seq(S), NEW n \in 1..Len(a)
  PROVE  SubSeq(a, 1, n) \in Seq(S)
<1>1. Len(a) \in Nat /\ \A i \in 1..Len(a) : a[i] \in S
  BY LenProperties, ElementOfSeq
<1>2. n \in Int /\ \A i \in 1..n : a[i] \in S
  BY <1>1
<1>3. QED
  BY <1>2, SubSeqProperties

LEMMA StateOfType ==
  ASSUME NEW e \in StateEvents
  PROVE  StateOf[e] \in OPENED..DONE
BY DEF StateEvents, StateOf, OPENED, HEADERS_RECEIVED, LOADING, DONE

LEMMA StateAfterType ==
  ASSUME NEW events, NEW old \in -1..DONE
  PROVE  StateAfter(events, old) \in -1..DONE
<1> DEFINE IsLast(i) ==
             /\ events[i] \in StateEvents
             /\ \A j \in DOMAIN events : j > i => events[j] \notin StateEvents
           last == CHOOSE i \in DOMAIN events : IsLast(i)
<1>1. CASE \E i \in DOMAIN events : IsLast(i)
  <2>1. events[last] \in StateEvents
    BY <1>1
  <2>2. StateAfter(events, old) = StateOf[events[last]]
    BY <1>1 DEF StateAfter
  <2>3. StateOf[events[last]] \in -1..DONE
    BY <2>1, StateOfType DEF OPENED, DONE
  <2>4. QED
    BY <2>2, <2>3
<1>2. CASE ~\E i \in DOMAIN events : IsLast(i)
  BY <1>2 DEF StateAfter
<1>3. QED
  BY <1>1, <1>2

LEMMA AnnouncedType ==
  ASSUME TypeOK, NEW events, NEW state
  PROVE  Announced(events, state) \in Seq(Announcement)
<1>1. ResponseIn(state) \in Nat \cup {-1}
  BY DEF TypeOK, ResponseIn
<1>2. handled \in BOOLEAN /\ sends \in Nat /\ 1..sends \subseteq Sends
  BY MaxSendsAssumption DEF TypeOK, Sends
<1> DEFINE body == ResponseIn(state)
<1> HIDE DEF body
<1>3. \A s \in 1..sends :
        [request |-> s, mocked |-> handled, body |-> body] \in Announcement
  BY <1>1, <1>2 DEF Announcement, body
<1> DEFINE all == [s \in 1..sends |-> [request |-> s, mocked |-> handled, body |-> body]]
<1>4. all \in Seq(Announcement)
  BY <1>2, <1>3, IsASeq
<1>5. <<>> \in Seq(Announcement)
  OBVIOUS
<1>6. QED
  BY <1>4, <1>5 DEF Announced, body

LEMMA TransitionType ==
  ASSUME NEW e \in StateEvents
  PROVE  Transition(e) \in Seq(Events)
<1>1. e \in Events
  BY DEF Events
<1>2. <<>> \in Seq(Events) /\ <<e>> \in Seq(Events)
  BY <1>1
<1>3. QED
  BY <1>2 DEF Transition

LEMMA PlaybackTypes ==
  /\ Transition("done") \o <<"error", "loadend">> \in Seq(Events)
  /\ Headers \in Seq(Events)
  /\ \A state : Ending(state) \in Seq(Events)
  /\ <<"progress">> \in Seq(Events)
<1>1. Transition("done") \in Seq(Events) /\ Transition("headers") \in Seq(Events)
  BY TransitionType DEF StateEvents
<1>2. /\ <<"error", "loadend">> \in Seq(Events) /\ <<"loadstart">> \in Seq(Events)
      /\ <<"loading">> \in Seq(Events) /\ <<"progress">> \in Seq(Events)
      /\ <<"load", "loadend">> \in Seq(Events) /\ <<"done">> \in Seq(Events)
      /\ <<>> \in Seq(Events)
  BY DEF Events, StateEvents
<1>3. <<"loadstart">> \o Transition("headers") \in Seq(Events)
  BY <1>1, <1>2, ConcatType
<1>4. Headers \in Seq(Events)
  BY <1>2, <1>3, ConcatType DEF Headers
<1>5. ASSUME NEW state PROVE Ending(state) \in Seq(Events)
  <2> DEFINE first == IF state = DONE THEN <<>> ELSE <<"done">>
  <2>1. first \in Seq(Events)
    BY <1>2
  <2> HIDE DEF first
  <2>2. first \o <<"load", "loadend">> \in Seq(Events)
    BY <2>1, <1>2, ConcatType
  <2>3. QED
    BY <2>2 DEF Ending, first
<1>6. Transition("done") \o <<"error", "loadend">> \in Seq(Events)
  BY <1>1, <1>2, ConcatType
<1>7. QED
  BY <1>2, <1>4, <1>5, <1>6

LEMMA TriggerTypes ==
  ASSUME TypeOK, NEW events \in Seq(Events), NEW state
  PROVE  /\ log \o events \in Seq(Events)
         /\ StateAfter(events, shadow) \in -1..DONE
         /\ responses \o Announced(events, state) \in Seq(Announcement)
<1>1. log \in Seq(Events) /\ shadow \in -1..DONE /\ responses \in Seq(Announcement)
  BY DEF TypeOK
<1>2. Announced(events, state) \in Seq(Announcement)
  BY AnnouncedType
<1>3. log \o events \in Seq(Events)
  BY <1>1, ConcatType
<1>4. StateAfter(events, shadow) \in -1..DONE
  BY <1>1, StateAfterType
<1>5. responses \o Announced(events, state) \in Seq(Announcement)
  BY <1>1, <1>2, ConcatType
<1>6. QED
  BY <1>3, <1>4, <1>5

\* What the playback of events changes.
LEMMA PlayTypes ==
  ASSUME TypeOK, NEW s \in Sends, NEW events \in Seq(Events), NEW next \in Phases,
         Play(s, events, next)
  PROVE  /\ log' \in Seq(Events) /\ shadow' \in -1..DONE
         /\ responses' \in Seq(Announcement) /\ threw' \in BOOLEAN
         /\ \E p \in {next, "failed"} : phase' = [phase EXCEPT ![s] = p]
<1>1. threw \in BOOLEAN /\ responses \in Seq(Announcement)
  BY DEF TypeOK
<1>2. CASE /\ Trigger(events)
           /\ phase' = [phase EXCEPT ![s] = next]
           /\ UNCHANGED threw
  BY <1>1, <1>2, TriggerTypes DEF Trigger
<1>3. ASSUME NEW n \in 1..Len(events), NEW seen, seen = SubSeq(events, 1, n),
             log' = log \o seen, shadow' = StateAfter(seen, shadow),
             \/ UNCHANGED responses
             \/ responses' = responses \o Announced(seen, StateAtLoad(seen)),
             phase' = [phase EXCEPT ![s] = "failed"], threw' = TRUE
      PROVE  /\ log' \in Seq(Events) /\ shadow' \in -1..DONE
             /\ responses' \in Seq(Announcement) /\ threw' \in BOOLEAN
             /\ \E p \in {next, "failed"} : phase' = [phase EXCEPT ![s] = p]
  <2>1. seen \in Seq(Events)
    BY <1>3, PrefixType
  <2>2. log' \in Seq(Events) /\ shadow' \in -1..DONE
    BY <2>1, <1>3, TriggerTypes
  <2>3. responses' \in Seq(Announcement)
    BY <2>1, <1>1, <1>3, TriggerTypes
  <2>4. QED
    BY <2>2, <2>3, <1>3
<1>4. QED
  BY <1>2, <1>3 DEF Play

-----------------------------------------------------------------------------
(* The invariant.                                                          *)

LEMMA InitIInv == Init => IInv
<1> SUFFICES ASSUME Init PROVE IInv
  OBVIOUS
<1>1. /\ inFlight \in BOOLEAN /\ opened \in BOOLEAN /\ handled \in BOOLEAN
      /\ defined \in BOOLEAN /\ threw \in BOOLEAN /\ failed \in BOOLEAN
      /\ clean \in BOOLEAN
  BY DEF Init
<1>2. log \in Seq(Events) /\ responses \in Seq(Announcement)
  BY DEF Init
<1>3. /\ native \in UNSENT..DONE /\ shadow \in -1..DONE /\ sends \in 0..MaxSends
      /\ phase \in [Sends -> Phases] /\ finally \subseteq Sends /\ buffer \in Nat
  BY MaxSendsAssumption DEF Init, UNSENT, DONE, Phases
<1>4. TypeOK
  BY <1>1, <1>2, <1>3 DEF TypeOK
<1>5. Marked
  BY DEF Init, Marked, Answering
<1>6. UsesInOrder
  BY DEF Init, UsesInOrder
<1>7. LastUse
  BY DEF Init, LastUse, Sends
<1>8. QED
  BY <1>4, <1>5, <1>6, <1>7 DEF IInv

\* The playback for the last use leaves the native request, and everything that says
\* which use is answered, as they are.
LEMMA PlayIInv ==
  ASSUME IInv, NEW s \in Sends, NEW events \in Seq(Events),
         NEW next \in {"streaming", "over"}, Play(s, events, next),
         phase[s] \in {"asking", "measuring", "streaming"}, handled',
         handled' \in BOOLEAN, buffer' \in Nat,
         phase[s] = "asking" \/ UNCHANGED handled,
         UNCHANGED <<nativeVars, useVars, finally, defined, failed>>
  PROVE  IInv'
<1>1. TypeOK /\ Marked /\ UsesInOrder /\ LastUse
  BY DEF IInv
<1>2. next \in Phases
  BY DEF Phases
<1>3. PICK p \in {next, "failed"} : phase' = [phase EXCEPT ![s] = p]
  BY <1>1, <1>2, PlayTypes
<1>4. p \in Phases /\ p \notin {"idle", "performed"}
  BY <1>3, <1>2 DEF Phases
<1>5. TypeOK'
  <2>1. /\ log' \in Seq(Events) /\ shadow' \in -1..DONE
        /\ responses' \in Seq(Announcement) /\ threw' \in BOOLEAN
    BY <1>1, <1>2, PlayTypes
  <2>2. phase' \in [Sends -> Phases]
    BY <1>1, <1>3, <1>4 DEF TypeOK
  <2>3. QED
    BY <1>1, <2>1, <2>2 DEF TypeOK, nativeVars, useVars
<1>6. Marked'
  BY DEF Marked
<1>7. phase \in [Sends -> Phases] /\ sends \in Nat /\ (sends > 0 => sends \in Sends)
  BY <1>1, MaxSendsAssumption DEF TypeOK, Sends
<1>8. s <= sends
  BY <1>1, <1>7 DEF UsesInOrder, Sends
<1>9. UsesInOrder'
  BY <1>1, <1>3, <1>7, <1>8 DEF UsesInOrder, useVars, Sends
<1>10. LastUse'
  <2> SUFFICES ASSUME clean PROVE LastUse'
    BY DEF LastUse, useVars
  <2>1. s = sends
    BY <1>1, <1>7, <1>8 DEF LastUse, Sends
  <2>2. phase'[sends] = p /\ \A u \in Sends : u # s => phase'[u] = phase[u]
    BY <1>3, <1>7, <2>1
  <2>3. native = OPENED /\ ~inFlight
    BY <1>1, <1>7, <2>1 DEF LastUse, Sends
  <2>4. QED
    BY <1>1, <1>4, <1>7, <2>1, <2>2, <2>3 DEF LastUse, useVars, nativeVars, Sends
<1>11. QED
  BY <1>5, <1>6, <1>9, <1>10 DEF IInv

\* Any other step of a request that is asking or answered, but does not send it.
LEMMA StepIInv ==
  ASSUME IInv, NEW s \in Sends, NEW p \in Phases \ {"idle", "performed"},
         phase[s] \notin {"idle", "performed"}, phase' = [phase EXCEPT ![s] = p],
         handled => handled', p \in Answering \/ defined' => handled',
         handled' => handled \/ phase[s] = "asking",
         handled' \in BOOLEAN, defined' \in BOOLEAN, threw' \in BOOLEAN, failed' \in BOOLEAN,
         finally' \subseteq Sends,
         UNCHANGED <<nativeVars, shadow, useVars, buffer, log, responses>>
  PROVE  IInv'
<1>1. TypeOK /\ Marked /\ UsesInOrder /\ LastUse
  BY DEF IInv
<1>2. phase' \in [Sends -> Phases]
  BY <1>1 DEF TypeOK
<1>3. TypeOK'
  BY <1>1, <1>2 DEF TypeOK, nativeVars, useVars
<1>4. phase \in [Sends -> Phases] /\ sends \in Nat /\ (sends > 0 => sends \in Sends)
  BY <1>1, MaxSendsAssumption DEF TypeOK, Sends
<1>5. Marked'
  BY <1>1, <1>4 DEF Marked
<1>6. s <= sends
  BY <1>1, <1>4 DEF UsesInOrder, Sends
<1>7. UsesInOrder'
  BY <1>1, <1>4, <1>6 DEF UsesInOrder, useVars, Sends
<1>8. LastUse'
  <2> SUFFICES ASSUME clean PROVE LastUse'
    BY DEF LastUse, useVars
  <2>1. s = sends
    BY <1>1, <1>4, <1>6 DEF LastUse, Sends
  <2>2. phase'[sends] = p /\ \A u \in Sends : u # s => phase'[u] = phase[u]
    BY <1>4, <2>1
  <2>3. native = OPENED /\ ~inFlight
    BY <1>1, <1>4, <2>1 DEF LastUse, Sends
  <2>4. QED
    BY <1>1, <1>4, <2>1, <2>2, <2>3 DEF LastUse, useVars, nativeVars, Sends
<1>9. QED
  BY <1>3, <1>5, <1>7, <1>8 DEF IInv

\* The steps of the native request: it moves only if the last use was performed.
LEMMA NativeIInv ==
  ASSUME IInv, NEW events \in Seq(Events), NEW state \in UNSENT..DONE,
         NativeEvents(events, state)
  PROVE  IInv'
<1>1. TypeOK /\ Marked /\ UsesInOrder /\ LastUse
  BY DEF IInv
<1>2. /\ inFlight' \in BOOLEAN
      /\ log' \in Seq(Events)
      /\ responses' \in Seq(Announcement)
  BY <1>1, TriggerTypes DEF NativeEvents
<1>3. TypeOK'
  BY <1>1, <1>2 DEF NativeEvents, TypeOK, useVars
<1>4. Marked' /\ UsesInOrder'
  BY <1>1 DEF NativeEvents, Marked, UsesInOrder, useVars
<1>5. LastUse'
  BY <1>1 DEF NativeEvents, LastUse, useVars
<1>6. QED
  BY <1>3, <1>4, <1>5 DEF IInv

LEMMA ApplicationIInv ==
  ASSUME IInv, Application
  PROVE  IInv'
<1>1. TypeOK /\ Marked /\ UsesInOrder /\ LastUse
  BY DEF IInv
<1>2. /\ phase \in [Sends -> Phases] /\ sends \in Nat /\ (sends > 0 => sends \in Sends)
      /\ log \in Seq(Events) /\ clean \in BOOLEAN
  BY <1>1, MaxSendsAssumption DEF TypeOK, Sends
<1>3. CASE Open
  <2>1. /\ <<>> \in Seq(Events) /\ <<"opened">> \in Seq(Events)
    BY DEF Events, StateEvents
  <2>2. log' \in Seq(Events)
    BY <2>1, <1>3 DEF Open
  <2>3. inFlight' \in BOOLEAN /\ opened' \in BOOLEAN
    BY <1>3 DEF Open
  <2>4. clean' \in BOOLEAN
    BY <1>2, <1>3 DEF Open
  <2>5. TypeOK'
    BY <1>1, <1>3, <2>2, <2>3, <2>4 DEF Open, TypeOK, UNSENT, OPENED, DONE
  <2>6. Marked' /\ UsesInOrder'
    BY <1>1, <1>3 DEF Open, Marked, UsesInOrder
  <2>7. LastUse'
    BY <1>1, <1>3 DEF Open, LastUse
  <2>8. QED
    BY <2>5, <2>6, <2>7 DEF IInv
<1>4. CASE Send
  <2>1. sends < MaxSends /\ sends + 1 \in Sends
    BY <1>1, <1>2, <1>4, MaxSendsAssumption DEF Send, UsesInOrder, Sends
  <2>2. phase' \in [Sends -> Phases] /\ phase'[sends + 1] = "asking"
    BY <1>2, <1>4, <2>1 DEF Send, Phases
  <2>3. opened' \in BOOLEAN /\ clean' \in BOOLEAN
    BY <1>4 DEF Send
  <2>4. TypeOK'
    BY <1>1, <1>2, <1>4, <2>1, <2>2, <2>3, MaxSendsAssumption
    DEF Send, TypeOK, nativeVars
  <2>5. Marked'
    BY <1>1, <1>2, <1>4, <2>1 DEF Send, Marked, Answering
  <2>6. UsesInOrder'
    BY <1>1, <1>2, <1>4, <2>1 DEF Send, UsesInOrder, Sends
  <2>7. LastUse'
    <3> SUFFICES ASSUME clean, AllPerformed PROVE LastUse'
      BY <1>4 DEF Send, LastUse
    <3>1. /\ ~handled /\ native = OPENED /\ ~inFlight
          /\ \A s \in Sends : s <= sends => phase[s] = "performed"
      BY <1>2 DEF AllPerformed, Sends
    <3>2. QED
      BY <3>1, <1>2, <1>4, <2>1, <2>2 DEF Send, LastUse, nativeVars, Sends
  <2>8. QED
    BY <2>4, <2>5, <2>6, <2>7 DEF IInv
<1>5. CASE Abort
  <2>1. <<"done", "abort", "loadend">> \in Seq(Events)
    BY DEF Events, StateEvents
  <2>2. log \o <<"done", "abort", "loadend">> \in Seq(Events)
    BY <2>1, <1>2, ConcatType
  <2>3. log' \in Seq(Events) /\ inFlight' \in BOOLEAN
    BY <1>2, <2>2, <1>5 DEF Abort
  <2>4. TypeOK'
    BY <1>1, <1>5, <2>3 DEF Abort, TypeOK, useVars, UNSENT, DONE
  <2>5. Marked' /\ UsesInOrder'
    BY <1>1, <1>5 DEF Abort, Marked, UsesInOrder, useVars
  <2>6. LastUse'
    BY <1>1, <1>5 DEF Abort, LastUse, useVars, OPENED, DONE
  <2>7. QED
    BY <2>4, <2>5, <2>6 DEF IInv
<1>6. QED
  BY <1>3, <1>4, <1>5 DEF Application

LEMMA NetworkIInv ==
  ASSUME IInv, Network
  PROVE  IInv'
<1>1. /\ <<"headers">> \in Seq(Events) /\ <<"loading", "progress">> \in Seq(Events)
      /\ <<"done", "load", "loadend">> \in Seq(Events)
      /\ <<"done", "error", "loadend">> \in Seq(Events)
  BY DEF Events, StateEvents
<1>2. HEADERS_RECEIVED \in UNSENT..DONE /\ LOADING \in UNSENT..DONE /\ DONE \in UNSENT..DONE
  BY DEF UNSENT, HEADERS_RECEIVED, LOADING, DONE
<1>3. CASE NativeHeaders
  BY <1>1, <1>2, <1>3, NativeIInv DEF NativeHeaders
<1>4. CASE NativeBody
  BY <1>1, <1>2, <1>4, NativeIInv DEF NativeBody
<1>5. CASE NativeLoad
  BY <1>1, <1>2, <1>5, NativeIInv DEF NativeLoad
<1>6. CASE NativeFails
  BY <1>1, <1>2, <1>6, NativeIInv DEF NativeFails
<1>7. QED
  BY <1>3, <1>4, <1>5, <1>6 DEF Network, NativeEnds

LEMMA OutcomeIInv ==
  ASSUME IInv, NEW s \in Sends, Decide(s) \/ Perform(s)
  PROVE  IInv'
<1>1. TypeOK /\ Marked /\ UsesInOrder /\ LastUse
  BY DEF IInv
<1>2. /\ phase \in [Sends -> Phases] /\ sends \in Nat /\ (sends > 0 => sends \in Sends)
      /\ finally \subseteq Sends /\ log \in Seq(Events) /\ buffer \in Nat
  BY <1>1, MaxSendsAssumption DEF TypeOK, Sends
<1>3. /\ handled \in BOOLEAN /\ defined \in BOOLEAN /\ threw \in BOOLEAN
      /\ failed \in BOOLEAN
  BY <1>1 DEF TypeOK
<1>4. {"upload", "settling", "dropped", "failed"} \subseteq Phases \ {"idle", "performed"}
  BY DEF Phases
<1>5. CASE Respond(s)
  <2>1. handled' \in BOOLEAN /\ defined' \in BOOLEAN /\ threw' \in BOOLEAN
        /\ failed' \in BOOLEAN
    BY <1>3, <1>5 DEF Respond
  <2>2. phase' = [phase EXCEPT ![s] = "upload"] /\ phase[s] = "asking" /\ handled'
    BY <1>5 DEF Respond
  <2>3. finally' \subseteq Sends /\ UNCHANGED <<nativeVars, shadow, useVars, buffer, log, responses>>
    BY <1>2, <1>5 DEF Respond
  <2>4. QED
    BY <1>4, <2>1, <2>2, <2>3, StepIInv
<1>6. CASE ErrorWith(s)
  <2>1. handled' \in BOOLEAN /\ handled'
    BY <1>6 DEF ErrorWith
  <2>2. Transition("done") \o <<"error", "loadend">> \in Seq(Events)
    BY PlaybackTypes
  <2>3. /\ Play(s, Transition("done") \o <<"error", "loadend">>, "over")
        /\ phase[s] = "asking" /\ buffer' \in Nat
        /\ UNCHANGED <<nativeVars, useVars, finally, defined, failed>>
    BY <1>2, <1>6 DEF ErrorWith
  <2>4. QED
    BY <2>1, <2>2, <2>3, PlayIInv
<1>7. CASE NotAnswered(s)
  <2>1. handled' \in BOOLEAN /\ defined' \in BOOLEAN /\ threw' \in BOOLEAN
        /\ failed' \in BOOLEAN
    BY <1>3, <1>7 DEF NotAnswered
  <2>2. phase' = [phase EXCEPT ![s] = "settling"] /\ phase[s] = "asking"
        /\ (handled <=> handled') /\ (defined' => handled')
    BY <1>1, <1>7 DEF NotAnswered, Marked
  <2>3. finally' \subseteq Sends /\ UNCHANGED <<nativeVars, shadow, useVars, buffer, log, responses>>
    BY <1>2, <1>7 DEF NotAnswered
  <2>4. QED
    BY <1>4, <2>1, <2>2, <2>3, StepIInv DEF Answering
<1>8. CASE Perform(s)
  <2>1. finally' \subseteq Sends
    BY <1>2, <1>8 DEF Perform
  <2>2. handled' \in BOOLEAN /\ defined' \in BOOLEAN /\ threw' \in BOOLEAN
        /\ failed' \in BOOLEAN
    BY <1>3, <1>8 DEF Perform
  <2>3. (handled <=> handled') /\ (defined' => handled')
    BY <1>1, <1>8 DEF Perform, Marked
  <2>4. phase[s] \in {"settling", "upload", "measuring", "streaming", "over", "failed"}
    BY <1>8 DEF Perform, Settled
  <2>5. ASSUME NEW p \in {phase[s], "dropped", "failed"},
               phase' = [phase EXCEPT ![s] = p],
               UNCHANGED <<inFlight, log>>
        PROVE  IInv'
    <3>1. p \in Phases \ {"idle", "performed"}
      BY <1>2, <1>4, <2>4, <2>5
    <3>2. p \in Answering => handled
      BY <1>1, <2>5 DEF Marked, Answering
    <3>3. UNCHANGED <<nativeVars, shadow, useVars, buffer, log, responses>>
      BY <1>8, <2>5 DEF Perform, nativeVars
    <3>4. QED
      BY <2>1, <2>2, <2>3, <2>4, <2>5, <3>1, <3>2, <3>3, StepIInv
  <2>6. CASE /\ handled
             /\ phase' = [phase EXCEPT ![s] = IF @ = "settling" THEN "dropped" ELSE @]
             /\ UNCHANGED <<inFlight, log>>
    BY <2>5, <2>6
  <2>7. CASE /\ phase' = [phase EXCEPT ![s] = "failed"]
             /\ UNCHANGED <<inFlight, log>>
    BY <2>5, <2>7
  <2>8. CASE /\ ~handled
             /\ phase' = [phase EXCEPT ![s] = "performed"]
             /\ inFlight' = TRUE
             /\ log' = Append(log, "loadstart")
    <3>1. log' \in Seq(Events) /\ inFlight' \in BOOLEAN
      <4>1. "loadstart" \in Events
        BY DEF Events
      <4>2. QED
        BY <1>2, <2>8, <4>1, AppendProperties
    <3>2. phase' \in [Sends -> Phases]
      BY <1>2, <2>8 DEF Phases
    <3>3. TypeOK'
      BY <1>1, <1>8, <2>1, <3>1, <3>2 DEF Perform, TypeOK, useVars
    <3>4. Marked'
      BY <1>1, <1>2, <1>8, <2>8 DEF Perform, Marked, Answering
    <3>5. s <= sends
      BY <1>1, <1>2, <2>4 DEF UsesInOrder, Sends
    <3>6. UsesInOrder'
      BY <1>1, <1>2, <1>8, <2>8, <3>5 DEF Perform, UsesInOrder, useVars, Sends
    <3>7. LastUse'
      <4> SUFFICES ASSUME clean PROVE LastUse'
        BY <1>8 DEF Perform, LastUse, useVars
      <4>1. s = sends
        BY <1>1, <1>2, <2>4, <3>5 DEF LastUse, Sends
      <4>2. phase'[sends] = "performed" /\ \A u \in Sends : u # s => phase'[u] = phase[u]
        BY <1>2, <2>8, <4>1
      <4>3. QED
        BY <1>1, <1>2, <1>8, <2>8, <4>1, <4>2 DEF Perform, LastUse, useVars, Sends
    <3>8. QED
      BY <3>3, <3>4, <3>6, <3>7 DEF IInv
  <2>9. QED
    BY <1>8, <2>6, <2>7, <2>8 DEF Perform
<1>9. QED
  BY <1>5, <1>6, <1>7, <1>8 DEF Decide

LEMMA PlaybackIInv ==
  ASSUME IInv, NEW s \in Sends,
         Upload(s) \/ Measure(s) \/ Read(s) \/ Finalize(s) \/ StreamFails(s)
  PROVE  IInv'
<1>1. TypeOK /\ Marked
  BY DEF IInv
<1>2. phase \in [Sends -> Phases] /\ finally \subseteq Sends /\ buffer \in Nat
  BY <1>1 DEF TypeOK
<1>3. /\ handled \in BOOLEAN /\ defined \in BOOLEAN /\ threw \in BOOLEAN
      /\ failed \in BOOLEAN
  BY <1>1 DEF TypeOK
<1>4. phase[s] \in Answering
  BY DEF Upload, Measure, Read, Finalize, StreamFails, Answering
<1>5. handled /\ phase[s] \notin {"idle", "performed"}
  BY <1>1, <1>4 DEF Marked, Answering
<1>6. {"measuring", "failed"} \subseteq Phases \ {"idle", "performed"}
  BY DEF Phases
<1>7. CASE Upload(s)
  <2>1. handled' \in BOOLEAN /\ defined' \in BOOLEAN /\ threw' \in BOOLEAN
        /\ failed' \in BOOLEAN
    BY <1>3, <1>7 DEF Upload
  <2>2. PICK p \in {"measuring", "failed"} : phase' = [phase EXCEPT ![s] = p]
    BY <1>7 DEF Upload
  <2>3. /\ handled' /\ finally' \subseteq Sends
        /\ UNCHANGED <<nativeVars, shadow, useVars, buffer, log, responses>>
    BY <1>2, <1>5, <1>7 DEF Upload
  <2>4. QED
    BY <1>5, <1>6, <2>1, <2>2, <2>3, StepIInv
<1>8. CASE StreamFails(s)
  <2>1. handled' \in BOOLEAN /\ defined' \in BOOLEAN /\ threw' \in BOOLEAN
        /\ failed' \in BOOLEAN
    BY <1>3, <1>8 DEF StreamFails
  <2>2. /\ handled' /\ finally' \subseteq Sends
        /\ phase' = [phase EXCEPT ![s] = "failed"]
        /\ UNCHANGED <<nativeVars, shadow, useVars, buffer, log, responses>>
    BY <1>2, <1>5, <1>8 DEF StreamFails
  <2>3. QED
    BY <1>5, <1>6, <2>1, <2>2, StepIInv
<1>9. CASE Measure(s) \/ Read(s) \/ Finalize(s)
  <2>1. /\ phase[s] \in {"asking", "measuring", "streaming"} /\ buffer' \in Nat
        /\ UNCHANGED <<nativeVars, useVars, finally, defined, failed>>
        /\ UNCHANGED handled
    BY <1>2, <1>9 DEF Measure, Read, Finalize
  <2>2. handled' /\ handled' \in BOOLEAN
    BY <1>3, <1>5, <2>1
  <2>3. Headers \o Ending(LOADING) \in Seq(Events)
    BY PlaybackTypes, ConcatType
  <2>4. PICK events \in Seq(Events), next \in {"streaming", "over"} :
          Play(s, events, next)
    BY <1>9, <2>3, PlaybackTypes DEF Measure, Read, Finalize
  <2>5. QED
    BY <2>1, <2>2, <2>4, PlayIInv
<1>10. QED
  BY <1>7, <1>8, <1>9

LEMMA NextIInv == IInv /\ [Next]_vars => IInv'
<1> SUFFICES ASSUME IInv, [Next]_vars PROVE IInv'
  OBVIOUS
<1>1. CASE Application
  BY <1>1, ApplicationIInv
<1>2. CASE Network
  BY <1>2, NetworkIInv
<1>3. ASSUME NEW s \in Sends, Decide(s) \/ Perform(s)
      PROVE  IInv'
  BY <1>3, OutcomeIInv
<1>4. ASSUME NEW s \in Sends,
             Upload(s) \/ Measure(s) \/ Read(s) \/ Finalize(s) \/ StreamFails(s)
      PROVE  IInv'
  BY <1>4, PlaybackIInv
<1>5. CASE UNCHANGED vars
  BY <1>5 DEF vars, nativeVars, useVars, IInv, TypeOK, Marked, UsesInOrder, LastUse
<1>6. QED
  BY <1>1, <1>2, <1>3, <1>4, <1>5 DEF Next

-----------------------------------------------------------------------------
(* Theorems.                                                               *)

THEOREM Invariance == Spec => []IInv
<1>1. Init => IInv
  BY InitIInv
<1>2. IInv /\ [Next]_vars => IInv'
  BY NextIInv
<1>3. QED
  BY <1>1, <1>2, PTL DEF Spec

\* The variables of an XMLHttpRequest keep their types.
THEOREM TypeCorrect == Spec => []TypeOK
<1>1. IInv => TypeOK
  BY DEF IInv
<1>2. QED
  BY <1>1, Invariance, PTL

\* An answered request leaves the native one alone, whenever the application calls
\* open() and abort(), if it calls send() again only when the uses before are over and
\* none of them was answered.
THEOREM NativeStaysOutTheorem == Spec => []NativeStaysOut
<1>1. IInv => NativeStaysOut
  BY DEF IInv, Marked, LastUse, NativeStaysOut
<1>2. QED
  BY <1>1, Invariance, PTL

-----------------------------------------------------------------------------
(* Events and announcements.                                               *)

\* The order of the standard, which the events so far are in.
Rises(a, b) == Rank[a] < Rank[b] \/ (Rank[a] = 3 /\ Rank[b] = 3)
Ordered(events) ==
  /\ \A i, j \in DOMAIN events : i < j => Rises(events[i], events[j])
  /\ \A i \in DOMAIN events :
       /\ events[i] = "loadend" => i > 1 /\ Rank[events[i - 1]] = 5
       /\ Rank[events[i]] = 5 => i > 1 /\ events[i - 1] = "done"
UpTo(events, rank) == \A i \in DOMAIN events : Rank[events[i]] <= rank

\* What the playback of a use relies on; finally() performs none that has been played.
Prepared ==
  \A s \in Sends :
    /\ phase[s] \in {"measuring", "streaming"} => defined
    /\ phase[s] \in {"streaming", "over", "failed"} => handled \/ s \in finally

\* No other use can have set the ready state.
Sole == clean \/ sends <= 1
ShadowOK ==
  Sole =>
    /\ sends = 0 => shadow = -1
    /\ sends > 0 /\ phase[sends] \in {"asking", "upload", "measuring", "settling"} =>
         shadow = -1
    /\ sends > 0 /\ phase[sends] = "streaming" => shadow = LOADING

\* How far the events are tells how far the last use is.
LogOK ==
  clean =>
    /\ Ordered(log)
    /\ \/ sends = 0
       \/ phase[sends] \in {"asking", "upload", "measuring", "settling"}
       \/ phase[sends] = "performed" /\ native = OPENED /\ ~inFlight
       => UpTo(log, 0)
    /\ sends > 0 /\ phase[sends] = "streaming" => UpTo(log, 3)
    /\ inFlight => native \in {OPENED, HEADERS_RECEIVED, LOADING} /\ UpTo(log, native)

\* The only use of a request has been announced if it could be.
AnnouncedOK ==
  /\ sends = 0 => responses = <<>> /\ ~inFlight
  /\ sends = 1 =>
       /\ phase[1] \in {"asking", "upload", "measuring", "streaming", "settling"} =>
            responses = <<>>
       /\ inFlight => phase[1] = "performed" /\ responses = <<>>
       /\ phase[1] = "performed" => ~handled
       /\ Len(responses) <= 1
       /\ \A i \in DOMAIN responses :
            /\ responses[i].mocked <=> phase[1] # "performed"
            /\ responses[i].mocked => responses[i].body = buffer

EInv == Prepared /\ ShadowOK /\ LogOK /\ AnnouncedOK

LEMMA Ranks ==
  /\ Rank["opened"] = 0 /\ Rank["loadstart"] = 1 /\ Rank["headers"] = 2
  /\ Rank["loading"] = 3 /\ Rank["progress"] = 3 /\ Rank["done"] = 4
  /\ Rank["load"] = 5 /\ Rank["error"] = 5 /\ Rank["abort"] = 5 /\ Rank["loadend"] = 6
  /\ \A e \in Events : Rank[e] \in Nat
<1>1. /\ Rank["opened"] = 0 /\ Rank["loadstart"] = 1 /\ Rank["headers"] = 2
      /\ Rank["loading"] = 3 /\ Rank["progress"] = 3 /\ Rank["done"] = 4
      /\ Rank["load"] = 5 /\ Rank["error"] = 5 /\ Rank["abort"] = 5 /\ Rank["loadend"] = 6
  BY DEF Rank
<1>2. QED
  BY <1>1 DEF Events, StateEvents

\* What has been seen of a list of events, when a listener throws.
LEMMA PrefixInside ==
  ASSUME NEW a \in Seq(Events), NEW n \in 1..Len(a)
  PROVE  ToSet(SubSeq(a, 1, n)) \subseteq ToSet(a)
<1> DEFINE t == SubSeq(a, 1, n)
<1>1. /\ DOMAIN a = 1..Len(a) /\ Len(a) \in Nat
      /\ DOMAIN t = 1..n /\ \A i \in 1..n : t[i] = a[i]
  OBVIOUS
<1> HIDE DEF t
<1>2. 1..n \subseteq DOMAIN a
  BY <1>1
<1>3. ToSet(t) \subseteq ToSet(a)
  BY <1>1, <1>2 DEF ToSet
<1>4. QED
  BY <1>3 DEF t

LEMMA OrderedPrefix ==
  ASSUME NEW a \in Seq(Events), Ordered(a), NEW n \in 1..Len(a)
  PROVE  Ordered(SubSeq(a, 1, n))
<1> DEFINE t == SubSeq(a, 1, n)
<1>1. /\ DOMAIN a = 1..Len(a) /\ Len(a) \in Nat
      /\ DOMAIN t = 1..n /\ \A i \in 1..n : t[i] = a[i]
  OBVIOUS
<1> HIDE DEF t
<1>2. 1..n \subseteq DOMAIN a /\ \A i \in 1..n : i > 1 => i - 1 \in 1..n
  BY <1>1
<1>3. Ordered(t)
  BY <1>1, <1>2 DEF Ordered
<1>4. QED
  BY <1>3 DEF t

\* More events.
LEMMA OrderedConcat ==
  ASSUME NEW a \in Seq(Events), NEW b \in Seq(Events), Ordered(a), Ordered(b),
         \A i \in DOMAIN a, j \in DOMAIN b : Rises(a[i], b[j])
  PROVE  Ordered(a \o b)
<1> DEFINE t == a \o b
           m == Len(a)
           len == Len(b)
<1>1. /\ m \in Nat /\ len \in Nat /\ DOMAIN a = 1..m /\ DOMAIN b = 1..len
      /\ DOMAIN t = 1..(m + len)
      /\ \A i \in 1..m : t[i] = a[i]
      /\ \A i \in 1..(m + len) : i > m => t[i] = b[i - m]
  OBVIOUS
<1> HIDE DEF t, m, len
<1>2. \A i \in 1..(m + len) : i > m => i - m \in 1..len
  BY <1>1
<1>3. ASSUME NEW i \in DOMAIN t, NEW j \in DOMAIN t, i < j PROVE Rises(t[i], t[j])
  <2>1. CASE i > m
    <3>1. /\ i - m \in DOMAIN b /\ j - m \in DOMAIN b /\ i - m < j - m
          /\ t[i] = b[i - m] /\ t[j] = b[j - m]
      BY <1>1, <1>2, <1>3, <2>1
    <3>2. QED
      BY <3>1 DEF Ordered
  <2>2. CASE i <= m /\ j > m
    <3>1. i \in DOMAIN a /\ j - m \in DOMAIN b /\ t[i] = a[i] /\ t[j] = b[j - m]
      BY <1>1, <1>2, <2>2
    <3>2. QED
      BY <3>1
  <2>3. CASE i <= m /\ j <= m
    <3>1. i \in DOMAIN a /\ j \in DOMAIN a /\ t[i] = a[i] /\ t[j] = a[j]
      BY <1>1, <2>3
    <3>2. QED
      BY <1>3, <3>1 DEF Ordered
  <2>4. QED
    BY <1>1, <2>1, <2>2, <2>3
<1>4. ASSUME NEW i \in DOMAIN t
      PROVE  /\ t[i] = "loadend" => i > 1 /\ Rank[t[i - 1]] = 5
             /\ Rank[t[i]] = 5 => i > 1 /\ t[i - 1] = "done"
  <2>1. CASE i > m
    <3> DEFINE k == i - m
    <3>1. k \in DOMAIN b /\ t[i] = b[k]
      BY <1>1, <1>2, <2>1
    <3>2. k > 1 => k - 1 = (i - 1) - m /\ i - 1 > m /\ i - 1 \in 1..(m + len) /\ i > 1
      BY <1>1, <2>1
    <3>3. k > 1 => t[i - 1] = b[k - 1]
      BY <1>1, <3>2
    <3>4. /\ b[k] = "loadend" => k > 1 /\ Rank[b[k - 1]] = 5
          /\ Rank[b[k]] = 5 => k > 1 /\ b[k - 1] = "done"
      BY <3>1 DEF Ordered
    <3> HIDE DEF k
    <3>5. QED
      BY <3>1, <3>2, <3>3, <3>4
  <2>2. CASE i <= m
    <3>1. i \in DOMAIN a /\ t[i] = a[i] /\ (i > 1 => t[i - 1] = a[i - 1])
      BY <1>1, <2>2
    <3>2. QED
      BY <3>1 DEF Ordered
  <2>3. QED
    BY <1>1, <2>1, <2>2
<1>5. Ordered(t)
  BY <1>3, <1>4 DEF Ordered
<1>6. QED
  BY <1>5 DEF t

LEMMA UpToConcat ==
  ASSUME NEW a \in Seq(Events), NEW b \in Seq(Events), NEW k, UpTo(a, k), UpTo(b, k)
  PROVE  UpTo(a \o b, k)
<1> DEFINE t == a \o b
           m == Len(a)
           len == Len(b)
<1>1. /\ m \in Nat /\ len \in Nat /\ DOMAIN a = 1..m /\ DOMAIN b = 1..len
      /\ DOMAIN t = 1..(m + len)
      /\ \A i \in 1..m : t[i] = a[i]
      /\ \A i \in 1..(m + len) : i > m => t[i] = b[i - m]
  OBVIOUS
<1> HIDE DEF t, m, len
<1>2. \A i \in 1..(m + len) : i \in 1..m \/ (i > m /\ i - m \in 1..len)
  BY <1>1
<1>3. UpTo(t, k)
  BY <1>1, <1>2 DEF UpTo
<1>4. QED
  BY <1>3 DEF t

\* In order, "load" comes when the request is done.
LEMMA LoadIsDone ==
  ASSUME NEW events \in Seq(Events), Ordered(events), "load" \in ToSet(events)
  PROVE  StateAtLoad(events) = DONE
<1>1. /\ DOMAIN events = 1..Len(events) /\ Len(events) \in Nat
      /\ \A i \in DOMAIN events : events[i] \in Events
  OBVIOUS
<1>2. PICK k \in DOMAIN events : events[k] = "load"
  BY DEF ToSet
<1>3. k > 1 /\ events[k - 1] = "done" /\ k \in Nat
  BY <1>1, <1>2, Ranks DEF Ordered
<1>4. \A i \in DOMAIN events : events[i] = "load" => i = k
  <2>1. SUFFICES ASSUME NEW i \in DOMAIN events, events[i] = "load", i # k PROVE FALSE
    OBVIOUS
  <2>2. i < k \/ k < i
    BY <1>1, <2>1
  <2>3. Rises("load", "load")
    BY <1>2, <2>1, <2>2 DEF Ordered
  <2>4. QED
    BY <2>3, Ranks DEF Rises
<1>5. SelectInSeq(events, LAMBDA e : e = "load") = k
  <2> DEFINE I == {i \in 1..Len(events) : events[i] = "load"}
  <2>1. I = {k}
    BY <1>1, <1>2, <1>4
  <2>2. k \in I /\ \A y \in I : k <= y
    BY <1>3, <2>1
  <2>3. \A x \in I : x = k
    BY <2>1
  <2> HIDE DEF I
  <2>4. (CHOOSE x \in I : \A y \in I : x <= y) = k
    BY <2>2, <2>3
  <2>5. QED
    BY <2>1, <2>4 DEF SelectInSeq, Min, I
<1> DEFINE t == SubSeq(events, 1, k)
<1>6. DOMAIN t = 1..k /\ \A i \in 1..k : t[i] = events[i]
  BY <1>1, <1>2, <1>3
<1> HIDE DEF t
<1>7. "done" \in StateEvents /\ "load" \notin StateEvents /\ StateOf["done"] = DONE
  BY DEF StateEvents, StateOf, DONE
<1> DEFINE IsLast(i) ==
             /\ t[i] \in StateEvents
             /\ \A j \in DOMAIN t : j > i => t[j] \notin StateEvents
<1>8. /\ t[k - 1] = "done" /\ t[k] = "load" /\ k - 1 \in DOMAIN t /\ k \in DOMAIN t
      /\ \A j \in DOMAIN t : j > k - 1 => j = k
  BY <1>2, <1>3, <1>6
<1>9. IsLast(k - 1)
  BY <1>7, <1>8
<1>10. \A i \in DOMAIN t : IsLast(i) => i = k - 1
  <2>1. SUFFICES ASSUME NEW i \in DOMAIN t, IsLast(i) PROVE i = k - 1
    OBVIOUS
  <2>2. ~(k - 1 > i) /\ i # k
    BY <1>7, <1>8, <2>1
  <2>3. QED
    BY <1>3, <1>6, <2>2
<1>11. t[CHOOSE i \in DOMAIN t : IsLast(i)] = "done"
  <2>1. (CHOOSE i \in DOMAIN t : IsLast(i)) = k - 1
    <3> HIDE DEF IsLast
    <3>1. QED
      BY <1>8, <1>9, <1>10
  <2>2. QED
    BY <1>8, <2>1
<1>12. StateAfter(t, shadow) = DONE
  BY <1>7, <1>8, <1>9, <1>11 DEF StateAfter
<1>13. QED
  BY <1>5, <1>12 DEF StateAtLoad, t

LEMMA UpToRises ==
  ASSUME NEW a \in Seq(Events), NEW b \in Seq(Events), NEW k \in Nat,
         UpTo(a, k), \A j \in DOMAIN b : Rank[b[j]] > k
  PROVE  \A i \in DOMAIN a, j \in DOMAIN b : Rises(a[i], b[j])
<1>1. /\ \A i \in DOMAIN a : a[i] \in Events
      /\ \A j \in DOMAIN b : b[j] \in Events
  OBVIOUS
<1>2. /\ \A i \in DOMAIN a : Rank[a[i]] \in Nat
      /\ \A j \in DOMAIN b : Rank[b[j]] \in Nat
  BY <1>1, Ranks
<1>3. QED
  BY <1>2 DEF UpTo, Rises

\* A list whose last event changes the state, and one that has no such event.
LEMMA LastDecides ==
  ASSUME NEW events \in Seq(Events), events # <<>>,
         events[Len(events)] \in StateEvents, NEW old
  PROVE  StateAfter(events, old) = StateOf[events[Len(events)]]
<1> DEFINE n == Len(events)
           IsLast(i) ==
             /\ events[i] \in StateEvents
             /\ \A j \in DOMAIN events : j > i => events[j] \notin StateEvents
<1>1. n \in Nat /\ n > 0 /\ DOMAIN events = 1..n
  OBVIOUS
<1> HIDE DEF n
<1>2. events[n] \in StateEvents
  BY DEF n
<1>3. IsLast(n) /\ n \in DOMAIN events
  BY <1>1, <1>2
<1>4. \A i \in DOMAIN events : IsLast(i) => i = n
  <2>1. SUFFICES ASSUME NEW i \in DOMAIN events, IsLast(i) PROVE i = n
    OBVIOUS
  <2>2. ~(n > i)
    BY <1>2, <1>3, <2>1
  <2>3. QED
    BY <1>1, <2>2
<1>5. events[CHOOSE i \in DOMAIN events : IsLast(i)] = events[n]
  <2> HIDE DEF IsLast
  <2>1. (CHOOSE i \in DOMAIN events : IsLast(i)) = n
    BY <1>3, <1>4
  <2>2. QED
    BY <2>1
<1>6. StateAfter(events, old) = StateOf[events[n]]
  BY <1>3, <1>5 DEF StateAfter
<1>7. QED
  BY <1>6 DEF n

LEMMA NoneDecides ==
  ASSUME NEW events, NEW old, \A i \in DOMAIN events : events[i] \notin StateEvents
  PROVE  StateAfter(events, old) = old
BY DEF StateAfter

\* What is announced of the first use.
LEMMA AnnouncedOnce ==
  ASSUME sends = 1, NEW events, NEW state
  PROVE  /\ "load" \notin ToSet(events) => Announced(events, state) = <<>>
         /\ "load" \in ToSet(events) =>
              /\ Len(Announced(events, state)) = 1
              /\ DOMAIN Announced(events, state) = {1}
              /\ Announced(events, state)[1].mocked = handled
              /\ Announced(events, state)[1].body = ResponseIn(state)
<1> DEFINE body == ResponseIn(state)
           one == [s \in 1..1 |-> [request |-> s, mocked |-> handled, body |-> body]]
<1>1. /\ "load" \notin ToSet(events) => Announced(events, state) = <<>>
      /\ "load" \in ToSet(events) => Announced(events, state) = one
  BY DEF Announced
<1> HIDE DEF body
<1>2. 1..1 = {1} /\ 1 \in Nat
  OBVIOUS
<1>3. /\ DOMAIN one = 1..1 /\ one[1].mocked = handled /\ one[1].body = body
  BY <1>2
<1>4. Len(one) = 1
  BY <1>2, <1>3, LenProperties, IsASeq
<1> HIDE DEF one
<1>5. QED
  BY <1>1, <1>2, <1>3, <1>4 DEF body

-----------------------------------------------------------------------------
(* What is played back, and what the native request dispatches.            *)

LEMMA DoneFirst ==
  ASSUME NEW e \in {"load", "error", "abort"}
  PROVE  /\ <<"done", e, "loadend">> \in Seq(Events)
         /\ Ordered(<<"done", e, "loadend">>)
         /\ \A j \in DOMAIN <<"done", e, "loadend">> : Rank[<<"done", e, "loadend">>[j]] > 3
<1> DEFINE t == <<"done", e, "loadend">>
<1>1. e \in Events /\ "done" \in Events /\ "loadend" \in Events /\ e # "loadend"
  BY DEF Events, StateEvents
<1>2. /\ t \in Seq(Events) /\ DOMAIN t = {1, 2, 3}
      /\ t[1] = "done" /\ t[2] = e /\ t[3] = "loadend"
  BY <1>1
<1> HIDE DEF t
<1>3. Rank[t[1]] = 4 /\ Rank[t[2]] = 5 /\ Rank[t[3]] = 6
  BY <1>2, Ranks
<1>4. \A i, j \in DOMAIN t : i < j => Rises(t[i], t[j])
  BY <1>2, <1>3 DEF Rises
<1>5. \A i \in DOMAIN t :
        /\ t[i] = "loadend" => i > 1 /\ Rank[t[i - 1]] = 5
        /\ Rank[t[i]] = 5 => i > 1 /\ t[i - 1] = "done"
  BY <1>1, <1>2, <1>3
<1>6. QED
  BY <1>2, <1>3, <1>4, <1>5 DEF t, Ordered

LEMMA OneEvent ==
  ASSUME NEW e \in {"opened", "loadstart", "headers", "loading", "progress"}
  PROVE  /\ <<e>> \in Seq(Events) /\ Ordered(<<e>>) /\ "load" \notin ToSet(<<e>>)
         /\ DOMAIN <<e>> = {1} /\ <<e>>[1] = e
<1> DEFINE t == <<e>>
<1>1. e \in Events /\ e # "loadend" /\ e # "load"
  BY DEF Events, StateEvents
<1>2. t \in Seq(Events) /\ DOMAIN t = {1} /\ t[1] = e
  BY <1>1
<1> HIDE DEF t
<1>3. Rank[t[1]] # 5
  BY <1>2, Ranks
<1>4. Ordered(t)
  BY <1>1, <1>2, <1>3 DEF Ordered
<1>5. "load" \notin ToSet(t)
  BY <1>1, <1>2 DEF ToSet
<1>6. QED
  BY <1>2, <1>4, <1>5 DEF t

\* Up to the first chunk of a body.
LEMMA HeadersFirst ==
  /\ Ordered(Headers) /\ UpTo(Headers, 3)
  /\ \A j \in DOMAIN Headers : Rank[Headers[j]] > 0
  /\ \A old : StateAfter(Headers, old) = LOADING
<1> DEFINE first == <<"loadstart">>
           middle == Transition("headers")
           last == <<"loading">>
           both == first \o middle
<1>1. /\ first \in Seq(Events) /\ Ordered(first) /\ DOMAIN first = {1}
      /\ first[1] = "loadstart"
  BY OneEvent
<1>2. /\ last \in Seq(Events) /\ Ordered(last) /\ DOMAIN last = {1}
      /\ last[1] = "loading"
  BY OneEvent
<1>3. /\ middle \in Seq(Events) /\ Ordered(middle)
      /\ \A i \in DOMAIN middle : middle[i] = "headers"
  <2>1. CASE middle = <<>>
    <3>1. <<>> \in Seq(Events) /\ DOMAIN <<>> = {}
      OBVIOUS
    <3>2. Ordered(<<>>)
      BY <3>1 DEF Ordered
    <3>3. QED
      BY <2>1, <3>1, <3>2
  <2>2. CASE middle = <<"headers">>
    BY <2>2, OneEvent
  <2>3. QED
    BY <2>1, <2>2 DEF Transition
<1> HIDE DEF first, middle, last
<1>4. \A i \in DOMAIN first, j \in DOMAIN middle : Rises(first[i], middle[j])
  BY <1>1, <1>3, Ranks DEF Rises
<1>5. both \in Seq(Events) /\ Ordered(both)
  BY <1>1, <1>3, <1>4, OrderedConcat, ConcatType
<1>6. UpTo(both, 2)
  <2>1. UpTo(first, 2) /\ UpTo(middle, 2)
    BY <1>1, <1>3, Ranks DEF UpTo
  <2>2. QED
    BY <1>1, <1>3, <2>1, UpToConcat
<1>7. \A j \in DOMAIN last : Rank[last[j]] > 2
  BY <1>2, Ranks
<1>8. \A i \in DOMAIN both, j \in DOMAIN last : Rises(both[i], last[j])
  BY <1>2, <1>5, <1>6, <1>7, UpToRises
<1>9. Headers = both \o last
  BY DEF Headers, first, middle, last
<1> HIDE DEF both
<1>10. Ordered(Headers) /\ Headers \in Seq(Events)
  BY <1>2, <1>5, <1>8, <1>9, OrderedConcat, ConcatType
<1>11. UpTo(Headers, 3)
  <2>1. UpTo(both, 3)
    <3>1. \A i \in DOMAIN both : Rank[both[i]] \in Nat
      <4>1. \A i \in DOMAIN both : both[i] \in Events
        BY <1>5
      <4>2. QED
        BY <4>1, Ranks
    <3>2. QED
      BY <1>6, <3>1 DEF UpTo
  <2>2. UpTo(last, 3)
    BY <1>2, Ranks DEF UpTo
  <2>3. QED
    BY <1>2, <1>5, <1>9, <2>1, <2>2, UpToConcat
<1>12. \A j \in DOMAIN Headers : Rank[Headers[j]] > 0
  <2>1. Headers # <<>> /\ Headers[1] = "loadstart" /\ DOMAIN Headers = 1..Len(Headers)
    <3>1. both # <<>> /\ both[1] = "loadstart"
      BY <1>1, <1>3 DEF both
    <3>2. QED
      BY <1>2, <1>5, <1>9, <1>10, <3>1
  <2>2. ASSUME NEW j \in DOMAIN Headers, j # 1 PROVE Rank[Headers[j]] > 0
    <3>1. 1 < j /\ 1 \in DOMAIN Headers /\ Headers[j] \in Events
      BY <1>10, <2>1, <2>2
    <3>2. Rises("loadstart", Headers[j])
      BY <1>10, <2>1, <3>1 DEF Ordered
    <3>3. QED
      BY <3>1, <3>2, Ranks DEF Rises
  <2>3. QED
    BY <2>1, <2>2, Ranks
<1>13. Headers # <<>> /\ Headers[Len(Headers)] = "loading"
  <2>1. Len(last) = 1 /\ last[1] = "loading"
    BY <1>2
  <2>2. /\ Len(both \o last) = Len(both) + Len(last)
        /\ \A i \in 1..(Len(both) + Len(last)) :
             (both \o last)[i] = IF i <= Len(both) THEN both[i] ELSE last[i - Len(both)]
    BY <1>2, <1>5, ConcatProperties
  <2>3. Len(both) \in Nat
    BY <1>5
  <2>4. QED
    BY <1>9, <2>1, <2>2, <2>3
<1>14. "loading" \in StateEvents /\ StateOf["loading"] = LOADING
  BY DEF StateEvents, StateOf, LOADING
<1>15. QED
  BY <1>10, <1>11, <1>12, <1>13, <1>14, LastDecides

LEMMA DoneThen ==
  ASSUME NEW e \in {"load", "error"}
  PROVE  <<"done">> \o <<e, "loadend">> = <<"done", e, "loadend">>
<1> DEFINE a == <<"done">>
           b == <<e, "loadend">>
           t == <<"done", e, "loadend">>
<1>1. /\ a \in Seq(Events) /\ b \in Seq(Events) /\ t \in Seq(Events)
      /\ Len(a) = 1 /\ Len(b) = 2 /\ Len(t) = 3
      /\ a[1] = "done" /\ b[1] = e /\ b[2] = "loadend"
      /\ t[1] = "done" /\ t[2] = e /\ t[3] = "loadend"
  BY DEF Events, StateEvents
<1> HIDE DEF a, b, t
<1>2. /\ a \o b \in Seq(Events) /\ Len(a \o b) = Len(a) + Len(b)
      /\ \A i \in 1..(Len(a) + Len(b)) :
           (a \o b)[i] = IF i <= Len(a) THEN a[i] ELSE b[i - Len(a)]
  BY <1>1, ConcatProperties
<1>3. \A i \in 1..3 : (a \o b)[i] = t[i]
  BY <1>1, <1>2
<1>4. a \o b = t
  BY <1>1, <1>2, <1>3, SeqEqual
<1>5. QED
  BY <1>4 DEF a, b, t

LEMMA EndingIs ==
  ASSUME NEW state, state # DONE
  PROVE  Ending(state) = <<"done", "load", "loadend">>
<1>1. <<"done">> \o <<"load", "loadend">> = <<"done", "load", "loadend">>
  BY DoneThen
<1>2. QED
  BY <1>1 DEF Ending

LEMMA ErrorIs ==
  ASSUME readyState # DONE
  PROVE  Transition("done") \o <<"error", "loadend">> = <<"done", "error", "loadend">>
<1>1. <<"done">> \o <<"error", "loadend">> = <<"done", "error", "loadend">>
  BY DoneThen
<1>2. StateOf["done"] = DONE
  BY DEF StateOf
<1>3. QED
  BY <1>1, <1>2 DEF Transition

LEMMA ChunkFirst ==
  LET t == <<"loading", "progress">> IN
  /\ t \in Seq(Events) /\ Ordered(t) /\ UpTo(t, 3) /\ "load" \notin ToSet(t)
  /\ \A j \in DOMAIN t : Rank[t[j]] > 2
<1> DEFINE t == <<"loading", "progress">>
<1>1. t \in Seq(Events) /\ DOMAIN t = {1, 2} /\ t[1] = "loading" /\ t[2] = "progress"
  BY DEF Events, StateEvents
<1> HIDE DEF t
<1>2. Rank[t[1]] = 3 /\ Rank[t[2]] = 3
  BY <1>1, Ranks
<1>3. Ordered(t)
  BY <1>1, <1>2 DEF Ordered, Rises
<1>4. UpTo(t, 3) /\ "load" \notin ToSet(t) /\ \A j \in DOMAIN t : Rank[t[j]] > 2
  BY <1>1, <1>2 DEF UpTo, ToSet
<1>5. QED
  BY <1>1, <1>3, <1>4 DEF t

-----------------------------------------------------------------------------
(* The invariant of events is kept.                                        *)

LEMMA InitEInv == Init => EInv
<1> SUFFICES ASSUME Init PROVE EInv
  OBVIOUS
<1>1. Prepared
  BY DEF Init, Prepared
<1>2. ShadowOK
  BY DEF Init, ShadowOK
<1>3. LogOK
  <2>1. log = <<>> /\ DOMAIN log = {} /\ sends = 0 /\ ~inFlight
    BY DEF Init
  <2>2. QED
    BY <2>1 DEF LogOK, Ordered, UpTo
<1>4. AnnouncedOK
  BY DEF Init, AnnouncedOK
<1>5. QED
  BY <1>1, <1>2, <1>3, <1>4 DEF EInv

\* A request that is being answered is the last one, and it waits for nobody else.
LEMMA CurrentUse ==
  ASSUME IInv, EInv, NEW s \in Sends, phase[s] \notin {"idle", "performed"}
  PROVE  /\ s <= sends /\ sends > 0 /\ sends \in Nat /\ phase \in [Sends -> Phases]
         /\ clean => s = sends /\ native = OPENED /\ ~inFlight
         /\ sends <= 1 => s = 1 /\ sends = 1 /\ ~inFlight
         /\ Sole => s = sends
<1>1. TypeOK /\ UsesInOrder /\ LastUse /\ AnnouncedOK
  BY DEF IInv, EInv
<1>2. /\ phase \in [Sends -> Phases] /\ sends \in Nat /\ (sends > 0 => sends \in Sends)
      /\ s \in Nat /\ s > 0 /\ (s <= sends => sends > 0)
  BY <1>1, MaxSendsAssumption DEF TypeOK, Sends
<1>3. s <= sends
  BY <1>1, <1>2 DEF UsesInOrder
<1>4. clean => s = sends
  BY <1>1, <1>2, <1>3 DEF LastUse
<1>5. clean => native = OPENED /\ ~inFlight
  BY <1>1, <1>2, <1>3, <1>4 DEF LastUse
<1>6. sends <= 1 => s = 1 /\ sends = 1
  BY <1>2, <1>3
<1>7. sends <= 1 => ~inFlight
  BY <1>1, <1>6 DEF AnnouncedOK
<1>8. Sole => s = sends
  BY <1>4, <1>6 DEF Sole
<1>9. QED
  BY <1>2, <1>3, <1>4, <1>5, <1>6, <1>7, <1>8

\* A step of a request that nobody sees.
LEMMA SilentEInv ==
  ASSUME IInv, EInv, NEW s \in Sends, NEW p,
         p \in {"upload", "settling", "measuring", "dropped", "failed", phase[s]},
         phase[s] \notin {"idle", "performed"},
         p \in {"upload", "settling", "measuring"} =>
           phase[s] \in {"asking", "upload", "settling", "measuring"},
         phase' = [phase EXCEPT ![s] = p],
         defined => defined', p = "measuring" => defined',
         handled => handled', finally \subseteq finally',
         p \in {"streaming", "over", "failed"} => handled' \/ s \in finally',
         UNCHANGED <<nativeVars, shadow, useVars, buffer, log, responses>>
  PROVE  EInv'
<1>1. Prepared /\ ShadowOK /\ LogOK /\ AnnouncedOK
  BY DEF EInv
<1>2. /\ s <= sends /\ sends > 0 /\ sends \in Nat /\ phase \in [Sends -> Phases]
      /\ clean => s = sends /\ native = OPENED /\ ~inFlight
      /\ sends <= 1 => s = 1 /\ sends = 1 /\ ~inFlight
      /\ Sole => s = sends
  BY CurrentUse
<1>3. phase'[s] = p /\ \A u \in Sends : u # s => phase'[u] = phase[u]
  BY <1>2
<1>4. p \notin {"idle", "performed"}
  OBVIOUS
<1>5. /\ native' = native /\ inFlight' = inFlight /\ shadow' = shadow /\ opened' = opened
      /\ sends' = sends /\ clean' = clean /\ buffer' = buffer /\ log' = log
      /\ responses' = responses
  BY DEF nativeVars, useVars
<1>6. Sole' <=> Sole
  BY <1>5 DEF Sole
<1>7. Prepared'
  <2>1. p = "streaming" => phase[s] = "streaming"
    OBVIOUS
  <2>2. QED
    BY <1>1, <1>3, <2>1 DEF Prepared
<1>8. ShadowOK'
  BY <1>1, <1>2, <1>3, <1>5, <1>6 DEF ShadowOK
<1>9. LogOK'
  <2> SUFFICES ASSUME clean PROVE LogOK'
    BY <1>5 DEF LogOK
  <2>1. phase'[sends] = p /\ sends # 0 /\ s = sends /\ ~inFlight
    BY <1>2, <1>3
  <2>2. p \in {"asking", "upload", "measuring", "settling"} => UpTo(log, 0)
    BY <1>1, <1>2, <2>1 DEF LogOK
  <2>3. p = "streaming" => UpTo(log, 3)
    BY <1>1, <1>2, <2>1 DEF LogOK
  <2>4. Ordered(log)
    BY <1>1 DEF LogOK
  <2>5. QED
    BY <1>4, <1>5, <2>1, <2>2, <2>3, <2>4 DEF LogOK
<1>10. AnnouncedOK'
  <2> SUFFICES ASSUME sends = 1 PROVE AnnouncedOK'
    BY <1>2, <1>5 DEF AnnouncedOK
  <2>1. s = 1 /\ ~inFlight /\ phase'[1] = p
    BY <1>2, <1>3
  <2>2. p \in {"asking", "upload", "measuring", "streaming", "settling"} =>
          phase[1] \in {"asking", "upload", "measuring", "streaming", "settling"}
    BY <2>1
  <2>3. QED
    BY <1>1, <1>4, <1>5, <2>1, <2>2 DEF AnnouncedOK
<1>11. QED
  BY <1>7, <1>8, <1>9, <1>10 DEF EInv

\* The cases of a playback: the application has seen all events, or the first ones.
LEMMA PlayCases ==
  ASSUME NEW s \in Sends, NEW events \in Seq(Events), NEW next, Play(s, events, next)
  PROVE  \E seen \in Seq(Events), p \in {next, "failed"} :
           /\ log' = log \o seen /\ shadow' = StateAfter(seen, shadow)
           /\ phase' = [phase EXCEPT ![s] = p]
           /\ \/ responses' = responses
              \/ responses' = responses \o Announced(seen, StateAtLoad(seen))
           /\ Ordered(events) => Ordered(seen)
           /\ ToSet(seen) \subseteq ToSet(events)
           /\ p = "failed" \/ seen = events
<1>1. CASE /\ Trigger(events)
           /\ phase' = [phase EXCEPT ![s] = next]
           /\ UNCHANGED threw
  BY <1>1 DEF Trigger
<1>2. ASSUME NEW n \in 1..Len(events),
             log' = log \o SubSeq(events, 1, n),
             shadow' = StateAfter(SubSeq(events, 1, n), shadow),
             \/ UNCHANGED responses
             \/ responses' = responses \o
                  Announced(SubSeq(events, 1, n), StateAtLoad(SubSeq(events, 1, n))),
             phase' = [phase EXCEPT ![s] = "failed"]
      PROVE  \E seen \in Seq(Events), p \in {next, "failed"} :
               /\ log' = log \o seen /\ shadow' = StateAfter(seen, shadow)
               /\ phase' = [phase EXCEPT ![s] = p]
               /\ \/ responses' = responses
                  \/ responses' = responses \o Announced(seen, StateAtLoad(seen))
               /\ Ordered(events) => Ordered(seen)
               /\ ToSet(seen) \subseteq ToSet(events)
               /\ p = "failed" \/ seen = events
  <2> DEFINE seen == SubSeq(events, 1, n)
  <2>1. /\ seen \in Seq(Events) /\ ToSet(seen) \subseteq ToSet(events)
        /\ Ordered(events) => Ordered(seen)
    <3>1. seen \in Seq(Events)
      BY PrefixType
    <3>2. ToSet(seen) \subseteq ToSet(events)
      BY PrefixInside
    <3>3. QED
      BY <3>1, <3>2, OrderedPrefix
  <2>2. log' = log \o seen /\ shadow' = StateAfter(seen, shadow)
    BY <1>2
  <2>3. \/ responses' = responses
        \/ responses' = responses \o Announced(seen, StateAtLoad(seen))
    BY <1>2
  <2> HIDE DEF seen
  <2>4. QED
    BY <1>2, <2>1, <2>2, <2>3
<1>3. QED
  BY <1>1, <1>2 DEF Play

\* A playback keeps the order if the events are in order, and come after those that
\* were seen; and it announces the response once, when "load" is among the events.
LEMMA PlayEInv ==
  ASSUME IInv, EInv, NEW s \in Sends, NEW events \in Seq(Events),
         NEW next \in {"streaming", "over"}, Play(s, events, next),
         phase[s] \in {"asking", "measuring", "streaming"},
         clean => Ordered(events) /\ \A i \in DOMAIN log, j \in DOMAIN events :
                                       Rises(log[i], events[j]),
         next = "streaming" =>
           /\ defined /\ UpTo(events, 3) /\ phase[s] # "asking"
           /\ Sole => StateAfter(events, shadow) = LOADING,
         "load" \in ToSet(events) =>
           /\ defined /\ handled /\ buffer' = buffer
           /\ sends = 1 => Ordered(events),
         handled',
         UNCHANGED <<nativeVars, useVars, finally, defined>>
  PROVE  EInv'
<1>1. Prepared /\ ShadowOK /\ LogOK /\ AnnouncedOK /\ TypeOK
  BY DEF EInv, IInv
<1>2. /\ s <= sends /\ sends > 0 /\ sends \in Nat /\ phase \in [Sends -> Phases]
      /\ clean => s = sends /\ native = OPENED /\ ~inFlight
      /\ sends <= 1 => s = 1 /\ sends = 1 /\ ~inFlight
      /\ Sole => s = sends
  BY CurrentUse
<1>3. PICK seen \in Seq(Events), p \in {next, "failed"} :
           /\ log' = log \o seen /\ shadow' = StateAfter(seen, shadow)
           /\ phase' = [phase EXCEPT ![s] = p]
           /\ \/ responses' = responses
              \/ responses' = responses \o Announced(seen, StateAtLoad(seen))
           /\ Ordered(events) => Ordered(seen)
           /\ ToSet(seen) \subseteq ToSet(events)
           /\ p = "failed" \/ seen = events
  BY PlayCases
<1>4. phase'[s] = p /\ \A u \in Sends : u # s => phase'[u] = phase[u]
  BY <1>2, <1>3
<1>5. /\ native' = native /\ inFlight' = inFlight /\ opened' = opened
      /\ sends' = sends /\ clean' = clean /\ defined' = defined
  BY DEF nativeVars, useVars
<1>6. p \in {"streaming", "over", "failed"} /\ (p = "streaming" => next = "streaming" /\ seen = events)
  BY <1>3
<1>7. Sole' <=> Sole
  BY <1>5 DEF Sole
<1>8. Prepared'
  BY <1>1, <1>4, <1>5, <1>6 DEF Prepared
<1>9. ShadowOK'
  <2>1. Sole /\ p = "streaming" => shadow' = LOADING
    BY <1>3, <1>6
  <2>2. QED
    BY <1>2, <1>4, <1>5, <1>6, <1>7, <2>1 DEF ShadowOK
<1>10. log \in Seq(Events)
  BY <1>1 DEF TypeOK
<1>11. LogOK'
  <2> SUFFICES ASSUME clean PROVE LogOK'
    BY <1>5 DEF LogOK
  <2>1. phase'[sends] = p /\ sends # 0 /\ s = sends /\ ~inFlight
    BY <1>2, <1>4
  <2>2. Ordered(log) /\ Ordered(seen)
    BY <1>1, <1>3 DEF LogOK
  <2>3. \A i \in DOMAIN log, j \in DOMAIN seen : Rises(log[i], seen[j])
    <3>1. SUFFICES ASSUME NEW i \in DOMAIN log, NEW j \in DOMAIN seen
                   PROVE Rises(log[i], seen[j])
      OBVIOUS
    <3>2. seen[j] \in ToSet(events)
      BY <1>3 DEF ToSet
    <3>3. PICK k \in DOMAIN events : events[k] = seen[j]
      BY <3>2 DEF ToSet
    <3>4. QED
      BY <3>3
  <2>4. Ordered(log')
    BY <1>3, <1>10, <2>2, <2>3, OrderedConcat
  <2>5. p = "streaming" => UpTo(log', 3)
    <3> SUFFICES ASSUME p = "streaming" PROVE UpTo(log', 3)
      OBVIOUS
    <3>1. UpTo(seen, 3) /\ phase[s] \in {"measuring", "streaming"}
      BY <1>6
    <3>2. phase[s] = "measuring" => UpTo(log, 0)
      BY <1>1, <2>1 DEF LogOK
    <3>3. UpTo(log, 0) => UpTo(log, 3)
      <4>1. \A i \in DOMAIN log : log[i] \in Events
        BY <1>10
      <4>2. QED
        BY <4>1, Ranks DEF UpTo
    <3>4. phase[s] = "streaming" => UpTo(log, 3)
      BY <1>1, <1>2, <2>1 DEF LogOK
    <3>5. UpTo(log, 3)
      BY <3>1, <3>2, <3>3, <3>4
    <3>6. QED
      BY <1>3, <1>10, <3>1, <3>5, UpToConcat
  <2>6. QED
    BY <1>5, <1>6, <2>1, <2>4, <2>5 DEF LogOK
<1>12. AnnouncedOK'
  <2> SUFFICES ASSUME sends = 1 PROVE AnnouncedOK'
    BY <1>2, <1>5 DEF AnnouncedOK
  <2>1. s = 1 /\ ~inFlight /\ phase'[1] = p /\ responses = <<>>
    BY <1>1, <1>2, <1>4 DEF AnnouncedOK
  <2> DEFINE new == Announced(seen, StateAtLoad(seen))
  <2>2. responses' = <<>> \/ responses' = new
    <3>1. new \in Seq(Announcement)
      BY <1>1, AnnouncedType
    <3>2. <<>> \o new = new
      BY <3>1, ConcatEmptySeq
    <3> HIDE DEF new
    <3>3. QED
      BY <1>3, <2>1, <3>2 DEF new
  <2> HIDE DEF new
  <2>3. p = "streaming" => "load" \notin ToSet(seen)
    <3> SUFFICES ASSUME p = "streaming", "load" \in ToSet(seen) PROVE FALSE
      OBVIOUS
    <3>1. PICK k \in DOMAIN seen : seen[k] = "load"
      BY DEF ToSet
    <3>2. QED
      BY <1>6, <3>1, Ranks DEF UpTo
  <2>4. "load" \notin ToSet(seen) => new = <<>>
    BY AnnouncedOnce DEF new
  <2>5. "load" \in ToSet(seen) =>
          /\ Len(new) = 1 /\ DOMAIN new = {1}
          /\ new[1].mocked = handled /\ new[1].body = ResponseIn(StateAtLoad(seen))
    BY AnnouncedOnce DEF new
  <2>6. "load" \in ToSet(seen) =>
          handled /\ ResponseIn(StateAtLoad(seen)) = buffer'
    <3> SUFFICES ASSUME "load" \in ToSet(seen)
                 PROVE handled /\ ResponseIn(StateAtLoad(seen)) = buffer'
      OBVIOUS
    <3>1. "load" \in ToSet(events)
      BY <1>3
    <3>2. StateAtLoad(seen) = DONE
      BY <1>3, <3>1, LoadIsDone
    <3>3. defined /\ handled /\ buffer' = buffer
      BY <3>1
    <3>4. QED
      BY <3>2, <3>3 DEF ResponseIn
  <2>7. Len(<<>>) = 0 /\ DOMAIN <<>> = {}
    OBVIOUS
  <2>8. /\ Len(responses') <= 1
        /\ \A i \in DOMAIN responses' :
             responses'[i].mocked = TRUE /\ responses'[i].body = buffer'
    <3>1. CASE responses' = <<>>
      BY <3>1, <2>7
    <3>2. CASE responses' = new /\ "load" \in ToSet(seen)
      <4>1. handled = TRUE
        <5>1. handled \in BOOLEAN
          BY <1>1 DEF TypeOK
        <5>2. QED
          BY <5>1, <2>6, <3>2
      <4>2. Len(responses') = 1 /\ DOMAIN responses' = {1}
        BY <2>5, <3>2
      <4>3. responses'[1].mocked = handled
        BY <2>5, <3>2
      <4>4. responses'[1].body = buffer'
        BY <2>5, <2>6, <3>2
      <4>5. responses'[1].mocked = TRUE
        BY <4>1, <4>3, Zenon
      <4>6. \A i \in DOMAIN responses' : i = 1
        BY <4>2
      <4>7. \A i \in DOMAIN responses' : responses'[i].mocked = TRUE /\ responses'[i].body = buffer'
        BY <4>4, <4>5, <4>6, Zenon
      <4>8. QED
        BY <4>2, <4>7
    <3>3. QED
      BY <2>2, <2>4, <3>1, <3>2
  <2>9. p = "streaming" => responses' = <<>>
    BY <2>2, <2>3, <2>4
  <2>10. p # "performed" /\ p \notin {"asking", "upload", "measuring", "settling"}
    BY <1>6
  <2>11. \A i \in DOMAIN responses' :
           /\ responses'[i].mocked <=> phase'[1] # "performed"
           /\ responses'[i].mocked => responses'[i].body = buffer'
    BY <2>1, <2>8, <2>10
  <2>12. QED
    BY <1>5, <2>1, <2>8, <2>9, <2>10, <2>11 DEF AnnouncedOK
<1>13. QED
  BY <1>8, <1>9, <1>11, <1>12 DEF EInv

LEMMA NativeEInv ==
  ASSUME IInv, EInv, NEW events \in Seq(Events), NEW state \in {2, 3, 4},
         NativeEvents(events, state), Ordered(events),
         clean => native \in {1, 2, 3} /\ \A j \in DOMAIN events : Rank[events[j]] > native,
         state # DONE => UpTo(events, state) /\ state >= native /\ "load" \notin ToSet(events)
  PROVE  EInv'
<1>1. /\ Prepared /\ ShadowOK /\ LogOK /\ AnnouncedOK
      /\ TypeOK /\ LastUse /\ UsesInOrder
  BY DEF EInv, IInv
<1>2. /\ shadow' = shadow /\ opened' = opened /\ sends' = sends /\ clean' = clean
      /\ phase' = phase /\ finally' = finally /\ defined' = defined
      /\ buffer' = buffer /\ native' = state /\ (inFlight' <=> state # DONE) /\ inFlight
      /\ log' = log \o events
  BY DEF NativeEvents, useVars
<1>3. handled' = handled
  BY DEF NativeEvents
<1>4. log \in Seq(Events) /\ sends \in Nat /\ (sends > 0 => sends \in Sends)
  BY <1>1, MaxSendsAssumption DEF TypeOK, Sends
<1>5. Prepared' /\ ShadowOK'
  BY <1>1, <1>2, <1>3 DEF Prepared, ShadowOK, Sole
<1>6. LogOK'
  <2> SUFFICES ASSUME clean PROVE LogOK'
    BY <1>2 DEF LogOK
  <2>1. Ordered(log) /\ UpTo(log, native)
    BY <1>1, <1>2 DEF LogOK
  <2>2. native \in Nat
    OBVIOUS
  <2>3. Ordered(log')
    <3>1. \A i \in DOMAIN log, j \in DOMAIN events : Rises(log[i], events[j])
      BY <1>4, <2>1, <2>2, UpToRises
    <3>2. QED
      BY <1>2, <1>4, <2>1, <3>1, OrderedConcat
  <2>4. sends # 0 /\ phase[sends] = "performed"
    BY <1>1, <1>2, <1>4 DEF LastUse, AnnouncedOK
  <2>5. state # DONE => UpTo(log', state)
    <3> SUFFICES ASSUME state # DONE PROVE UpTo(log', state)
      OBVIOUS
    <3>1. \A i \in DOMAIN log : log[i] \in Events
      BY <1>4
    <3>2. \A i \in DOMAIN log : Rank[log[i]] \in Nat
      BY <3>1, Ranks
    <3>3. UpTo(log, state)
      BY <2>1, <3>2 DEF UpTo
    <3>4. QED
      BY <1>2, <1>4, <3>3, UpToConcat
  <2>6. state # DONE => state \in {OPENED, HEADERS_RECEIVED, LOADING}
    BY DEF OPENED, HEADERS_RECEIVED, LOADING, DONE
  <2>7. QED
    BY <1>2, <2>3, <2>4, <2>5, <2>6 DEF LogOK, OPENED
<1>7. AnnouncedOK'
  <2>1. sends # 0
    BY <1>1, <1>2 DEF AnnouncedOK
  <2> SUFFICES ASSUME sends = 1 PROVE AnnouncedOK'
    BY <1>2, <2>1 DEF AnnouncedOK
  <2>2. phase[1] = "performed" /\ ~handled /\ responses = <<>>
    BY <1>1, <1>2 DEF AnnouncedOK
  <2> DEFINE at == IF shadow = -1 THEN state ELSE shadow
             new == Announced(events, at)
  <2>3. responses' = new
    <3>1. new \in Seq(Announcement)
      BY <1>1, AnnouncedType
    <3>2. <<>> \o new = new
      BY <3>1, ConcatEmptySeq
    <3>3. responses' = responses \o new
      BY DEF NativeEvents
    <3> HIDE DEF new
    <3>4. QED
      BY <2>2, <3>2, <3>3
  <2> HIDE DEF new, at
  <2>4. "load" \notin ToSet(events) => new = <<>>
    BY AnnouncedOnce DEF new
  <2>5. "load" \in ToSet(events) =>
          Len(new) = 1 /\ DOMAIN new = {1} /\ new[1].mocked = handled
    BY AnnouncedOnce DEF new
  <2>6. Len(<<>>) = 0 /\ DOMAIN <<>> = {}
    OBVIOUS
  <2>7. Len(responses') <= 1 /\ \A i \in DOMAIN responses' : i = 1
    <3>1. CASE "load" \in ToSet(events)
      <4>1. Len(responses') = 1 /\ DOMAIN responses' = {1}
        BY <2>3, <2>5, <3>1
      <4>2. QED
        BY <4>1
    <3>2. CASE "load" \notin ToSet(events)
      BY <2>3, <2>4, <2>6, <3>2
    <3>3. QED
      BY <3>1, <3>2
  <2>8. \A i \in DOMAIN responses' : ~responses'[i].mocked
    <3>1. CASE "load" \in ToSet(events)
      <4>1. responses'[1].mocked = handled
        BY <2>3, <2>5, <3>1
      <4>2. QED
        BY <4>1, <2>2, <2>7, Zenon
    <3>2. CASE "load" \notin ToSet(events)
      BY <2>3, <2>4, <2>6, <3>2
    <3>3. QED
      BY <3>1, <3>2
  <2>9. inFlight' => responses' = <<>>
    BY <1>2, <2>3, <2>4
  <2>10. phase'[1] = "performed" /\ ~handled'
    BY <1>2, <1>3, <2>2
  <2>11. \A i \in DOMAIN responses' :
           /\ responses'[i].mocked <=> phase'[1] # "performed"
           /\ responses'[i].mocked => responses'[i].body = buffer'
    BY <2>8, <2>10
  <2>12. QED
    BY <1>2, <2>7, <2>9, <2>10, <2>11 DEF AnnouncedOK
<1>8. QED
  BY <1>5, <1>6, <1>7 DEF EInv

LEMMA NetworkEInv ==
  ASSUME IInv, EInv, Network
  PROVE  EInv'
<1>1. OPENED = 1 /\ HEADERS_RECEIVED = 2 /\ LOADING = 3 /\ DONE = 4
  BY DEF OPENED, HEADERS_RECEIVED, LOADING, DONE
<1>2. CASE NativeHeaders
  <2> DEFINE t == <<"headers">>
  <2>1. t \in Seq(Events) /\ Ordered(t) /\ "load" \notin ToSet(t) /\ DOMAIN t = {1} /\ t[1] = "headers"
    BY OneEvent
  <2>2. native = 1 /\ NativeEvents(t, 2)
    BY <1>1, <1>2 DEF NativeHeaders
  <2> HIDE DEF t
  <2>3. UpTo(t, 2) /\ \A j \in DOMAIN t : Rank[t[j]] > native
    BY <2>1, <2>2, Ranks DEF UpTo
  <2>4. QED
    BY <2>1, <2>2, <2>3, NativeEInv
<1>3. CASE NativeBody
  <2> DEFINE t == <<"loading", "progress">>
  <2>1. /\ t \in Seq(Events) /\ Ordered(t) /\ UpTo(t, 3) /\ "load" \notin ToSet(t)
        /\ \A j \in DOMAIN t : Rank[t[j]] > 2
    BY ChunkFirst
  <2>2. native = 2 /\ NativeEvents(t, 3)
    BY <1>1, <1>3 DEF NativeBody
  <2> HIDE DEF t
  <2>3. QED
    BY <2>1, <2>2, NativeEInv
<1>4. ASSUME NEW e \in {"load", "error"}, clean => native \in {1, 2, 3},
             NativeEvents(<<"done", e, "loadend">>, DONE)
      PROVE  EInv'
  <2> DEFINE t == <<"done", e, "loadend">>
  <2>1. t \in Seq(Events) /\ Ordered(t) /\ \A j \in DOMAIN t : Rank[t[j]] > 3
    BY DoneFirst
  <2>2. NativeEvents(t, 4)
    BY <1>1, <1>4
  <2> HIDE DEF t
  <2>3. clean => \A j \in DOMAIN t : Rank[t[j]] > native
    <3>1. \A j \in DOMAIN t : t[j] \in Events
      BY <2>1
    <3>2. QED
      BY <1>4, <2>1, <3>1, Ranks
  <2>4. QED
    BY <1>1, <1>4, <2>1, <2>2, <2>3, NativeEInv
<1>5. CASE NativeLoad
  <2>1. native \in {1, 2, 3} /\ NativeEvents(<<"done", "load", "loadend">>, DONE)
    BY <1>1, <1>5 DEF NativeLoad
  <2>2. QED
    BY <2>1, <1>4
<1>6. CASE NativeFails
  <2>1. clean => native \in {1, 2, 3}
    BY <1>1, <1>6 DEF NativeFails, NativeEvents, EInv, LogOK
  <2>2. QED
    BY <2>1, <1>4, <1>6 DEF NativeFails
<1>7. QED
  BY <1>2, <1>3, <1>5, <1>6 DEF Network, NativeEnds

LEMMA ApplicationEInv ==
  ASSUME IInv, EInv, Application
  PROVE  EInv'
<1>1. /\ Prepared /\ ShadowOK /\ LogOK /\ AnnouncedOK
      /\ TypeOK /\ Marked /\ LastUse /\ UsesInOrder
  BY DEF EInv, IInv
<1>2. /\ phase \in [Sends -> Phases] /\ sends \in Nat /\ (sends > 0 => sends \in Sends)
      /\ log \in Seq(Events)
  BY <1>1, MaxSendsAssumption DEF TypeOK, Sends
<1>3. CASE Open
  <2>1. /\ phase' = phase /\ finally' = finally /\ handled' = handled /\ shadow' = shadow
        /\ sends' = sends /\ buffer' = buffer /\ responses' = responses
        /\ ~inFlight' /\ clean' = clean
    BY <1>3 DEF Open
  <2>2. defined' = defined
    BY <1>3 DEF Open
  <2>3. Prepared'
    BY <1>1, <2>1, <2>2 DEF Prepared
  <2>4. ShadowOK'
    BY <1>1, <2>1 DEF ShadowOK, Sole
  <2>5. LogOK'
    <3> SUFFICES ASSUME clean' PROVE LogOK'
      BY DEF LogOK
    <3>1. log' = <<>> \/ log' = <<"opened">>
      BY <1>3 DEF Open
    <3>2. Ordered(log') /\ UpTo(log', 0)
      <4>1. CASE log' = <<>>
        <5>1. DOMAIN <<>> = {}
          OBVIOUS
        <5>2. QED
          BY <4>1, <5>1 DEF Ordered, UpTo
      <4>2. CASE log' = <<"opened">>
        <5>1. Ordered(log') /\ DOMAIN log' = {1} /\ log'[1] = "opened"
          BY <4>2, OneEvent
        <5>2. QED
          BY <5>1, Ranks DEF UpTo
      <4>3. QED
        BY <3>1, <4>1, <4>2
    <3>3. UpTo(log', 3)
      <4>1. \A i \in DOMAIN log' : log'[i] \in Events
        <5>1. <<>> \in Seq(Events) /\ <<"opened">> \in Seq(Events)
          BY DEF Events, StateEvents
        <5>2. QED
          BY <3>1, <5>1
      <4>2. QED
        BY <3>2, <4>1, Ranks DEF UpTo
    <3>4. QED
      BY <2>1, <3>2, <3>3 DEF LogOK
  <2>6. AnnouncedOK'
    BY <1>1, <2>1 DEF AnnouncedOK
  <2>7. QED
    BY <2>3, <2>4, <2>5, <2>6 DEF EInv
<1>4. CASE Send
  <2>1. /\ finally' = finally /\ handled' = handled /\ shadow' = shadow
        /\ buffer' = buffer /\ responses' = responses /\ log' = log
        /\ native' = native /\ sends < MaxSends /\ sends' = sends + 1
        /\ phase' = [phase EXCEPT ![sends + 1] = "asking"]
        /\ clean' => clean /\ AllPerformed
    BY <1>4 DEF Send, nativeVars
  <2>2. defined' = defined /\ inFlight' = inFlight
    BY <1>4 DEF Send, nativeVars
  <2>3. sends + 1 \in Sends
    BY <1>2, <2>1, MaxSendsAssumption DEF Sends
  <2>4. phase'[sends + 1] = "asking" /\ \A s \in Sends : s # sends + 1 => phase'[s] = phase[s]
    BY <1>2, <2>1, <2>3
  <2>5. Prepared'
    BY <1>1, <2>1, <2>2, <2>4 DEF Prepared
  <2>6. ShadowOK'
    <3>1. sends = 0 => shadow = -1
      BY <1>1 DEF ShadowOK, Sole
    <3>2. clean' => shadow = -1
      BY <1>1, <2>1 DEF AllPerformed, Marked
    <3>3. Sole' => shadow' = -1
      BY <1>2, <2>1, <3>1, <3>2 DEF Sole
    <3>4. QED
      BY <1>2, <2>1, <2>4, <3>3 DEF ShadowOK
  <2>7. LogOK'
    <3> SUFFICES ASSUME clean, AllPerformed PROVE LogOK'
      BY <2>1 DEF LogOK
    <3>1. native = OPENED /\ ~inFlight /\ (sends = 0 \/ phase[sends] = "performed")
      BY <1>2 DEF AllPerformed
    <3>2. Ordered(log) /\ UpTo(log, 0)
      BY <1>1, <3>1 DEF LogOK
    <3>3. QED
      BY <1>2, <2>1, <2>2, <2>4, <3>1, <3>2 DEF LogOK
  <2>8. AnnouncedOK'
    <3>1. sends' # 0 /\ (sends' = 1 => sends = 0)
      BY <1>2, <2>1
    <3> SUFFICES ASSUME sends = 0 PROVE AnnouncedOK'
      BY <3>1 DEF AnnouncedOK
    <3>2. responses' = <<>> /\ ~inFlight' /\ phase'[1] = "asking"
      BY <1>1, <2>1, <2>2, <2>4 DEF AnnouncedOK
    <3>3. Len(<<>>) = 0 /\ DOMAIN <<>> = {}
      OBVIOUS
    <3>4. QED
      BY <3>1, <3>2, <3>3 DEF AnnouncedOK
  <2>9. QED
    BY <2>5, <2>6, <2>7, <2>8 DEF EInv
<1>5. CASE Abort
  <2>1. /\ phase' = phase /\ finally' = finally /\ handled' = handled /\ shadow' = shadow
        /\ buffer' = buffer /\ responses' = responses /\ clean' = clean
        /\ sends' = sends /\ ~inFlight' /\ native' # OPENED
    BY <1>5 DEF Abort, useVars, UNSENT, OPENED
  <2>2. defined' = defined
    BY <1>5 DEF Abort
  <2>3. Prepared'
    BY <1>1, <2>1, <2>2 DEF Prepared
  <2>4. ShadowOK'
    BY <1>1, <2>1 DEF ShadowOK, Sole
  <2>5. LogOK'
    <3> SUFFICES ASSUME clean PROVE LogOK'
      BY <2>1 DEF LogOK
    <3>1. CASE ~inFlight
      <4>1. log' = log
        BY <1>5, <3>1 DEF Abort
      <4>2. QED
        BY <1>1, <2>1, <4>1 DEF LogOK
    <3>2. CASE inFlight
      <4> DEFINE t == <<"done", "abort", "loadend">>
      <4>1. t \in Seq(Events) /\ Ordered(t) /\ \A j \in DOMAIN t : Rank[t[j]] > 3
        BY DoneFirst
      <4>2. log' = log \o t
        BY <1>5, <3>2 DEF Abort
      <4> HIDE DEF t
      <4>3. Ordered(log) /\ UpTo(log, 3)
        <5>1. /\ Ordered(log) /\ UpTo(log, native)
              /\ native \in {OPENED, HEADERS_RECEIVED, LOADING}
          BY <1>1, <3>2 DEF LogOK
        <5>2. native \in 1..3
          BY <5>1 DEF OPENED, HEADERS_RECEIVED, LOADING
        <5>3. \A i \in DOMAIN log : log[i] \in Events
          BY <1>2
        <5>4. \A i \in DOMAIN log : Rank[log[i]] \in Nat
          BY <5>3, Ranks
        <5>5. QED
          BY <5>1, <5>2, <5>4 DEF UpTo
      <4>4. \A i \in DOMAIN log, j \in DOMAIN t : Rises(log[i], t[j])
        BY <1>2, <4>1, <4>3, UpToRises
      <4>5. Ordered(log')
        BY <1>2, <4>1, <4>2, <4>3, <4>4, OrderedConcat
      <4>6. sends # 0 /\ phase[sends] = "performed"
        BY <1>1, <1>2, <3>2 DEF LastUse, AnnouncedOK
      <4>7. QED
        BY <2>1, <4>5, <4>6 DEF LogOK
    <3>3. QED
      BY <3>1, <3>2
  <2>6. AnnouncedOK'
    BY <1>1, <2>1 DEF AnnouncedOK
  <2>7. QED
    BY <2>3, <2>4, <2>5, <2>6 DEF EInv
<1>6. QED
  BY <1>3, <1>4, <1>5 DEF Application

LEMMA OutcomeEInv ==
  ASSUME IInv, EInv, NEW s \in Sends, Decide(s) \/ Perform(s)
  PROVE  EInv'
<1>1. /\ Prepared /\ ShadowOK /\ LogOK /\ AnnouncedOK
      /\ TypeOK /\ Marked /\ LastUse /\ UsesInOrder
  BY DEF EInv, IInv
<1>2. phase[s] \notin {"idle", "performed"}
  BY DEF Decide, Respond, ErrorWith, NotAnswered, Perform, Settled
<1>3. /\ s <= sends /\ sends > 0 /\ sends \in Nat /\ phase \in [Sends -> Phases]
      /\ clean => s = sends /\ native = OPENED /\ ~inFlight
      /\ sends <= 1 => s = 1 /\ sends = 1 /\ ~inFlight
      /\ Sole => s = sends
  BY <1>2, CurrentUse
<1>4. log \in Seq(Events)
  BY <1>1 DEF TypeOK
<1>5. CASE Respond(s)
  <2>1. /\ phase[s] = "asking" /\ phase' = [phase EXCEPT ![s] = "upload"]
        /\ UNCHANGED <<nativeVars, shadow, useVars, buffer, log, responses>>
    BY <1>5 DEF Respond
  <2>2. (defined => defined') /\ (handled => handled') /\ finally \subseteq finally'
    BY <1>5 DEF Respond
  <2>3. QED
    BY <2>1, <2>2, SilentEInv
<1>6. CASE NotAnswered(s)
  <2>1. /\ phase[s] = "asking" /\ phase' = [phase EXCEPT ![s] = "settling"]
        /\ UNCHANGED <<nativeVars, shadow, useVars, buffer, log, responses>>
    BY <1>6 DEF NotAnswered
  <2>2. (defined => defined') /\ (handled => handled') /\ finally \subseteq finally'
    BY <1>6 DEF NotAnswered
  <2>3. QED
    BY <2>1, <2>2, SilentEInv
<1>7. CASE ErrorWith(s)
  <2> DEFINE t == Transition("done") \o <<"error", "loadend">>
             d == <<"done", "error", "loadend">>
  <2>1. d \in Seq(Events) /\ Ordered(d) /\ \A j \in DOMAIN d : Rank[d[j]] > 3
    BY DoneFirst
  <2>2. /\ phase[s] = "asking" /\ Play(s, t, "over") /\ handled'
        /\ UNCHANGED <<nativeVars, useVars, finally, defined>>
    BY <1>7 DEF ErrorWith
  <2>3. t \in Seq(Events)
    BY PlaybackTypes
  <2>4. clean => t = d /\ UpTo(log, 0)
    <3> SUFFICES ASSUME clean PROVE t = d /\ UpTo(log, 0)
      OBVIOUS
    <3>1. s = sends /\ native = OPENED
      BY <1>3
    <3>2. shadow = -1
      BY <1>1, <1>3, <2>2, <3>1 DEF ShadowOK, Sole
    <3>3. readyState # DONE
      BY <3>1, <3>2 DEF readyState, OPENED, DONE
    <3>4. UpTo(log, 0)
      BY <1>1, <2>2, <3>1 DEF LogOK
    <3>5. QED
      BY <3>3, <3>4, ErrorIs
  <2>5. "load" \notin ToSet(t)
    <3>1. Transition("done") = <<>> \/ Transition("done") = <<"done">>
      BY DEF Transition
    <3>2. <<>> \o <<"error", "loadend">> = <<"error", "loadend">>
      OBVIOUS
    <3>3. <<"done">> \o <<"error", "loadend">> = d
      BY DoneThen
    <3>4. t = <<"error", "loadend">> \/ t = d
      BY <3>1, <3>2, <3>3
    <3>5. "load" \notin ToSet(<<"error", "loadend">>) /\ "load" \notin ToSet(d)
      BY DEF ToSet
    <3> HIDE DEF t, d
    <3>6. QED
      BY <3>4, <3>5
  <2> HIDE DEF t, d
  <2>6. clean => Ordered(t) /\ \A i \in DOMAIN log, j \in DOMAIN t : Rises(log[i], t[j])
    <3> SUFFICES ASSUME clean
                 PROVE Ordered(t) /\ \A i \in DOMAIN log, j \in DOMAIN t : Rises(log[i], t[j])
      OBVIOUS
    <3>1. \A j \in DOMAIN t : Rank[t[j]] > 0
      <4>1. \A j \in DOMAIN d : d[j] \in Events
        BY <2>1
      <4>2. QED
        BY <2>1, <2>4, <4>1, Ranks
    <3>2. Ordered(t) /\ UpTo(log, 0)
      BY <2>1, <2>4
    <3>3. QED
      BY <1>4, <2>3, <3>1, <3>2, UpToRises
  <2>7. QED
    BY <2>2, <2>3, <2>5, <2>6, PlayEInv
<1>8. CASE Perform(s)
  <2>1. /\ s \notin finally /\ finally' = finally \cup {s}
        /\ phase[s] \in {"settling", "upload", "measuring", "streaming", "over", "failed"}
        /\ native' = native /\ shadow' = shadow /\ opened' = opened /\ sends' = sends
        /\ clean' = clean /\ buffer' = buffer /\ responses' = responses
    BY <1>8 DEF Perform, Settled, useVars
  <2>2. defined' = defined /\ handled' = handled
    BY <1>8 DEF Perform
  <2>3. (defined => defined') /\ (handled => handled') /\ finally \subseteq finally'
    BY <2>1, <2>2
  <2>4. ASSUME NEW p \in {phase[s], "dropped", "failed"},
               phase' = [phase EXCEPT ![s] = p],
               UNCHANGED <<inFlight, log>>
        PROVE  EInv'
    <3>1. UNCHANGED <<nativeVars, shadow, useVars, buffer, log, responses>>
      BY <2>1, <2>4 DEF nativeVars, useVars
    <3>2. p \in {"upload", "settling", "measuring", "dropped", "failed", phase[s]}
      BY <2>4
    <3>3. /\ p \in {"upload", "settling", "measuring"} =>
               phase[s] \in {"asking", "upload", "settling", "measuring"}
          /\ p = "measuring" => defined'
      BY <1>1, <2>1, <2>2, <2>4 DEF Prepared
    <3>4. p \in {"streaming", "over", "failed"} => handled' \/ s \in finally'
      BY <2>1
    <3>5. QED
      BY <1>2, <2>3, <2>4, <3>1, <3>2, <3>3, <3>4, SilentEInv
  <2>5. CASE /\ phase' = [phase EXCEPT ![s] = IF @ = "settling" THEN "dropped" ELSE @]
             /\ UNCHANGED <<inFlight, log>>
    BY <2>4, <2>5
  <2>6. CASE /\ phase' = [phase EXCEPT ![s] = "failed"]
             /\ UNCHANGED <<inFlight, log>>
    BY <2>4, <2>6
  <2>7. CASE /\ ~handled
             /\ native = OPENED /\ ~inFlight
             /\ phase' = [phase EXCEPT ![s] = "performed"]
             /\ inFlight' = TRUE
             /\ log' = Append(log, "loadstart")
    <3>1. phase[s] = "settling"
      BY <1>1, <2>1, <2>7 DEF Prepared, Marked, Answering
    <3>2. phase'[s] = "performed" /\ \A u \in Sends : u # s => phase'[u] = phase[u]
      BY <1>3, <2>7
    <3>3. Prepared'
      BY <1>1, <2>1, <2>2, <3>2 DEF Prepared
    <3>4. ShadowOK'
      BY <1>1, <1>3, <2>1, <3>2 DEF ShadowOK, Sole
    <3>5. LogOK'
      <4> SUFFICES ASSUME clean PROVE LogOK'
        BY <2>1 DEF LogOK
      <4>1. s = sends
        BY <1>3
      <4>2. Ordered(log) /\ UpTo(log, 0)
        BY <1>1, <3>1, <4>1 DEF LogOK
      <4> DEFINE t == <<"loadstart">>
      <4>3. t \in Seq(Events) /\ Ordered(t) /\ DOMAIN t = {1} /\ t[1] = "loadstart"
        BY OneEvent
      <4>4. log' = log \o t
        <5>1. "loadstart" \in Events
          BY DEF Events
        <5>2. QED
          BY <1>4, <2>7, <5>1, AppendIsConcat
      <4> HIDE DEF t
      <4>5. (\A j \in DOMAIN t : Rank[t[j]] > 0) /\ UpTo(t, 1)
        BY <4>3, Ranks DEF UpTo
      <4>6. \A i \in DOMAIN log, j \in DOMAIN t : Rises(log[i], t[j])
        BY <1>4, <4>2, <4>3, <4>5, UpToRises
      <4>7. Ordered(log')
        BY <1>4, <4>2, <4>3, <4>4, <4>6, OrderedConcat
      <4>8. UpTo(log, 1)
        <5>1. \A i \in DOMAIN log : log[i] \in Events
          BY <1>4
        <5>2. QED
          BY <4>2, <5>1, Ranks DEF UpTo
      <4>9. UpTo(log', 1)
        BY <1>4, <4>3, <4>4, <4>5, <4>8, UpToConcat
      <4>10. native' = 1 /\ native' \in {OPENED, HEADERS_RECEIVED, LOADING}
        BY <2>1, <2>7 DEF OPENED
      <4>11. UpTo(log', native')
        BY <4>9, <4>10
      <4>12. QED
        BY <1>3, <2>1, <2>7, <3>2, <4>1, <4>7, <4>10, <4>11 DEF LogOK
    <3>6. AnnouncedOK'
      <4> SUFFICES ASSUME sends = 1 PROVE AnnouncedOK'
        BY <1>3, <2>1 DEF AnnouncedOK
      <4>1. phase'[1] = "performed" /\ responses' = <<>>
        BY <1>1, <1>3, <2>1, <3>1, <3>2 DEF AnnouncedOK
      <4>2. ~handled'
        BY <2>2, <2>7
      <4>3. Len(<<>>) = 0 /\ DOMAIN <<>> = {}
        OBVIOUS
      <4>4. QED
        BY <2>1, <4>1, <4>2, <4>3 DEF AnnouncedOK
    <3>7. QED
      BY <3>3, <3>4, <3>5, <3>6 DEF EInv
  <2>8. QED
    BY <1>8, <2>5, <2>6, <2>7 DEF Perform
<1>9. QED
  BY <1>5, <1>6, <1>7, <1>8 DEF Decide

LEMMA PlaybackEInv ==
  ASSUME IInv, EInv, NEW s \in Sends,
         Upload(s) \/ Measure(s) \/ Read(s) \/ Finalize(s) \/ StreamFails(s)
  PROVE  EInv'
<1>1. Prepared /\ ShadowOK /\ LogOK /\ AnnouncedOK /\ TypeOK /\ Marked
  BY DEF EInv, IInv
<1>2. phase[s] \in Answering
  BY DEF Upload, Measure, Read, Finalize, StreamFails, Answering
<1>3. handled /\ phase[s] \notin {"idle", "performed"}
  BY <1>1, <1>2 DEF Marked, Answering
<1>4. Sole => s = sends /\ sends > 0
  BY <1>3, CurrentUse
<1>5. log \in Seq(Events)
  BY <1>1 DEF TypeOK
<1>6. clean \/ sends = 1 => Sole
  BY DEF Sole
<1>7. CASE Upload(s)
  <2>1. PICK p \in {"measuring", "failed"} :
          phase' = [phase EXCEPT ![s] = p] /\ (p = "measuring" => defined')
    BY <1>7 DEF Upload
  <2>2. /\ phase[s] = "upload" /\ handled' /\ finally \subseteq finally'
        /\ UNCHANGED <<nativeVars, shadow, useVars, buffer, log, responses>>
    BY <1>3, <1>7 DEF Upload
  <2>3. defined => defined'
    BY <1>7 DEF Upload
  <2>4. QED
    BY <1>3, <2>1, <2>2, <2>3, SilentEInv
<1>8. CASE StreamFails(s)
  <2>1. /\ handled' /\ finally \subseteq finally'
        /\ phase' = [phase EXCEPT ![s] = "failed"]
        /\ UNCHANGED <<nativeVars, shadow, useVars, buffer, log, responses>>
    BY <1>3, <1>8 DEF StreamFails
  <2>2. defined => defined'
    BY <1>8 DEF StreamFails
  <2>3. QED
    BY <1>3, <2>1, <2>2, SilentEInv
\* With what the events so far allow to follow, each playback keeps the order.
<1>9. ASSUME phase[s] \in {"measuring", "streaming"},
             NEW events \in Seq(Events), NEW next \in {"streaming", "over"},
             NEW k \in Nat, Play(s, events, next),
             Sole => Ordered(events),
             clean => UpTo(log, k),
             \A j \in DOMAIN events : Rank[events[j]] > k,
             next = "streaming" =>
               UpTo(events, 3) /\ (Sole => StateAfter(events, shadow) = LOADING),
             "load" \in ToSet(events) => buffer' = buffer,
             UNCHANGED <<nativeVars, useVars, finally, handled>>, defined' = defined
      PROVE  EInv'
  <2>1. defined /\ handled'
    BY <1>1, <1>3, <1>9 DEF Prepared
  <2>2. clean => \A i \in DOMAIN log, j \in DOMAIN events : Rises(log[i], events[j])
    BY <1>5, <1>9, UpToRises
  <2>3. UNCHANGED <<nativeVars, useVars, finally, defined>>
    BY <1>9
  <2>4. QED
    BY <1>3, <1>6, <1>9, <2>1, <2>2, <2>3, PlayEInv
<1>10. CASE Measure(s)
  <2>1. /\ phase[s] = "measuring" /\ buffer' = buffer
        /\ UNCHANGED <<nativeVars, useVars, finally, handled>>
    BY <1>10 DEF Measure
  <2>2. defined' = defined
    BY <1>10 DEF Measure
  <2>3. clean => UpTo(log, 0)
    BY <1>1, <1>4, <1>6, <2>1 DEF LogOK
  <2>4. /\ Headers \in Seq(Events) /\ Ordered(Headers) /\ UpTo(Headers, 3)
        /\ \A j \in DOMAIN Headers : Rank[Headers[j]] > 0
        /\ StateAfter(Headers, shadow) = LOADING
    BY PlaybackTypes, HeadersFirst
  <2> DEFINE d == <<"done", "load", "loadend">>
             t == Headers \o Ending(LOADING)
  <2>5. d \in Seq(Events) /\ Ordered(d) /\ \A j \in DOMAIN d : Rank[d[j]] > 3
    BY DoneFirst
  <2>6. Ending(LOADING) = d
    BY EndingIs DEF LOADING, DONE
  <2> HIDE DEF d
  <2>7. t \in Seq(Events) /\ Ordered(t)
    <3>1. \A i \in DOMAIN Headers, j \in DOMAIN d : Rises(Headers[i], d[j])
      BY <2>4, <2>5, UpToRises
    <3>2. QED
      BY <2>4, <2>5, <2>6, <3>1, OrderedConcat, ConcatType
  <2>8. \A j \in DOMAIN t : Rank[t[j]] > 0
    <3> DEFINE m == Len(Headers)
    <3>1. /\ DOMAIN Headers = 1..m /\ m \in Nat /\ Len(d) \in Nat
          /\ DOMAIN d = 1..Len(d) /\ DOMAIN t = 1..Len(t)
      BY <2>4, <2>5, <2>7
    <3>2. /\ Len(t) = m + Len(d)
          /\ \A i \in 1..(m + Len(d)) : t[i] = IF i <= m THEN Headers[i] ELSE d[i - m]
      BY <2>4, <2>5, <2>6, ConcatProperties
    <3> HIDE DEF m, t
    <3>3. SUFFICES ASSUME NEW j \in DOMAIN t PROVE Rank[t[j]] > 0
      OBVIOUS
    <3>4. CASE j <= m
      BY <2>4, <3>1, <3>2, <3>3, <3>4
    <3>5. CASE j > m
      <4>1. j - m \in DOMAIN d /\ t[j] = d[j - m]
        BY <3>1, <3>2, <3>3, <3>5
      <4>2. d[j - m] \in Events
        BY <2>5, <4>1
      <4>3. QED
        BY <2>5, <4>1, <4>2, Ranks
    <3>6. QED
      BY <3>1, <3>2, <3>3, <3>4, <3>5
  <2> HIDE DEF t
  <2>9. CASE Play(s, Headers, "streaming")
    BY <1>9, <2>1, <2>2, <2>3, <2>4, <2>9
  <2>10. CASE Play(s, t, "over")
    BY <1>9, <2>1, <2>2, <2>3, <2>7, <2>8, <2>10
  <2>11. QED
    BY <1>10, <2>9, <2>10 DEF Measure, t
<1>11. CASE Read(s)
  <2> DEFINE t == <<"progress">>
  <2>1. /\ phase[s] = "streaming" /\ Play(s, t, "streaming")
        /\ UNCHANGED <<nativeVars, useVars, finally, handled>>
    BY <1>11 DEF Read
  <2>2. defined' = defined
    BY <1>11 DEF Read
  <2>3. t \in Seq(Events) /\ Ordered(t) /\ DOMAIN t = {1} /\ t[1] = "progress"
        /\ "load" \notin ToSet(t)
    BY OneEvent
  <2> HIDE DEF t
  <2>4. UpTo(t, 3) /\ \A j \in DOMAIN t : Rank[t[j]] > 2
    BY <2>3, Ranks DEF UpTo
  <2>5. Sole => StateAfter(t, shadow) = LOADING
    <3>1. \A i \in DOMAIN t : t[i] \notin StateEvents
      BY <2>3 DEF StateEvents
    <3>2. Sole => shadow = LOADING
      BY <1>1, <1>4, <2>1 DEF ShadowOK
    <3>3. QED
      BY <3>1, <3>2, NoneDecides
  <2>6. clean => Ordered(t) /\ \A i \in DOMAIN log, j \in DOMAIN t : Rises(log[i], t[j])
    <3> SUFFICES ASSUME clean
                 PROVE \A i \in DOMAIN log, j \in DOMAIN t : Rises(log[i], t[j])
      BY <2>3
    <3>1. UpTo(log, 3)
      BY <1>1, <1>4, <1>6, <2>1 DEF LogOK
    <3>2. \A i \in DOMAIN log : log[i] \in Events
      BY <1>5
    <3>3. \A i \in DOMAIN log : Rank[log[i]] \in Nat /\ Rank[log[i]] <= 3
      BY <3>1, <3>2, Ranks DEF UpTo
    <3>4. \A j \in DOMAIN t : t[j] = "progress"
      BY <2>3
    <3>5. QED
      BY <3>3, <3>4, Ranks DEF Rises
  <2>7. defined /\ handled'
    BY <1>1, <1>3, <2>1 DEF Prepared
  <2>8. UNCHANGED <<nativeVars, useVars, finally, defined>>
    BY <2>1, <2>2
  <2>9. QED
    BY <2>1, <2>3, <2>4, <2>5, <2>6, <2>7, <2>8, PlayEInv
<1>12. CASE Finalize(s)
  <2> DEFINE d == <<"done", "load", "loadend">>
             t == Ending(readyState)
  <2>1. /\ phase[s] = "streaming" /\ Play(s, t, "over") /\ buffer' = buffer
        /\ UNCHANGED <<nativeVars, useVars, finally, handled>>
    BY <1>12 DEF Finalize
  <2>2. defined' = defined
    BY <1>12 DEF Finalize
  <2>3. d \in Seq(Events) /\ Ordered(d) /\ \A j \in DOMAIN d : Rank[d[j]] > 3
    BY DoneFirst
  <2>4. t \in Seq(Events)
    BY PlaybackTypes
  <2>5. Sole => t = d
    <3>1. Sole => readyState = LOADING
      BY <1>1, <1>4, <2>1 DEF ShadowOK, readyState, LOADING
    <3>2. QED
      BY <3>1, EndingIs DEF LOADING, DONE
  <2> HIDE DEF d, t
  <2>6. clean => UpTo(log, 3)
    BY <1>1, <1>4, <1>6, <2>1 DEF LogOK
  <2>7. clean => Ordered(t) /\ \A i \in DOMAIN log, j \in DOMAIN t : Rises(log[i], t[j])
    BY <1>5, <1>6, <2>3, <2>4, <2>5, <2>6, UpToRises
  <2>8. sends = 1 => Ordered(t)
    BY <1>6, <2>3, <2>5
  <2>9. defined /\ handled'
    BY <1>1, <1>3, <2>1 DEF Prepared
  <2>10. UNCHANGED <<nativeVars, useVars, finally, defined>>
    BY <2>1, <2>2
  <2>11. QED
    BY <1>3, <2>1, <2>4, <2>7, <2>8, <2>9, <2>10, PlayEInv
<1>13. QED
  BY <1>7, <1>8, <1>10, <1>11, <1>12

LEMMA NextEInv == IInv /\ EInv /\ [Next]_vars => EInv'
<1> SUFFICES ASSUME IInv, EInv, [Next]_vars PROVE EInv'
  OBVIOUS
<1>1. CASE Application
  BY <1>1, ApplicationEInv
<1>2. CASE Network
  BY <1>2, NetworkEInv
<1>3. ASSUME NEW s \in Sends, Decide(s) \/ Perform(s)
      PROVE  EInv'
  BY <1>3, OutcomeEInv
<1>4. ASSUME NEW s \in Sends,
             Upload(s) \/ Measure(s) \/ Read(s) \/ Finalize(s) \/ StreamFails(s)
      PROVE  EInv'
  BY <1>4, PlaybackEInv
<1>5. CASE UNCHANGED vars
  BY <1>5 DEF vars, nativeVars, useVars, EInv, Prepared, ShadowOK, LogOK, AnnouncedOK, Sole
<1>6. QED
  BY <1>1, <1>2, <1>3, <1>4, <1>5 DEF Next

-----------------------------------------------------------------------------
(* The theorems about events.                                              *)

THEOREM EventInvariance == Spec => [](IInv /\ EInv)
<1>1. Init => IInv /\ EInv
  BY InitIInv, InitEInv
<1>2. IInv /\ EInv /\ [Next]_vars => (IInv /\ EInv)'
  BY NextIInv, NextEInv
<1>3. QED
  BY <1>1, <1>2, PTL DEF Spec

\* Under the same condition on send() the events of a request come in the order of the
\* standard, with one outcome and one "loadend", however the playback, finally(), the
\* network, and the application's open() and abort() interleave.
THEOREM EventsInOrder == Spec => []EventOrder
<1>1. EInv => EventOrder
  BY DEF EInv, LogOK, Ordered, Rises, EventOrder
<1>2. QED
  BY <1>1, EventInvariance, PTL

\* A response is announced at most once, as what it is, and with its whole body.
THEOREM ResponseAnnounced == Spec => []AnnouncedAsAnswered
<1>1. EInv => AnnouncedAsAnswered
  BY DEF EInv, AnnouncedOK, AnnouncedAsAnswered
<1>2. QED
  BY <1>1, EventInvariance, PTL

-----------------------------------------------------------------------------
(* No dead end.                                                            *)

\* finally() runs once the request callback has settled, and every use has been started.
CallbackFirst ==
  /\ \A s \in Sends : s <= sends => phase[s] # "idle"
  /\ \A s \in finally : phase[s] \notin {"idle", "asking", "settling"}

\* Until the last use is answered nobody has been, if send() was called as it should.
NotYetAnswered ==
  clean /\ (sends = 0 \/ phase[sends] \in {"asking", "upload", "settling", "performed"}) =>
    /\ ~defined
    /\ sends = 0 \/ phase[sends] # "upload" => ~handled

\* What the last use has ended with; open() starts over with the events.
EndedWith ==
  clean /\ sends > 0 =>
    /\ phase[sends] # "dropped"
    /\ phase[sends] = "failed" => threw \/ failed
    /\ ~opened /\ phase[sends] = "over" => "loadend" \in ToSet(log)
    /\ ~opened /\ phase[sends] = "performed" => inFlight \/ "loadend" \in ToSet(log)

DInv == CallbackFirst /\ NotYetAnswered /\ EndedWith

\* Whoever the last use waits for: a listener of "request", a body, the playback of its
\* response, finally(), or the network; and nothing keeps that one from going on.
CanGoOn ==
  \/ phase[sends] \in {"asking", "measuring", "streaming"}
  \/ phase[sends] = "upload" /\ ~defined
  \/ phase[sends] = "settling" /\ sends \notin finally
       /\ ~handled /\ native = OPENED /\ ~inFlight
  \/ inFlight
NoDeadEnd ==
  clean /\ sends > 0 /\ (opened => handled /\ phase[sends] # "over") =>
    "loadend" \in ToSet(log) \/ threw \/ failed \/ CanGoOn

LEMMA InConcat ==
  ASSUME NEW a \in Seq(Events), NEW b \in Seq(Events), NEW e
  PROVE  e \in ToSet(a) \/ e \in ToSet(b) => e \in ToSet(a \o b)
<1> DEFINE t == a \o b
           m == Len(a)
           len == Len(b)
<1>1. /\ m \in Nat /\ len \in Nat /\ DOMAIN a = 1..m /\ DOMAIN b = 1..len
      /\ DOMAIN t = 1..(m + len)
      /\ \A i \in 1..m : t[i] = a[i]
      /\ \A i \in 1..(m + len) : i > m => t[i] = b[i - m]
  OBVIOUS
<1> HIDE DEF t, m, len
<1>2. \A i \in 1..m : i \in 1..(m + len)
  BY <1>1
<1>3. \A i \in 1..len : m + i \in 1..(m + len) /\ m + i > m /\ (m + i) - m = i
  BY <1>1
<1>4. \A i \in 1..len : m + i \in 1..(m + len) /\ t[m + i] = b[i]
  BY <1>1, <1>3
<1>5. e \in ToSet(a) => e \in ToSet(t)
  BY <1>1, <1>2 DEF ToSet
<1>6. e \in ToSet(b) => e \in ToSet(t)
  BY <1>1, <1>4 DEF ToSet
<1>7. QED
  BY <1>5, <1>6 DEF t

\* A playback that goes to the end of a use dispatches "loadend".
LEMMA LoadendComes ==
  /\ "loadend" \in ToSet(Transition("done") \o <<"error", "loadend">>)
  /\ \A state : "loadend" \in ToSet(Ending(state))
  /\ "loadend" \in ToSet(Headers \o Ending(LOADING))
  /\ \A e \in {"load", "error", "abort"} : "loadend" \in ToSet(<<"done", e, "loadend">>)
<1>1. ASSUME NEW e \in {"load", "error"}
      PROVE  <<e, "loadend">> \in Seq(Events) /\ "loadend" \in ToSet(<<e, "loadend">>)
  <2>1. e \in Events /\ "loadend" \in Events
    BY DEF Events
  <2>2. DOMAIN <<e, "loadend">> = {1, 2} /\ <<e, "loadend">>[2] = "loadend"
    OBVIOUS
  <2>3. QED
    BY <2>1, <2>2 DEF ToSet
<1>2. Transition("done") \in Seq(Events)
  BY TransitionType DEF StateEvents
<1>3. "loadend" \in ToSet(Transition("done") \o <<"error", "loadend">>)
  BY <1>1, <1>2, InConcat
<1>4. ASSUME NEW state PROVE "loadend" \in ToSet(Ending(state))
  <2> DEFINE first == IF state = DONE THEN <<>> ELSE <<"done">>
  <2>1. <<>> \in Seq(Events) /\ <<"done">> \in Seq(Events)
    BY DEF Events, StateEvents
  <2>2. first \in Seq(Events)
    BY <2>1
  <2> HIDE DEF first
  <2>3. "loadend" \in ToSet(first \o <<"load", "loadend">>)
    BY <1>1, <2>2, InConcat
  <2>4. QED
    BY <2>3 DEF Ending, first
<1>5. "loadend" \in ToSet(Headers \o Ending(LOADING))
  BY <1>4, PlaybackTypes, InConcat
<1>6. ASSUME NEW e \in {"load", "error", "abort"}
      PROVE  "loadend" \in ToSet(<<"done", e, "loadend">>)
  <2>1. DOMAIN <<"done", e, "loadend">> = {1, 2, 3} /\ <<"done", e, "loadend">>[3] = "loadend"
    OBVIOUS
  <2>2. QED
    BY <2>1 DEF ToSet
<1>7. QED
  BY <1>3, <1>4, <1>5, <1>6

LEMMA InitDInv == Init => DInv
<1> SUFFICES ASSUME Init PROVE DInv
  OBVIOUS
<1>1. /\ sends = 0 /\ finally = {} /\ ~handled /\ ~defined
  BY DEF Init
<1>2. CallbackFirst
  BY <1>1, MaxSendsAssumption DEF CallbackFirst, Sends
<1>3. NotYetAnswered /\ EndedWith
  BY <1>1 DEF NotYetAnswered, EndedWith
<1>4. QED
  BY <1>2, <1>3 DEF DInv

\* A playback goes on, or ends with "loadend", or a listener throws.
LEMMA PlayDInv ==
  ASSUME IInv, EInv, DInv, NEW s \in Sends, NEW events \in Seq(Events),
         NEW next \in {"streaming", "over"}, Play(s, events, next),
         phase[s] \in {"asking", "measuring", "streaming"},
         next = "over" => "loadend" \in ToSet(events),
         UNCHANGED <<nativeVars, useVars, finally, failed>>
  PROVE  DInv'
<1>1. CallbackFirst /\ NotYetAnswered /\ EndedWith /\ TypeOK
  BY DEF DInv, IInv
<1>2. /\ s <= sends /\ sends > 0 /\ sends \in Nat /\ phase \in [Sends -> Phases]
      /\ clean => s = sends /\ native = OPENED /\ ~inFlight
  BY CurrentUse
<1>3. PICK p \in {next, "failed"} :
        /\ phase' = [phase EXCEPT ![s] = p]
        /\ p = "failed" => threw'
        /\ p = next => log' = log \o events
  BY DEF Play, Trigger
<1>4. phase'[s] = p /\ \A u \in Sends : u # s => phase'[u] = phase[u]
  BY <1>2, <1>3
<1>5. p \in {"streaming", "over", "failed"} /\ (p = "over" => next = "over")
  BY <1>3
<1>6. /\ inFlight' = inFlight /\ opened' = opened /\ sends' = sends /\ clean' = clean
      /\ finally' = finally
  BY DEF nativeVars, useVars
<1>7. CallbackFirst'
  BY <1>1, <1>4, <1>5, <1>6 DEF CallbackFirst, TypeOK
<1>8. NotYetAnswered'
  BY <1>2, <1>4, <1>5, <1>6 DEF NotYetAnswered
<1>9. EndedWith'
  <2> SUFFICES ASSUME clean PROVE EndedWith'
    BY <1>6 DEF EndedWith
  <2>1. phase'[sends] = p
    BY <1>2, <1>4
  <2>2. p = "over" => "loadend" \in ToSet(log')
    <3>1. log \in Seq(Events)
      BY <1>1 DEF TypeOK
    <3>2. QED
      BY <1>3, <1>5, <3>1, InConcat
  <2>3. QED
    BY <1>3, <1>5, <1>6, <2>1, <2>2 DEF EndedWith
<1>10. QED
  BY <1>7, <1>8, <1>9 DEF DInv

\* A step of a request that nobody sees.
LEMMA SilentDInv ==
  ASSUME IInv, EInv, DInv, NEW s \in Sends, NEW p \in Phases \ {"idle", "performed"},
         phase[s] \notin {"idle", "performed"}, phase' = [phase EXCEPT ![s] = p],
         p \in {"asking", "settling"} => s \notin finally',
         \A u \in finally' : u \in finally \/ u = s,
         clean => /\ p # "dropped" /\ (p = "failed" => threw' \/ failed')
                  /\ p = "over" => phase[s] = "over"
                  /\ p \in {"asking", "upload", "settling"} => ~defined'
                  /\ p \in {"asking", "settling"} => ~handled',
         UNCHANGED <<nativeVars, useVars, log>>
  PROVE  DInv'
<1>1. CallbackFirst /\ NotYetAnswered /\ EndedWith /\ TypeOK
  BY DEF DInv, IInv
<1>2. /\ s <= sends /\ sends > 0 /\ sends \in Nat /\ phase \in [Sends -> Phases]
      /\ clean => s = sends /\ native = OPENED /\ ~inFlight
  BY CurrentUse
<1>3. phase'[s] = p /\ \A u \in Sends : u # s => phase'[u] = phase[u]
  BY <1>2
<1>4. /\ inFlight' = inFlight /\ opened' = opened /\ sends' = sends /\ clean' = clean
      /\ log' = log
  BY DEF nativeVars, useVars
<1>5. CallbackFirst'
  BY <1>1, <1>3, <1>4 DEF CallbackFirst, TypeOK
<1>6. NotYetAnswered'
  BY <1>2, <1>3, <1>4 DEF NotYetAnswered
<1>7. EndedWith'
  BY <1>1, <1>2, <1>3, <1>4 DEF EndedWith
<1>8. QED
  BY <1>5, <1>6, <1>7 DEF DInv

LEMMA NetworkDInv ==
  ASSUME IInv, EInv, DInv, Network
  PROVE  DInv'
<1>1. CallbackFirst /\ NotYetAnswered /\ EndedWith /\ TypeOK
  BY DEF DInv, IInv
<1>2. log \in Seq(Events)
  BY <1>1 DEF TypeOK
<1>3. PICK events \in Seq(Events), state \in {HEADERS_RECEIVED, LOADING, DONE} :
        /\ NativeEvents(events, state)
        /\ state = DONE => "loadend" \in ToSet(events)
  <2>1. /\ <<"headers">> \in Seq(Events) /\ <<"loading", "progress">> \in Seq(Events)
        /\ <<"done", "load", "loadend">> \in Seq(Events)
        /\ <<"done", "error", "loadend">> \in Seq(Events)
    BY DEF Events, StateEvents
  <2>2. HEADERS_RECEIVED # DONE /\ LOADING # DONE
    BY DEF HEADERS_RECEIVED, LOADING, DONE
  <2>3. CASE NativeHeaders
    BY <2>1, <2>2, <2>3 DEF NativeHeaders
  <2>4. CASE NativeBody
    BY <2>1, <2>2, <2>4 DEF NativeBody
  <2>5. CASE NativeLoad
    BY <2>1, <2>5, LoadendComes DEF NativeLoad
  <2>6. CASE NativeFails
    BY <2>1, <2>6, LoadendComes DEF NativeFails
  <2>7. QED
    BY <2>3, <2>4, <2>5, <2>6 DEF Network, NativeEnds
<1>4. /\ phase' = phase /\ finally' = finally /\ opened' = opened /\ sends' = sends
      /\ clean' = clean /\ (inFlight' <=> state # DONE) /\ log' = log \o events
  BY <1>3 DEF NativeEvents, useVars
<1>5. /\ defined' = defined /\ handled' = handled
  BY <1>3 DEF NativeEvents
<1>6. threw' = threw /\ failed' = failed
  BY <1>3 DEF NativeEvents
<1>7. CallbackFirst' /\ NotYetAnswered'
  BY <1>1, <1>4, <1>5 DEF CallbackFirst, NotYetAnswered
<1>8. "loadend" \in ToSet(log) => "loadend" \in ToSet(log')
  BY <1>2, <1>4, InConcat
<1>9. state = DONE => "loadend" \in ToSet(log')
  BY <1>2, <1>3, <1>4, InConcat
<1>10. EndedWith'
  BY <1>1, <1>4, <1>6, <1>8, <1>9 DEF EndedWith
<1>11. QED
  BY <1>7, <1>10 DEF DInv

LEMMA ApplicationDInv ==
  ASSUME IInv, EInv, DInv, Application
  PROVE  DInv'
<1>1. /\ CallbackFirst /\ NotYetAnswered /\ EndedWith
      /\ TypeOK /\ Marked /\ UsesInOrder
  BY DEF DInv, IInv
<1>2. /\ phase \in [Sends -> Phases] /\ sends \in Nat /\ (sends > 0 => sends \in Sends)
      /\ log \in Seq(Events) /\ finally \subseteq Sends
  BY <1>1, MaxSendsAssumption DEF TypeOK, Sends
<1>3. CASE Open
  <2>1. /\ phase' = phase /\ finally' = finally /\ sends' = sends /\ opened'
        /\ clean' = clean
    BY <1>3 DEF Open
  <2>2. defined' = defined /\ handled' = handled
    BY <1>3 DEF Open
  <2>3. threw' = threw /\ failed' = failed
    BY <1>3 DEF Open
  <2>4. CallbackFirst' /\ NotYetAnswered'
    BY <1>1, <2>1, <2>2 DEF CallbackFirst, NotYetAnswered
  <2>5. EndedWith'
    BY <1>1, <2>1, <2>3 DEF EndedWith
  <2>6. QED
    BY <2>4, <2>5 DEF DInv
<1>4. CASE Send
  <2>1. /\ finally' = finally /\ sends < MaxSends /\ sends' = sends + 1
        /\ phase' = [phase EXCEPT ![sends + 1] = "asking"]
        /\ clean' => ~handled
    BY <1>4 DEF Send, AllPerformed
  <2>2. defined' = defined /\ handled' = handled
    BY <1>4 DEF Send
  <2>3. sends + 1 \in Sends /\ sends + 1 > sends
    BY <1>2, <2>1, MaxSendsAssumption DEF Sends
  <2>4. phase'[sends + 1] = "asking" /\ \A s \in Sends : s # sends + 1 => phase'[s] = phase[s]
    BY <1>2, <2>1, <2>3
  <2>5. sends + 1 \notin finally
    BY <1>1, <2>3 DEF UsesInOrder, CallbackFirst
  <2>6. CallbackFirst'
    <3>1. \A s \in Sends : s <= sends + 1 /\ s # sends + 1 => s <= sends
      BY <1>2 DEF Sends
    <3>2. QED
      BY <1>1, <1>2, <2>1, <2>4, <2>5, <3>1 DEF CallbackFirst
  <2>7. NotYetAnswered'
    <3>1. clean' => ~defined /\ ~handled
      BY <1>1, <2>1 DEF Marked
    <3>2. QED
      BY <2>2, <3>1 DEF NotYetAnswered
  <2>8. EndedWith'
    BY <2>1, <2>4 DEF EndedWith
  <2>9. QED
    BY <2>6, <2>7, <2>8 DEF DInv
<1>5. CASE Abort
  <2>1. /\ phase' = phase /\ finally' = finally /\ opened' = opened /\ sends' = sends
        /\ clean' = clean /\ ~inFlight'
        /\ log' = IF inFlight THEN log \o <<"done", "abort", "loadend">> ELSE log
    BY <1>5 DEF Abort, useVars
  <2>2. defined' = defined /\ handled' = handled
    BY <1>5 DEF Abort
  <2>3. threw' = threw /\ failed' = failed
    BY <1>5 DEF Abort
  <2>4. CallbackFirst' /\ NotYetAnswered'
    BY <1>1, <2>1, <2>2 DEF CallbackFirst, NotYetAnswered
  <2>5. inFlight => "loadend" \in ToSet(log')
    <3>1. <<"done", "abort", "loadend">> \in Seq(Events)
      BY DoneFirst
    <3>2. QED
      BY <1>2, <2>1, <3>1, LoadendComes, InConcat
  <2>6. EndedWith'
    BY <1>1, <2>1, <2>3, <2>5 DEF EndedWith
  <2>7. QED
    BY <2>4, <2>6 DEF DInv
<1>6. QED
  BY <1>3, <1>4, <1>5 DEF Application

LEMMA OutcomeDInv ==
  ASSUME IInv, EInv, DInv, NEW s \in Sends, Decide(s) \/ Perform(s)
  PROVE  DInv'
<1>1. /\ CallbackFirst /\ NotYetAnswered /\ EndedWith
      /\ TypeOK /\ Marked /\ Prepared
  BY DEF DInv, IInv, EInv
<1>2. phase[s] \notin {"idle", "performed"}
  BY DEF Decide, Respond, ErrorWith, NotAnswered, Perform, Settled
<1>3. /\ s <= sends /\ sends > 0 /\ sends \in Nat /\ phase \in [Sends -> Phases]
      /\ clean => s = sends /\ native = OPENED /\ ~inFlight
  BY <1>2, CurrentUse
<1>4. {"upload", "settling", "dropped", "failed"} \subseteq Phases \ {"idle", "performed"}
  BY DEF Phases
<1>5. CASE Respond(s)
  <2>1. /\ phase[s] = "asking" /\ phase' = [phase EXCEPT ![s] = "upload"]
        /\ finally' = finally /\ UNCHANGED <<nativeVars, useVars, log>>
    BY <1>5 DEF Respond
  <2>2. defined' = defined
    BY <1>5 DEF Respond
  <2>3. clean => ~defined'
    BY <1>1, <1>3, <2>1, <2>2 DEF NotYetAnswered
  <2>4. s \notin finally'
    BY <1>1, <2>1 DEF CallbackFirst
  <2>5. QED
    BY <1>4, <2>1, <2>3, <2>4, SilentDInv
<1>6. CASE NotAnswered(s)
  <2>1. /\ phase[s] = "asking" /\ phase' = [phase EXCEPT ![s] = "settling"]
        /\ finally' = finally /\ UNCHANGED <<nativeVars, useVars, log>>
    BY <1>6 DEF NotAnswered
  <2>2. defined' = defined /\ handled' = handled
    BY <1>6 DEF NotAnswered
  <2>3. clean => ~defined' /\ ~handled'
    BY <1>1, <1>3, <2>1, <2>2 DEF NotYetAnswered
  <2>4. s \notin finally'
    BY <1>1, <2>1 DEF CallbackFirst
  <2>5. QED
    BY <1>4, <2>1, <2>3, <2>4, SilentDInv
<1>7. CASE ErrorWith(s)
  <2> DEFINE t == Transition("done") \o <<"error", "loadend">>
  <2>1. /\ phase[s] = "asking" /\ Play(s, t, "over")
        /\ UNCHANGED <<nativeVars, useVars, finally, failed>>
    BY <1>7 DEF ErrorWith
  <2>2. t \in Seq(Events) /\ "loadend" \in ToSet(t)
    BY PlaybackTypes, LoadendComes
  <2> HIDE DEF t
  <2>3. QED
    BY <2>1, <2>2, PlayDInv
<1>8. CASE Perform(s)
  <2>1. /\ s \notin finally /\ finally' = finally \cup {s}
        /\ phase[s] \in {"settling", "upload", "measuring", "streaming", "over", "failed"}
        /\ native' = native /\ opened' = opened /\ sends' = sends /\ clean' = clean
    BY <1>8 DEF Perform, Settled, useVars
  <2>2. defined' = defined /\ handled' = handled
    BY <1>8 DEF Perform
  <2>3. threw' = threw /\ failed' = failed
    BY <1>8 DEF Perform
  <2>4. clean /\ phase[s] = "settling" => ~handled /\ ~defined
    BY <1>1, <1>3 DEF NotYetAnswered
  <2>5. clean /\ phase[s] = "failed" => threw \/ failed
    BY <1>1, <1>3 DEF EndedWith
  <2>6. \A u \in finally' : u \in finally \/ u = s
    BY <2>1
  <2>7. ASSUME NEW p \in {phase[s], "dropped", "failed"},
               phase' = [phase EXCEPT ![s] = p],
               p # "settling", ~clean \/ p = phase[s],
               UNCHANGED <<inFlight, log>>
        PROVE  DInv'
    <3>1. UNCHANGED <<nativeVars, useVars, log>>
      BY <2>1, <2>7 DEF nativeVars, useVars
    <3>2. p \in Phases \ {"idle", "performed"}
      BY <1>2, <1>3, <1>4, <2>7
    <3>3. p \notin {"asking", "settling"}
      BY <2>1, <2>7
    <3>4. clean => /\ p # "dropped" /\ (p = "failed" => threw' \/ failed')
                   /\ p = "over" => phase[s] = "over"
                   /\ p = "upload" => ~defined'
      BY <1>1, <1>3, <2>1, <2>2, <2>3, <2>5, <2>7 DEF NotYetAnswered
    <3>5. QED
      BY <1>2, <2>6, <2>7, <3>1, <3>2, <3>3, <3>4, SilentDInv
  <2>8. CASE /\ handled
             /\ phase' = [phase EXCEPT ![s] = IF @ = "settling" THEN "dropped" ELSE @]
             /\ UNCHANGED <<inFlight, log>>
    <3>1. CASE phase[s] = "settling"
      <4>1. ~clean /\ phase' = [phase EXCEPT ![s] = "dropped"]
        BY <2>4, <2>8, <3>1
      <4>2. QED
        BY <2>7, <2>8, <4>1
    <3>2. CASE phase[s] # "settling"
      <4>1. phase' = [phase EXCEPT ![s] = phase[s]]
        BY <2>8, <3>2
      <4>2. QED
        BY <2>7, <2>8, <3>2, <4>1
    <3>3. QED
      BY <3>1, <3>2
  <2>9. CASE /\ native # OPENED \/ inFlight
             /\ phase' = [phase EXCEPT ![s] = "failed"]
             /\ UNCHANGED <<inFlight, log>>
    BY <1>3, <2>7, <2>9
  <2>10. CASE /\ ~handled
              /\ phase' = [phase EXCEPT ![s] = "performed"]
              /\ inFlight' = TRUE
    <3>1. phase[s] = "settling"
      BY <1>1, <2>1, <2>10 DEF Prepared, Marked, Answering
    <3>2. phase'[s] = "performed" /\ \A u \in Sends : u # s => phase'[u] = phase[u]
      BY <1>3, <2>10
    <3>3. CallbackFirst'
      BY <1>1, <2>1, <3>2 DEF CallbackFirst, TypeOK
    <3>4. NotYetAnswered'
      BY <1>3, <2>1, <2>2, <2>4, <3>1 DEF NotYetAnswered
    <3>5. EndedWith'
      <4> SUFFICES ASSUME clean PROVE EndedWith'
        BY <2>1 DEF EndedWith
      <4>1. phase'[sends] = "performed" /\ inFlight'
        BY <1>3, <2>10, <3>2
      <4>2. QED
        BY <2>1, <4>1 DEF EndedWith
    <3>6. QED
      BY <3>3, <3>4, <3>5 DEF DInv
  <2>11. QED
    BY <1>8, <2>8, <2>9, <2>10 DEF Perform
<1>9. QED
  BY <1>5, <1>6, <1>7, <1>8 DEF Decide

LEMMA PlaybackDInv ==
  ASSUME IInv, EInv, DInv, NEW s \in Sends,
         Upload(s) \/ Measure(s) \/ Read(s) \/ Finalize(s) \/ StreamFails(s)
  PROVE  DInv'
<1>1. /\ CallbackFirst /\ NotYetAnswered /\ EndedWith
  BY DEF DInv
<1>2. phase[s] \in Answering /\ phase[s] \notin {"idle", "performed"}
  BY DEF Upload, Measure, Read, Finalize, StreamFails, Answering
<1>3. clean => s = sends
  BY <1>2, CurrentUse
<1>4. {"measuring", "failed"} \subseteq Phases \ {"idle", "performed"}
  BY DEF Phases
<1>5. CASE Upload(s)
  <2>1. /\ phase[s] = "upload" /\ finally' = finally
        /\ UNCHANGED <<nativeVars, useVars, log>>
    BY <1>5 DEF Upload
  <2>2. clean => ~defined
    BY <1>1, <1>3, <2>1, CurrentUse DEF NotYetAnswered
  <2>3. PICK p \in {"measuring", "failed"} :
          /\ phase' = [phase EXCEPT ![s] = p]
          /\ p = "failed" => defined \/ threw'
    BY <1>5 DEF Upload
  <2>4. clean /\ p = "failed" => threw'
    BY <2>2, <2>3
  <2>5. QED
    BY <1>2, <1>4, <2>1, <2>3, <2>4, SilentDInv
<1>6. CASE StreamFails(s)
  <2>1. /\ phase' = [phase EXCEPT ![s] = "failed"] /\ finally' = finally
        /\ failed' /\ UNCHANGED <<nativeVars, useVars, log>>
    BY <1>6 DEF StreamFails
  <2>2. QED
    BY <1>2, <1>4, <2>1, SilentDInv
<1>7. CASE Measure(s) \/ Read(s) \/ Finalize(s)
  <2>1. /\ phase[s] \in {"measuring", "streaming"}
        /\ UNCHANGED <<nativeVars, useVars, finally, failed>>
    BY <1>7 DEF Measure, Read, Finalize
  <2>2. Headers \o Ending(LOADING) \in Seq(Events)
    BY PlaybackTypes, ConcatType
  <2>3. PICK events \in Seq(Events), next \in {"streaming", "over"} :
          Play(s, events, next) /\ (next = "over" => "loadend" \in ToSet(events))
    BY <1>7, <2>2, PlaybackTypes, LoadendComes DEF Measure, Read, Finalize
  <2>4. QED
    BY <2>1, <2>3, PlayDInv
<1>8. QED
  BY <1>5, <1>6, <1>7

LEMMA NextDInv == IInv /\ EInv /\ DInv /\ [Next]_vars => DInv'
<1> SUFFICES ASSUME IInv, EInv, DInv, [Next]_vars PROVE DInv'
  OBVIOUS
<1>1. CASE Application
  BY <1>1, ApplicationDInv
<1>2. CASE Network
  BY <1>2, NetworkDInv
<1>3. ASSUME NEW s \in Sends, Decide(s) \/ Perform(s)
      PROVE  DInv'
  BY <1>3, OutcomeDInv
<1>4. ASSUME NEW s \in Sends,
             Upload(s) \/ Measure(s) \/ Read(s) \/ Finalize(s) \/ StreamFails(s)
      PROVE  DInv'
  BY <1>4, PlaybackDInv
<1>5. CASE UNCHANGED vars
  BY <1>5 DEF vars, nativeVars, useVars, DInv, CallbackFirst, NotYetAnswered, EndedWith
<1>6. QED
  BY <1>1, <1>2, <1>3, <1>4, <1>5 DEF Next

\* The safe half of EverySendEnds, and under its condition: as long as a request has
\* not had its "loadend", no listener has thrown, no stream has failed, and open() has
\* not ended it before an answer, somebody can still take it further.
THEOREM NobodyWaitsInVain == Spec => []NoDeadEnd
<1>1. Init => IInv /\ EInv /\ DInv
  BY InitIInv, InitEInv, InitDInv
<1>2. IInv /\ EInv /\ DInv /\ [Next]_vars => (IInv /\ EInv /\ DInv)'
  BY NextIInv, NextEInv, NextDInv
<1>3. IInv /\ DInv => NoDeadEnd
  <2> SUFFICES ASSUME IInv, DInv, clean, sends > 0,
                      opened => handled /\ phase[sends] # "over"
               PROVE
        "loadend" \in ToSet(log) \/ threw \/ failed \/ CanGoOn
    BY DEF NoDeadEnd
  <2>1. TypeOK /\ LastUse /\ CallbackFirst /\ NotYetAnswered /\ EndedWith
    BY DEF IInv, DInv
  <2>2. sends \in Sends /\ sends \in Nat /\ phase[sends] \in Phases
    BY <2>1, MaxSendsAssumption DEF TypeOK, Sends
  <2>3. phase[sends] # "idle"
    BY <2>1, <2>2 DEF CallbackFirst
  <2>4. phase[sends] # "performed" => native = OPENED /\ ~inFlight
    BY <2>1 DEF LastUse
  <2>5. phase[sends] = "settling" => sends \notin finally /\ ~handled
    BY <2>1 DEF CallbackFirst, NotYetAnswered
  <2>6. phase[sends] = "upload" => ~defined
    BY <2>1 DEF NotYetAnswered
  <2>7. phase[sends] \in {"over", "performed"} => ~opened
    BY <2>1 DEF LastUse
  <2>8. QED
    BY <2>1, <2>2, <2>3, <2>4, <2>5, <2>6, <2>7 DEF EndedWith, CanGoOn, Phases
<1>4. QED
  BY <1>1, <1>2, <1>3, PTL DEF Spec
=============================================================================
