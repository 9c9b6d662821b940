---------------------------- MODULE EventsProofs ----------------------------
(***************************************************************************)
(* Proofs about Events for any number of connections, any buffer sizes and *)
(* any registered streams: the types, that no event is sent on a closed    *)
(* channel, that events arrive in the order they were broadcast, and that  *)
(* a request's answer goes to the program that waits for it.               *)
(*                                                                         *)
(* The last two are not inductive.  Ordered adds that no number is above   *)
(* the events broadcast so far and speaks of socket and channel apart;     *)
(* Matched adds where a request that is not yet answered can come from.    *)
(***************************************************************************)
EXTENDS Events, SequenceTheorems, FiniteSetTheorems, TLAPS

(* A non-empty sequence without its first element *)
LEMMA Rest ==
    ASSUME NEW S, NEW s \in Seq(S), s # <<>>
    PROVE  /\ Head(s) \in S /\ Head(s) = s[1] /\ 1 \in DOMAIN s
           /\ Tail(s) \in Seq(S) /\ Len(Tail(s)) = Len(s) - 1
           /\ Len(s) \in Nat \ {0} /\ DOMAIN s = 1 .. Len(s)
           /\ DOMAIN Tail(s) = 1 .. Len(s) - 1
           /\ \A i \in 1 .. Len(s) - 1 : Tail(s)[i] = s[i + 1] /\ i + 1 \in DOMAIN s
  <1>1. Len(s) \in Nat \ {0} /\ DOMAIN s = 1 .. Len(s)
    BY EmptySeq, LenProperties
  <1>2. /\ Head(s) \in S /\ Head(s) = s[1]
        /\ Tail(s) \in Seq(S) /\ Len(Tail(s)) = Len(s) - 1
        /\ \A i \in 1 .. Len(s) - 1 : Tail(s)[i] = s[i + 1]
    BY HeadTailProperties
  <1>3. DOMAIN Tail(s) = 1 .. Len(s) - 1
    BY <1>2, LenProperties
  <1> QED BY <1>1, <1>2, <1>3

(* A sequence with one more element *)
LEMMA Longer ==
    ASSUME NEW S, NEW s \in Seq(S), NEW e \in S
    PROVE  /\ Append(s, e) \in Seq(S) /\ Len(Append(s, e)) = Len(s) + 1 /\ Len(s) \in Nat
           /\ DOMAIN s = 1 .. Len(s) /\ DOMAIN Append(s, e) = 1 .. Len(s) + 1
           /\ \A i \in 1 .. Len(s) : Append(s, e)[i] = s[i]
           /\ Append(s, e)[Len(s) + 1] = e
  <1>1. Len(s) \in Nat /\ DOMAIN s = 1 .. Len(s)
    BY LenProperties
  <1>2. /\ Append(s, e) \in Seq(S) /\ Len(Append(s, e)) = Len(s) + 1
        /\ \A i \in 1 .. Len(s) : Append(s, e)[i] = s[i]
        /\ Append(s, e)[Len(s) + 1] = e
    BY AppendProperties
  <1>3. DOMAIN Append(s, e) = 1 .. Len(s) + 1
    BY <1>2, LenProperties
  <1> QED BY <1>1, <1>2, <1>3

-----------------------------------------------------------------------------
(* The types, part by part: the hub's sets and the daemon's state, the buffers, and
   the programs at both ends. *)
HubTyped ==
    /\ clients \subseteq watch /\ watch \subseteq Conns /\ open \subseteq Conns
    /\ up \in BOOLEAN /\ shut \in BOOLEAN /\ sent \in 0 .. MaxEvents

Buffers ==
    /\ chan \in [Conns -> Seq(1 .. MaxEvents)] /\ \A c \in Conns : Len(chan[c]) <= Cap
    /\ wire \in [Conns -> Seq(Frames)] /\ \A c \in Conns : Len(wire[c]) <= WireCap

EndsTyped ==
    /\ serve \in [Conns -> {"read", "stream", "gone"}]
    /\ inbox \in [Conns -> Methods \cup {"none"}]
    /\ far \in [Conns -> Ends] /\ got \in [Conns -> 0 .. MaxEvents]
    /\ port \in Conns \cup {None} /\ pipe \in 0 .. posts /\ posts \in 0 .. MaxPosts

Typed == HubTyped /\ Buffers /\ EndsTyped

LEMMA TypedInit == Init => Typed
  <1> SUFFICES ASSUME Init PROVE Typed
    OBVIOUS
  <1>1. HubTyped
    <2>1. 0 \in 0 .. MaxEvents
      BY EventConstants
    <2> QED BY <2>1, Zenon DEF Init, HubTyped
  <1>2. Buffers
    <2>1. <<>> \in Seq(1 .. MaxEvents) /\ <<>> \in Seq(Frames) /\ Len(<<>>) = 0
      OBVIOUS
    <2>2. Len(<<>>) <= Cap /\ Len(<<>>) <= WireCap
      BY <2>1, EventConstants
    <2> QED BY <2>1, <2>2 DEF Init, Buffers
  <1>3. EndsTyped
    BY EventConstants DEF Init, EndsTyped, Ends, Methods
  <1> QED BY <1>1, <1>2, <1>3 DEF Typed

LEMMA HubStep == HubTyped /\ [Next]_vars => HubTyped'
  <1> SUFFICES ASSUME HubTyped, [Next]_vars PROVE HubTyped'
    OBVIOUS
  <1> USE EventConstants DEF HubTyped
  <1>1. CASE UNCHANGED <<clients, open, watch, daemon>>
    BY <1>1 DEF daemon
  <1>2. CASE UNCHANGED vars \/ Disconnected
    BY <1>1, <1>2 DEF vars, hub, Disconnected
  <1>3. CASE Broadcast
    BY <1>3 DEF Broadcast
  <1>4. CASE Shutdown
    BY <1>4 DEF Shutdown, hub
  <1>5. CASE End
    BY <1>5 DEF End
  <1>6. ASSUME NEW c \in Conns, Subscribe(c) \/ Unregister(c) PROVE HubTyped'
    BY <1>6 DEF Subscribe, Unregister, daemon
  <1>7. ASSUME NEW c \in Conns, EnsurePort(c) \/ Post(c) \/ \E m \in Methods : Call(c, m) \/ Ask(m)
        PROVE  UNCHANGED <<clients, open, watch, daemon>>
    BY <1>7 DEF EnsurePort, Post, Call, Ask, hub
  <1>8. ASSUME NEW c \in Conns, Forward(c) \/ Closed(c) \/ HangUp(c) \/ Answer(c) \/ Deliver(c)
                                \/ StreamEnds(c) \/ ReadEnds(c)
        PROVE  UNCHANGED <<clients, open, watch, daemon>>
    BY <1>8 DEF Forward, Closed, HangUp, Answer, Deliver, StreamEnds, ReadEnds, hub
  <1>9. ASSUME NEW m \in Methods, Ask(m) PROVE UNCHANGED <<clients, open, watch, daemon>>
    BY <1>9 DEF Ask, hub
  <1> QED BY <1>1, <1>2, <1>3, <1>4, <1>5, <1>6, <1>7, <1>8, <1>9 DEF Next, Serve

LEMMA BuffersStep == Typed /\ [Next]_vars => Buffers'
  <1> SUFFICES ASSUME Typed, [Next]_vars PROVE Buffers'
    OBVIOUS
  <1>0. /\ Cap \in Nat \ {0} /\ WireCap \in Nat \ {0} /\ MaxEvents \in Nat
        /\ chan \in [Conns -> Seq(1 .. MaxEvents)] /\ \A c \in Conns : Len(chan[c]) <= Cap
        /\ wire \in [Conns -> Seq(Frames)] /\ \A c \in Conns : Len(wire[c]) <= WireCap
        /\ \A c \in Conns : Len(chan[c]) \in Nat /\ Len(wire[c]) \in Nat
    BY EventConstants DEF Typed, Buffers
  <1>e. /\ <<>> \in Seq(1 .. MaxEvents) /\ <<>> \in Seq(Frames)
        /\ Len(<<>>) <= Cap /\ Len(<<>>) <= WireCap
    <2>1. <<>> \in Seq(1 .. MaxEvents) /\ <<>> \in Seq(Frames) /\ Len(<<>>) = 0
      OBVIOUS
    <2> QED BY <1>0, <2>1
  <1>1. CASE UNCHANGED <<chan, wire>>
    BY <1>0, <1>1 DEF Buffers
  <1>2. ASSUME NEW c \in Conns, UNCHANGED chan, NEW w \in Seq(Frames), Len(w) <= WireCap,
               wire' = [wire EXCEPT ![c] = w]
        PROVE  Buffers'
    BY <1>0, <1>2 DEF Buffers
  <1>3. ASSUME NEW c \in Conns, UNCHANGED wire, NEW b \in Seq(1 .. MaxEvents), Len(b) <= Cap,
               chan' = [chan EXCEPT ![c] = b]
        PROVE  Buffers'
    BY <1>0, <1>3 DEF Buffers
  <1>4. ASSUME NEW c \in Conns, NEW frame \in Frames, CanWrite(c), Write(c, frame)
        PROVE  wire' = wire \/ \E w \in Seq(Frames) : Len(w) <= WireCap /\ wire' = [wire EXCEPT ![c] = w]
    <2>1. CASE far[c] = "gone"
      BY <1>4, <2>1 DEF Write
    <2>2. CASE far[c] # "gone"
      <3>1. Len(wire[c]) < WireCap /\ wire' = [wire EXCEPT ![c] = Append(wire[c], frame)]
        BY <1>4, <2>2 DEF Write, CanWrite
      <3>2. Append(wire[c], frame) \in Seq(Frames) /\ Len(Append(wire[c], frame)) = Len(wire[c]) + 1
        BY <1>0, Longer
      <3> DEFINE w == Append(wire[c], frame)
      <3> HIDE DEF w
      <3>3. w \in Seq(Frames) /\ Len(w) <= WireCap /\ wire' = [wire EXCEPT ![c] = w]
        <4>1. Len(wire[c]) + 1 <= WireCap
          BY <1>0, <3>1
        <4> QED BY <3>1, <3>2, <4>1 DEF w
      <3> QED BY <3>3
    <2> QED BY <2>1, <2>2
  <1>5. ASSUME NEW c \in Conns, Forward(c) PROVE Buffers'
    <2>1. wire[c] # <<>> /\ wire' = [wire EXCEPT ![c] = Tail(wire[c])] /\ UNCHANGED chan
      BY <1>5 DEF Forward, hub
    <2>2. Tail(wire[c]) \in Seq(Frames) /\ Len(Tail(wire[c])) <= WireCap
      BY <1>0, <2>1, Rest
    <2> QED BY <1>2, <2>1, <2>2
  <1>6. ASSUME NEW c \in Conns, HangUp(c) PROVE Buffers'
    BY <1>0, <1>e, <1>2, <1>6 DEF HangUp, hub
  <1>7. ASSUME NEW c \in Conns, Answer(c) PROVE Buffers'
    <2>1. UNCHANGED chan /\ CanWrite(c)
          /\ Write(c, IF inbox[c] \in Handlers THEN OkFrame ELSE ErrorFrame)
      BY <1>7 DEF Answer, hub
    <2>2. OkFrame \in Frames /\ ErrorFrame \in Frames
      BY DEF Frames
    <2> QED BY <1>1, <1>2, <1>4, <2>1, <2>2
  <1>8. ASSUME NEW c \in Conns, Subscribe(c) PROVE Buffers'
    BY <1>0, <1>e, <1>3, <1>8 DEF Subscribe
  <1>9. ASSUME NEW c \in Conns, Deliver(c) PROVE Buffers'
    <2>1. /\ chan[c] # <<>> /\ chan' = [chan EXCEPT ![c] = Tail(chan[c])]
          /\ CanWrite(c) /\ Write(c, Head(chan[c]))
      BY <1>9 DEF Deliver
    <2>2. /\ Head(chan[c]) \in Frames
          /\ Tail(chan[c]) \in Seq(1 .. MaxEvents) /\ Len(Tail(chan[c])) <= Cap
      BY <1>0, <2>1, Rest DEF Frames
    <2>3. /\ chan' \in [Conns -> Seq(1 .. MaxEvents)] /\ \A d \in Conns : Len(chan'[d]) <= Cap
      BY <1>0, <2>1, <2>2
    <2>4. /\ wire' \in [Conns -> Seq(Frames)] /\ \A d \in Conns : Len(wire'[d]) <= WireCap
      BY <1>0, <1>4, <2>1, <2>2
    <2> QED BY <2>3, <2>4 DEF Buffers
  <1>10. CASE Broadcast
    <2>1. UNCHANGED wire /\ sent + 1 \in 1 .. MaxEvents
      BY <1>0, <1>10 DEF Broadcast, Typed, HubTyped
    <2>2. ASSUME NEW c \in Conns
          PROVE  /\ chan'[c] \in Seq(1 .. MaxEvents) /\ Len(chan'[c]) <= Cap
      <3>1. /\ Append(chan[c], sent + 1) \in Seq(1 .. MaxEvents)
            /\ Len(Append(chan[c], sent + 1)) = Len(chan[c]) + 1
        BY <1>0, <2>1, Longer
      <3>2. chan'[c] = IF c \in clients /\ Len(chan[c]) < Cap
                       THEN Append(chan[c], sent + 1) ELSE chan[c]
        BY <1>10 DEF Broadcast
      <3>3. CASE c \in clients /\ Len(chan[c]) < Cap
        <4>1. Len(chan[c]) + 1 <= Cap
          BY <1>0, <3>3
        <4> QED BY <3>1, <3>2, <3>3, <4>1
      <3>4. CASE ~ (c \in clients /\ Len(chan[c]) < Cap)
        BY <1>0, <3>2, <3>4
      <3> QED BY <3>3, <3>4
    <2>3. chan' \in [Conns -> Seq(1 .. MaxEvents)]
      <3>1. chan' = [c \in Conns |-> chan'[c]]
        BY <1>10 DEF Broadcast
      <3> QED BY <2>2, <3>1
    <2> QED BY <1>0, <2>1, <2>2, <2>3 DEF Buffers
  <1>11. CASE End
    BY <1>0, <1>e, <1>11 DEF End, Buffers
  <1>12. CASE UNCHANGED vars \/ Disconnected \/ Shutdown
    BY <1>1, <1>12 DEF vars, hub, Disconnected, Shutdown
  <1>13. ASSUME NEW c \in Conns, EnsurePort(c) \/ Post(c) \/ (\E m \in Methods : Call(c, m) \/ Ask(m))
                                 \/ Closed(c) \/ StreamEnds(c) \/ ReadEnds(c) \/ Unregister(c)
         PROVE  UNCHANGED <<chan, wire>>
    BY <1>13 DEF EnsurePort, Post, Call, Ask, Closed, StreamEnds, ReadEnds, Unregister, hub
  <1>14. ASSUME NEW m \in Methods, Ask(m) PROVE UNCHANGED <<chan, wire>>
    BY <1>14 DEF Ask, hub
  <1> QED BY <1>1, <1>5, <1>6, <1>7, <1>8, <1>9, <1>10, <1>11, <1>12, <1>13, <1>14 DEF Next, Serve

LEMMA EndsStep == Typed /\ [Next]_vars => EndsTyped'
  <1> SUFFICES ASSUME Typed, [Next]_vars PROVE EndsTyped'
    OBVIOUS
  <1> USE EventConstants DEF EndsTyped, Typed
  <1>1. CASE UNCHANGED <<serve, inbox, far, got, ext>>
    BY <1>1 DEF ext
  <1>2. CASE UNCHANGED vars \/ Broadcast \/ Shutdown
    BY <1>1, <1>2 DEF vars, Broadcast, Shutdown
  <1>3. CASE Disconnected
    BY <1>3 DEF Disconnected
  <1>4. CASE End
    BY <1>4 DEF End, ext
  <1>5. ASSUME NEW c \in Conns, EnsurePort(c) PROVE EndsTyped'
    BY <1>5 DEF EnsurePort, Dial, New, Turns, Ends
  <1>6. ASSUME NEW c \in Conns, Post(c) PROVE EndsTyped'
    BY <1>6 DEF Post, Dial, New, Turns, Ends
  <1>7. ASSUME NEW m \in Methods, Ask(m) PROVE EndsTyped'
    BY <1>7 DEF Ask, Turns, Ends
  <1>8. ASSUME NEW c \in Conns, NEW m \in Methods, Call(c, m) PROVE EndsTyped'
    BY <1>8 DEF Call, New, Turns, Ends, ext
  <1>9. ASSUME NEW c \in Conns, Forward(c) PROVE EndsTyped'
    <2>1. wire[c] # <<>> /\ wire[c] \in Seq(Frames)
      BY <1>9 DEF Forward, Buffers
    <2>2. Head(wire[c]) \in Frames
      BY <2>1, Rest
    <2>3. ~ IsResponse(Head(wire[c])) => Head(wire[c]) \in 0 .. MaxEvents
      BY <2>2 DEF Frames, IsResponse
    <2>4. UNCHANGED <<serve, inbox, ext>> /\ far' \in [Conns -> Ends]
      BY <1>9 DEF Forward, Turns, Ends
    <2>5. got' \in [Conns -> 0 .. MaxEvents]
      BY <1>9, <2>3 DEF Forward
    <2> QED BY <2>4, <2>5 DEF ext
  <1>10. ASSUME NEW c \in Conns, Closed(c) \/ HangUp(c) PROVE EndsTyped'
    BY <1>10 DEF Closed, HangUp, Ends, ext
  <1>11. ASSUME NEW c \in Conns, Serve(c) PROVE EndsTyped'
    BY <1>11 DEF Serve, Answer, Subscribe, Deliver, StreamEnds, ReadEnds, Write, ext
  <1>12. ASSUME NEW c \in Conns, Unregister(c) PROVE EndsTyped'
    BY <1>1, <1>12 DEF Unregister
  <1> QED BY <1>2, <1>3, <1>4, <1>5, <1>6, <1>7, <1>8, <1>9, <1>10, <1>11, <1>12 DEF Next

THEOREM TypedAlways == Spec => []Typed
  BY TypedInit, HubStep, BuffersStep, EndsStep, PTL DEF Spec, Typed

(* The buffers of channels and sockets are never exceeded, and a channel is in the
   hub's map only while a goroutine waits to take it out (events.go:16-47). *)
THEOREM EventsTypeCorrect == Spec => []TypeOK
  <1>1. Typed => TypeOK
    BY DEF Typed, HubTyped, Buffers, EndsTyped, TypeOK
  <1> QED BY <1>1, TypedAlways, PTL

(* The hub never sends on a closed channel: an event client leaves the map in the
   step that closes its channel (events.go:28-43). *)
THEOREM NoSendOnClosedEver == Spec => []NoSendOnClosed
  <1>1. Init => NoSendOnClosed
    BY DEF Init, NoSendOnClosed
  <1>2. NoSendOnClosed /\ [Next]_vars => NoSendOnClosed'
    <2> SUFFICES ASSUME NoSendOnClosed, [Next]_vars PROVE NoSendOnClosed'
      OBVIOUS
    <2> USE DEF NoSendOnClosed
    <2>1. CASE UNCHANGED <<clients, open>>
      BY <2>1
    <2>2. CASE UNCHANGED vars \/ Disconnected \/ Broadcast \/ Shutdown \/ End
      BY <2>2 DEF vars, hub, Disconnected, Broadcast, Shutdown, End
    <2>3. ASSUME NEW c \in Conns, Subscribe(c) \/ Unregister(c) PROVE NoSendOnClosed'
      BY <2>3 DEF Subscribe, Unregister
    <2>4. ASSUME NEW c \in Conns, EnsurePort(c) \/ Post(c) \/ (\E m \in Methods : Call(c, m))
                                  \/ Forward(c) \/ Closed(c) \/ HangUp(c) \/ Answer(c) \/ Deliver(c)
                                  \/ StreamEnds(c) \/ ReadEnds(c)
          PROVE  UNCHANGED <<clients, open>>
      BY <2>4 DEF EnsurePort, Post, Call, Forward, Closed, HangUp, Answer, Deliver, StreamEnds,
           ReadEnds, hub
    <2>5. ASSUME NEW m \in Methods, Ask(m) PROVE UNCHANGED <<clients, open>>
      BY <2>5 DEF Ask, hub
    <2> QED BY <2>1, <2>2, <2>3, <2>4, <2>5 DEF Next, Serve
  <1> QED BY <1>1, <1>2, PTL DEF Spec

-----------------------------------------------------------------------------
(* Order: of the frames w on a socket, the events b in a channel, the last event g
   read and the number n of events broadcast *)
InOrder(w, b, g, n) ==
    /\ g <= n
    /\ \A i \in DOMAIN w :
          /\ w[i] <= n
          /\ IsEvent(w[i]) => g < w[i] /\ \A j \in 1 .. i - 1 : w[j] < w[i]
    /\ \A i \in DOMAIN b :
          /\ g < b[i] /\ b[i] <= n
          /\ \A j \in DOMAIN w : w[j] < b[i]
          /\ \A j \in 1 .. i - 1 : b[j] < b[i]

LEMMA FramesAreNumbers ==
    /\ Frames \subseteq Int /\ 1 .. MaxEvents \subseteq Frames /\ MaxEvents \in Nat
    /\ \A f \in Frames : IsEvent(f) <=> ~ IsResponse(f)
    /\ \A f \in Frames : IsEvent(f) => f \in 1 .. MaxEvents
    /\ \A f \in Frames : IsResponse(f) => f <= 0
  BY EventConstants DEF Frames, IsEvent, IsResponse, OkFrame, ErrorFrame

LEMMA Members ==
    ASSUME NEW w \in Seq(Frames), NEW b \in Seq(1 .. MaxEvents)
    PROVE  /\ DOMAIN w = 1 .. Len(w) /\ DOMAIN b = 1 .. Len(b)
           /\ \A i \in DOMAIN w : w[i] \in Frames /\ w[i] \in Int
           /\ \A i \in DOMAIN b : b[i] \in 1 .. MaxEvents /\ b[i] \in Int /\ b[i] > 0
  <1>1. DOMAIN w = 1 .. Len(w) /\ DOMAIN b = 1 .. Len(b)
    BY LenProperties
  <1>2. \A i \in 1 .. Len(w) : w[i] \in Frames
    BY ElementOfSeq
  <1>3. \A i \in 1 .. Len(b) : b[i] \in 1 .. MaxEvents
    BY ElementOfSeq
  <1>4. MaxEvents \in Nat /\ Frames \subseteq Int
    BY FramesAreNumbers
  <1>5. \A i \in DOMAIN w : w[i] \in Frames /\ w[i] \in Int
    BY <1>1, <1>2, <1>4, Zenon
  <1>6. \A f \in 1 .. MaxEvents : f \in Int /\ f > 0
    BY <1>4
  <1>7. \A i \in DOMAIN b : b[i] \in 1 .. MaxEvents /\ b[i] \in Int /\ b[i] > 0
    BY <1>1, <1>3, <1>6, Zenon
  <1> QED BY <1>1, <1>5, <1>7, Zenon

(* The other end reads a frame, and takes note of an event or does not. *)
LEMMA OrderRead ==
    ASSUME NEW w \in Seq(Frames), NEW b \in Seq(1 .. MaxEvents), NEW g \in Nat, NEW n \in Nat,
           InOrder(w, b, g, n), w # <<>>,
           NEW g2, g2 = g \/ (IsEvent(Head(w)) /\ g2 = Head(w))
    PROVE  InOrder(Tail(w), b, g2, n)
  <1> DEFINE v == Tail(w)
             m == Len(w)
  <1>1. /\ m \in Nat \ {0} /\ DOMAIN w = 1 .. m /\ DOMAIN v = 1 .. m - 1
        /\ Head(w) = w[1] /\ \A i \in 1 .. m - 1 : v[i] = w[i + 1]
    BY Rest
  <1>2. \A i \in 1 .. m : w[i] \in Int
    BY <1>1, Members
  <1>3. \A i \in DOMAIN b : b[i] \in Int
    BY Members
  <1> HIDE DEF v, m
  <1>4. g2 \in Int /\ g2 <= n
    BY <1>1, <1>2 DEF InOrder
  <1>5. ASSUME NEW i \in 1 .. m - 1
        PROVE  /\ v[i] <= n
               /\ IsEvent(v[i]) => g2 < v[i] /\ \A j \in 1 .. i - 1 : v[j] < v[i]
    <2>1. i + 1 \in 1 .. m /\ v[i] = w[i + 1] /\ 1 \in 1 .. (i + 1) - 1
      BY <1>1
    <2>2. w[i + 1] <= n
      BY <1>1, <2>1 DEF InOrder
    <2>3. ASSUME IsEvent(w[i + 1])
          PROVE  g < w[i + 1] /\ \A j \in 1 .. (i + 1) - 1 : w[j] < w[i + 1]
      BY <1>1, <2>1, <2>3 DEF InOrder
    <2>4. ASSUME IsEvent(v[i]) PROVE g2 < v[i]
      BY <1>1, <2>1, <2>3, <2>4
    <2>5. ASSUME IsEvent(v[i]), NEW j \in 1 .. i - 1 PROVE v[j] < v[i]
      <3>1. j + 1 \in 1 .. (i + 1) - 1 /\ j \in 1 .. m - 1
        BY <1>1
      <3>2. v[j] = w[j + 1]
        BY <1>1, <3>1
      <3> QED BY <2>1, <2>3, <2>5, <3>1, <3>2
    <2> QED BY <2>1, <2>2, <2>4, <2>5
  <1>6. ASSUME NEW i \in DOMAIN b
        PROVE  /\ g2 < b[i] /\ b[i] <= n
               /\ \A j \in 1 .. m - 1 : v[j] < b[i]
               /\ \A j \in 1 .. i - 1 : b[j] < b[i]
    <2>1. /\ g < b[i] /\ b[i] <= n /\ \A j \in 1 .. m : w[j] < b[i]
          /\ \A j \in 1 .. i - 1 : b[j] < b[i]
      BY <1>1 DEF InOrder
    <2>2. \A j \in 1 .. m - 1 : j + 1 \in 1 .. m
      BY <1>1
    <2> QED BY <1>1, <2>1, <2>2
  <1> QED BY <1>1, <1>4, <1>5, <1>6 DEF InOrder, v

(* A response is written behind what is on the socket. *)
LEMMA OrderAnswer ==
    ASSUME NEW w \in Seq(Frames), NEW b \in Seq(1 .. MaxEvents), NEW g \in Nat, NEW n \in Nat,
           InOrder(w, b, g, n), NEW r \in Frames, IsResponse(r)
    PROVE  InOrder(Append(w, r), b, g, n)
  <1> DEFINE v == Append(w, r)
             m == Len(w)
  <1>1. /\ m \in Nat /\ DOMAIN w = 1 .. m /\ DOMAIN v = 1 .. m + 1
        /\ v[m + 1] = r /\ \A i \in 1 .. m : v[i] = w[i]
    BY Longer
  <1>2. r <= 0 /\ ~ IsEvent(r) /\ r \in Int
    BY FramesAreNumbers
  <1>3. \A i \in DOMAIN b : b[i] \in Int /\ b[i] > 0
    BY Members
  <1> HIDE DEF v, m
  <1>4. ASSUME NEW i \in 1 .. m + 1
        PROVE  /\ v[i] <= n
               /\ IsEvent(v[i]) => g < v[i] /\ \A j \in 1 .. i - 1 : v[j] < v[i]
    <2>1. CASE i = m + 1
      BY <1>1, <1>2, <2>1
    <2>2. CASE i # m + 1
      <3>1. i \in 1 .. m /\ \A j \in 1 .. i - 1 : j \in 1 .. m
        BY <1>1, <2>2
      <3> QED BY <1>1, <3>1 DEF InOrder
    <2> QED BY <2>1, <2>2
  <1>5. ASSUME NEW i \in DOMAIN b
        PROVE  \A j \in 1 .. m + 1 : v[j] < b[i]
    <2> SUFFICES ASSUME NEW j \in 1 .. m + 1 PROVE v[j] < b[i]
      OBVIOUS
    <2>1. CASE j = m + 1
      BY <1>1, <1>2, <1>3, <2>1
    <2>2. CASE j # m + 1
      <3>1. j \in 1 .. m
        BY <1>1, <2>2
      <3> QED BY <1>1, <3>1 DEF InOrder
    <2> QED BY <2>1, <2>2
  <1>6. InOrder(v, b, g, n)
    BY <1>1, <1>4, <1>5 DEF InOrder
  <1> QED BY <1>6 DEF v

(* The oldest event of the channel is written behind what is on the socket. *)
LEMMA OrderDeliver ==
    ASSUME NEW w \in Seq(Frames), NEW b \in Seq(1 .. MaxEvents), NEW g \in Nat, NEW n \in Nat,
           InOrder(w, b, g, n), b # <<>>
    PROVE  InOrder(Append(w, Head(b)), Tail(b), g, n) /\ InOrder(w, Tail(b), g, n)
  <1> DEFINE v == Append(w, Head(b))
             c == Tail(b)
             m == Len(w)
             k == Len(b)
  <1>1. /\ k \in Nat \ {0} /\ DOMAIN b = 1 .. k /\ DOMAIN c = 1 .. k - 1
        /\ Head(b) = b[1] /\ \A i \in 1 .. k - 1 : c[i] = b[i + 1]
        /\ Head(b) \in 1 .. MaxEvents
    BY Rest
  <1>2. Head(b) \in Frames
    BY <1>1, FramesAreNumbers
  <1>3. /\ m \in Nat /\ DOMAIN w = 1 .. m /\ DOMAIN v = 1 .. m + 1
        /\ v[m + 1] = Head(b) /\ \A i \in 1 .. m : v[i] = w[i]
    BY <1>2, Longer
  <1> HIDE DEF v, c, m, k
  <1>4. ASSUME NEW i \in 1 .. m + 1
        PROVE  /\ v[i] <= n
               /\ IsEvent(v[i]) => g < v[i] /\ \A j \in 1 .. i - 1 : v[j] < v[i]
    <2>1. CASE i = m + 1
      <3>1. v[i] = b[1] /\ 1 \in DOMAIN b /\ \A j \in 1 .. i - 1 : j \in DOMAIN w /\ v[j] = w[j]
        BY <1>1, <1>3, <2>1
      <3> QED BY <3>1 DEF InOrder
    <2>2. CASE i # m + 1
      <3>1. i \in 1 .. m /\ \A j \in 1 .. i - 1 : j \in 1 .. m
        BY <1>3, <2>2
      <3> QED BY <1>3, <3>1 DEF InOrder
    <2> QED BY <2>1, <2>2
  <1>5. ASSUME NEW i \in 1 .. k - 1
        PROVE  /\ g < c[i] /\ c[i] <= n
               /\ \A j \in 1 .. m : w[j] < c[i]
               /\ b[1] < c[i]
               /\ \A j \in 1 .. i - 1 : c[j] < c[i]
    <2>1. i + 1 \in 1 .. k /\ c[i] = b[i + 1] /\ 1 \in 1 .. (i + 1) - 1
      BY <1>1
    <2>2. /\ g < b[i + 1] /\ b[i + 1] <= n /\ \A j \in DOMAIN w : w[j] < b[i + 1]
          /\ \A j \in 1 .. (i + 1) - 1 : b[j] < b[i + 1]
      BY <1>1, <2>1 DEF InOrder
    <2>3. ASSUME NEW j \in 1 .. i - 1 PROVE c[j] < c[i]
      <3>1. j + 1 \in 1 .. (i + 1) - 1 /\ j \in 1 .. k - 1
        BY <1>1
      <3> QED BY <1>1, <2>1, <2>2, <3>1
    <2> QED BY <1>3, <2>1, <2>2, <2>3
  <1>6. ASSUME NEW i \in 1 .. k - 1, NEW j \in 1 .. m + 1 PROVE v[j] < c[i]
    <2>1. CASE j = m + 1
      BY <1>1, <1>3, <1>5, <2>1
    <2>2. CASE j # m + 1
      <3>1. j \in 1 .. m
        BY <1>3, <2>2
      <3> QED BY <1>3, <1>5, <3>1
    <2> QED BY <2>1, <2>2
  <1>7. InOrder(v, c, g, n)
    BY <1>1, <1>3, <1>4, <1>5, <1>6 DEF InOrder
  <1>8. InOrder(w, c, g, n)
    BY <1>1, <1>3, <1>5 DEF InOrder
  <1> QED BY <1>7, <1>8 DEF v, c

(* An event is broadcast, to a channel or past it. *)
LEMMA OrderBroadcast ==
    ASSUME NEW w \in Seq(Frames), NEW b \in Seq(1 .. MaxEvents), NEW g \in Nat, NEW n \in Nat,
           InOrder(w, b, g, n), n + 1 \in 1 .. MaxEvents
    PROVE  InOrder(w, Append(b, n + 1), g, n + 1) /\ InOrder(w, b, g, n + 1)
  <1> DEFINE c == Append(b, n + 1)
             k == Len(b)
  <1>1. /\ k \in Nat /\ DOMAIN b = 1 .. k /\ DOMAIN c = 1 .. k + 1
        /\ c[k + 1] = n + 1 /\ \A i \in 1 .. k : c[i] = b[i]
    BY Longer
  <1>2. /\ \A i \in DOMAIN w : w[i] \in Int
        /\ \A i \in 1 .. k : b[i] \in Int
    BY <1>1, Members
  <1> HIDE DEF c, k
  <1>3. InOrder(w, b, g, n + 1)
    BY <1>1, <1>2 DEF InOrder
  <1>4. ASSUME NEW i \in 1 .. k + 1
        PROVE  /\ g < c[i] /\ c[i] <= n + 1
               /\ \A j \in DOMAIN w : w[j] < c[i]
               /\ \A j \in 1 .. i - 1 : c[j] < c[i]
    <2>1. CASE i = k + 1
      <3>1. \A j \in 1 .. i - 1 : j \in 1 .. k /\ c[j] = b[j]
        BY <1>1, <2>1
      <3>2. g <= n /\ (\A j \in DOMAIN w : w[j] <= n) /\ \A j \in 1 .. k : b[j] <= n
        BY <1>1 DEF InOrder
      <3> QED BY <1>1, <1>2, <2>1, <3>1, <3>2
    <2>2. CASE i # k + 1
      <3>1. i \in 1 .. k /\ \A j \in 1 .. i - 1 : j \in 1 .. k
        BY <1>1, <2>2
      <3> QED BY <1>1, <1>3, <3>1 DEF InOrder
    <2> QED BY <2>1, <2>2
  <1>5. InOrder(w, c, g, n + 1)
    BY <1>1, <1>3, <1>4 DEF InOrder
  <1> QED BY <1>3, <1>5 DEF c

(* What one step does to the frames of a connection *)
Still(c)  == wire'[c] = wire[c] /\ chan'[c] = chan[c] /\ got'[c] = got[c] /\ sent' = sent
Cut(c)    == /\ wire'[c] \in {wire[c], <<>>} /\ chan'[c] \in {chan[c], <<>>}
             /\ got'[c] = got[c] /\ sent' = sent
Taken(c)  == /\ wire[c] # <<>> /\ wire'[c] = Tail(wire[c]) /\ chan'[c] = chan[c] /\ sent' = sent
             /\ got'[c] = got[c] \/ (IsEvent(Head(wire[c])) /\ got'[c] = Head(wire[c]))
Replied(c) == \E r \in Frames :
    /\ IsResponse(r) /\ wire'[c] = Append(wire[c], r)
    /\ chan'[c] = chan[c] /\ got'[c] = got[c] /\ sent' = sent
Sent(c)   == /\ chan[c] # <<>> /\ chan'[c] = Tail(chan[c]) /\ got'[c] = got[c] /\ sent' = sent
             /\ wire'[c] \in {wire[c], Append(wire[c], Head(chan[c]))}
Queued(c) == /\ sent' = sent + 1 /\ sent + 1 \in 1 .. MaxEvents
             /\ wire'[c] = wire[c] /\ got'[c] = got[c]
             /\ chan'[c] \in {chan[c], Append(chan[c], sent + 1)}
Flow(c)   == Still(c) \/ Cut(c) \/ Taken(c) \/ Replied(c) \/ Sent(c) \/ Queued(c)

LEMMA FramesFlow == Typed /\ [Next]_vars => \A c \in Conns : Flow(c)
  <1> SUFFICES ASSUME Typed, [Next]_vars, NEW c \in Conns PROVE Flow(c)
    OBVIOUS
  <1>0. /\ wire \in [Conns -> Seq(Frames)] /\ chan \in [Conns -> Seq(1 .. MaxEvents)]
        /\ got \in [Conns -> 0 .. MaxEvents] /\ sent \in 0 .. MaxEvents /\ MaxEvents \in Nat
    BY EventConstants DEF Typed, HubTyped, Buffers, EndsTyped
  <1>1. CASE UNCHANGED <<wire, chan, got, sent>>
    BY <1>1 DEF Flow, Still
  <1>2. CASE UNCHANGED vars \/ Disconnected \/ Shutdown
    BY <1>1, <1>2 DEF vars, hub, daemon, Disconnected, Shutdown
  <1>3. CASE Broadcast
    <2>1. sent' = sent + 1 /\ sent + 1 \in 1 .. MaxEvents
      BY <1>0, <1>3 DEF Broadcast
    <2>2. /\ wire'[c] = wire[c] /\ got'[c] = got[c]
          /\ chan'[c] \in {chan[c], Append(chan[c], sent + 1)}
      BY <1>3 DEF Broadcast
    <2> QED BY <2>1, <2>2 DEF Flow, Queued
  <1>4. CASE End
    BY <1>4 DEF End, Flow, Cut
  <1>5. ASSUME NEW d \in Conns, EnsurePort(d) \/ Post(d) \/ (\E m \in Methods : Call(d, m))
                                \/ Closed(d) \/ StreamEnds(d) \/ ReadEnds(d) \/ Unregister(d)
        PROVE  UNCHANGED <<wire, chan, got, sent>>
    BY <1>5 DEF EnsurePort, Post, Call, Closed, StreamEnds, ReadEnds, Unregister, hub, daemon
  <1>6. ASSUME NEW m \in Methods, Ask(m) PROVE UNCHANGED <<wire, chan, got, sent>>
    BY <1>6 DEF Ask, hub, daemon
  <1>7. ASSUME NEW d \in Conns, Forward(d) PROVE Flow(c)
    <2>1. /\ wire[d] # <<>> /\ wire' = [wire EXCEPT ![d] = Tail(wire[d])]
          /\ UNCHANGED chan /\ UNCHANGED sent
      BY <1>7 DEF Forward, hub, daemon
    <2>2. Head(wire[d]) \in Frames
      BY <1>0, <2>1, Rest
    <2>3. IsEvent(Head(wire[d])) <=> ~ IsResponse(Head(wire[d]))
      BY <2>2, FramesAreNumbers
    <2>4. UNCHANGED got \/ (IsEvent(Head(wire[d])) /\ got' = [got EXCEPT ![d] = Head(wire[d])])
      BY <1>0, <1>7, <2>3 DEF Forward
    <2>5. CASE c = d
      BY <1>0, <2>1, <2>4, <2>5 DEF Flow, Taken
    <2>6. CASE c # d
      BY <1>0, <2>1, <2>4, <2>6 DEF Flow, Still
    <2> QED BY <2>5, <2>6
  <1>8. ASSUME NEW d \in Conns, HangUp(d) PROVE Flow(c)
    BY <1>0, <1>8 DEF HangUp, hub, daemon, Flow, Cut
  <1>9. ASSUME NEW d \in Conns, Answer(d) PROVE Flow(c)
    <2>1. PICK r \in Frames : IsResponse(r) /\ Write(d, r)
      BY <1>9 DEF Answer, Frames, IsResponse
    <2>2. UNCHANGED chan /\ UNCHANGED got /\ UNCHANGED sent
      BY <1>9 DEF Answer, hub, daemon
    <2>3. UNCHANGED wire \/ wire' = [wire EXCEPT ![d] = Append(wire[d], r)]
      BY <2>1 DEF Write
    <2>4. wire'[c] = wire[c] \/ wire'[c] = Append(wire[c], r)
      BY <1>0, <2>3
    <2> QED BY <2>1, <2>2, <2>4 DEF Flow, Still, Replied
  <1>10. ASSUME NEW d \in Conns, Subscribe(d) PROVE Flow(c)
    BY <1>0, <1>10 DEF Subscribe, daemon, Flow, Cut
  <1>11. ASSUME NEW d \in Conns, Deliver(d) PROVE Flow(c)
    <2>1. /\ chan[d] # <<>> /\ chan' = [chan EXCEPT ![d] = Tail(chan[d])]
          /\ UNCHANGED got /\ UNCHANGED sent /\ Write(d, Head(chan[d]))
      BY <1>11 DEF Deliver, daemon
    <2>2. UNCHANGED wire \/ wire' = [wire EXCEPT ![d] = Append(wire[d], Head(chan[d]))]
      BY <2>1 DEF Write
    <2>3. CASE c = d
      BY <1>0, <2>1, <2>2, <2>3 DEF Flow, Sent
    <2>4. CASE c # d
      BY <1>0, <2>1, <2>2, <2>4 DEF Flow, Still
    <2> QED BY <2>3, <2>4
  <1> QED BY <1>1, <1>2, <1>3, <1>4, <1>5, <1>6, <1>7, <1>8, <1>9, <1>10, <1>11 DEF Next, Serve

Ordered == \A c \in Conns : InOrder(wire[c], chan[c], got[c], sent)

LEMMA OrderedInit == Init => Ordered
  <1>1. DOMAIN <<>> = {}
    OBVIOUS
  <1> QED BY <1>1 DEF Init, Ordered, InOrder

LEMMA OrderedStep == Typed /\ Ordered /\ [Next]_vars => Ordered'
  <1> SUFFICES ASSUME Typed, Ordered, [Next]_vars, NEW c \in Conns
               PROVE  InOrder(wire'[c], chan'[c], got'[c], sent')
    BY DEF Ordered
  <1> DEFINE w == wire[c]
             b == chan[c]
             g == got[c]
  <1>1. /\ w \in Seq(Frames) /\ b \in Seq(1 .. MaxEvents) /\ g \in Nat /\ sent \in Nat
        /\ InOrder(w, b, g, sent)
    <2>1. g \in 0 .. MaxEvents /\ sent \in 0 .. MaxEvents /\ MaxEvents \in Nat
      BY EventConstants DEF Typed, HubTyped, EndsTyped
    <2> QED BY <2>1 DEF Typed, Buffers, Ordered
  <1>2. Flow(c)
    BY FramesFlow
  <1> HIDE DEF w, b, g
  <1>3. CASE Still(c)
    BY <1>1, <1>3 DEF Still, w, b, g
  <1>4. CASE Cut(c)
    <2>1. DOMAIN <<>> = {}
      OBVIOUS
    <2>2. /\ InOrder(<<>>, b, g, sent) /\ InOrder(w, <<>>, g, sent) /\ InOrder(<<>>, <<>>, g, sent)
      BY <1>1, <2>1 DEF InOrder
    <2> QED BY <1>1, <1>4, <2>2 DEF Cut, w, b, g
  <1>5. CASE Taken(c)
    <2> DEFINE h == got'[c]
    <2>1. w # <<>> /\ (h = g \/ (IsEvent(Head(w)) /\ h = Head(w)))
      BY <1>5 DEF Taken, w, g
    <2> HIDE DEF h
    <2>2. InOrder(Tail(w), b, h, sent)
      BY <1>1, <2>1, OrderRead
    <2> QED BY <1>5, <2>2 DEF Taken, w, b, h
  <1>6. CASE Replied(c)
    <2>1. PICK r \in Frames :
              /\ IsResponse(r) /\ wire'[c] = Append(w, r)
              /\ chan'[c] = b /\ got'[c] = g /\ sent' = sent
      BY <1>6 DEF Replied, w, b, g
    <2> QED BY <1>1, <2>1, OrderAnswer
  <1>7. CASE Sent(c)
    <2>1. b # <<>>
      BY <1>7 DEF Sent, b
    <2>2. InOrder(Append(w, Head(b)), Tail(b), g, sent) /\ InOrder(w, Tail(b), g, sent)
      BY <1>1, <2>1, OrderDeliver
    <2> QED BY <1>7, <2>2 DEF Sent, w, b, g
  <1>8. CASE Queued(c)
    <2>1. InOrder(w, Append(b, sent + 1), g, sent + 1) /\ InOrder(w, b, g, sent + 1)
      BY <1>1, <1>8, OrderBroadcast DEF Queued
    <2> QED BY <1>8, <2>1 DEF Queued, w, b, g
  <1> QED BY <1>2, <1>3, <1>4, <1>5, <1>6, <1>7, <1>8 DEF Flow

(* Socket and channel, one behind the other *)
LEMMA OnTheWayInOrder ==
    ASSUME NEW w \in Seq(Frames), NEW b \in Seq(1 .. MaxEvents), NEW g \in Nat, NEW n \in Nat,
           InOrder(w, b, g, n), NEW i \in DOMAIN (w \o b), IsEvent((w \o b)[i])
    PROVE  /\ g < (w \o b)[i]
           /\ \A j \in 1 .. i - 1 : (w \o b)[j] < (w \o b)[i]
  <1> DEFINE a == w \o b
             m == Len(w)
             k == Len(b)
  <1>1. /\ m \in Nat /\ k \in Nat /\ DOMAIN w = 1 .. m /\ DOMAIN b = 1 .. k
        /\ DOMAIN a = 1 .. m + k
    <2>1. m \in Nat /\ k \in Nat /\ DOMAIN w = 1 .. m /\ DOMAIN b = 1 .. k
      BY LenProperties
    <2>2. b \in Seq(Frames)
      BY FramesAreNumbers
    <2>3. a \in Seq(Frames) /\ Len(a) = m + k
      BY <2>2, ConcatProperties
    <2>4. DOMAIN a = 1 .. Len(a)
      BY <2>3, LenProperties
    <2> QED BY <2>1, <2>3, <2>4
  <1>2. \A j \in 1 .. m + k : a[j] = IF j <= m THEN w[j] ELSE b[j - m]
    <2>1. b \in Seq(Frames)
      BY FramesAreNumbers
    <2> QED BY <2>1, ConcatProperties
  <1>3. i \in 1 .. m + k /\ IsEvent(a[i])
    BY <1>1
  <1>4. g < a[i] /\ \A j \in 1 .. i - 1 : a[j] < a[i]
    <2> HIDE DEF a, m, k
    <2>1. \A j \in 1 .. i - 1 : j \in 1 .. m + k
      BY <1>1, <1>3
    <2>2. CASE i <= m
      <3>1. i \in 1 .. m /\ a[i] = w[i] /\ \A j \in 1 .. i - 1 : a[j] = w[j]
        BY <1>1, <1>2, <1>3, <2>1, <2>2
      <3> QED BY <1>1, <1>3, <3>1 DEF InOrder
    <2>3. CASE ~ (i <= m)
      <3>1. i - m \in 1 .. k /\ a[i] = b[i - m]
        BY <1>1, <1>2, <1>3, <2>3
      <3>2. /\ g < b[i - m] /\ \A j \in 1 .. m : w[j] < b[i - m]
            /\ \A j \in 1 .. (i - m) - 1 : b[j] < b[i - m]
        BY <1>1, <3>1 DEF InOrder
      <3>3. ASSUME NEW j \in 1 .. i - 1 PROVE a[j] < a[i]
        <4>1. CASE j <= m
          <5>1. j \in 1 .. m /\ a[j] = w[j]
            BY <1>1, <1>2, <2>1, <4>1
          <5> QED BY <3>1, <3>2, <5>1
        <4>2. CASE ~ (j <= m)
          <5>1. j - m \in 1 .. (i - m) - 1 /\ a[j] = b[j - m]
            BY <1>1, <1>2, <1>3, <2>1, <4>2
          <5> QED BY <3>1, <3>2, <5>1
        <4> QED BY <4>1, <4>2
      <3> QED BY <3>1, <3>2, <3>3
    <2> QED BY <2>2, <2>3
  <1> QED BY <1>4

(* What a subscriber reads, and what is on its way to it, is in the order it was
   broadcast and never twice, whatever misses a full channel (events.go:16-26). *)
THEOREM EventsArriveInOrder == Spec => []EventsInOrder
  <1>1. Typed /\ Ordered => EventsInOrder
    <2> SUFFICES ASSUME Typed, Ordered, NEW c \in Conns,
                        NEW i \in DOMAIN OnItsWay(c), IsEvent(OnItsWay(c)[i])
                 PROVE  /\ got[c] < OnItsWay(c)[i]
                        /\ \A j \in 1 .. i - 1 : OnItsWay(c)[j] < OnItsWay(c)[i]
      BY DEF EventsInOrder
    <2>1. /\ wire[c] \in Seq(Frames) /\ chan[c] \in Seq(1 .. MaxEvents)
          /\ InOrder(wire[c], chan[c], got[c], sent)
      BY DEF Typed, Buffers, Ordered
    <2>2. got[c] \in Nat /\ sent \in Nat
      <3>1. got[c] \in 0 .. MaxEvents /\ sent \in 0 .. MaxEvents /\ MaxEvents \in Nat
        BY EventConstants DEF Typed, HubTyped, EndsTyped
      <3> QED BY <3>1
    <2> QED BY <2>1, <2>2, OnTheWayInOrder DEF OnItsWay
  <1> QED BY <1>1, OrderedInit, OrderedStep, TypedAlways, PTL DEF Spec

-----------------------------------------------------------------------------
(* Answers: of the frames w on a socket, the request i not yet read by the serve
   loop, the other end f and the serve loop s *)
NoAnswer(w)    == \A i \in DOMAIN w : ~ IsResponse(w[i])
OneAnswer(w)   == \A i, j \in DOMAIN w : IsResponse(w[i]) /\ IsResponse(w[j]) => i = j
OnlyAnswers(w) == \A i \in DOMAIN w : IsResponse(w[i])

Fits(w, i, f, s) ==
    /\ OneAnswer(w)
    /\ i # "none" => NoAnswer(w) /\ f \notin {"none", "stdin"}
    /\ f = "stdin" => NoAnswer(w)
    /\ f = "none" => w = <<>> /\ s # "stream"
    /\ f = "answer" => i # "subscribe_events" /\ s # "stream" /\ OnlyAnswers(w)

Matched == \A c \in Conns : Fits(wire[c], inbox[c], far[c], serve[c])

LEMMA NothingOnTheWay == NoAnswer(<<>>) /\ OneAnswer(<<>>) /\ OnlyAnswers(<<>>)
  <1>1. DOMAIN <<>> = {}
    OBVIOUS
  <1> QED BY <1>1 DEF NoAnswer, OneAnswer, OnlyAnswers

LEMMA AnswersRead ==
    ASSUME NEW w \in Seq(Frames), w # <<>>
    PROVE  /\ NoAnswer(w) => NoAnswer(Tail(w))
           /\ OneAnswer(w) => OneAnswer(Tail(w))
           /\ OneAnswer(w) /\ IsResponse(Head(w)) => NoAnswer(Tail(w))
           /\ NoAnswer(w) => ~ IsResponse(Head(w))
  <1> DEFINE v == Tail(w)
             m == Len(w)
  <1>1. /\ m \in Nat \ {0} /\ DOMAIN w = 1 .. m /\ DOMAIN v = 1 .. m - 1
        /\ Head(w) = w[1] /\ 1 \in DOMAIN w /\ \A i \in 1 .. m - 1 : v[i] = w[i + 1]
    BY Rest
  <1> HIDE DEF v, m
  <1>2. \A i \in DOMAIN v : i + 1 \in DOMAIN w /\ i + 1 # 1 /\ v[i] = w[i + 1]
    BY <1>1
  <1>3. \A i, j \in DOMAIN v : i + 1 = j + 1 => i = j
    BY <1>1
  <1>4. /\ NoAnswer(w) => NoAnswer(v)
        /\ OneAnswer(w) => OneAnswer(v)
        /\ OneAnswer(w) /\ IsResponse(w[1]) => NoAnswer(v)
        /\ NoAnswer(w) => ~ IsResponse(w[1])
    BY <1>1, <1>2, <1>3 DEF NoAnswer, OneAnswer
  <1> QED BY <1>1, <1>4 DEF v

LEMMA AnswerWritten ==
    ASSUME NEW w \in Seq(Frames), NEW r \in Frames
    PROVE  /\ IsResponse(r) /\ NoAnswer(w) => OneAnswer(Append(w, r))
           /\ IsResponse(r) /\ OnlyAnswers(w) => OnlyAnswers(Append(w, r))
           /\ ~ IsResponse(r) /\ NoAnswer(w) => NoAnswer(Append(w, r))
           /\ ~ IsResponse(r) /\ OneAnswer(w) => OneAnswer(Append(w, r))
  <1> DEFINE v == Append(w, r)
             m == Len(w)
  <1>1. /\ m \in Nat /\ DOMAIN w = 1 .. m /\ DOMAIN v = 1 .. m + 1
        /\ v[m + 1] = r /\ \A i \in 1 .. m : v[i] = w[i]
    BY Longer
  <1> HIDE DEF v, m
  <1>2. \A i \in DOMAIN v : (i \in DOMAIN w /\ v[i] = w[i]) \/ (i = m + 1 /\ v[i] = r)
    BY <1>1
  <1>3. /\ IsResponse(r) /\ NoAnswer(w) => OneAnswer(v)
        /\ IsResponse(r) /\ OnlyAnswers(w) => OnlyAnswers(v)
        /\ ~ IsResponse(r) /\ NoAnswer(w) => NoAnswer(v)
        /\ ~ IsResponse(r) /\ OneAnswer(w) => OneAnswer(v)
    BY <1>2, Zenon DEF NoAnswer, OneAnswer, OnlyAnswers
  <1> QED BY <1>3 DEF v

LEMMA MatchedInit == Init => Matched
  BY NothingOnTheWay DEF Init, Matched, Fits

LEMMA MatchedStep == Typed /\ Matched /\ [Next]_vars => Matched'
  <1> SUFFICES ASSUME Typed, Matched, [Next]_vars, NEW c \in Conns
               PROVE  Fits(wire'[c], inbox'[c], far'[c], serve'[c])
    BY DEF Matched
  <1> DEFINE Goal == Fits(wire'[c], inbox'[c], far'[c], serve'[c])
  <1>0. /\ wire \in [Conns -> Seq(Frames)] /\ chan \in [Conns -> Seq(1 .. MaxEvents)]
        /\ serve \in [Conns -> {"read", "stream", "gone"}]
        /\ inbox \in [Conns -> Methods \cup {"none"}] /\ far \in [Conns -> Ends]
        /\ port \in Conns \cup {None} /\ StreamMethods \subseteq {"subscribe_events"}
    BY EventConstants DEF Typed, Buffers, EndsTyped
  <1>f. \A d \in Conns : Fits(wire[d], inbox[d], far[d], serve[d])
    BY DEF Matched
  <1>1. CASE UNCHANGED <<wire, inbox, far, serve>>
    BY <1>1, <1>f
  <1>2. CASE UNCHANGED vars \/ Disconnected \/ Broadcast \/ Shutdown
    BY <1>1, <1>2 DEF vars, Disconnected, Broadcast, Shutdown
  <1>3. CASE End
    <2>1. /\ wire'[c] = wire[c] /\ far'[c] = far[c] /\ inbox'[c] = "none" /\ serve'[c] = "gone"
      BY <1>3 DEF End
    <2> QED BY <1>f, <2>1 DEF Fits
  <1>4. ASSUME NEW d \in Conns, Dial(d), UNCHANGED <<wire, inbox, serve>> PROVE Goal
    <2>1. /\ wire'[c] = wire[c] /\ inbox'[c] = inbox[c] /\ serve'[c] = serve[c]
      BY <1>4
    <2>2. \/ far'[c] = far[c]
          \/ far[c] = "none" /\ far'[c] \in {"stdin", "gone"}
      BY <1>0, <1>4 DEF Dial, New, Turns
    <2> QED BY <1>f, <2>1, <2>2, NothingOnTheWay DEF Fits
  <1>5. ASSUME NEW d \in Conns, EnsurePort(d) \/ Post(d) PROVE Goal
    BY <1>1, <1>4, <1>5 DEF EnsurePort, Post
  <1>6. ASSUME NEW d \in Conns, NEW m \in Methods, Call(d, m) PROVE Goal
    <2>1. /\ wire'[c] = wire[c] /\ serve'[c] = serve[c]
      BY <1>6 DEF Call
    <2>2. \/ far'[c] = far[c] /\ inbox'[c] = inbox[c]
          \/ /\ far[c] = "none" /\ inbox'[c] = m
             /\ far'[c] = IF m = "subscribe_events" THEN "watch" ELSE "answer"
      BY <1>0, <1>6 DEF Call, New, Turns
    <2> QED BY <1>f, <2>1, <2>2, NothingOnTheWay DEF Fits
  <1>7. ASSUME NEW m \in Methods, Ask(m) PROVE Goal
    <2>1. port \in Conns /\ UNCHANGED <<wire, serve>>
      BY <1>0, <1>7 DEF Ask
    <2>2. \/ far'[c] = far[c] /\ inbox'[c] = inbox[c]
          \/ far[c] = "stdin" /\ inbox'[c] = inbox[c] /\ far'[c] = "gone"
          \/ far[c] = "stdin" /\ inbox'[c] = m /\ far'[c] = "forward"
      BY <1>0, <1>7, <2>1 DEF Ask, Turns
    <2> QED BY <1>f, <2>1, <2>2 DEF Fits
  <1>8. ASSUME NEW d \in Conns, Forward(d) PROVE Goal
    <2>1. /\ wire[d] # <<>> /\ wire' = [wire EXCEPT ![d] = Tail(wire[d])]
          /\ UNCHANGED inbox /\ UNCHANGED serve
      BY <1>8 DEF Forward
    <2>2. \/ IsResponse(Head(wire[d])) /\ Turns(d, "forward", "stdin")
          \/ Turns(d, "forward", "forward")
          \/ Turns(d, "answer", "gone")
          \/ Turns(d, "watch", "watch")
      BY <1>8 DEF Forward
    <2>3. CASE c # d
      BY <1>0, <1>f, <2>1, <2>2, <2>3 DEF Turns
    <2>4. CASE c = d
      <3>1. /\ wire'[c] = Tail(wire[c]) /\ inbox'[c] = inbox[c] /\ serve'[c] = serve[c]
        BY <1>0, <2>1, <2>4
      <3>2. \/ IsResponse(Head(wire[c])) /\ far'[c] = "stdin"
            \/ far'[c] \in {"forward", "watch", "gone"}
        BY <1>0, <2>2, <2>4 DEF Turns
      <3>3. /\ NoAnswer(wire[c]) => NoAnswer(Tail(wire[c]))
            /\ OneAnswer(wire[c]) => OneAnswer(Tail(wire[c]))
            /\ OneAnswer(wire[c]) /\ IsResponse(Head(wire[c])) => NoAnswer(Tail(wire[c]))
            /\ NoAnswer(wire[c]) => ~ IsResponse(Head(wire[c]))
        BY <1>0, <2>1, <2>4, AnswersRead
      <3> QED BY <1>f, <3>1, <3>2, <3>3 DEF Fits
    <2> QED BY <2>3, <2>4
  <1>9. ASSUME NEW d \in Conns, Closed(d) PROVE Goal
    <2>1. UNCHANGED <<wire, inbox, serve>> /\ (far'[c] = far[c] \/ (far[c] # "none" /\ far'[c] = "gone"))
      BY <1>0, <1>9 DEF Closed
    <2> QED BY <1>f, <2>1 DEF Fits
  <1>10. ASSUME NEW d \in Conns, HangUp(d) PROVE Goal
    <2>1. /\ UNCHANGED <<inbox, serve>>
          /\ \/ wire'[c] = wire[c] /\ far'[c] = far[c]
             \/ wire'[c] = <<>> /\ far'[c] = "gone"
      BY <1>0, <1>10 DEF HangUp
    <2> QED BY <1>f, <2>1, NothingOnTheWay DEF Fits
  <1>11. ASSUME NEW d \in Conns, Answer(d) PROVE Goal
    <2>1. PICK r \in Frames : IsResponse(r) /\ Write(d, r)
      BY <1>11 DEF Answer, Frames, IsResponse
    <2>2. inbox[d] # "none" /\ inbox' = [inbox EXCEPT ![d] = "none"] /\ UNCHANGED far
      BY <1>11 DEF Answer
    <2>3. CASE c # d
      BY <1>0, <1>f, <2>1, <2>2, <2>3 DEF Write
    <2>4. CASE c = d
      <3>1. /\ inbox[c] # "none" /\ inbox'[c] = "none" /\ far'[c] = far[c]
            /\ \/ serve'[c] = "gone" /\ wire'[c] = wire[c]
               \/ serve'[c] = serve[c] /\ wire'[c] = Append(wire[c], r)
        BY <1>0, <2>1, <2>2, <2>4 DEF Write
      <3>2. /\ NoAnswer(wire[c]) => OneAnswer(Append(wire[c], r))
            /\ OnlyAnswers(wire[c]) => OnlyAnswers(Append(wire[c], r))
        BY <1>0, <2>1, AnswerWritten
      <3> QED BY <1>f, <3>1, <3>2 DEF Fits
    <2> QED BY <2>3, <2>4
  <1>12. ASSUME NEW d \in Conns, Subscribe(d) PROVE Goal
    <2>1. UNCHANGED <<wire, far>>
      BY <1>12 DEF Subscribe
    <2>2. \/ inbox'[c] = inbox[c] /\ serve'[c] = serve[c]
          \/ inbox[c] = "subscribe_events" /\ inbox'[c] = "none" /\ serve'[c] = "stream"
      BY <1>0, <1>12 DEF Subscribe
    <2> QED BY <1>f, <2>1, <2>2 DEF Fits
  <1>13. ASSUME NEW d \in Conns, Deliver(d) PROVE Goal
    <2>1. /\ serve[d] = "stream" /\ chan[d] # <<>> /\ Write(d, Head(chan[d]))
          /\ UNCHANGED inbox /\ UNCHANGED far
      BY <1>13 DEF Deliver
    <2>2. Head(chan[d]) \in Frames /\ ~ IsResponse(Head(chan[d]))
      <3>1. Head(chan[d]) \in 1 .. MaxEvents
        BY <1>0, <2>1, Rest
      <3> QED BY <3>1, FramesAreNumbers DEF IsEvent
    <2>3. CASE c # d
      BY <1>0, <1>f, <2>1, <2>3 DEF Write
    <2>4. CASE c = d
      <3> DEFINE r == Head(chan[c])
      <3>1. r \in Frames /\ ~ IsResponse(r)
        BY <2>2, <2>4
      <3>2. /\ serve[c] = "stream" /\ inbox'[c] = inbox[c] /\ far'[c] = far[c]
            /\ \/ serve'[c] = "gone" /\ wire'[c] = wire[c]
               \/ serve'[c] = serve[c] /\ wire'[c] = Append(wire[c], r)
        BY <1>0, <2>1, <2>4 DEF Write
      <3> HIDE DEF r
      <3>3. /\ NoAnswer(wire[c]) => NoAnswer(Append(wire[c], r))
            /\ OneAnswer(wire[c]) => OneAnswer(Append(wire[c], r))
        BY <1>0, <3>1, AnswerWritten
      <3> QED BY <1>f, <3>2, <3>3 DEF Fits
    <2> QED BY <2>3, <2>4
  <1>14. ASSUME NEW d \in Conns, StreamEnds(d) \/ ReadEnds(d) PROVE Goal
    <2>1. UNCHANGED <<wire, inbox, far>> /\ (serve'[c] = serve[c] \/ serve'[c] # "stream")
      BY <1>0, <1>14 DEF StreamEnds, ReadEnds
    <2> QED BY <1>f, <2>1 DEF Fits
  <1>15. ASSUME NEW d \in Conns, Unregister(d) PROVE Goal
    BY <1>1, <1>15 DEF Unregister
  <1> QED BY <1>2, <1>3, <1>5, <1>6, <1>7, <1>8, <1>9, <1>10, <1>11, <1>12, <1>13, <1>14, <1>15
          DEF Next, Serve

(* The answer to a request is read by the program that waits for it, even with
   streams registered: no frame is left over for a bridge's next message, and a
   command reads no event before its answer (server.go:86-133, bmd-bridge/main.go:60-95). *)
THEOREM AnswersGoToAskers == Spec => []AnswersMatchRequests
  <1>1. Typed /\ Matched => AnswersMatchRequests
    <2> SUFFICES ASSUME Typed, Matched, NEW c \in Conns
                 PROVE  /\ far[c] = "stdin" => \A i \in DOMAIN wire[c] : ~IsResponse(wire[c][i])
                        /\ far[c] = "answer" => \A i \in DOMAIN wire[c] : IsResponse(wire[c][i])
                        /\ Cardinality({i \in DOMAIN wire[c] : IsResponse(wire[c][i])}) <= 1
      BY DEF AnswersMatchRequests
    <2>1. Fits(wire[c], inbox[c], far[c], serve[c])
      BY DEF Matched
    <2> DEFINE A == {i \in DOMAIN wire[c] : IsResponse(wire[c][i])}
    <2>2. \A i, j \in A : i = j
      BY <2>1 DEF Fits, OneAnswer
    <2>3. Cardinality(A) <= 1
      <3> HIDE DEF A
      <3>1. CASE A = {}
        <4>1. Cardinality(A) = 0
          BY <3>1, FS_EmptySet
        <4> QED BY <4>1
      <3>2. CASE A # {}
        <4>1. PICK i : A = {i}
          BY <2>2, <3>2
        <4>2. Cardinality(A) = 1
          BY <4>1, FS_Singleton
        <4> QED BY <4>2
      <3> QED BY <3>1, <3>2
    <2> QED BY <2>1, <2>3 DEF Fits, NoAnswer, OnlyAnswers
  <1> QED BY <1>1, MatchedInit, MatchedStep, TypedAlways, PTL DEF Spec
=============================================================================
