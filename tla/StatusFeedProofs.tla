-------------------------- MODULE StatusFeedProofs --------------------------
(***************************************************************************)
(* What the panel shows, for any capacity of the broadcast channel and any *)
(* number of changes, toasts and restarts.  NoTransitionMissed speaks of   *)
(* the moments at which nothing is on its way; the invariant says, for     *)
(* every other moment, where the status the daemon knows is: last in the   *)
(* channel, about to be asked for, or in the reply.                        *)
(***************************************************************************)
EXTENDS StatusFeed, SequenceTheorems, TLAPS

\* The request, its handler and the reply: at most one of them is there, and the
\* subscription comes first.
OneRequest ==
  /\ lines # <<>> => handler = "idle" /\ outq = <<>>
  /\ handler # "idle" => outq = <<>>
  /\ outq # <<>> => Len(outq) = 1
  /\ relay = "up" /\ ~subscribed => lines = <<"subscribe", "status">>

\* The last status in the channel is what the daemon knows, once it is out.
LastIsCurrent ==
  loop # "broadcasting" =>
    \A i \in DOMAIN bus :
      bus[i] # "toast" /\ (\A j \in DOMAIN bus : j > i => bus[j] = "toast")
        => bus[i] = Status(hermesUp)

\* Without one there the panel has it, or asks, or is about to be told.
NoneIsMissed ==
  (relay = "up" /\ loop # "broadcasting" /\ ~HasStatus(bus) /\ ~lost) =>
    \/ lines # <<>> \/ handler = "spawned"
    \/ handler \in {"connected", "disconnected"} /\ (handler = Status(hermesUp) \/ passed)
    \/ outq # <<>> /\ (Head(outq) = Status(hermesUp) \/ passed)
    \/ handler = "idle" /\ outq = <<>> /\ (connected = hermesUp \/ overtaken)

\* A swap is broadcast next, and tells the truth.
BroadcastIsCurrent == loop = "broadcasting" => up = hermesUp

FeedInv ==
  /\ TypeOK /\ OneRequest /\ LastIsCurrent /\ NoneIsMissed /\ BroadcastIsCurrent
  /\ relay # "up" => bus = <<>>

-----------------------------------------------------------------------------
(* The channel.                                                            *)

\* Pushing puts the event last and drops at most the oldest.
LEMMA PushedEvents ==
  ASSUME TypeOK, NEW event \in Event, Push(event)
  PROVE  /\ bus' \in Seq(Event) /\ Len(bus') <= BROADCAST_CAP
         /\ \E k \in {0, 1} :
              /\ Len(bus') = Len(bus) + 1 - k
              /\ \A i \in 1..Len(bus') : bus'[i] = IF i = Len(bus') THEN event ELSE bus[i + k]
<1>1. bus \in Seq(Event) /\ Len(bus) \in Nat /\ Len(bus) <= BROADCAST_CAP /\ BROADCAST_CAP \in Nat \ {0}
  BY BoundsAssumption, LenProperties DEF TypeOK
<1>2. CASE Len(bus) < BROADCAST_CAP
  <2>1. bus' = Append(bus, event)
    BY <1>2 DEF Push
  <2>2. /\ bus' \in Seq(Event) /\ Len(bus') = Len(bus) + 1
        /\ \A i \in 1..Len(bus) : bus'[i] = bus[i]
        /\ bus'[Len(bus) + 1] = event
    BY <1>1, <2>1, AppendProperties
  <2> QED
    BY <1>1, <1>2, <2>2
<1>3. CASE Len(bus) = BROADCAST_CAP
  <2>1. bus' = Append(Tail(bus), event) /\ bus # <<>>
    BY <1>1, <1>3 DEF Push
  <2>2. /\ Tail(bus) \in Seq(Event) /\ Len(Tail(bus)) = Len(bus) - 1
        /\ \A i \in 1..Len(Tail(bus)) : Tail(bus)[i] = bus[i + 1]
    BY <1>1, <2>1, HeadTailProperties
  <2>3. /\ bus' \in Seq(Event) /\ Len(bus') = Len(Tail(bus)) + 1
        /\ \A i \in 1..Len(Tail(bus)) : bus'[i] = Tail(bus)[i]
        /\ bus'[Len(Tail(bus)) + 1] = event
    BY <2>1, <2>2, AppendProperties
  <2> QED
    BY <1>1, <1>3, <2>2, <2>3
<1> QED
  BY <1>1, <1>2, <1>3

\* Taking the oldest event leaves the others in their order.
LEMMA TakenEvent ==
  ASSUME TypeOK, bus # <<>>
  PROVE  /\ Head(bus) \in Event /\ Head(bus) = bus[1]
         /\ Tail(bus) \in Seq(Event) /\ Len(Tail(bus)) = Len(bus) - 1 /\ Len(bus) \in Nat \ {0}
         /\ \A i \in 1..Len(Tail(bus)) : Tail(bus)[i] = bus[i + 1]
<1>1. bus \in Seq(Event)
  BY DEF TypeOK
<1> QED
  BY <1>1, HeadTailProperties, LenProperties, EmptySeq

-----------------------------------------------------------------------------
(* Types.                                                                  *)

LEMMA TypeInit == Init => TypeOK
<1> SUFFICES ASSUME Init PROVE TypeOK
  OBVIOUS
<1>1. <<>> \in Seq(Event) /\ Len(<<>>) <= BROADCAST_CAP
  BY BoundsAssumption, EmptySeq
<1>2. flips \in 0..MaxFlips /\ toasts \in 0..MaxToasts /\ restarts \in 0..MaxRestarts
  BY BoundsAssumption DEF Init
<1> QED
  BY <1>1, <1>2 DEF Init, TypeOK

LEMMA SendTypes ==
  ASSUME TypeOK, NEW event \in Event, Send(event)
  PROVE  bus' \in Seq(Event) /\ Len(bus') <= BROADCAST_CAP /\ lost' \in BOOLEAN
<1>1. CASE relay = "up"
  <2>1. Push(event) /\ lost' \in BOOLEAN
    BY <1>1 DEF Send, TypeOK
  <2> QED
    BY <2>1, PushedEvents
<1>2. CASE relay # "up"
  BY <1>2 DEF Send, TypeOK
<1> QED
  BY <1>1, <1>2

LEMMA StatusIsEvent == \A b \in BOOLEAN : Status(b) \in {"connected", "disconnected"}
  BY DEF Status

LEMMA TypeStep == TypeOK /\ [Next]_vars => TypeOK'
<1> SUFFICES ASSUME TypeOK, [Next]_vars PROVE TypeOK'
  OBVIOUS
<1> USE BoundsAssumption DEF daemonVars, connVars, counters, history
<1>0. <<>> \in Seq(Event) /\ Len(<<>>) <= BROADCAST_CAP
  BY EmptySeq
<1>1. CASE Probe \/ Swap \/ Wake
  BY <1>1 DEF Probe, Swap, Wake, TypeOK
<1>2. CASE Broadcast
  <2>1. Send(Status(up)) /\ Status(up) \in Event
    BY <1>2, StatusIsEvent DEF Broadcast, TypeOK, Event
  <2>2. bus' \in Seq(Event) /\ Len(bus') <= BROADCAST_CAP /\ lost' \in BOOLEAN
    BY <2>1, SendTypes
  <2> QED
    BY <1>2, <2>2 DEF Broadcast, TypeOK
<1>3. CASE Toast
  <2>1. Send("toast") /\ "toast" \in Event
    BY <1>3 DEF Toast, Event
  <2>2. bus' \in Seq(Event) /\ Len(bus') <= BROADCAST_CAP /\ lost' \in BOOLEAN
    BY <2>1, SendTypes
  <2> QED
    BY <1>3, <2>2 DEF Toast, TypeOK
<1>4. CASE Flip
  BY <1>4 DEF Flip, TypeOK
<1>5. CASE ReadSubscribe
  <2>1. lines' = <<"status">> /\ subscribed' = TRUE
    BY <1>5 DEF ReadSubscribe
  <2> QED
    BY <1>5, <2>1 DEF ReadSubscribe, TypeOK
<1>13. CASE ReadStatus
  BY <1>13 DEF ReadStatus, TypeOK
<1>6. CASE LoadStatus
  <2>1. handler' \in {"connected", "disconnected"} /\ passed' \in BOOLEAN
    BY <1>6, StatusIsEvent DEF LoadStatus, TypeOK
  <2>2. UNCHANGED <<health, daemonVars, relay, lines, subscribed, bus, outq, connected, counters,
                    overtaken, lost>>
    BY <1>6 DEF LoadStatus
  <2> QED
    BY <2>1, <2>2 DEF TypeOK
<1>7. CASE ReplyStatus
  <2>1. outq' \in Seq(Event)
    BY <1>7 DEF ReplyStatus, TypeOK, Event
  <2> QED
    BY <1>7, <2>1 DEF ReplyStatus, TypeOK
<1>8. CASE WriteReply
  <2>1. outq \in Seq(Event) /\ outq # <<>> /\ outq' = Tail(outq)
    BY <1>8 DEF WriteReply, TypeOK
  <2>2. outq' \in Seq(Event)
    BY <2>1, HeadTailProperties
  <2>3. connected' \in BOOLEAN /\ overtaken' \in BOOLEAN
    BY <1>8 DEF WriteReply, TypeOK
  <2> QED
    BY <1>8, <2>2, <2>3 DEF WriteReply, TypeOK
<1>9. CASE WriteEvent
  <2>1. bus' \in Seq(Event) /\ Len(bus') <= BROADCAST_CAP
    <3>1. bus # <<>> /\ bus' = Tail(bus) /\ Len(bus) <= BROADCAST_CAP
      BY <1>9 DEF WriteEvent, TypeOK
    <3> QED
      BY <3>1, TakenEvent
  <2>2. connected' \in BOOLEAN /\ passed' \in BOOLEAN /\ overtaken' \in BOOLEAN
    BY <1>9 DEF WriteEvent, TypeOK
  <2> QED
    BY <1>9, <2>1, <2>2 DEF WriteEvent, TypeOK
<1>10. CASE CtlStart \/ CtlExit
  <2>1. lines' \in {<<"subscribe", "status">>, <<"status">>, <<>>}
    BY <1>10 DEF CtlStart, CtlExit, Fresh
  <2>2. /\ relay' \in {"down", "up"} /\ connected' \in BOOLEAN /\ UNCHANGED <<health, daemonVars, counters>>
        /\ subscribed' = FALSE /\ bus' = <<>> /\ handler' = "idle" /\ outq' = <<>>
        /\ passed' = FALSE /\ overtaken' = FALSE /\ lost' = FALSE
    BY <1>10 DEF CtlStart, CtlExit, Fresh, TypeOK
  <2> QED
    BY <1>0, <2>1, <2>2 DEF TypeOK
<1>11. CASE DaemonRestart
  <2>1. /\ loop' = "probing" /\ up' = FALSE /\ hermesUp' = FALSE
        /\ lines' = <<>> /\ subscribed' = FALSE /\ bus' = <<>> /\ handler' = "idle" /\ outq' = <<>>
        /\ passed' = FALSE /\ overtaken' = FALSE /\ lost' = FALSE
        /\ UNCHANGED <<health, connected, flips, toasts>>
    BY <1>11 DEF DaemonRestart, Fresh
  <2>2. restarts' \in 0..MaxRestarts
    BY <1>11 DEF DaemonRestart, TypeOK
  <2>3. relay' \in {"down", "up", "stuck"}
    BY <1>11 DEF DaemonRestart, SocketCloses, TypeOK
  <2> QED
    BY <1>0, <2>1, <2>2, <2>3 DEF TypeOK
<1>12. CASE UNCHANGED vars
  BY <1>12 DEF vars, TypeOK
<1> QED
  BY <1>1, <1>2, <1>3, <1>4, <1>5, <1>6, <1>7, <1>8, <1>9, <1>10, <1>11, <1>12, <1>13
     DEF Next, LoopStep, ConnStep, WriterStep

\* The feed is well typed, and no receiver holds more events than the channel's capacity.
THEOREM FeedTypeCorrect == Spec => []TypeOK
<1> QED
  BY TypeInit, TypeStep, PTL DEF Spec

-----------------------------------------------------------------------------
(* Safety.                                                                 *)

LEMMA SaysConnected == \A b \in BOOLEAN : (Status(b) = "connected") = b
  BY DEF Status

LEMMA FeedInit == Init => FeedInv
<1> SUFFICES ASSUME Init PROVE FeedInv
  OBVIOUS
<1>1. TypeOK
  BY TypeInit
<1>2. OneRequest /\ NoneIsMissed /\ BroadcastIsCurrent /\ bus = <<>>
  BY DEF Init, OneRequest, NoneIsMissed, BroadcastIsCurrent
<1>3. LastIsCurrent
  BY <1>2 DEF LastIsCurrent
<1> QED
  BY <1>1, <1>2, <1>3 DEF FeedInv

\* A status that is broadcast is the last of the channel.
LEMMA StatusIsPushed ==
  ASSUME FeedInv, Broadcast
  PROVE  /\ HasStatus(bus') \/ relay # "up"
         /\ LastIsCurrent'
<1>1. Status(up) \in Event \ {"toast"} /\ up = hermesUp /\ Send(Status(up))
      /\ UNCHANGED <<relay, hermesUp>>
  BY StatusIsEvent DEF Broadcast, FeedInv, TypeOK, BroadcastIsCurrent, Event
<1>2. CASE relay = "up"
  <2>1. Push(Status(up))
    BY <1>1, <1>2 DEF Send
  <2>2. bus' \in Seq(Event) /\ Len(bus') \in Nat \ {0} /\ bus'[Len(bus')] = Status(up)
    <3>1. PICK k \in {0, 1} :
            /\ Len(bus') = Len(bus) + 1 - k
            /\ \A i \in 1..Len(bus') : bus'[i] = IF i = Len(bus') THEN Status(up) ELSE bus[i + k]
      BY <1>1, <2>1, PushedEvents DEF FeedInv
    <3>2. bus' \in Seq(Event) /\ bus \in Seq(Event)
      BY <1>1, <2>1, PushedEvents DEF FeedInv, TypeOK
    <3>3. Len(bus') # 0
      <4>1. bus' # <<>>
        BY <2>1, <3>2, AppendProperties, HeadTailProperties, StatusIsEvent, <1>1 DEF Push
      <4> QED
        BY <3>2, <4>1, EmptySeq
    <3> QED
      BY <3>1, <3>2, <3>3, LenProperties
  <2>3. DOMAIN bus' = 1..Len(bus')
    BY <2>2, LenProperties
  <2>4. HasStatus(bus')
    BY <1>1, <2>2, <2>3 DEF HasStatus
  <2>5. ASSUME NEW i \in DOMAIN bus', bus'[i] # "toast", \A j \in DOMAIN bus' : j > i => bus'[j] = "toast"
        PROVE  bus'[i] = Status(up)
    <3>1. i = Len(bus')
      BY <1>1, <2>2, <2>3, <2>5
    <3> QED
      BY <2>2, <3>1
  <2> QED
    BY <1>1, <2>4, <2>5 DEF LastIsCurrent
<1>3. CASE relay # "up"
  <2>1. bus' = <<>>
    BY <1>1, <1>3 DEF Send, FeedInv
  <2> QED
    BY <1>3, <2>1 DEF LastIsCurrent
<1> QED
  BY <1>2, <1>3

\* A toast that is broadcast leaves the last status where it was, or drops it and
\* is noticed to.
LEMMA ToastIsPushed ==
  ASSUME FeedInv, Toast
  PROVE  /\ LastIsCurrent'
         /\ ~HasStatus(bus') /\ ~lost' => ~HasStatus(bus) /\ ~lost
<1>1. "toast" \in Event /\ Send("toast") /\ UNCHANGED <<relay, hermesUp, loop>>
  BY DEF Toast, Event, daemonVars
<1>2. CASE relay = "up"
  <2>1. Push("toast") /\ lost' = (~HasStatus(bus') /\ (lost \/ HasStatus(bus)))
    BY <1>1, <1>2 DEF Send
  <2>2. ~HasStatus(bus') /\ ~lost' => ~HasStatus(bus) /\ ~lost
    BY <2>1
  <2>3. PICK k \in {0, 1} :
          /\ Len(bus') = Len(bus) + 1 - k
          /\ \A i \in 1..Len(bus') : bus'[i] = IF i = Len(bus') THEN "toast" ELSE bus[i + k]
    BY <1>1, <2>1, PushedEvents DEF FeedInv
  <2>4. /\ bus' \in Seq(Event) /\ bus \in Seq(Event)
        /\ Len(bus) \in Nat /\ DOMAIN bus = 1..Len(bus)
        /\ Len(bus') \in Nat /\ DOMAIN bus' = 1..Len(bus')
    BY <1>1, <2>1, PushedEvents, LenProperties DEF FeedInv, TypeOK
  <2>5. ASSUME loop # "broadcasting", NEW i \in DOMAIN bus', bus'[i] # "toast",
               \A j \in DOMAIN bus' : j > i => bus'[j] = "toast"
        PROVE  bus'[i] = Status(hermesUp)
    <3>0. i \in 1..Len(bus') /\ i # Len(bus')
      BY <2>3, <2>4, <2>5
    <3>1. bus'[i] = bus[i + k]
      BY <2>3, <3>0
    <3>2. i \in Nat /\ i < Len(bus') /\ i >= 1
      BY <2>4, <3>0
    <3>3. i + k \in DOMAIN bus
      BY <2>3, <2>4, <3>2
    <3>4. ASSUME NEW j \in DOMAIN bus, j > i + k PROVE bus[j] = "toast"
      <4>1. j - k \in DOMAIN bus' /\ j - k > i /\ j - k # Len(bus') /\ (j - k) + k = j
        BY <2>3, <2>4, <3>2, <3>4
      <4> QED
        BY <2>3, <2>4, <2>5, <4>1
    <3> QED
      BY <2>5, <3>1, <3>3, <3>4 DEF FeedInv, LastIsCurrent
  <2> QED
    BY <1>1, <2>2, <2>5 DEF LastIsCurrent
<1>3. CASE relay # "up"
  BY <1>1, <1>3 DEF Send, FeedInv, LastIsCurrent
<1> QED
  BY <1>2, <1>3

\* An event that is taken was the last status, or is not.
LEMMA EventIsTaken ==
  ASSUME FeedInv, WriteEvent
  PROVE  /\ LastIsCurrent'
         /\ ~HasStatus(bus') /\ loop # "broadcasting" =>
              IF Head(bus) = "toast" THEN ~HasStatus(bus) ELSE Head(bus) = Status(hermesUp)
<1>1. /\ bus # <<>> /\ bus' = Tail(bus) /\ UNCHANGED <<loop, hermesUp>>
  BY DEF WriteEvent, daemonVars
<1>2. /\ Head(bus) \in Event /\ Head(bus) = bus[1]
      /\ bus' \in Seq(Event) /\ Len(bus') = Len(bus) - 1 /\ Len(bus) \in Nat \ {0}
      /\ \A i \in 1..Len(bus') : bus'[i] = bus[i + 1]
  BY <1>1, TakenEvent DEF FeedInv
<1>3. DOMAIN bus = 1..Len(bus) /\ DOMAIN bus' = 1..Len(bus')
  BY <1>2, LenProperties DEF FeedInv, TypeOK
<1>4. ASSUME NEW j \in DOMAIN bus, j > 1 PROVE j - 1 \in DOMAIN bus' /\ bus[j] = bus'[j - 1]
  BY <1>2, <1>3, <1>4
<1>5. LastIsCurrent'
  <2> SUFFICES ASSUME loop # "broadcasting", NEW i \in DOMAIN bus', bus'[i] # "toast",
                      \A j \in DOMAIN bus' : j > i => bus'[j] = "toast"
               PROVE  bus'[i] = Status(hermesUp)
    BY <1>1 DEF LastIsCurrent
  <2>1. i + 1 \in DOMAIN bus /\ bus[i + 1] = bus'[i]
    BY <1>2, <1>3
  <2>2. ASSUME NEW j \in DOMAIN bus, j > i + 1 PROVE bus[j] = "toast"
    BY <1>2, <1>3, <1>4, <2>2
  <2> QED
    BY <2>1, <2>2 DEF FeedInv, LastIsCurrent
<1>6. ASSUME ~HasStatus(bus') PROVE \A j \in DOMAIN bus : j > 1 => bus[j] = "toast"
  BY <1>4, <1>6 DEF HasStatus
<1>7. ASSUME ~HasStatus(bus'), Head(bus) = "toast" PROVE ~HasStatus(bus)
  <2>1. \A j \in DOMAIN bus : j = 1 \/ j > 1
    BY <1>2, <1>3
  <2> QED
    BY <1>2, <1>6, <1>7, <2>1 DEF HasStatus
<1>8. ASSUME ~HasStatus(bus'), Head(bus) # "toast", loop # "broadcasting" PROVE Head(bus) = Status(hermesUp)
  <2>1. 1 \in DOMAIN bus
    BY <1>2, <1>3
  <2> QED
    BY <1>2, <1>6, <1>8, <2>1 DEF FeedInv, LastIsCurrent
<1> QED
  BY <1>5, <1>7, <1>8

\* The handler of the status request, and the reply.
LEMMA RequestStep ==
  ASSUME FeedInv, ConnStep \/ WriteReply
  PROVE  OneRequest' /\ NoneIsMissed' /\ UNCHANGED <<relay, loop, up, hermesUp, bus, lost>>
<1>0. UNCHANGED <<relay, loop, up, hermesUp, bus, lost>>
  BY DEF ConnStep, ReadSubscribe, ReadStatus, LoadStatus, ReplyStatus, WriteReply, daemonVars, history
<1> USE <1>0 DEF FeedInv, OneRequest, NoneIsMissed
<1>1. CASE ReadSubscribe
  <2>1. lines' = <<"status">> /\ UNCHANGED <<handler, outq>> /\ lines # <<>> /\ subscribed'
    BY <1>1 DEF ReadSubscribe
  <2> QED
    BY <2>1
<1>2. CASE ReadStatus
  <2>1. lines # <<>> /\ lines' = <<>> /\ handler' = "spawned" /\ UNCHANGED <<outq, subscribed>>
        /\ lines # <<"subscribe", "status">>
    BY <1>2 DEF ReadStatus
  <2> QED
    BY <2>1
<1>3. CASE LoadStatus
  <2>1. handler = "spawned" /\ handler' = Status(hermesUp) /\ UNCHANGED <<lines, outq, subscribed>>
    BY <1>3 DEF LoadStatus
  <2>2. handler' \in {"connected", "disconnected"}
    BY <2>1, StatusIsEvent DEF TypeOK
  <2> QED
    BY <2>1, <2>2
<1>4. CASE ReplyStatus
  <2>1. /\ handler \in {"connected", "disconnected"} /\ handler' = "idle" /\ outq = <<>>
        /\ outq' = Append(<<>>, handler) /\ UNCHANGED <<lines, subscribed, passed>>
    BY <1>4 DEF ReplyStatus, history
  <2>2. outq' # <<>> /\ Len(outq') = 1 /\ Head(outq') = handler
    BY <2>1
  <2> QED
    BY <2>1, <2>2
<1>5. CASE WriteReply
  <2>1. /\ outq # <<>> /\ outq \in Seq(Event) /\ outq' = Tail(outq) /\ overtaken' = passed
        /\ connected' = (Head(outq) = "connected") /\ UNCHANGED <<lines, subscribed, handler>>
    BY <1>5 DEF WriteReply, TypeOK
  <2>2. outq' = <<>> /\ handler = "idle" /\ lines = <<>>
    BY <2>1, HeadTailProperties, EmptySeq, LenProperties
  <2>3. (Status(hermesUp) = "connected") = hermesUp
    BY SaysConnected DEF TypeOK
  <2> QED
    BY <2>1, <2>2, <2>3
<1> QED
  BY <1>1, <1>2, <1>3, <1>4, <1>5 DEF ConnStep

\* An event that reaches the panel is the last status, or is overtaken by nothing.
LEMMA EventStep ==
  ASSUME FeedInv, WriteEvent
  PROVE  OneRequest' /\ NoneIsMissed'
<1>1. /\ bus # <<>> /\ UNCHANGED <<relay, loop, up, hermesUp, lines, subscribed, handler, outq, lost>>
      /\ IF subscribed /\ Head(bus) # "toast"
           THEN connected' = (Head(bus) = "connected") /\ passed' = TRUE
           ELSE UNCHANGED <<connected, passed, overtaken>>
  BY DEF WriteEvent, daemonVars
<1>2. OneRequest'
  BY <1>1 DEF FeedInv, OneRequest
<1>3. ASSUME relay = "up", loop # "broadcasting", ~HasStatus(bus'), ~lost
      PROVE  \/ lines # <<>> \/ handler = "spawned"
             \/ handler \in {"connected", "disconnected"} /\ (handler = Status(hermesUp) \/ passed')
             \/ outq # <<>> /\ (Head(outq) = Status(hermesUp) \/ passed')
             \/ handler = "idle" /\ outq = <<>> /\ (connected' = hermesUp \/ overtaken')
  <2>1. CASE ~subscribed
    BY <1>3, <2>1 DEF FeedInv, OneRequest
  <2>2. CASE Head(bus) = "toast"
    BY <1>1, <1>3, <2>2, EventIsTaken DEF FeedInv, NoneIsMissed
  <2>3. CASE subscribed /\ Head(bus) # "toast"
    <3>1. Head(bus) = Status(hermesUp)
      BY <1>3, <2>3, EventIsTaken
    <3>2. connected' = hermesUp
      BY <1>1, <2>3, <3>1, SaysConnected DEF FeedInv, TypeOK
    <3>3. passed' = TRUE
      BY <1>1, <2>3
    <3>4. handler \in {"idle", "spawned", "connected", "disconnected"}
      BY DEF FeedInv, TypeOK
    <3> QED
      BY <3>2, <3>3, <3>4
  <2> QED
    BY <2>1, <2>2, <2>3
<1>4. NoneIsMissed'
  BY <1>1, <1>3 DEF NoneIsMissed
<1> QED
  BY <1>2, <1>4

\* What changes the connection as a whole: it starts afresh.
LEMMA FreshStep ==
  ASSUME FeedInv, CtlStart \/ CtlExit \/ DaemonRestart
  PROVE  FeedInv'
<1>1. /\ bus' = <<>> /\ outq' = <<>> /\ handler' = "idle"
      /\ relay' = "up" => lines' = <<"subscribe", "status">>
      /\ lines' # <<>> => handler' = "idle"
      /\ loop' = "broadcasting" => loop = "broadcasting" /\ UNCHANGED <<up, hermesUp>>
  BY DEF FeedInv, TypeOK, CtlStart, CtlExit, DaemonRestart, SocketCloses, Fresh, daemonVars
<1>2. TypeOK'
  BY TypeStep DEF FeedInv, Next
<1>3. OneRequest' /\ NoneIsMissed'
  BY <1>1 DEF OneRequest, NoneIsMissed
<1>4. LastIsCurrent'
  BY <1>1 DEF LastIsCurrent
<1>5. BroadcastIsCurrent'
  BY <1>1 DEF FeedInv, BroadcastIsCurrent
<1> QED
  BY <1>1, <1>2, <1>3, <1>4, <1>5 DEF FeedInv

LEMMA FeedStep == FeedInv /\ [Next]_vars => FeedInv'
<1> SUFFICES ASSUME FeedInv, [Next]_vars PROVE FeedInv'
  OBVIOUS
<1>0. TypeOK'
  BY TypeStep DEF FeedInv
<1> DEFINE Parts == OneRequest' /\ LastIsCurrent' /\ NoneIsMissed' /\ BroadcastIsCurrent'
                    /\ (relay' # "up" => bus' = <<>>)
<1>1. ASSUME Probe \/ Swap \/ Wake PROVE Parts
  <2>1. /\ UNCHANGED <<relay, connVars, connected, history>> /\ loop # "broadcasting"
        /\ (loop' # "broadcasting" => hermesUp' = hermesUp)
        /\ (loop' = "broadcasting" => hermesUp' = up')
    BY <1>1 DEF Probe, Swap, Wake
  <2>2. OneRequest' /\ NoneIsMissed' /\ (relay' # "up" => bus' = <<>>)
    BY <2>1 DEF FeedInv, OneRequest, NoneIsMissed, connVars, history
  <2>3. LastIsCurrent' /\ BroadcastIsCurrent'
    BY <2>1 DEF FeedInv, LastIsCurrent, BroadcastIsCurrent, connVars
  <2> QED
    BY <2>2, <2>3
<1>2. ASSUME Broadcast PROVE Parts
  <2>1. UNCHANGED <<relay, up, hermesUp, lines, subscribed, handler, outq>> /\ loop' = "sleeping"
        /\ (relay # "up" => bus' = bus)
    BY <1>2 DEF Broadcast, Send
  <2>2. OneRequest' /\ NoneIsMissed' /\ BroadcastIsCurrent' /\ (relay' # "up" => bus' = <<>>)
    BY <1>2, <2>1, StatusIsPushed DEF FeedInv, OneRequest, NoneIsMissed, BroadcastIsCurrent
  <2> QED
    BY <1>2, <2>2, StatusIsPushed
<1>3. ASSUME Toast PROVE Parts
  <2>1. UNCHANGED <<relay, loop, up, hermesUp, lines, subscribed, handler, outq, connected, passed, overtaken>>
        /\ (relay # "up" => bus' = bus)
    BY <1>3 DEF Toast, Send, daemonVars
  <2>2. OneRequest' /\ NoneIsMissed' /\ BroadcastIsCurrent' /\ (relay' # "up" => bus' = <<>>)
    BY <1>3, <2>1, ToastIsPushed DEF FeedInv, OneRequest, NoneIsMissed, BroadcastIsCurrent
  <2> QED
    BY <1>3, <2>2, ToastIsPushed
<1>4. ASSUME ConnStep \/ WriteReply PROVE Parts
  <2>1. OneRequest' /\ NoneIsMissed' /\ UNCHANGED <<relay, loop, up, hermesUp, bus, lost>>
    BY <1>4, RequestStep
  <2>2. LastIsCurrent' /\ BroadcastIsCurrent' /\ (relay' # "up" => bus' = <<>>)
    BY <2>1 DEF FeedInv, LastIsCurrent, BroadcastIsCurrent
  <2> QED
    BY <2>1, <2>2
<1>5. ASSUME WriteEvent PROVE Parts
  <2>1. bus # <<>> /\ UNCHANGED <<relay, loop, up, hermesUp>>
    BY <1>5 DEF WriteEvent, daemonVars
  <2>2. BroadcastIsCurrent' /\ (relay' # "up" => bus' = <<>>)
    BY <2>1 DEF FeedInv, BroadcastIsCurrent
  <2> QED
    BY <1>5, <2>2, EventStep, EventIsTaken
<1>6. ASSUME Flip \/ UNCHANGED vars PROVE Parts
  <2>1. UNCHANGED <<daemonVars, relay, connVars, connected, history>>
    BY <1>6 DEF Flip, vars
  <2>2. OneRequest' /\ NoneIsMissed' /\ (relay' # "up" => bus' = <<>>)
    BY <2>1 DEF FeedInv, OneRequest, NoneIsMissed, connVars, daemonVars, history
  <2>3. LastIsCurrent' /\ BroadcastIsCurrent'
    BY <2>1 DEF FeedInv, LastIsCurrent, BroadcastIsCurrent, connVars, daemonVars
  <2> QED
    BY <2>2, <2>3
<1>7. CASE CtlStart \/ CtlExit \/ DaemonRestart
  BY <1>7, FreshStep
<1>8. Parts => FeedInv'
  BY <1>0 DEF FeedInv
<1> QED
  BY <1>1, <1>2, <1>3, <1>4, <1>5, <1>6, <1>7, <1>8 DEF Next, LoopStep, WriterStep

LEMMA FeedHolds == Spec => []FeedInv
<1> QED
  BY FeedInit, FeedStep, PTL DEF Spec

\* A panel with nothing on its way shows what the daemon knows, but for a reply
\* an event has overtaken and a status that toasts have pushed out.
THEOREM NothingIsMissed == Spec => []NoTransitionMissed
<1>1. FeedInv => NoTransitionMissed
  BY DEF FeedInv, NoneIsMissed, NoTransitionMissed, Settled
<1> QED
  BY <1>1, FeedHolds, PTL
=============================================================================
