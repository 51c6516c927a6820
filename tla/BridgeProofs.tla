---------------------------- MODULE BridgeProofs ----------------------------
(***************************************************************************)
(* Proofs about Bridge, for every set of turns and chats and every bound.  *)
(*                                                                         *)
(* The safety invariants of Bridge are not inductive.  They are proved in  *)
(* three layers, each resting on the ones before it:                       *)
(*   SubmitInv  what has been sent, and what a turn's pc says about it;    *)
(*   RouteInv   who owns an entry of the routes map;                       *)
(*   FrameInv   which message a frame on its way answers.                  *)
(* Then that Bridge implements ChatTurns, and that a cancelled turn ends,  *)
(* up to what a state ENABLEs.                                             *)
(***************************************************************************)
EXTENDS Bridge, SequenceTheorems, TLAPS

-----------------------------------------------------------------------------
(* Sequences: the elements of what Append and Tail return.                 *)

\* Whatever held of a queue's elements and of the new one holds after a push.
LEMMA PushedElements ==
  ASSUME NEW S, NEW q \in Seq(S), NEW e \in S
  PROVE  /\ Append(q, e) \in Seq(S)
         /\ \A i \in DOMAIN Append(q, e) :
              Append(q, e)[i] = e \/ \E j \in DOMAIN q : Append(q, e)[i] = q[j]
  OBVIOUS

\* A push makes the queue one longer, and the new element is the last.
LEMMA PushedIsLast ==
  ASSUME NEW S, NEW q \in Seq(S), NEW e \in S
  PROVE  /\ Append(q, e) # <<>>
         /\ \A x : Append(q, e) = <<x>> => x = e
<1>1. /\ Len(q) \in Nat
      /\ Len(Append(q, e)) = Len(q) + 1
      /\ Append(q, e)[Len(q) + 1] = e
  BY AppendProperties, LenProperties
<1>2. Append(q, e) # <<>>
  BY <1>1
<1>3. ASSUME NEW x, Append(q, e) = <<x>> PROVE x = e
  <2>1. Len(q) + 1 = 1
    BY <1>1, <1>3
  <2> QED  BY <1>1, <1>3, <2>1
<1> QED  BY <1>2, <1>3

\* Popping a queue returns one of its elements and leaves the others.
LEMMA PoppedElements ==
  ASSUME NEW S, NEW q \in Seq(S), q # <<>>
  PROVE  /\ Tail(q) \in Seq(S)
         /\ Head(q) \in S
         /\ \E j \in DOMAIN q : Head(q) = q[j]
         /\ \A i \in DOMAIN Tail(q) : \E j \in DOMAIN q : Tail(q)[i] = q[j]
<1>1. Len(q) \in Nat /\ Len(q) > 0 /\ DOMAIN q = 1..Len(q)
  BY EmptySeq, LenProperties
<1>2. Head(q) = q[1] /\ 1 \in DOMAIN q
  BY <1>1
<1>3. Tail(q) \in Seq(S) /\ Len(Tail(q)) = Len(q) - 1
      /\ \A i \in 1..Len(Tail(q)) : Tail(q)[i] = q[i + 1]
  BY <1>1, HeadTailProperties
<1>4. \A i \in DOMAIN Tail(q) : i + 1 \in DOMAIN q /\ Tail(q)[i] = q[i + 1]
  BY <1>1, <1>3
<1> QED  BY <1>1, <1>2, <1>3, <1>4

-----------------------------------------------------------------------------
(* First layer.                                                            *)

\* A message no writer queue holds and the gateway has not received.
Unsent(t) == /\ t \notin received
             /\ \A s \in Sockets : \A i \in DOMAIN outq[s] : outq[s][i] # t

\* A turn gets its chat id when it starts: one of its client's, or its own.
ChatsAreAssigned ==
  \A t \in Turns : /\ chat[t] \in Chats \union {t, NoChat}
                   /\ pc[t] = "idle" <=> chat[t] = NoChat

\* Nothing is sent, received or answered for a turn before its send_inbound
\* succeeds, and nothing at all for one that was told "offline".
NothingBeforeSubmit ==
  \A t \in Turns :
    /\ pc[t] \in {"idle", "opened", "offline"} => Unsent(t) /\ replies[t] = <<>>
    /\ pc[t] = "idle" => queue[t] = <<>>
    /\ replies[t] = <<"offline">> => Unsent(t) /\ pc[t] = "done"

SubmitInv == TypeOK /\ ChatsAreAssigned /\ NothingBeforeSubmit /\ AdapterIsOpen

\* At start no turn is submitted and no adapter registered.
LEMMA SubmitInit == Init => SubmitInv
BY TurnsAssumption, ChatsAssumption, BoundsAssumption
   DEF Init, SubmitInv, TypeOK, ChatsAreAssigned, NothingBeforeSubmit, Unsent,
       AdapterIsOpen, Sockets, NoSocket, ChatIds, Frame, ReplyKinds

\* Every step of the turns, the connections and the gateway is well typed.
LEMMA TypeStep == ASSUME SubmitInv, [Next]_vars PROVE TypeOK'
<1> USE TurnsAssumption, ChatsAssumption, BoundsAssumption
<1> USE DEF SubmitInv, historyVars, turnVars, sockVars, gatewayVars
<1>0. /\ \A t \in Turns : queue[t] \in Seq(Frame)
      /\ \A s \in Sockets : outq[s] \in Seq(Turns) /\ inq[s] \in Seq(Frame)
      /\ \A f \in Frame : f.for \in Turns /\ f.chat \in ChatIds
      /\ <<>> \in Seq(Frame) /\ <<>> \in Seq(Turns)
  <2>1. \A f \in Frame : f.for \in Turns /\ f.chat \in ChatIds
    BY DEF Frame
  <2>2. <<>> \in Seq(Frame) /\ <<>> \in Seq(Turns)
    OBVIOUS
  <2>3. \A t \in Turns : queue[t] \in Seq(Frame)
    BY DEF TypeOK
  <2>4. \A s \in Sockets : outq[s] \in Seq(Turns) /\ inq[s] \in Seq(Frame)
    BY DEF TypeOK
  <2> QED  BY <2>1, <2>2, <2>3, <2>4
<1>1. ASSUME NEW t \in Turns, NEW c \in ChatIds, HandleChat(t, c) PROVE TypeOK'
  <2>1. routes' \in [ChatIds -> Turns \union {NoTurn}]
    BY <1>1 DEF TypeOK, HandleChat, OpenChat
  <2>2. overlapped' \subseteq Turns
    BY <1>1 DEF TypeOK, HandleChat, Rivals
  <2>4. seen' \in [Turns -> SUBSET Turns]
    <3>1. {u \in Turns : pc[u] # "idle"} \union {t} \in SUBSET Turns
      OBVIOUS
    <3> QED  BY <1>1, <3>1 DEF TypeOK, HandleChat
  <2>3. pc' \in [Turns -> {"idle", "opened", "offline", "waiting", "closing", "done"}]
        /\ chat' \in [Turns -> ChatIds \union {NoChat}]
    BY <1>1 DEF TypeOK, HandleChat
  <2> QED  BY <1>1, <2>1, <2>2, <2>3, <2>4 DEF TypeOK, HandleChat
<1>2. ASSUME NEW t \in Turns, SendInbound(t) PROVE TypeOK'
  <2>1. outq' \in [Sockets -> Seq(Turns)]
    <3>1. CASE AdapterTakes /\ outq' = [outq EXCEPT ![adapter] = Append(@, t)]
      <4>1. outq[adapter] \in Seq(Turns)
        BY <1>0, <3>1 DEF TypeOK, AdapterTakes
      <4>2. Append(outq[adapter], t) \in Seq(Turns)
        BY <4>1, PushedElements
      <4> QED  BY <3>1, <4>2 DEF TypeOK
    <3> QED  BY <1>2, <3>1 DEF TypeOK, SendInbound
  <2>2. pc' \in [Turns -> {"idle", "opened", "offline", "waiting", "closing", "done"}]
    BY <1>2 DEF TypeOK, SendInbound
  <2> QED  BY <1>2, <2>1, <2>2 DEF TypeOK, SendInbound
<1>3. ASSUME NEW t \in Turns, OfflineReturn(t) PROVE TypeOK'
  <2>1. routes' \in [ChatIds -> Turns \union {NoTurn}]
    BY <1>3 DEF TypeOK, OfflineReturn, CloseChat
  <2>2. queue' \in [Turns -> Seq(Frame)]
    BY <1>0, <1>3 DEF TypeOK, OfflineReturn
  <2> QED  BY <1>3, <2>1, <2>2 DEF TypeOK, OfflineReturn, Reply, ReplyKinds
<1>4. ASSUME NEW t \in Turns, TurnCancelled(t) PROVE TypeOK'
  BY <1>4 DEF TypeOK, TurnCancelled, FinishWith, Reply, ReplyKinds
<1>5. ASSUME NEW t \in Turns, NEW kind \in Kinds, TakeFrame(t, kind)
      PROVE  /\ queue' \in [Turns -> Seq(Frame)]
             /\ Relay(t) => answers' \in [Turns -> SUBSET Turns]
  <2>1. queue[t] \in Seq(Frame) /\ queue[t] # <<>>
    BY <1>0, <1>5 DEF TakeFrame
  <2>2. Tail(queue[t]) \in Seq(Frame) /\ Head(queue[t]).for \in Turns
    BY <1>0, <2>1, PoppedElements
  <2>3. queue' \in [Turns -> Seq(Frame)]
    BY <1>5, <2>2 DEF TypeOK, TakeFrame
  <2>4. ASSUME Relay(t) PROVE answers' \in [Turns -> SUBSET Turns]
    BY <2>2, <2>4 DEF TypeOK, Relay
  <2> QED  BY <2>3, <2>4
<1>6. ASSUME NEW t \in Turns, TurnDraft(t) PROVE TypeOK'
  BY <1>5, <1>6 DEF TypeOK, TurnDraft, Reply, ReplyKinds, Kinds
<1>7. ASSUME NEW t \in Turns, TurnTyping(t) PROVE TypeOK'
  BY <1>5, <1>7 DEF TypeOK, TurnTyping, Kinds
<1>8. ASSUME NEW t \in Turns, TurnSend(t) PROVE TypeOK'
  <2>1. queue' \in [Turns -> Seq(Frame)] /\ answers' \in [Turns -> SUBSET Turns]
    BY <1>5, <1>8 DEF TurnSend, Kinds
  <2>2. replies' \in [Turns -> Seq(ReplyKinds)] /\ notified' \subseteq Turns
    BY <1>8 DEF TypeOK, TurnSend, FinishWith, Reply, ReplyKinds
  <2>3. pc' \in [Turns -> {"idle", "opened", "offline", "waiting", "closing", "done"}]
    BY <1>8 DEF TypeOK, TurnSend, FinishWith
  <2> QED  BY <1>8, <2>1, <2>2, <2>3 DEF TypeOK, TurnSend
<1>9. ASSUME NEW t \in Turns, TurnNone(t) PROVE TypeOK'
  BY <1>9 DEF TypeOK, TurnNone, FinishWith, Reply, ReplyKinds
<1>10. ASSUME NEW t \in Turns, TurnClose(t) PROVE TypeOK'
  <2>1. routes' \in [ChatIds -> Turns \union {NoTurn}]
    BY <1>10 DEF TypeOK, TurnClose, CloseChat
  <2>2. queue' \in [Turns -> Seq(Frame)]
    BY <1>0, <1>10 DEF TypeOK, TurnClose
  <2> QED  BY <1>10, <2>1, <2>2 DEF TypeOK, TurnClose
<1>11. ASSUME NEW t \in Turns, Cancel(t) PROVE TypeOK'
  BY <1>11 DEF TypeOK, Cancel
<1>12. ASSUME NEW s \in Sockets, Dial(s) PROVE TypeOK'
  BY <1>12 DEF TypeOK, Dial
<1>13. ASSUME NEW s \in Sockets, SetAdapter(s) PROVE TypeOK'
  BY <1>13 DEF TypeOK, SetAdapter
<1>14. ASSUME NEW s \in Sockets, WriteFrame(s) PROVE TypeOK'
  <2>1. Tail(outq[s]) \in Seq(Turns) /\ Head(outq[s]) \in Turns /\ <<>> \in Seq(Turns)
    BY <1>0, <1>14, PoppedElements DEF WriteFrame
  <2>2. outq' \in [Sockets -> Seq(Turns)]
    <3>1. \E q \in Seq(Turns) : outq' = [outq EXCEPT ![s] = q]
      BY <1>14, <2>1 DEF WriteFrame
    <3> QED  BY <3>1 DEF TypeOK
  <2> QED  BY <1>14, <2>1, <2>2 DEF TypeOK, WriteFrame
<1>15. ASSUME NEW s \in Sockets, ReadFrame(s) PROVE TypeOK'
  <2>1. Tail(inq[s]) \in Seq(Frame) /\ Head(inq[s]) \in Frame
    BY <1>0, <1>15, PoppedElements DEF ReadFrame
  <2>2. inq' \in [Sockets -> Seq(Frame)]
    BY <1>15, <2>1 DEF TypeOK, ReadFrame
  <2>3. queue' \in [Turns -> Seq(Frame)]
    <3> DEFINE t == routes[Head(inq[s]).chat]
    <3>1. t \in Turns \union {NoTurn}
      BY <1>0, <2>1 DEF TypeOK
    <3>2. CASE t # NoTurn /\ InFlight(t)
      <4>1. Append(queue[t], Head(inq[s])) \in Seq(Frame)
        BY <1>0, <2>1, <3>1, <3>2, PushedElements
      <4>2. queue' = [queue EXCEPT ![t] = Append(@, Head(inq[s]))]
        BY <1>15, <3>2 DEF ReadFrame, Dispatch
      <4> QED  BY <4>1, <4>2 DEF TypeOK
    <3>3. CASE ~(t # NoTurn /\ InFlight(t))
      BY <1>15, <3>3 DEF TypeOK, ReadFrame, Dispatch
    <3> QED  BY <3>2, <3>3
  <2> QED  BY <1>15, <2>2, <2>3 DEF TypeOK, ReadFrame
<1>16. ASSUME NEW s \in Sockets, SocketClosed(s) PROVE TypeOK'
  BY <1>16 DEF TypeOK, SocketClosed, ClearAdapter
<1>17. ASSUME NEW s \in Sockets, LinkLoss(s) PROVE TypeOK'
  BY <1>17 DEF TypeOK, LinkLoss
<1>18. ASSUME NEW m \in Turns, NEW kind \in Kinds, GatewayEmit(m, kind) PROVE TypeOK'
  <2> DEFINE f == [kind |-> kind, chat |-> chat[m], for |-> m]
  <2>1. chat[m] \in ChatIds
    BY <1>18 DEF TypeOK, GatewayEmit, ChatsAreAssigned, NothingBeforeSubmit, Unsent
  <2>2. f \in Frame
    BY <2>1 DEF Frame
  <2>3. PICK s \in Sockets : inq' = [inq EXCEPT ![s] = Append(@, f)]
    BY <1>18 DEF GatewayEmit
  <2>4. Append(inq[s], f) \in Seq(Frame)
    BY <1>0, <2>2, PushedElements
  <2>5. inq' \in [Sockets -> Seq(Frame)]
    BY <2>3, <2>4 DEF TypeOK
  <2> QED  BY <1>18, <2>5 DEF TypeOK, GatewayEmit
<1>19. CASE UNCHANGED vars
  BY <1>19 DEF TypeOK, vars
<1> QED
  BY <1>1, <1>2, <1>3, <1>4, <1>6, <1>7, <1>8, <1>9, <1>10, <1>11, <1>12,
     <1>13, <1>14, <1>15, <1>16, <1>17, <1>18, <1>19 DEF Next, TurnStep, SocketStep

\* handle_chat fixes a turn's chat id for good.
LEMMA ChatsStep == ASSUME SubmitInv, [Next]_vars PROVE ChatsAreAssigned'
<1> USE TurnsAssumption, ChatsAssumption
<1> USE DEF SubmitInv, ChatsAreAssigned, historyVars, turnVars, sockVars, gatewayVars
<1>1. ASSUME NEW t \in Turns, NEW c \in ChatIds, HandleChat(t, c) PROVE ChatsAreAssigned'
  BY <1>1 DEF TypeOK, HandleChat, ChatIds
<1>2. ASSUME NEW t \in Turns, TurnStep(t) PROVE ChatsAreAssigned'
  <2>1. chat' = chat
    BY <1>2 DEF TurnStep, SendInbound, OfflineReturn, TurnCancelled, TurnDraft, TurnTyping,
                TurnSend, TurnNone, TurnClose
  <2>2. pc[t] # "idle" /\ (pc' = pc \/ \E p \in {"waiting", "offline", "closing", "done"} :
                                         pc' = [pc EXCEPT ![t] = p])
    BY <1>2 DEF TurnStep, SendInbound, OfflineReturn, TurnCancelled, TurnDraft, TurnTyping,
                TurnSend, TurnNone, TurnClose, TakeFrame, FinishWith
  <2>3. \A u \in Turns : pc'[u] = "idle" <=> pc[u] = "idle"
    BY <2>2 DEF TypeOK
  <2> QED  BY <2>1, <2>3
<1>3. ASSUME NEW t \in Turns, Cancel(t) PROVE ChatsAreAssigned'
  BY <1>3 DEF Cancel
<1>4. ASSUME NEW s \in Sockets, Dial(s) \/ SocketStep(s) \/ LinkLoss(s) PROVE ChatsAreAssigned'
  BY <1>4 DEF Dial, SocketStep, SetAdapter, WriteFrame, ReadFrame, SocketClosed, LinkLoss
<1>5. ASSUME NEW m \in Turns, NEW kind \in Kinds, GatewayEmit(m, kind) PROVE ChatsAreAssigned'
  BY <1>5 DEF GatewayEmit
<1>6. CASE UNCHANGED vars
  BY <1>6 DEF vars
<1> QED
  BY <1>1, <1>2, <1>3, <1>4, <1>5, <1>6 DEF Next

\* Only set_adapter registers a sender; the end of a connection removes it.
LEMMA AdapterStep == ASSUME SubmitInv, [Next]_vars PROVE AdapterIsOpen'
<1> USE DEF SubmitInv, AdapterIsOpen, historyVars, turnVars, sockVars, gatewayVars
<1>1. ASSUME NEW t \in Turns, NEW c \in ChatIds, HandleChat(t, c) PROVE AdapterIsOpen'
  BY <1>1 DEF HandleChat
<1>2. ASSUME NEW t \in Turns, TurnStep(t) \/ Cancel(t) PROVE AdapterIsOpen'
  BY <1>2 DEF TurnStep, SendInbound, OfflineReturn, TurnCancelled, TurnDraft,
              TurnTyping, TurnSend, TurnNone, TurnClose, Cancel
<1>3. ASSUME NEW s \in Sockets, Dial(s) PROVE AdapterIsOpen'
  BY <1>3 DEF TypeOK, Dial
<1>4. ASSUME NEW s \in Sockets, SetAdapter(s) PROVE AdapterIsOpen'
  BY <1>4 DEF TypeOK, SetAdapter
<1>5. ASSUME NEW s \in Sockets, WriteFrame(s) \/ ReadFrame(s) \/ LinkLoss(s) PROVE AdapterIsOpen'
  BY <1>5 DEF WriteFrame, ReadFrame, LinkLoss
<1>6. ASSUME NEW s \in Sockets, SocketClosed(s) PROVE AdapterIsOpen'
  BY <1>6 DEF SocketClosed, ClearAdapter
<1>7. ASSUME NEW m \in Turns, NEW kind \in Kinds, GatewayEmit(m, kind) PROVE AdapterIsOpen'
  BY <1>7 DEF GatewayEmit
<1>8. CASE UNCHANGED vars
  BY <1>8 DEF vars
<1> QED
  BY <1>1, <1>2, <1>3, <1>4, <1>5, <1>6, <1>7, <1>8 DEF Next, SocketStep

\* A message can only become sent by its own turn's send_inbound.
LEMMA UnsentStep ==
  ASSUME SubmitInv, [Next]_vars, NEW t \in Turns, Unsent(t)
  PROVE  Unsent(t)' \/ (SendInbound(t) /\ AdapterTakes)
<1> USE DEF SubmitInv, Unsent, historyVars, turnVars, sockVars, gatewayVars
<1>0. \A s \in Sockets : outq[s] \in Seq(Turns)
  BY DEF TypeOK
<1>1. CASE \E u \in Turns : SendInbound(u)
  <2>1. PICK u \in Turns : SendInbound(u)
    BY <1>1
  <2>2. CASE AdapterTakes /\ outq' = [outq EXCEPT ![adapter] = Append(@, u)]
    <3>1. CASE u = t
      BY <2>1, <2>2, <3>1
    <3>2. CASE u # t
      <4>1. adapter \in Sockets /\ outq[adapter] \in Seq(Turns)
        BY <1>0, <2>2 DEF TypeOK, AdapterTakes
      <4>2. \A i \in DOMAIN Append(outq[adapter], u) : Append(outq[adapter], u)[i] # t
        BY <3>2, <4>1, PushedElements
      <4>3. outq'[adapter] = Append(outq[adapter], u)
            /\ \A s \in Sockets : s # adapter => outq'[s] = outq[s]
        BY <2>2, <4>1 DEF TypeOK
      <4>4. received' = received
        BY <2>1 DEF SendInbound
      <4> QED  BY <4>2, <4>3, <4>4
    <3> QED  BY <3>1, <3>2
  <2>3. CASE UNCHANGED outq
    <3>1. received' = received /\ outq' = outq
      BY <2>1, <2>3 DEF SendInbound
    <3> QED  BY <3>1
  <2> QED  BY <2>1, <2>2, <2>3 DEF SendInbound
<1>2. ASSUME NEW s \in Sockets, WriteFrame(s) PROVE Unsent(t)'
  <2>1. /\ \A i \in DOMAIN Tail(outq[s]) : Tail(outq[s])[i] # t
        /\ Head(outq[s]) # t
    BY <1>0, <1>2, PoppedElements DEF WriteFrame
  <2>2. received' \subseteq received \union {Head(outq[s])}
    BY <1>2 DEF WriteFrame
  <2>3. \A r \in Sockets : r # s => outq'[r] = outq[r]
    BY <1>2 DEF TypeOK, WriteFrame
  <2>4. outq'[s] = Tail(outq[s]) \/ outq'[s] = <<>>
    BY <1>2 DEF TypeOK, WriteFrame
  <2>5. t \notin received'
    BY <2>1, <2>2
  <2>6. ASSUME NEW r \in Sockets, NEW i \in DOMAIN outq'[r] PROVE outq'[r][i] # t
    <3>1. CASE r = s
      <4>1. CASE outq'[s] = Tail(outq[s])
        BY <2>1, <2>6, <3>1, <4>1
      <4>2. CASE outq'[s] = <<>>
        BY <2>6, <3>1, <4>2
      <4> QED  BY <2>4, <4>1, <4>2
    <3>2. CASE r # s
      BY <2>3, <2>6, <3>2
    <3> QED  BY <3>1, <3>2
  <2> QED  BY <2>5, <2>6
<1>3. ASSUME NEW s \in Sockets, SocketClosed(s) PROVE Unsent(t)'
  <2>1. /\ received' = received
        /\ \A r \in Sockets : outq'[r] = outq[r] \/ outq'[r] = <<>>
    BY <1>3 DEF TypeOK, SocketClosed
  <2> QED  BY <2>1
<1>4. CASE UNCHANGED <<outq, received>>
  BY <1>4
<1>5. \/ \E u \in Turns : SendInbound(u)
      \/ \E s \in Sockets : WriteFrame(s) \/ SocketClosed(s)
      \/ UNCHANGED <<outq, received>>
  BY DEF Next, TurnStep, SocketStep, HandleChat, OfflineReturn, TurnCancelled, TurnDraft,
         TurnTyping, TurnSend, TurnNone, TurnClose, Cancel, Dial, SetAdapter, ReadFrame,
         LinkLoss, GatewayEmit, vars
<1> QED  BY <1>1, <1>2, <1>3, <1>4, <1>5

\* What any step may do to one turn: its pc moves along chat_via_bridge, its
\* replies only grow, "offline" is said only by the early return, and its
\* channel is touched only while it is in flight or emptied.
Progress(t) ==
  /\ \/ pc'[t] = pc[t] /\ replies'[t] = replies[t]
     \/ pc[t] = "idle" /\ pc'[t] = "opened" /\ replies'[t] = replies[t]
     \/ pc[t] = "opened" /\ pc'[t] \in {"waiting", "offline"} /\ replies'[t] = replies[t]
     \/ /\ pc[t] = "offline" /\ pc'[t] = "done"
        /\ replies'[t] = Append(replies[t], "offline")
     \/ /\ pc[t] = "waiting" /\ pc'[t] \in {"waiting", "closing"}
        /\ \E kind \in ReplyKinds \ {"offline"} : replies'[t] = Append(replies[t], kind)
     \/ pc[t] = "closing" /\ pc'[t] = "done" /\ replies'[t] = replies[t]
  /\ queue'[t] = queue[t] \/ queue'[t] = <<>> \/ InFlight(t)

\* How any step can change one turn: see Progress.
LEMMA TurnProgress == ASSUME SubmitInv, [Next]_vars, NEW t \in Turns PROVE Progress(t)
<1> USE DEF SubmitInv, Progress, historyVars, turnVars, sockVars, gatewayVars
<1>1. ASSUME NEW u \in Turns, NEW c \in ChatIds, HandleChat(u, c) PROVE Progress(t)
  BY <1>1 DEF TypeOK, HandleChat
<1>2. ASSUME TurnStep(t) PROVE Progress(t)
  <2>1. CASE SendInbound(t)
    BY <2>1 DEF TypeOK, SendInbound
  <2>2. CASE OfflineReturn(t)
    BY <2>2 DEF TypeOK, OfflineReturn, Reply, InFlight
  <2>3. CASE TurnCancelled(t)
    BY <2>3 DEF TypeOK, TurnCancelled, FinishWith, Reply, ReplyKinds
  <2>4. CASE TurnDraft(t)
    BY <2>4 DEF TypeOK, TurnDraft, TakeFrame, Reply, ReplyKinds, InFlight
  <2>5. CASE TurnTyping(t)
    BY <2>5 DEF TypeOK, TurnTyping, TakeFrame, InFlight
  <2>6. CASE TurnSend(t)
    BY <2>6 DEF TypeOK, TurnSend, TakeFrame, FinishWith, Reply, ReplyKinds, InFlight
  <2>7. CASE TurnNone(t)
    BY <2>7 DEF TypeOK, TurnNone, FinishWith, Reply, ReplyKinds
  <2>8. CASE TurnClose(t)
    BY <2>8 DEF TypeOK, TurnClose, InFlight
  <2> QED  BY <1>2, <2>1, <2>2, <2>3, <2>4, <2>5, <2>6, <2>7, <2>8 DEF TurnStep
<1>3. ASSUME NEW u \in Turns, u # t, TurnStep(u) PROVE Progress(t)
  <2>1. pc'[t] = pc[t] /\ queue'[t] = queue[t]
    BY <1>3 DEF TypeOK, TurnStep, SendInbound, OfflineReturn, TurnCancelled, TurnDraft,
                TurnTyping, TurnSend, TurnNone, TurnClose, TakeFrame, FinishWith
  <2>2. replies'[t] = replies[t]
    BY <1>3 DEF TypeOK, TurnStep, SendInbound, OfflineReturn, TurnCancelled, TurnDraft,
                TurnTyping, TurnSend, TurnNone, TurnClose, FinishWith, Reply
  <2> QED  BY <2>1, <2>2
<1>4. ASSUME NEW s \in Sockets, ReadFrame(s) PROVE Progress(t)
  BY <1>4 DEF TypeOK, ReadFrame, Dispatch
<1>5. CASE UNCHANGED <<pc, replies, queue>>
  BY <1>5
<1>6. ASSUME NEW u \in Turns, Cancel(u) PROVE UNCHANGED <<pc, replies, queue>>
  BY <1>6 DEF Cancel
<1>7. ASSUME NEW s \in Sockets, Dial(s) \/ SetAdapter(s) \/ WriteFrame(s) \/ SocketClosed(s) \/ LinkLoss(s)
      PROVE UNCHANGED <<pc, replies, queue>>
  BY <1>7 DEF Dial, SetAdapter, WriteFrame, SocketClosed, LinkLoss
<1>8. ASSUME NEW m \in Turns, NEW kind \in Kinds, GatewayEmit(m, kind)
      PROVE UNCHANGED <<pc, replies, queue>>
  BY <1>8 DEF GatewayEmit
<1>9. CASE UNCHANGED vars
  BY <1>9 DEF vars
<1> QED
  BY <1>1, <1>2, <1>3, <1>4, <1>5, <1>6, <1>7, <1>8, <1>9 DEF Next, SocketStep

\* What a turn that was not submitted has not done, it still has not done.
LEMMA SubmittedStep == ASSUME SubmitInv, [Next]_vars PROVE NothingBeforeSubmit'
<1> SUFFICES ASSUME NEW t \in Turns
             PROVE  /\ (pc[t] \in {"idle", "opened", "offline"} => Unsent(t) /\ replies[t] = <<>>)'
                    /\ (pc[t] = "idle" => queue[t] = <<>>)'
                    /\ (replies[t] = <<"offline">> => Unsent(t) /\ pc[t] = "done")'
  BY DEF NothingBeforeSubmit
<1> USE DEF SubmitInv, historyVars, turnVars, sockVars, gatewayVars
<1>0. /\ pc[t] \in {"idle", "opened", "offline"} => Unsent(t) /\ replies[t] = <<>>
      /\ pc[t] = "idle" => queue[t] = <<>>
      /\ replies[t] = <<"offline">> => Unsent(t) /\ pc[t] = "done"
  BY DEF NothingBeforeSubmit
<1>1. SendInbound(t) /\ AdapterTakes => pc[t] = "opened" /\ pc'[t] = "waiting" /\ replies' = replies
  BY DEF TypeOK, SendInbound
<1>2. Unsent(t) => Unsent(t)' \/ (pc[t] = "opened" /\ pc'[t] = "waiting" /\ replies' = replies)
  BY <1>1, UnsentStep
<1>3. Progress(t)
  BY TurnProgress
<1>4. \A kind \in ReplyKinds : /\ Append(replies[t], kind) # <<>>
                               /\ Append(replies[t], kind) = <<"offline">> => kind = "offline"
  <2>1. replies[t] \in Seq(ReplyKinds)
    BY DEF TypeOK
  <2> QED  BY <2>1, PushedIsLast
<1>5. (pc[t] \in {"idle", "opened", "offline"} => Unsent(t) /\ replies[t] = <<>>)'
  BY <1>0, <1>2, <1>3 DEF Progress
<1>6. (replies[t] = <<"offline">> => Unsent(t) /\ pc[t] = "done")'
  BY <1>0, <1>2, <1>3, <1>4 DEF Progress
<1>7. (pc[t] = "idle" => queue[t] = <<>>)'
  BY <1>0, <1>3 DEF Progress, InFlight
<1> QED  BY <1>5, <1>6, <1>7

\* A turn told "desktop platform offline" was not submitted, and no sender of
\* a finished connection stays registered; the types are right.
THEOREM SubmitCorrect == Spec => []SubmitInv
<1>1. Init => SubmitInv
  BY SubmitInit
<1>2. SubmitInv /\ [Next]_vars => SubmitInv'
  BY TypeStep, ChatsStep, AdapterStep, SubmittedStep DEF SubmitInv
<1> QED  BY <1>1, <1>2, PTL DEF Spec

\* TypeOK of the model of bridge.rs and chat_via_bridge.
THEOREM TypeCorrect == Spec => []TypeOK
<1>1. SubmitInv => TypeOK
  BY DEF SubmitInv
<1> QED  BY <1>1, SubmitCorrect, PTL

\* No stale sender survives handle_socket (clear_adapter comes before it ends).
THEOREM AdapterIsOpenAlways == Spec => []AdapterIsOpen
<1>1. SubmitInv => AdapterIsOpen
  BY DEF SubmitInv
<1> QED  BY <1>1, SubmitCorrect, PTL

\* A false send_inbound means the message is never run by the gateway.
THEOREM OfflineIsSafeToRetry == Spec => []OfflineMeansNotSent
<1>1. SubmitInv => OfflineMeansNotSent
  BY DEF SubmitInv, NothingBeforeSubmit, Unsent, OfflineMeansNotSent
<1> QED  BY <1>1, SubmitCorrect, PTL

-----------------------------------------------------------------------------
(* Second layer: the routes map.                                           *)

\* Two turns in flight on one chat id both count as overlapped.
SharersOverlap ==
  \A t, u \in Turns : t # u /\ InFlight(t) /\ InFlight(u) /\ chat[t] = chat[u]
                      => t \in overlapped

RouteInv == /\ RoutesAreLive
            /\ SharersOverlap
            /\ LoneTurnKeepsRoute
            /\ DisconnectedOnlyIfOverlapped

\* What the routes map sees of a step: a turn starts, a turn returns, or neither.
Enters(t, c) ==
  /\ c \in ChatIds
  /\ pc[t] = "idle" /\ chat[t] = NoChat
  /\ pc' = [pc EXCEPT ![t] = "opened"]
  /\ chat' = [chat EXCEPT ![t] = c]
  /\ routes' = [routes EXCEPT ![c] = t]
  /\ overlapped' = IF Rivals(c) = {} THEN overlapped ELSE overlapped \union Rivals(c) \union {t}

Leaves(t) ==
  /\ InFlight(t) /\ chat[t] \in ChatIds
  /\ pc' = [pc EXCEPT ![t] = "done"]
  /\ routes' = [routes EXCEPT ![chat[t]] = NoTurn]
  /\ UNCHANGED <<chat, overlapped>>

NoTurnover ==
  /\ UNCHANGED <<routes, chat, overlapped>>
  /\ \A u \in Turns : InFlight(u)' <=> InFlight(u)

\* Seen from the routes map, a step enters a turn, leaves one, or stays.
LEMMA RouteSteps ==
  ASSUME SubmitInv, [Next]_vars
  PROVE  \/ \E t \in Turns : \E c \in ChatIds : Enters(t, c)
         \/ \E t \in Turns : Leaves(t)
         \/ NoTurnover
<1> USE DEF SubmitInv, historyVars, turnVars, sockVars, gatewayVars
<1>1. ASSUME NEW t \in Turns, NEW c \in ChatIds, HandleChat(t, c) PROVE Enters(t, c)
  BY <1>1 DEF HandleChat, Enters, OpenChat, ChatsAreAssigned
<1>2. ASSUME NEW t \in Turns, OfflineReturn(t) \/ TurnClose(t) PROVE Leaves(t)
  <2>1. chat[t] \in ChatIds /\ InFlight(t)
    BY <1>2 DEF TypeOK, OfflineReturn, TurnClose, ChatsAreAssigned, InFlight, ChatIds
  <2> QED  BY <1>2, <2>1 DEF OfflineReturn, TurnClose, CloseChat, Leaves
<1>3. ASSUME NEW t \in Turns,
             SendInbound(t) \/ TurnCancelled(t) \/ TurnDraft(t) \/ TurnTyping(t) \/ TurnSend(t) \/ TurnNone(t)
      PROVE  NoTurnover
  BY <1>3 DEF TypeOK, NoTurnover, InFlight, SendInbound, TurnCancelled, TurnDraft, TurnTyping,
              TurnSend, TurnNone, FinishWith, TakeFrame
<1>4. CASE UNCHANGED <<routes, chat, overlapped, pc>>
  BY <1>4 DEF NoTurnover, InFlight
<1>5. ASSUME NEW t \in Turns, Cancel(t) PROVE UNCHANGED <<routes, chat, overlapped, pc>>
  BY <1>5 DEF Cancel
<1>6. ASSUME NEW s \in Sockets, Dial(s) \/ SocketStep(s) \/ LinkLoss(s)
      PROVE  UNCHANGED <<routes, chat, overlapped, pc>>
  BY <1>6 DEF Dial, SocketStep, SetAdapter, WriteFrame, ReadFrame, SocketClosed, LinkLoss
<1>7. ASSUME NEW m \in Turns, NEW kind \in Kinds, GatewayEmit(m, kind)
      PROVE  UNCHANGED <<routes, chat, overlapped, pc>>
  BY <1>7 DEF GatewayEmit
<1>8. ASSUME UNCHANGED vars PROVE UNCHANGED <<routes, chat, overlapped, pc>>
  BY <1>8 DEF vars
<1> QED
  BY <1>1, <1>2, <1>3, <1>4, <1>5, <1>6, <1>7, <1>8 DEF Next, TurnStep

\* At start the routes map is empty.
LEMMA RouteInit == Init => RouteInv
BY DEF Init, RouteInv, RoutesAreLive, SharersOverlap, LoneTurnKeepsRoute,
       DisconnectedOnlyIfOverlapped, InFlight

\* open_chat: the new turn owns the entry, and whom it displaces has overlapped.
LEMMA EnterKeepsRoutes ==
  ASSUME SubmitInv, RouteInv, NEW t \in Turns, NEW c \in ChatIds, Enters(t, c)
  PROVE  RoutesAreLive' /\ SharersOverlap' /\ LoneTurnKeepsRoute'
<1> USE TurnsAssumption, ChatsAssumption
<1>1. /\ pc'[t] = "opened" /\ chat'[t] = c /\ InFlight(t)'
      /\ \A u \in Turns : u # t => pc'[u] = pc[u] /\ chat'[u] = chat[u] /\ (InFlight(u)' <=> InFlight(u))
      /\ routes'[c] = t
      /\ \A d \in ChatIds : d # c => routes'[d] = routes[d]
  BY DEF SubmitInv, TypeOK, Enters, InFlight
<1>2. ~InFlight(t)
  BY DEF Enters, InFlight
<1>3. /\ overlapped \subseteq overlapped'
      /\ Rivals(c) \subseteq overlapped'
      /\ Rivals(c) # {} => t \in overlapped'
  BY DEF Enters
<1>4. RoutesAreLive'
  <2> SUFFICES ASSUME NEW d \in ChatIds, routes'[d] # NoTurn
               PROVE  chat'[routes'[d]] = d /\ pc'[routes'[d]] \notin {"idle", "done"}
    BY DEF RoutesAreLive, InFlight
  <2>1. CASE d = c
    BY <1>1, <2>1 DEF InFlight
  <2>2. CASE d # c
    <3>1. routes[d] \in Turns /\ chat[routes[d]] = d /\ InFlight(routes[d])
      BY <1>1, <2>2 DEF SubmitInv, TypeOK, RouteInv, RoutesAreLive
    <3>2. routes[d] # t
      BY <1>2, <3>1
    <3> QED  BY <1>1, <2>2, <3>1, <3>2 DEF InFlight
  <2> QED  BY <2>1, <2>2
<1>5. SharersOverlap'
  <2> SUFFICES ASSUME NEW v \in Turns, NEW u \in Turns,
                      v # u, InFlight(v)', InFlight(u)', chat'[v] = chat'[u]
               PROVE  v \in overlapped'
    BY DEF SharersOverlap
  <2>1. CASE v = t
    BY <1>1, <1>3, <2>1 DEF Rivals
  <2>2. CASE v # t /\ u = t
    BY <1>1, <1>3, <2>2 DEF Rivals
  <2>3. CASE v # t /\ u # t
    BY <1>1, <1>3, <2>3 DEF RouteInv, SharersOverlap
  <2> QED  BY <2>1, <2>2, <2>3
<1>6. LoneTurnKeepsRoute'
  <2> SUFFICES ASSUME NEW u \in Turns, InFlight(u)', u \notin overlapped'
               PROVE  routes'[chat'[u]] = u
    BY DEF LoneTurnKeepsRoute
  <2>1. CASE u = t
    BY <1>1, <2>1
  <2>2. CASE u # t
    <3>1. InFlight(u) /\ u \notin overlapped /\ chat[u] # c
      BY <1>1, <1>3, <2>2 DEF Rivals
    <3>2. chat[u] \in ChatIds /\ routes[chat[u]] = u
      BY <3>1 DEF SubmitInv, TypeOK, ChatsAreAssigned, InFlight, ChatIds, RouteInv, LoneTurnKeepsRoute
    <3> QED  BY <1>1, <2>2, <3>1, <3>2
  <2> QED  BY <2>1, <2>2
<1> QED  BY <1>4, <1>5, <1>6

\* close_chat: the entry of the leaving turn's chat goes, whoever owns it.
LEMMA LeaveKeepsRoutes ==
  ASSUME SubmitInv, RouteInv, NEW t \in Turns, Leaves(t)
  PROVE  RoutesAreLive' /\ SharersOverlap' /\ LoneTurnKeepsRoute'
<1> USE TurnsAssumption, ChatsAssumption
<1>1. /\ pc'[t] = "done" /\ ~InFlight(t)' /\ chat' = chat /\ overlapped' = overlapped
      /\ \A u \in Turns : u # t => pc'[u] = pc[u] /\ (InFlight(u)' <=> InFlight(u))
      /\ routes'[chat[t]] = NoTurn
      /\ \A d \in ChatIds : d # chat[t] => routes'[d] = routes[d]
  BY DEF SubmitInv, TypeOK, Leaves, InFlight
<1>2. RoutesAreLive'
  <2> SUFFICES ASSUME NEW d \in ChatIds, routes'[d] # NoTurn
               PROVE  chat'[routes'[d]] = d /\ pc'[routes'[d]] \notin {"idle", "done"}
    BY DEF RoutesAreLive, InFlight
  <2>1. d # chat[t] /\ routes'[d] = routes[d]
    BY <1>1
  <2>2. routes[d] \in Turns /\ chat[routes[d]] = d /\ InFlight(routes[d])
    BY <2>1 DEF SubmitInv, TypeOK, RouteInv, RoutesAreLive
  <2>3. routes[d] # t
    BY <2>1, <2>2
  <2> QED  BY <1>1, <2>1, <2>2, <2>3 DEF InFlight
<1>3. SharersOverlap'
  <2> SUFFICES ASSUME NEW v \in Turns, NEW u \in Turns,
                      v # u, InFlight(v)', InFlight(u)', chat'[v] = chat'[u]
               PROVE  v \in overlapped'
    BY DEF SharersOverlap
  <2> QED  BY <1>1 DEF RouteInv, SharersOverlap
\* The route removed may be another turn's, but then the two overlap.
<1>4. LoneTurnKeepsRoute'
  <2> SUFFICES ASSUME NEW u \in Turns, InFlight(u)', u \notin overlapped'
               PROVE  routes'[chat'[u]] = u
    BY DEF LoneTurnKeepsRoute
  <2>1. u # t /\ InFlight(u) /\ u \notin overlapped
    BY <1>1
  <2>2. chat[u] # chat[t]
    BY <2>1 DEF Leaves, RouteInv, SharersOverlap
  <2>3. chat[u] \in ChatIds /\ routes[chat[u]] = u
    BY <2>1 DEF SubmitInv, TypeOK, ChatsAreAssigned, InFlight, ChatIds, RouteInv, LoneTurnKeepsRoute
  <2> QED  BY <1>1, <2>2, <2>3
<1> QED  BY <1>2, <1>3, <1>4

\* A step that touches neither the map nor who is in flight keeps RouteInv.
LEMMA StayKeepsRoutes ==
  ASSUME SubmitInv, RouteInv, NoTurnover
  PROVE  RoutesAreLive' /\ SharersOverlap' /\ LoneTurnKeepsRoute'
<1>1. routes' = routes /\ chat' = chat /\ overlapped' = overlapped
      /\ \A u \in Turns : InFlight(u)' <=> InFlight(u)
  BY DEF NoTurnover
<1>2. RoutesAreLive'
  <2> SUFFICES ASSUME NEW d \in ChatIds, routes'[d] # NoTurn
               PROVE  chat'[routes'[d]] = d /\ pc'[routes'[d]] \notin {"idle", "done"}
    BY DEF RoutesAreLive, InFlight
  <2>1. routes[d] \in Turns /\ chat[routes[d]] = d /\ InFlight(routes[d])
    BY <1>1 DEF SubmitInv, TypeOK, RouteInv, RoutesAreLive
  <2> QED  BY <1>1, <2>1 DEF InFlight
<1>3. SharersOverlap' /\ LoneTurnKeepsRoute'
  BY <1>1 DEF RouteInv, SharersOverlap, LoneTurnKeepsRoute
<1> QED  BY <1>2, <1>3

\* "disconnected" comes from TurnNone alone, whose turn has lost its route.
LEMMA DisconnectedStep ==
  ASSUME SubmitInv, RouteInv, [Next]_vars
  PROVE  DisconnectedOnlyIfOverlapped'
<1> SUFFICES ASSUME NEW t \in Turns, \E i \in DOMAIN replies'[t] : replies'[t][i] = "disconnected"
             PROVE  t \in overlapped'
  BY DEF DisconnectedOnlyIfOverlapped
<1> USE DEF SubmitInv, RouteInv, historyVars, turnVars, sockVars, gatewayVars
<1>1. t \in overlapped => t \in overlapped'
  <2>1. overlapped \subseteq overlapped'
    BY RouteSteps DEF Enters, Leaves, NoTurnover
  <2> QED  BY <2>1
<1>2. CASE \E i \in DOMAIN replies[t] : replies[t][i] = "disconnected"
  BY <1>1, <1>2 DEF DisconnectedOnlyIfOverlapped
<1>3. CASE TurnNone(t)
  <2>1. InFlight(t) /\ routes[chat[t]] # t
    BY <1>3 DEF TurnNone, InFlight
  <2> QED  BY <1>1, <2>1 DEF LoneTurnKeepsRoute
<1>4. ASSUME ~TurnNone(t)
      PROVE  \/ replies'[t] = replies[t]
             \/ \E kind \in ReplyKinds \ {"disconnected"} : replies'[t] = Append(replies[t], kind)
  <2>1. ASSUME NEW u \in Turns, u # t, TurnStep(u) PROVE replies'[t] = replies[t]
    BY <2>1 DEF TypeOK, TurnStep, SendInbound, OfflineReturn, TurnCancelled, TurnDraft,
                TurnTyping, TurnSend, TurnNone, TurnClose, FinishWith, Reply
  <2>2. ASSUME TurnStep(t)
        PROVE  \/ replies'[t] = replies[t]
               \/ \E kind \in ReplyKinds \ {"disconnected"} : replies'[t] = Append(replies[t], kind)
    BY <1>4, <2>2 DEF TypeOK, TurnStep, SendInbound, OfflineReturn, TurnCancelled, TurnDraft,
                TurnTyping, TurnSend, TurnClose, FinishWith, Reply, ReplyKinds
  <2>3. ASSUME NEW u \in Turns, (\E c \in ChatIds : HandleChat(u, c)) \/ Cancel(u) PROVE replies' = replies
    BY <2>3 DEF HandleChat, Cancel
  <2>4. ASSUME NEW s \in Sockets, Dial(s) \/ SocketStep(s) \/ LinkLoss(s) PROVE replies' = replies
    BY <2>4 DEF Dial, SocketStep, SetAdapter, WriteFrame, ReadFrame, SocketClosed, LinkLoss
  <2>5. ASSUME NEW m \in Turns, NEW kind \in Kinds, GatewayEmit(m, kind) PROVE replies' = replies
    BY <2>5 DEF GatewayEmit
  <2>6. ASSUME UNCHANGED vars PROVE replies' = replies
    BY <2>6 DEF vars
  <2> QED  BY <2>1, <2>2, <2>3, <2>4, <2>5, <2>6 DEF Next
<1>5. CASE ~TurnNone(t)
  <2>1. replies[t] \in Seq(ReplyKinds)
    BY DEF TypeOK
  <2>2. ASSUME NEW kind \in ReplyKinds \ {"disconnected"}, replies'[t] = Append(replies[t], kind)
        PROVE  \E i \in DOMAIN replies[t] : replies[t][i] = "disconnected"
    BY <2>1, <2>2, PushedElements
  <2> QED  BY <1>2, <1>4, <1>5, <2>2
<1> QED  BY <1>3, <1>5

\* The routes map is consistent whatever turns, connections and clients do.
THEOREM RouteCorrect == Spec => []RouteInv
<1>1. Init => RouteInv
  BY RouteInit
<1>2. SubmitInv /\ RouteInv /\ [Next]_vars => RouteInv'
  <2> SUFFICES ASSUME SubmitInv, RouteInv, [Next]_vars PROVE RouteInv'
    OBVIOUS
  <2>1. RoutesAreLive' /\ SharersOverlap' /\ LoneTurnKeepsRoute'
    BY RouteSteps, EnterKeepsRoutes, LeaveKeepsRoutes, StayKeepsRoutes
  <2> QED  BY <2>1, DisconnectedStep DEF RouteInv
<1> QED  BY <1>1, <1>2, SubmitCorrect, PTL DEF Spec

\* No route outlives its turn: every exit of chat_via_bridge releases it; and a turn
\* alone on its chat id has its route from open_chat to close_chat.
THEOREM RoutesHold == Spec => []RoutesAreExact
<1>1. RouteInv => RoutesAreExact
  BY DEF RouteInv, RoutesAreExact
<1> QED  BY <1>1, RouteCorrect, PTL

\* The "disconnected" error never reaches a turn that had its chat to itself:
\* not even when the adapter really disconnects.
THEOREM DisconnectedIsOverlap == Spec => []DisconnectedOnlyIfOverlapped
<1>1. RouteInv => DisconnectedOnlyIfOverlapped
  BY DEF RouteInv
<1> QED  BY <1>1, RouteCorrect, PTL

-----------------------------------------------------------------------------
(* Third layer: which message a frame answers.                             *)

\* The turn registered for a chat id started after every other turn of it.
OwnerIsLatest ==
  \A c \in ChatIds : routes[c] # NoTurn =>
    \A u \in Turns : chat[u] = c => u \in seen[routes[c]]

\* A frame the adapter sent is for the chat of the message it answers.
WireFramesFit ==
  \A s \in Sockets : \A i \in DOMAIN inq[s] : inq[s][i].chat = chat[inq[s][i].for]

\* A frame routed to a turn is for its chat, and answers a message of that chat
\* that was sent no later than the turn started.
RoutedFrame(t, f) == /\ f.chat = chat[t]
                     /\ chat[f.for] = chat[t]
                     /\ f.for \in seen[t]
QueuedFramesFit ==
  \A t \in Turns : \A i \in DOMAIN queue[t] : RoutedFrame(t, queue[t][i])

\* So is what a turn has relayed already.
AnswersFit ==
  \A t \in Turns : /\ answers[t] \subseteq seen[t]
                   /\ \A m \in answers[t] : chat[m] = chat[t]
                   /\ pc[t] = "idle" => answers[t] = {}

NotesFit == \A t \in notified : Launcher(t) /\ answers[t] # {}

FrameInv == OwnerIsLatest /\ WireFramesFit /\ QueuedFramesFit /\ AnswersFit /\ NotesFit

\* At start nothing has been answered.
LEMMA FrameInit == Init => FrameInv
BY DEF Init, FrameInv, OwnerIsLatest, WireFramesFit, QueuedFramesFit, AnswersFit, NotesFit

\* A turn starts: nothing on its way mentions it yet.
LEMMA StartKeepsFrames ==
  ASSUME SubmitInv, RouteInv, FrameInv, NEW t \in Turns, NEW c \in ChatIds, HandleChat(t, c)
  PROVE  FrameInv'
<1> USE TurnsAssumption, ChatsAssumption
<1>1. /\ chat'[t] = c /\ pc'[t] = "opened"
      /\ \A u \in Turns : u # t => chat'[u] = chat[u] /\ pc'[u] = pc[u] /\ seen'[u] = seen[u]
      /\ seen'[t] = {u \in Turns : pc[u] # "idle"} \union {t}
      /\ routes' = [routes EXCEPT ![c] = t]
      /\ queue' = queue /\ inq' = inq /\ answers' = answers /\ notified' = notified
  BY DEF SubmitInv, TypeOK, HandleChat, OpenChat, sockVars
<1>2. /\ pc[t] = "idle" /\ chat[t] = NoChat /\ queue[t] = <<>> /\ answers[t] = {}
      /\ \A u \in Turns : chat[u] \in ChatIds <=> pc[u] # "idle"
  BY DEF SubmitInv, TypeOK, ChatsAreAssigned, NothingBeforeSubmit, FrameInv, AnswersFit,
         HandleChat, ChatIds
<1>3. OwnerIsLatest'
  <2> SUFFICES ASSUME NEW d \in ChatIds, routes'[d] # NoTurn, NEW u \in Turns, chat'[u] = d
               PROVE  u \in seen'[routes'[d]]
    BY DEF OwnerIsLatest
  <2>1. CASE d = c
    <3>1. routes'[d] = t
      BY <1>1, <2>1 DEF SubmitInv, TypeOK
    <3>2. u = t \/ pc[u] # "idle"
      BY <1>1, <1>2, <2>1
    <3> QED  BY <1>1, <3>1, <3>2
  <2>2. CASE d # c
    <3>1. routes'[d] = routes[d] /\ u # t /\ chat[u] = d
      BY <1>1, <2>2 DEF SubmitInv, TypeOK
    <3>2. routes[d] \in Turns /\ InFlight(routes[d])
      BY <3>1 DEF SubmitInv, TypeOK, RouteInv, RoutesAreLive
    <3>3. routes[d] # t
      BY <1>2, <3>2 DEF InFlight
    <3> QED  BY <1>1, <3>1, <3>2, <3>3 DEF FrameInv, OwnerIsLatest
  <2> QED  BY <2>1, <2>2
<1>4. WireFramesFit'
  <2> SUFFICES ASSUME NEW s \in Sockets, NEW i \in DOMAIN inq[s]
               PROVE  inq[s][i].chat = chat'[inq[s][i].for]
    BY <1>1 DEF WireFramesFit
  <2>1. inq[s][i] \in Frame
    BY DEF SubmitInv, TypeOK
  <2>2. inq[s][i].chat \in ChatIds /\ inq[s][i].for \in Turns
    BY <2>1 DEF Frame
  <2>3. inq[s][i].chat = chat[inq[s][i].for]
    BY DEF FrameInv, WireFramesFit
  <2> QED  BY <1>1, <1>2, <2>2, <2>3
<1>5. QueuedFramesFit'
  <2> SUFFICES ASSUME NEW u \in Turns, NEW i \in DOMAIN queue[u]
               PROVE  RoutedFrame(u, queue[u][i])'
    BY <1>1 DEF QueuedFramesFit
  <2>1. u # t
    BY <1>2
  <2>2. queue[u][i] \in Frame
    BY DEF SubmitInv, TypeOK
  <2>3. queue[u][i].chat \in ChatIds /\ queue[u][i].for \in Turns
    BY <2>2 DEF Frame
  <2>4. RoutedFrame(u, queue[u][i])
    BY DEF FrameInv, QueuedFramesFit
  <2>5. queue[u][i].for # t
    BY <1>2, <2>3, <2>4 DEF RoutedFrame
  <2> QED  BY <1>1, <2>1, <2>3, <2>4, <2>5 DEF RoutedFrame
<1>6. AnswersFit'
  <2> SUFFICES ASSUME NEW u \in Turns
               PROVE  /\ answers[u] \subseteq seen'[u]
                      /\ \A m \in answers[u] : chat'[m] = chat'[u]
                      /\ pc'[u] = "idle" => answers[u] = {}
    BY <1>1 DEF AnswersFit
  <2>1. CASE u = t
    BY <1>2, <2>1
  <2>2. CASE u # t
    <3>1. ASSUME NEW m \in answers[u] PROVE m # t /\ m \in Turns
      BY <1>2, <3>1 DEF FrameInv, AnswersFit, SubmitInv, TypeOK
    <3> QED  BY <1>1, <2>2, <3>1 DEF FrameInv, AnswersFit
  <2> QED  BY <2>1, <2>2
<1>7. NotesFit'
  <2> SUFFICES ASSUME NEW u \in notified
               PROVE  chat'[u] = u /\ answers[u] # {}
    BY <1>1 DEF NotesFit, Launcher
  <2>1. u \in Turns /\ chat[u] = u /\ answers[u] # {}
    BY DEF SubmitInv, TypeOK, FrameInv, NotesFit, Launcher
  <2> QED  BY <1>1, <1>2, <2>1
<1> QED  BY <1>3, <1>4, <1>5, <1>6, <1>7 DEF FrameInv

\* Apart from a start, no step changes a chat id or makes an entry of the
\* routes map.
Quiet == /\ UNCHANGED <<chat, seen>>
         /\ \A c \in ChatIds : routes'[c] \in {routes[c], NoTurn}
         /\ \A t \in Turns : pc'[t] = "idle" => pc[t] = "idle"

\* Every step but the start of a turn is quiet.
LEMMA QuietStep ==
  ASSUME SubmitInv, [Next]_vars
  PROVE  Quiet \/ \E t \in Turns : \E c \in ChatIds : HandleChat(t, c)
<1> USE DEF SubmitInv, Quiet, historyVars, turnVars, sockVars, gatewayVars
<1>1. ASSUME NEW t \in Turns, OfflineReturn(t) \/ TurnClose(t) PROVE Quiet
  <2>1. UNCHANGED <<chat, seen>> /\ \A u \in Turns : pc'[u] = "idle" => pc[u] = "idle"
    BY <1>1 DEF TypeOK, OfflineReturn, TurnClose
  <2>2. routes' = [routes EXCEPT ![chat[t]] = NoTurn]
    BY <1>1 DEF OfflineReturn, TurnClose, CloseChat
  <2>3. \A c \in ChatIds : routes'[c] \in {routes[c], NoTurn}
    BY <2>2 DEF TypeOK
  <2> QED  BY <2>1, <2>3
<1>2. ASSUME NEW t \in Turns,
             SendInbound(t) \/ TurnCancelled(t) \/ TurnDraft(t) \/ TurnTyping(t) \/ TurnSend(t)
             \/ TurnNone(t) \/ Cancel(t)
      PROVE  Quiet
  BY <1>2 DEF TypeOK, SendInbound, TurnCancelled, TurnDraft, TurnTyping, TurnSend, TurnNone,
              TakeFrame, FinishWith, Cancel
<1>3. CASE UNCHANGED <<chat, seen, routes, pc>>
  BY <1>3
<1>4. ASSUME NEW s \in Sockets, Dial(s) \/ SocketStep(s) \/ LinkLoss(s)
      PROVE  UNCHANGED <<chat, seen, routes, pc>>
  BY <1>4 DEF Dial, SocketStep, SetAdapter, WriteFrame, ReadFrame, SocketClosed, LinkLoss
<1>5. ASSUME NEW m \in Turns, NEW kind \in Kinds, GatewayEmit(m, kind)
      PROVE  UNCHANGED <<chat, seen, routes, pc>>
  BY <1>5 DEF GatewayEmit
<1>6. ASSUME UNCHANGED vars PROVE UNCHANGED <<chat, seen, routes, pc>>
  BY <1>6 DEF vars
<1> QED  BY <1>1, <1>2, <1>3, <1>4, <1>5, <1>6 DEF Next, TurnStep

\* A quiet step keeps each entry of the routes map with the latest of its chat.
LEMMA QuietKeepsOwners ==
  ASSUME FrameInv, Quiet
  PROVE  OwnerIsLatest'
BY DEF FrameInv, OwnerIsLatest, Quiet

\* The frames of a connection: pushed by the gateway, popped by the read loop.
LEMMA WireStep ==
  ASSUME SubmitInv, FrameInv, Quiet, [Next]_vars
  PROVE  WireFramesFit'
<1> USE DEF SubmitInv, Quiet, historyVars, turnVars, sockVars, gatewayVars
<1>0. \A s \in Sockets : inq[s] \in Seq(Frame)
  BY DEF TypeOK
<1>1. ASSUME NEW s \in Sockets,
             \A i \in DOMAIN inq'[s] : \/ \E j \in DOMAIN inq[s] : inq'[s][i] = inq[s][j]
                                       \/ inq'[s][i].chat = chat[inq'[s][i].for]
      PROVE  \A i \in DOMAIN inq'[s] : inq'[s][i].chat = chat'[inq'[s][i].for]
  BY <1>1 DEF FrameInv, WireFramesFit
<1>2. ASSUME NEW m \in Turns, NEW kind \in Kinds, GatewayEmit(m, kind)
      PROVE  WireFramesFit'
  <2> DEFINE f == [kind |-> kind, chat |-> chat[m], for |-> m]
  <2>1. PICK s \in Sockets : inq' = [inq EXCEPT ![s] = Append(@, f)]
    BY <1>2 DEF GatewayEmit
  <2>2. f \in Frame
    BY <1>2 DEF TypeOK, GatewayEmit, ChatsAreAssigned, NothingBeforeSubmit, Unsent, Frame
  <2>3. \A i \in DOMAIN Append(inq[s], f) :
           \/ \E j \in DOMAIN inq[s] : Append(inq[s], f)[i] = inq[s][j]
           \/ Append(inq[s], f)[i] = f
    BY <1>0, <2>2, PushedElements
  <2>4. inq'[s] = Append(inq[s], f) /\ \A r \in Sockets : r # s => inq'[r] = inq[r]
    BY <2>1 DEF TypeOK
  <2>5. ASSUME NEW r \in Sockets, NEW i \in DOMAIN inq'[r]
        PROVE  \/ \E j \in DOMAIN inq[r] : inq'[r][i] = inq[r][j]
               \/ inq'[r][i].chat = chat[inq'[r][i].for]
    BY <2>3, <2>4, <2>5
  <2> QED  BY <1>1, <2>5 DEF WireFramesFit
<1>3. ASSUME NEW s \in Sockets, ReadFrame(s) PROVE WireFramesFit'
  <2>1. \A i \in DOMAIN Tail(inq[s]) : \E j \in DOMAIN inq[s] : Tail(inq[s])[i] = inq[s][j]
    BY <1>0, <1>3, PoppedElements DEF ReadFrame
  <2>2. inq'[s] = Tail(inq[s]) /\ \A r \in Sockets : r # s => inq'[r] = inq[r]
    BY <1>3 DEF TypeOK, ReadFrame
  <2>3. ASSUME NEW r \in Sockets, NEW i \in DOMAIN inq'[r]
        PROVE  \E j \in DOMAIN inq[r] : inq'[r][i] = inq[r][j]
    <3>1. CASE r = s
      <4>1. i \in DOMAIN Tail(inq[s]) /\ inq'[r][i] = Tail(inq[s])[i]
        BY <2>2, <2>3, <3>1
      <4> QED  BY <2>1, <3>1, <4>1
    <3>2. CASE r # s
      BY <2>2, <2>3, <3>2
    <3> QED  BY <3>1, <3>2
  <2> QED  BY <1>1, <2>3 DEF WireFramesFit
<1>4. ASSUME NEW s \in Sockets, SocketClosed(s) PROVE WireFramesFit'
  <2>1. inq'[s] = <<>> /\ \A r \in Sockets : r # s => inq'[r] = inq[r]
    BY <1>4 DEF TypeOK, SocketClosed
  <2>2. ASSUME NEW r \in Sockets, NEW i \in DOMAIN inq'[r]
        PROVE  \E j \in DOMAIN inq[r] : inq'[r][i] = inq[r][j]
    BY <2>1, <2>2
  <2> QED  BY <1>1, <2>2 DEF WireFramesFit
<1>5. CASE UNCHANGED inq
  BY <1>5 DEF FrameInv, WireFramesFit
<1>6. ASSUME NEW t \in Turns, TurnStep(t) \/ Cancel(t) \/ \E c \in ChatIds : HandleChat(t, c)
      PROVE  UNCHANGED inq
  BY <1>6 DEF TurnStep, SendInbound, OfflineReturn, TurnCancelled, TurnDraft, TurnTyping,
              TurnSend, TurnNone, TurnClose, Cancel, HandleChat
<1>7. ASSUME NEW s \in Sockets, Dial(s) \/ SetAdapter(s) \/ WriteFrame(s) \/ LinkLoss(s)
      PROVE  UNCHANGED inq
  BY <1>7 DEF Dial, SetAdapter, WriteFrame, LinkLoss
<1>8. ASSUME UNCHANGED vars PROVE UNCHANGED inq
  BY <1>8 DEF vars
<1> QED  BY <1>2, <1>3, <1>4, <1>5, <1>6, <1>7, <1>8 DEF Next, SocketStep

\* The channel of a turn: pushed by dispatch, popped by the turn, dropped when
\* it returns.  Dispatch finds a turn that is in flight on the frame's chat and
\* started no earlier than the turn whose message is answered.
LEMMA ChannelStep ==
  ASSUME SubmitInv, RouteInv, FrameInv, Quiet, [Next]_vars
  PROVE  QueuedFramesFit'
<1> USE DEF SubmitInv, Quiet, historyVars, turnVars, sockVars, gatewayVars
<1>0. \A t \in Turns : queue[t] \in Seq(Frame)
  BY DEF TypeOK
<1>1. ASSUME \A t \in Turns : \A i \in DOMAIN queue'[t] :
                \/ \E j \in DOMAIN queue[t] : queue'[t][i] = queue[t][j]
                \/ RoutedFrame(t, queue'[t][i])
      PROVE  QueuedFramesFit'
  <2> SUFFICES ASSUME NEW t \in Turns, NEW i \in DOMAIN queue'[t]
               PROVE  /\ queue'[t][i].chat = chat'[t]
                      /\ chat'[queue'[t][i].for] = chat'[t]
                      /\ queue'[t][i].for \in seen'[t]
    BY DEF QueuedFramesFit, RoutedFrame
  <2> QED  BY <1>1 DEF FrameInv, QueuedFramesFit, RoutedFrame
<1>2. ASSUME NEW s \in Sockets, ReadFrame(s) PROVE QueuedFramesFit'
  <2> DEFINE f == Head(inq[s])
             t == routes[f.chat]
  <2>1. f \in Frame /\ \E j \in DOMAIN inq[s] : f = inq[s][j]
    <3>1. inq[s] \in Seq(Frame) /\ inq[s] # <<>>
      BY <1>2 DEF TypeOK, ReadFrame
    <3> QED  BY <3>1, PoppedElements
  <2>2. f.chat \in ChatIds /\ f.for \in Turns /\ f.chat = chat[f.for]
    BY <2>1 DEF Frame, FrameInv, WireFramesFit
  <2>3. CASE t # NoTurn /\ InFlight(t)
    <3>1. t \in Turns /\ chat[t] = f.chat
      BY <2>2, <2>3 DEF TypeOK, RouteInv, RoutesAreLive
    <3>2. RoutedFrame(t, f)
      BY <2>2, <2>3, <3>1 DEF RoutedFrame, FrameInv, OwnerIsLatest
    <3>3. queue' = [queue EXCEPT ![t] = Append(@, f)]
      BY <1>2, <2>3 DEF ReadFrame, Dispatch
    <3>4. queue'[t] = Append(queue[t], f) /\ \A u \in Turns : u # t => queue'[u] = queue[u]
      BY <3>1, <3>3 DEF TypeOK
    <3>5. \A i \in DOMAIN Append(queue[t], f) :
             \/ \E j \in DOMAIN queue[t] : Append(queue[t], f)[i] = queue[t][j]
             \/ Append(queue[t], f)[i] = f
      <4>1. queue[t] \in Seq(Frame)
        BY <1>0, <3>1
      <4> QED  BY <2>1, <4>1, PushedElements
    <3>6. ASSUME NEW u \in Turns, NEW i \in DOMAIN queue'[u]
          PROVE  \/ \E j \in DOMAIN queue[u] : queue'[u][i] = queue[u][j]
                 \/ RoutedFrame(u, queue'[u][i])
      BY <3>2, <3>4, <3>5, <3>6
    <3> QED  BY <1>1, <3>6
  <2>4. CASE ~(t # NoTurn /\ InFlight(t))
    BY <1>1, <1>2, <2>4 DEF ReadFrame, Dispatch
  <2> QED  BY <2>3, <2>4
<1>3. ASSUME NEW t \in Turns, NEW kind \in Kinds, TakeFrame(t, kind) PROVE QueuedFramesFit'
  <2>1. \A i \in DOMAIN Tail(queue[t]) : \E j \in DOMAIN queue[t] : Tail(queue[t])[i] = queue[t][j]
    BY <1>0, <1>3, PoppedElements DEF TakeFrame
  <2>2. queue'[t] = Tail(queue[t]) /\ \A u \in Turns : u # t => queue'[u] = queue[u]
    BY <1>3 DEF TypeOK, TakeFrame
  <2>3. ASSUME NEW u \in Turns, NEW i \in DOMAIN queue'[u]
        PROVE  \E j \in DOMAIN queue[u] : queue'[u][i] = queue[u][j]
    <3>1. CASE u = t
      BY <2>1, <2>2, <2>3, <3>1
    <3>2. CASE u # t
      BY <2>2, <2>3, <3>2
    <3> QED  BY <3>1, <3>2
  <2> QED  BY <1>1, <2>3
<1>4. ASSUME NEW t \in Turns, OfflineReturn(t) \/ TurnClose(t) PROVE QueuedFramesFit'
  <2>1. queue'[t] = <<>> /\ \A u \in Turns : u # t => queue'[u] = queue[u]
    BY <1>4 DEF TypeOK, OfflineReturn, TurnClose
  <2>2. ASSUME NEW u \in Turns, NEW i \in DOMAIN queue'[u]
        PROVE  \E j \in DOMAIN queue[u] : queue'[u][i] = queue[u][j]
    BY <2>1, <2>2
  <2> QED  BY <1>1, <2>2
<1>5. CASE UNCHANGED queue
  BY <1>1, <1>5
<1>6. ASSUME NEW t \in Turns,
             SendInbound(t) \/ TurnCancelled(t) \/ TurnNone(t) \/ Cancel(t) \/ \E c \in ChatIds : HandleChat(t, c)
      PROVE  UNCHANGED queue
  BY <1>6 DEF SendInbound, TurnCancelled, TurnNone, Cancel, HandleChat
<1>7. ASSUME NEW s \in Sockets, Dial(s) \/ SetAdapter(s) \/ WriteFrame(s) \/ SocketClosed(s) \/ LinkLoss(s)
      PROVE  UNCHANGED queue
  BY <1>7 DEF Dial, SetAdapter, WriteFrame, SocketClosed, LinkLoss
<1>8. ASSUME NEW m \in Turns, NEW kind \in Kinds, GatewayEmit(m, kind) PROVE UNCHANGED queue
  BY <1>8 DEF GatewayEmit
<1>9. ASSUME UNCHANGED vars PROVE UNCHANGED queue
  BY <1>9 DEF vars
<1>10. ASSUME NEW t \in Turns, TurnDraft(t) \/ TurnTyping(t) \/ TurnSend(t)
       PROVE  \E kind \in Kinds : TakeFrame(t, kind)
  BY <1>10 DEF TurnDraft, TurnTyping, TurnSend, Kinds
<1> QED
  BY <1>2, <1>3, <1>4, <1>5, <1>6, <1>7, <1>8, <1>9, <1>10 DEF Next, TurnStep, SocketStep

\* Relaying the frame at the head of the channel.
LEMMA AnswerStep ==
  ASSUME SubmitInv, FrameInv, Quiet, [Next]_vars
  PROVE  AnswersFit' /\ NotesFit'
<1> USE DEF SubmitInv, Quiet, historyVars, turnVars, sockVars, gatewayVars
<1>1. ASSUME NEW t \in Turns, TurnDraft(t) \/ TurnSend(t)
      PROVE  /\ \E m \in seen[t] : /\ chat[m] = chat[t]
                                   /\ answers' = [answers EXCEPT ![t] = @ \union {m}]
             /\ pc'[t] # "idle"
             /\ notified' = notified \/ (Launcher(t) /\ notified' = notified \union {t})
  <2>1. queue[t] \in Seq(Frame) /\ queue[t] # <<>>
    BY <1>1 DEF TypeOK, TurnDraft, TurnSend, TakeFrame
  <2>2. RoutedFrame(t, Head(queue[t]))
    BY <2>1, PoppedElements DEF FrameInv, QueuedFramesFit
  <2>3. answers' = [answers EXCEPT ![t] = @ \union {Head(queue[t]).for}]
    BY <1>1 DEF TurnDraft, TurnSend, Relay
  <2>4. pc'[t] # "idle"
    BY <1>1 DEF TypeOK, TurnDraft, TurnSend, TakeFrame, FinishWith
  <2>5. notified' = notified \/ (Launcher(t) /\ notified' = notified \union {t})
    BY <1>1 DEF TurnDraft, TurnSend
  <2> QED  BY <2>2, <2>3, <2>4, <2>5 DEF RoutedFrame
<1>2. ASSUME NEW t \in Turns, TurnDraft(t) \/ TurnSend(t) PROVE AnswersFit' /\ NotesFit'
  <2>1. PICK m \in seen[t] : chat[m] = chat[t] /\ answers' = [answers EXCEPT ![t] = @ \union {m}]
    BY <1>1, <1>2
  <2>2. answers'[t] = answers[t] \union {m} /\ \A u \in Turns : u # t => answers'[u] = answers[u]
    BY <2>1 DEF TypeOK
  <2>3. AnswersFit'
    BY <1>1, <1>2, <2>1, <2>2 DEF FrameInv, AnswersFit
  <2>4. NotesFit'
    <3> SUFFICES ASSUME NEW u \in notified' PROVE chat'[u] = u /\ answers'[u] # {}
      BY DEF NotesFit, Launcher
    <3>1. CASE u \in notified
      <4>1. u \in Turns /\ chat[u] = u /\ answers[u] # {}
        BY <3>1 DEF TypeOK, FrameInv, NotesFit, Launcher
      <4> QED  BY <2>2, <4>1
    <3>2. CASE u = t /\ Launcher(t)
      BY <2>2, <3>2 DEF Launcher
    <3> QED  BY <1>1, <1>2, <3>1, <3>2
  <2> QED  BY <2>3, <2>4
<1>3. CASE UNCHANGED <<answers, notified>>
  BY <1>3 DEF FrameInv, AnswersFit, NotesFit, Launcher
<1>4. ASSUME NEW t \in Turns,
             SendInbound(t) \/ OfflineReturn(t) \/ TurnCancelled(t) \/ TurnTyping(t) \/ TurnNone(t)
             \/ TurnClose(t) \/ Cancel(t) \/ \E c \in ChatIds : HandleChat(t, c)
      PROVE  UNCHANGED <<answers, notified>>
  BY <1>4 DEF SendInbound, OfflineReturn, TurnCancelled, TurnTyping, TurnNone, TurnClose,
              Cancel, HandleChat
<1>5. ASSUME NEW s \in Sockets, Dial(s) \/ SocketStep(s) \/ LinkLoss(s)
      PROVE  UNCHANGED <<answers, notified>>
  BY <1>5 DEF Dial, SocketStep, SetAdapter, WriteFrame, ReadFrame, SocketClosed, LinkLoss
<1>6. ASSUME NEW m \in Turns, NEW kind \in Kinds, GatewayEmit(m, kind)
      PROVE  UNCHANGED <<answers, notified>>
  BY <1>6 DEF GatewayEmit
<1>7. ASSUME UNCHANGED vars PROVE UNCHANGED <<answers, notified>>
  BY <1>7 DEF vars
<1> QED  BY <1>2, <1>3, <1>4, <1>5, <1>6, <1>7 DEF Next, TurnStep

\* Frames find the turn they are for, as far as the protocol can tell.
THEOREM FrameCorrect == Spec => []FrameInv
<1>1. Init => FrameInv
  BY FrameInit
<1>2. SubmitInv /\ RouteInv /\ FrameInv /\ [Next]_vars => FrameInv'
  BY StartKeepsFrames, QuietStep, QuietKeepsOwners, WireStep, ChannelStep, AnswerStep DEF FrameInv
<1> QED  BY <1>1, <1>2, SubmitCorrect, RouteCorrect, PTL DEF Spec

\* Every frame in a turn's channel is for the turn's own chat.
THEOREM FramesAreRoutedByChat == Spec => []FramesKeepToTheirChat
<1>1. FrameInv => FramesKeepToTheirChat
  BY DEF FrameInv, QueuedFramesFit, RoutedFrame, FramesKeepToTheirChat
<1> QED  BY <1>1, FrameCorrect, PTL

\* open_chat before send_inbound: no turn shows the answer to a later message; and
\* a launcher's minted id keeps its answer its own.
THEOREM AnswersHold == Spec => []AnswersFitTurns
<1>1. FrameInv => NoAnswerFromTheFuture
  BY DEF FrameInv, AnswersFit, NoAnswerFromTheFuture
<1>2. SubmitInv /\ FrameInv => LauncherHearsItsOwnAnswer
  <2> SUFFICES ASSUME SubmitInv, FrameInv PROVE LauncherHearsItsOwnAnswer
    OBVIOUS
  <2>1. ASSUME NEW t \in Turns, Launcher(t) PROVE answers[t] \subseteq {t}
    <3>1. ASSUME NEW m \in answers[t] PROVE m = t
      BY <2>1, <3>1, TurnsAssumption, ChatsAssumption
         DEF SubmitInv, TypeOK, ChatsAreAssigned, FrameInv, AnswersFit, Launcher
    <3> QED  BY <3>1
  <2>2. ASSUME NEW t \in notified PROVE Launcher(t) /\ answers[t] = {t}
    BY <2>1, <2>2 DEF SubmitInv, TypeOK, FrameInv, NotesFit
  <2> QED  BY <2>1, <2>2 DEF LauncherHearsItsOwnAnswer
<1>3. SubmitInv /\ FrameInv => AnswersFitTurns
  BY <1>1, <1>2 DEF AnswersFitTurns
<1> QED  BY <1>3, SubmitCorrect, FrameCorrect, PTL

-----------------------------------------------------------------------------
(* Refinement: Bridge implements ChatTurns, with a turn idle before it is  *)
(* taken up, active until its terminal reply, and ended from then on.      *)

\* The phase of a turn is a function of its pc.
LEMMA PhaseOf ==
  ASSUME NEW t \in Turns
  PROVE  /\ Phase[t] = "idle" <=> pc[t] = "idle"
         /\ Phase[t] = "ended" <=> Answered(t)
         /\ Phase[t] = "active" <=> pc[t] # "idle" /\ ~Answered(t)
BY DEF Phase, Answered

\* How a change of one turn's pc shows in Phase.
LEMMA PhaseStep ==
  ASSUME TypeOK, NEW t \in Turns, NEW to \in {"opened", "offline", "waiting", "closing", "done"},
         pc' = [pc EXCEPT ![t] = to]
  PROVE  /\ to \in {"closing", "done"} => Phase' = [Phase EXCEPT ![t] = "ended"]
         /\ to \notin {"closing", "done"} => Phase' = [Phase EXCEPT ![t] = "active"]
<1>1. \A u \in Turns : pc'[u] = IF u = t THEN to ELSE pc[u]
  BY DEF TypeOK
<1> QED  BY <1>1 DEF Phase, Answered

\* What one turn does in a step of the bridge, ChatTurns lets it do.
LEMMA TurnRefines ==
  ASSUME SubmitInv, NEW t \in Turns, TurnStep(t)
  PROVE  [CT!Next]_CT!vars
<1> USE DEF SubmitInv, historyVars, turnVars, sockVars, gatewayVars
<1>1. (Phase[t] = "active" /\ Phase = [Phase EXCEPT ![t] = "active"]) \/ pc[t] \in {"idle", "closing", "done"}
  BY DEF TypeOK, Phase, Answered
<1>2. ASSUME NEW kind \in {"complete", "cancelled", "disconnected"}, pc[t] = "waiting",
             FinishWith(t, kind), UNCHANGED cancelled, kind = "cancelled" => t \in cancelled
      PROVE  CT!End(t, kind)
  <2>1. Phase[t] = "active" /\ Phase' = [Phase EXCEPT ![t] = "ended"]
    BY <1>1, <1>2, PhaseStep DEF FinishWith
  <2> QED  BY <1>2, <2>1 DEF CT!End, FinishWith, Reply
<1>3. CASE SendInbound(t)
  <2>1. Phase' = Phase
    <3>1. PICK to \in {"waiting", "offline"} : pc' = [pc EXCEPT ![t] = to]
      BY <1>3 DEF SendInbound
    <3> QED  BY <1>1, <1>3, <3>1, PhaseStep DEF SendInbound
  <2> QED  BY <1>3, <2>1 DEF SendInbound, CT!vars
<1>4. CASE OfflineReturn(t)
  <2>1. Phase[t] = "active" /\ Phase' = [Phase EXCEPT ![t] = "ended"]
    BY <1>1, <1>4, PhaseStep DEF OfflineReturn
  <2>2. replies[t] = <<>>
    BY <1>4 DEF OfflineReturn, NothingBeforeSubmit
  <2>3. CT!End(t, "offline")
    BY <1>4, <2>1, <2>2 DEF OfflineReturn, Reply, CT!End
  <2> QED  BY <2>3 DEF CT!Next, CT!Finals
<1>5. CASE TurnCancelled(t)
  BY <1>2, <1>5 DEF TurnCancelled, CT!Next, CT!Finals
<1>6. CASE TurnDraft(t)
  <2>1. Phase' = Phase /\ Phase[t] = "active"
    BY <1>1, <1>6 DEF TurnDraft, TakeFrame, Phase, Answered
  <2>2. CT!Draft(t)
    BY <1>6, <2>1 DEF TurnDraft, Reply, CT!Draft
  <2> QED  BY <2>2 DEF CT!Next
<1>7. CASE TurnTyping(t)
  BY <1>7 DEF TurnTyping, Phase, Answered, CT!vars
<1>8. CASE TurnSend(t)
  BY <1>2, <1>8 DEF TurnSend, TakeFrame, CT!Next, CT!Finals
<1>9. CASE TurnNone(t)
  BY <1>2, <1>9 DEF TurnNone, CT!Next, CT!Finals
<1>10. CASE TurnClose(t)
  <2>1. Phase' = Phase
    <3>1. Phase[t] = "ended" /\ Phase = [Phase EXCEPT ![t] = "ended"]
      BY <1>10 DEF TurnClose, Phase, Answered
    <3> QED  BY <1>10, <3>1, PhaseStep DEF TurnClose
  <2> QED  BY <1>10, <2>1 DEF TurnClose, CT!vars
<1> QED
  BY <1>3, <1>4, <1>5, <1>6, <1>7, <1>8, <1>9, <1>10 DEF TurnStep

\* Every turn of the daemon keeps the promise of ChatTurns.
THEOREM BridgeImplementsChatTurns == Spec => ImplementsChatTurns
<1>1. Init => CT!Init
  <2> SUFFICES ASSUME Init PROVE CT!Init
    OBVIOUS
  <2>1. \A t \in Turns : pc[t] = "idle"
    BY DEF Init
  <2>2. Phase = [t \in Turns |-> "idle"]
    <3>1. \A t \in Turns : Phase[t] = "idle"
      BY <2>1, PhaseOf
    <3>2. Phase = [t \in Turns |-> Phase[t]]
      BY DEF Phase
    <3> QED  BY <3>1, <3>2
  <2> QED  BY <2>2 DEF Init, CT!Init
<1>2. SubmitInv /\ [Next]_vars => [CT!Next]_CT!vars
  <2> SUFFICES ASSUME SubmitInv, [Next]_vars PROVE [CT!Next]_CT!vars
    OBVIOUS
  <2> USE DEF historyVars, turnVars, sockVars, gatewayVars
  <2>1. ASSUME NEW t \in Turns, NEW c \in ChatIds, HandleChat(t, c) PROVE CT!Next
    <3>1. Phase[t] = "idle" /\ Phase' = [Phase EXCEPT ![t] = "active"]
      BY <2>1, PhaseOf, PhaseStep DEF SubmitInv, HandleChat
    <3>2. CT!Start(t)
      BY <2>1, <3>1 DEF HandleChat, CT!Start
    <3> QED  BY <3>2 DEF CT!Next
  <2>2. ASSUME NEW t \in Turns, Cancel(t) PROVE CT!Next
    <3>1. Phase' = Phase /\ Phase[t] # "idle"
      BY <2>2, PhaseOf DEF Cancel, Phase, Answered, InFlight
    <3>2. CT!Cancel({t})
      BY <2>2, <3>1 DEF Cancel, CT!Cancel
    <3> QED  BY <3>2 DEF CT!Next
  <2>3. ASSUME UNCHANGED <<pc, cancelled, replies>> PROVE UNCHANGED CT!vars
    BY <2>3 DEF CT!vars, Phase, Answered
  <2>4. ASSUME NEW s \in Sockets, Dial(s) \/ SocketStep(s) \/ LinkLoss(s)
        PROVE  UNCHANGED <<pc, cancelled, replies>>
    BY <2>4 DEF Dial, SocketStep, SetAdapter, WriteFrame, ReadFrame, SocketClosed, LinkLoss
  <2>5. ASSUME NEW m \in Turns, NEW kind \in Kinds, GatewayEmit(m, kind)
        PROVE  UNCHANGED <<pc, cancelled, replies>>
    BY <2>5 DEF GatewayEmit
  <2>6. ASSUME UNCHANGED vars PROVE UNCHANGED <<pc, cancelled, replies>>
    BY <2>6 DEF vars
  <2> QED
    BY <2>1, <2>2, <2>3, <2>4, <2>5, <2>6, TurnRefines DEF Next
<1> QED  BY <1>1, <1>2, SubmitCorrect, PTL DEF Spec, ImplementsChatTurns, CT!Spec
-----------------------------------------------------------------------------
(* What ChatTurns promises, read off the replies.                          *)

LEMMA PromiseInit == CT!Init => CT!TypeOK /\ CT!Promise
BY DEF CT!Init, CT!TypeOK, CT!Promise

\* One more reply, a draft or the terminal one, keeps the promise of its turn.
LEMMA ReplyKeepsPromise ==
  ASSUME CT!TypeOK, CT!Promise, NEW t \in Turns, NEW kind \in {"draft"} \union CT!Finals,
         IF kind = "draft" THEN CT!Draft(t) ELSE CT!End(t, kind)
  PROVE  CT!TypeOK' /\ CT!Promise'
<1>. DEFINE all == {"draft"} \union CT!Finals
<1>1. /\ Phase[t] = "active"
      /\ Phase' = [Phase EXCEPT ![t] = IF kind = "draft" THEN "active" ELSE "ended"]
      /\ replies' = [replies EXCEPT ![t] = Append(@, kind)]
      /\ cancelled' = cancelled
      /\ kind = "cancelled" => t \in cancelled
      /\ kind = "offline" => replies[t] = <<>>
  BY DEF CT!Draft, CT!End, CT!TypeOK, CT!Finals
<1>2. replies[t] \in Seq(all) /\ replies'[t] = Append(replies[t], kind)
  BY <1>1 DEF CT!TypeOK
<1>3. \A i \in DOMAIN replies[t] : replies[t][i] = "draft"
  BY <1>1 DEF CT!Promise
<1>4. /\ DOMAIN replies'[t] = 1..(Len(replies[t]) + 1)
      /\ Len(replies'[t]) = Len(replies[t]) + 1 /\ Len(replies[t]) \in Nat
      /\ replies'[t][Len(replies[t]) + 1] = kind
      /\ \A i \in 1..Len(replies[t]) : replies'[t][i] = "draft"
  BY <1>2, <1>3
<1>5. CT!TypeOK'
  <2>1. Append(replies[t], kind) \in Seq(all)
    BY <1>2
  <2>. QED
    BY <1>1, <2>1 DEF CT!TypeOK
<1>6. ASSUME NEW u \in Turns \ {t}
      PROVE  replies'[u] = replies[u] /\ Phase'[u] = Phase[u]
  BY <1>1 DEF CT!TypeOK
<1>7. Phase'[t] = IF kind = "draft" THEN "active" ELSE "ended"
  BY <1>1 DEF CT!TypeOK
<1>8. kind = "offline" => Len(replies'[t]) = 1
  BY <1>1, <1>4
<1>. QED
  BY <1>1, <1>3, <1>4, <1>5, <1>6, <1>7, <1>8 DEF CT!Promise

LEMMA PromiseStep == CT!TypeOK /\ CT!Promise /\ [CT!Next]_CT!vars => CT!TypeOK' /\ CT!Promise'
<1>. SUFFICES ASSUME CT!TypeOK, CT!Promise, [CT!Next]_CT!vars
              PROVE  CT!TypeOK' /\ CT!Promise'
  OBVIOUS
<1>1. ASSUME NEW t \in Turns, CT!Start(t) PROVE CT!TypeOK' /\ CT!Promise'
  BY <1>1 DEF CT!Start, CT!TypeOK, CT!Promise
<1>2. ASSUME NEW T \in SUBSET Turns, CT!Cancel(T) PROVE CT!TypeOK' /\ CT!Promise'
  BY <1>2 DEF CT!Cancel, CT!TypeOK, CT!Promise
<1>3. ASSUME NEW t \in Turns, CT!Draft(t) PROVE CT!TypeOK' /\ CT!Promise'
  <2>1. \A kind \in {"draft"} \union CT!Finals : kind = "draft" => CT!TypeOK' /\ CT!Promise'
    BY <1>3, ReplyKeepsPromise
  <2>. QED
    BY <2>1
<1>4. ASSUME NEW t \in Turns, NEW kind \in CT!Finals, CT!End(t, kind)
      PROVE  CT!TypeOK' /\ CT!Promise'
  BY <1>4, ReplyKeepsPromise DEF CT!Finals
<1>5. CASE UNCHANGED CT!vars
  BY <1>5 DEF CT!vars, CT!TypeOK, CT!Promise
<1>. QED
  BY <1>1, <1>2, <1>3, <1>4, <1>5 DEF CT!Next

\* Whatever the adapter, the network and other clients do, a turn sends drafts,
\* then one terminal reply and no more, "cancelled" only when asked and "offline"
\* only before anything else (chat_via_bridge).
THEOREM TurnsKeepPromise == Spec => []CT!Promise
BY PromiseInit, PromiseStep, BridgeImplementsChatTurns, PTL DEF ImplementsChatTurns, CT!Spec

-----------------------------------------------------------------------------
(* Liveness: from the token to the end of the turn.                        *)

\* Where a turn can go from each place in one step of the system, with a token
\* that stays fired ...
LEMMA TurnMoves ==
  ASSUME TypeOK, [Next]_vars, NEW t \in Turns
  PROVE  /\ pc[t] = "opened" => pc'[t] \in {"opened", "offline", "waiting"}
         /\ pc[t] = "offline" => pc'[t] \in {"offline", "done"}
         /\ pc[t] = "waiting" => pc'[t] \in {"waiting", "closing"}
         /\ pc[t] = "closing" => pc'[t] \in {"closing", "done"}
         /\ t \in cancelled => t \in cancelled'
<1>. USE DEF turnVars, sockVars, gatewayVars, historyVars
<1>1. ASSUME NEW u \in Turns, NEW c \in ChatIds, HandleChat(u, c)
      PROVE  /\ pc[t] # "idle" => pc'[t] = pc[t]
             /\ cancelled' = cancelled
  BY <1>1 DEF HandleChat, TypeOK
<1>2. ASSUME NEW u \in Turns \ {t}, TurnStep(u)
      PROVE  pc'[t] = pc[t] /\ cancelled' = cancelled
  BY <1>2 DEF TurnStep, SendInbound, OfflineReturn, TurnCancelled, TurnDraft, TurnTyping, TurnSend,
              TurnNone, TurnClose, TakeFrame, FinishWith, TypeOK
<1>3. CASE TurnStep(t)
  BY <1>3 DEF TurnStep, SendInbound, OfflineReturn, TurnCancelled, TurnDraft, TurnTyping, TurnSend,
              TurnNone, TurnClose, TakeFrame, FinishWith, TypeOK
<1>4. ASSUME NEW u \in Turns, Cancel(u)
      PROVE  pc'[t] = pc[t] /\ cancelled \subseteq cancelled'
  BY <1>4 DEF Cancel
<1>5. ASSUME NEW s \in Sockets, Dial(s) \/ SocketStep(s) \/ LinkLoss(s)
      PROVE  pc' = pc /\ cancelled' = cancelled
  BY <1>5 DEF Dial, SocketStep, SetAdapter, WriteFrame, ReadFrame, SocketClosed, LinkLoss
<1>6. ASSUME NEW m \in Turns, NEW kind \in Kinds, GatewayEmit(m, kind)
      PROVE  pc' = pc /\ cancelled' = cancelled
  BY <1>6 DEF GatewayEmit
<1>7. CASE UNCHANGED vars
  BY <1>7 DEF vars
<1>. QED
  BY <1>1, <1>2, <1>3, <1>4, <1>5, <1>6, <1>7 DEF Next

\* ... and that the step the turn's task owes leaves the place.
LEMMA TurnLeaves ==
  ASSUME TypeOK, NEW t \in Turns
  PROVE  /\ TurnStep(t) /\ pc[t] \in {"opened", "offline", "closing"} => pc'[t] # pc[t]
         /\ TurnCancelled(t) => pc'[t] # pc[t]
BY DEF TurnStep, SendInbound, OfflineReturn, TurnCancelled, TurnDraft, TurnTyping, TurnSend,
       TurnNone, TurnClose, TakeFrame, FinishWith, TypeOK

\* If the steps that CancelledIsNotStuck names can be taken, which the run checks
\* (what a state ENABLEs is out of the provers' reach), a cancelled turn ends and
\* its route is released, for any number of turns, chats, connections and frames.
THEOREM CancelsEnd == FairSpec /\ []CancelledIsNotStuck => CancelEndsTurn
<1>1. ASSUME NEW t \in Turns
      PROVE  FairSpec /\ []CancelledIsNotStuck =>
               ((InFlight(t) /\ t \in cancelled) ~> pc[t] = "done")
  <2>. DEFINE At(place) == pc[t] = place
              Fired == t \in cancelled
  <2>1. TypeOK /\ InFlight(t) => At("opened") \/ At("offline") \/ At("waiting") \/ At("closing")
    BY DEF TypeOK, InFlight
  <2>2. TypeOK /\ [Next]_vars =>
          /\ At("opened") => At("opened")' \/ At("offline")' \/ At("waiting")'
          /\ At("offline") => At("offline")' \/ At("done")'
          /\ At("waiting") => At("waiting")' \/ At("closing")'
          /\ At("closing") => At("closing")' \/ At("done")'
          /\ Fired => Fired'
    BY TurnMoves
  <2>3. TypeOK /\ <<TurnStep(t)>>_vars => /\ At("opened") => ~At("opened")'
                                          /\ At("offline") => ~At("offline")'
                                          /\ At("closing") => ~At("closing")'
    BY TurnLeaves
  <2>4. TypeOK /\ <<TurnCancelled(t)>>_vars => (At("waiting") => ~At("waiting")')
    BY TurnLeaves
  <2>5. CancelledIsNotStuck =>
          /\ At("opened") \/ At("offline") \/ At("closing") => ENABLED <<TurnStep(t)>>_vars
          /\ At("waiting") /\ Fired => ENABLED <<TurnCancelled(t)>>_vars
    BY DEF CancelledIsNotStuck
  <2>6. FairSpec => Spec /\ [][Next]_vars /\ TurnFair(t)
    BY DEF FairSpec, Spec, Fairness
  <2>. HIDE DEF At, Fired
  <2>7. FairSpec /\ []CancelledIsNotStuck => (InFlight(t) /\ Fired ~> At("done"))
    BY <2>1, <2>2, <2>3, <2>4, <2>5, <2>6, TypeCorrect, PTL DEF TurnFair
  <2>. QED
    BY <2>7 DEF At, Fired
<1>. QED
  BY <1>1 DEF CancelEndsTurn
=============================================================================
