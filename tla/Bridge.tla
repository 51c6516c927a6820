------------------------------- MODULE Bridge -------------------------------
(***************************************************************************)
(* The daemon side of the Hermes "desktop" platform: `BridgeHub` and its   *)
(* `/gateway` WebSocket (src/src/bridge.rs) together with the chat turns   *)
(* that use it (`chat_via_bridge` in src/src/daemon.rs).                   *)
(*                                                                         *)
(* Actors that interleave: one task per chat turn, one `handle_socket`     *)
(* task and one writer task per adapter connection, the clients that       *)
(* start and cancel turns, the network, and the gateway in the Hermes pod. *)
(* A task may be preempted between any two mutex sections and at every     *)
(* await, so those are the action boundaries.                              *)
(*                                                                         *)
(* A message is identified with the turn that sent it, so `m \in Turns` is *)
(* also "the user message of turn m"; texts are not modelled.              *)
(*                                                                         *)
(* A definition X_Y stands before the definition X it is a mutation of: a  *)
(* bug that could be there instead, which the properties must catch.       *)
(***************************************************************************)
EXTENDS Naturals, Sequences

CONSTANTS Turns,        \* chat requests
          Chats,        \* conversation ids a panel may send as session_id
          MaxSockets,   \* bound: adapter connections over the whole run
          MaxFrames,    \* bound: frames the gateway emits over the whole run
          ClientWaits,  \* do clients wait for a reply before the next request?
          NoTurn, NoChat

ASSUME TurnsAssumption == NoTurn \notin Turns
ASSUME ChatsAssumption == /\ Chats \cap Turns = {}
                          /\ NoChat \notin Chats \union Turns
ASSUME BoundsAssumption == /\ MaxSockets \in Nat
                           /\ MaxFrames \in Nat
                           /\ ClientWaits \in BOOLEAN

Sockets == 1..MaxSockets
NoSocket == 0

\* A launcher chat has no session_id; the id minted for it is fresh, so it is
\* named after its turn.
ChatIds == Chats \union Turns

\* FromAdapter.  `for` is the message being answered: it stands for the text
\* and is not part of the frame, so no action may branch on it.
Kinds == {"draft", "send", "typing"}
Frame == [kind : Kinds, chat : ChatIds, for : Turns]

\* The DaemonMessages of a chat: Draft, ChatComplete and three Errors.
ReplyKinds == {"draft", "complete", "offline", "cancelled", "disconnected"}

VARIABLES
  adapter,   \* BridgeHub.adapter: the connection whose sender is registered
  routes,    \* BridgeHub.routes: which turn's channel each chat id maps to
  pc, chat,  \* where each turn is in chat_via_bridge, and its chat_id
  cancelled, \* turns whose CancellationToken has fired
  queue,     \* queue[t]: the route channel of t, not yet read
  sock,      \* sock[s]: life of the handle_socket task of connection s
  link,      \* link[s]: is the TCP connection still there?
  writer,    \* writer[s]: does the writer task still hold its receiver?
  outq,      \* outq[s]: inbound frames queued for the writer task
  inq,       \* inq[s]: frames the adapter has sent, not yet read
  received,  \* messages the gateway has received
  emitted    \* number of frames the gateway has sent

\* What clients and the user see, kept to state properties.
VARIABLES
  replies,    \* replies[t]: kinds of DaemonMessages sent for t, in order
  answers,    \* answers[t]: the messages whose answers were relayed to t
  notified,   \* launcher turns whose reply was shown as a notification
  overlapped, \* turns that shared their chat id with another one in flight
  seen        \* seen[t]: turns started no later than t

turnVars == <<routes, pc, chat, cancelled, queue>>
sockVars == <<adapter, sock, link, writer, outq, inq>>
gatewayVars == <<received, emitted>>
historyVars == <<replies, answers, notified, overlapped, seen>>
vars == <<turnVars, sockVars, gatewayVars, historyVars>>

TypeOK ==
  /\ adapter \in Sockets \union {NoSocket}
  /\ routes \in [ChatIds -> Turns \union {NoTurn}]
  /\ pc \in [Turns -> {"idle", "opened", "offline", "waiting", "closing", "done"}]
  /\ chat \in [Turns -> ChatIds \union {NoChat}]
  /\ cancelled \subseteq Turns
  /\ queue \in [Turns -> Seq(Frame)]
  /\ sock \in [Sockets -> {"unused", "dialed", "open", "closed"}]
  /\ link \in [Sockets -> {"up", "down"}]
  /\ writer \in [Sockets -> BOOLEAN]
  /\ outq \in [Sockets -> Seq(Turns)]
  /\ inq \in [Sockets -> Seq(Frame)]
  /\ received \subseteq Turns
  /\ emitted \in 0..MaxFrames
  /\ replies \in [Turns -> Seq(ReplyKinds)]
  /\ answers \in [Turns -> SUBSET Turns]
  /\ notified \subseteq Turns
  /\ overlapped \subseteq Turns
  /\ seen \in [Turns -> SUBSET Turns]

Init ==
  /\ adapter = NoSocket
  /\ routes = [c \in ChatIds |-> NoTurn]
  /\ pc = [t \in Turns |-> "idle"]
  /\ chat = [t \in Turns |-> NoChat]
  /\ cancelled = {}
  /\ queue = [t \in Turns |-> <<>>]
  /\ sock = [s \in Sockets |-> "unused"]
  /\ link = [s \in Sockets |-> "down"]
  /\ writer = [s \in Sockets |-> FALSE]
  /\ outq = [s \in Sockets |-> <<>>]
  /\ inq = [s \in Sockets |-> <<>>]
  /\ received = {}
  /\ emitted = 0
  /\ replies = [t \in Turns |-> <<>>]
  /\ answers = [t \in Turns |-> {}]
  /\ notified = {}
  /\ overlapped = {}
  /\ seen = [t \in Turns |-> {}]

-----------------------------------------------------------------------------
(* Chat turns: DaemonHandler::chat_via_bridge.                             *)

Launcher(t) == chat[t] = t
InFlight(t) == pc[t] \notin {"idle", "done"}
Answered(t) == pc[t] \in {"closing", "done"}

\* Turns in flight on chat id c.
Rivals(c) == {u \in Turns : chat[u] = c /\ InFlight(u)}

\* BridgeHub::open_chat and close_chat: the map entry is replaced, or removed,
\* whichever turn it belongs to.
OpenChat_KeepFirst(c, t) ==
  routes' = [routes EXCEPT ![c] = IF @ = NoTurn THEN t ELSE @]
OpenChat(c, t) == routes' = [routes EXCEPT ![c] = t]

CloseChat_Never(c) == UNCHANGED routes
CloseChat_All(c) == routes' = [d \in ChatIds |-> NoTurn]
CloseChat(c) == routes' = [routes EXCEPT ![c] = NoTurn]

Reply(t, kind) == replies' = [replies EXCEPT ![t] = Append(@, kind)]

\* A request reaches handle_chat: pick the chat id and register the route.
HandleChat(t, c) ==
  /\ pc[t] = "idle"
  /\ c \in Chats \union {t}
  /\ ClientWaits => \A u \in Turns : chat[u] = c => Answered(u)
  /\ pc' = [pc EXCEPT ![t] = "opened"]
  /\ chat' = [chat EXCEPT ![t] = c]
  /\ OpenChat(c, t)
  /\ overlapped' = IF Rivals(c) = {} THEN overlapped
                                     ELSE overlapped \union Rivals(c) \union {t}
  /\ seen' = [seen EXCEPT ![t] = {u \in Turns : pc[u] # "idle"} \union {t}]
  /\ UNCHANGED <<cancelled, queue, replies, answers, notified, sockVars, gatewayVars>>

\* BridgeHub::send_inbound succeeds when the registered sender's receiver, held
\* by the writer task of that connection, still exists.
AdapterTakes == adapter # NoSocket /\ writer[adapter]

SendInbound_Inverted(t) ==
  /\ pc[t] = "opened"
  /\ \/ /\ AdapterTakes
        /\ outq' = [outq EXCEPT ![adapter] = Append(@, t)]
        /\ pc' = [pc EXCEPT ![t] = "offline"]
     \/ /\ ~AdapterTakes
        /\ pc' = [pc EXCEPT ![t] = "waiting"]
        /\ UNCHANGED outq
  /\ UNCHANGED <<routes, chat, cancelled, queue, adapter, sock, link, writer, inq,
                 gatewayVars, historyVars>>
SendInbound(t) ==
  /\ pc[t] = "opened"
  /\ \/ /\ AdapterTakes
        /\ outq' = [outq EXCEPT ![adapter] = Append(@, t)]
        /\ pc' = [pc EXCEPT ![t] = "waiting"]
     \/ /\ ~AdapterTakes
        /\ pc' = [pc EXCEPT ![t] = "offline"]
        /\ UNCHANGED outq
  /\ UNCHANGED <<routes, chat, cancelled, queue, adapter, sock, link, writer, inq,
                 gatewayVars, historyVars>>

\* The early return when send_inbound is false.
OfflineReturn(t) ==
  /\ pc[t] = "offline"
  /\ CloseChat(chat[t])
  /\ Reply(t, "offline")
  /\ pc' = [pc EXCEPT ![t] = "done"]
  /\ queue' = [queue EXCEPT ![t] = <<>>]
  /\ UNCHANGED <<chat, cancelled, answers, notified, overlapped, seen, sockVars, gatewayVars>>

\* Leave the select loop with a terminal reply; the route is still registered.
FinishWith_NoBreak(t, kind) ==
  /\ Reply(t, kind)
  /\ UNCHANGED pc
FinishWith(t, kind) ==
  /\ Reply(t, kind)
  /\ pc' = [pc EXCEPT ![t] = "closing"]

TurnCancelled_OnFrame(t) ==
  /\ pc[t] = "waiting"
  /\ t \in cancelled /\ queue[t] # <<>>
  /\ FinishWith(t, "cancelled")
  /\ UNCHANGED <<routes, chat, cancelled, queue, answers, notified, overlapped, seen,
                 sockVars, gatewayVars>>
TurnCancelled(t) ==
  /\ pc[t] = "waiting"
  /\ t \in cancelled
  /\ FinishWith(t, "cancelled")
  /\ UNCHANGED <<routes, chat, cancelled, queue, answers, notified, overlapped, seen,
                 sockVars, gatewayVars>>

\* frames.next() is Some(frame of this kind).
TakeFrame(t, kind) ==
  /\ pc[t] = "waiting"
  /\ queue[t] # <<>>
  /\ Head(queue[t]).kind = kind
  /\ queue' = [queue EXCEPT ![t] = Tail(@)]

Relay(t) == answers' = [answers EXCEPT ![t] = @ \union {Head(queue[t]).for}]

TurnDraft(t) ==
  /\ TakeFrame(t, "draft")
  /\ Reply(t, "draft")
  /\ Relay(t)
  /\ UNCHANGED <<routes, pc, chat, cancelled, notified, overlapped, seen, sockVars, gatewayVars>>

\* The panel already shows busy.
TurnTyping(t) ==
  /\ TakeFrame(t, "typing")
  /\ UNCHANGED <<routes, pc, chat, cancelled, sockVars, gatewayVars, historyVars>>

\* The final reply; a launcher's is also shown as a notification, unless there
\* is no session bus, the text is empty or the D-Bus call fails.
TurnSend(t) ==
  /\ TakeFrame(t, "send")
  /\ Relay(t)
  /\ \/ Launcher(t) /\ notified' = notified \union {t}
     \/ UNCHANGED notified
  /\ FinishWith(t, "complete")
  /\ UNCHANGED <<routes, chat, cancelled, overlapped, seen, sockVars, gatewayVars>>

\* frames.next() is None: the channel is drained and its sender, which lives
\* only in the routes map, has been dropped.
TurnNone(t) ==
  /\ pc[t] = "waiting"
  /\ queue[t] = <<>>
  /\ routes[chat[t]] # t
  /\ FinishWith(t, "disconnected")
  /\ UNCHANGED <<routes, chat, cancelled, queue, answers, notified, overlapped, seen,
                 sockVars, gatewayVars>>

\* The close_chat after the loop; returning drops the receiver.
TurnClose(t) ==
  /\ pc[t] = "closing"
  /\ CloseChat(chat[t])
  /\ pc' = [pc EXCEPT ![t] = "done"]
  /\ queue' = [queue EXCEPT ![t] = <<>>]
  /\ UNCHANGED <<chat, cancelled, sockVars, gatewayVars, historyVars>>

\* The IPC server fires the request's token (Cancel message or shutdown).
Cancel(t) ==
  /\ InFlight(t)
  /\ cancelled' = cancelled \union {t}
  /\ UNCHANGED <<routes, pc, chat, queue, sockVars, gatewayVars, historyVars>>

-----------------------------------------------------------------------------
(* Adapter connections: handle_socket, its writer task, and the network.   *)

\* The adapter in the pod dials when it believes it has no connection.
Dial(s) ==
  /\ sock[s] = "unused"
  /\ \A r \in Sockets : (r < s => sock[r] # "unused") /\ link[r] = "down"
  /\ sock' = [sock EXCEPT ![s] = "dialed"]
  /\ link' = [link EXCEPT ![s] = "up"]
  /\ UNCHANGED <<adapter, writer, outq, inq, turnVars, gatewayVars, historyVars>>

\* handle_socket starts: its sender replaces whatever was registered.
SetAdapter(s) ==
  /\ sock[s] = "dialed"
  /\ adapter' = s
  /\ writer' = [writer EXCEPT ![s] = TRUE]
  /\ sock' = [sock EXCEPT ![s] = "open"]
  /\ UNCHANGED <<link, outq, inq, turnVars, gatewayVars, historyVars>>

\* The writer task sends one frame.  On a connection that is gone the write may
\* still be accepted, and lost, or fail, which ends the task and drops its
\* receiver with everything queued.
WriteFrame(s) ==
  /\ writer[s]
  /\ outq[s] # <<>>
  /\ \/ /\ link[s] = "up"
        /\ received' = received \union {Head(outq[s])}
        /\ outq' = [outq EXCEPT ![s] = Tail(@)]
        /\ UNCHANGED writer
     \/ /\ link[s] = "down"
        /\ outq' = [outq EXCEPT ![s] = Tail(@)]
        /\ UNCHANGED <<received, writer>>
     \/ /\ link[s] = "down"
        /\ writer' = [writer EXCEPT ![s] = FALSE]
        /\ outq' = [outq EXCEPT ![s] = <<>>]
        /\ UNCHANGED received
  /\ UNCHANGED <<adapter, sock, link, inq, emitted, turnVars, historyVars>>

\* BridgeHub::dispatch: hand the frame to the turn registered for its chat id,
\* if there is one and it has not dropped its receiver.
Dispatch_Broadcast(f) ==
  queue' = [t \in Turns |-> IF InFlight(t) THEN Append(queue[t], f) ELSE queue[t]]
Dispatch(f) ==
  LET t == routes[f.chat]
  IN  queue' = IF t # NoTurn /\ InFlight(t)
                 THEN [queue EXCEPT ![t] = Append(@, f)]
                 ELSE queue

\* The read loop takes one frame; what had arrived is readable even after the
\* connection is lost.
ReadFrame(s) ==
  /\ sock[s] = "open"
  /\ inq[s] # <<>>
  /\ Dispatch(Head(inq[s]))
  /\ inq' = [inq EXCEPT ![s] = Tail(@)]
  /\ UNCHANGED <<routes, pc, chat, cancelled, adapter, sock, link, writer, outq,
                 gatewayVars, historyVars>>

\* BridgeHub::clear_adapter, called by the task of s, does not look at whose
\* sender is registered.
ClearAdapter(s) == adapter' = NoSocket

\* The read loop sees Close, an error or the end of the stream: clear_adapter
\* and abort the writer.  The routes are left alone.
SocketClosed(s) ==
  /\ sock[s] = "open"
  /\ link[s] = "down"
  /\ ClearAdapter(s)
  /\ sock' = [sock EXCEPT ![s] = "closed"]
  /\ writer' = [writer EXCEPT ![s] = FALSE]
  /\ outq' = [outq EXCEPT ![s] = <<>>]
  /\ inq' = [inq EXCEPT ![s] = <<>>]
  /\ UNCHANGED <<link, turnVars, gatewayVars, historyVars>>

\* The adapter closes the connection, its pod dies, or the network drops it.
LinkLoss(s) ==
  /\ link[s] = "up"
  /\ link' = [link EXCEPT ![s] = "down"]
  /\ UNCHANGED <<adapter, sock, writer, outq, inq, turnVars, gatewayVars, historyVars>>

-----------------------------------------------------------------------------
(* The gateway behind the adapter (external): it answers a message with    *)
(* frames for that message's chat, at any time, in any number, on the      *)
(* connection it has then.  A frame sent while there is none is lost, the  *)
(* same as one never sent.                                                 *)

GatewayEmit(m, kind) ==
  /\ m \in received
  /\ emitted < MaxFrames
  /\ \E s \in Sockets :
       /\ link[s] = "up"
       /\ inq' = [inq EXCEPT ![s] = Append(@, [kind |-> kind, chat |-> chat[m], for |-> m])]
  /\ emitted' = emitted + 1
  /\ UNCHANGED <<received, adapter, sock, link, writer, outq, turnVars, historyVars>>

-----------------------------------------------------------------------------
\* What a turn's task does once it has been started.
TurnStep(t) == \/ SendInbound(t) \/ OfflineReturn(t)
               \/ TurnCancelled(t) \/ TurnDraft(t) \/ TurnTyping(t)
               \/ TurnSend(t) \/ TurnNone(t) \/ TurnClose(t)

\* What the daemon's tasks of one connection do.
SocketStep(s) == SetAdapter(s) \/ WriteFrame(s) \/ ReadFrame(s) \/ SocketClosed(s)

Next == \/ \E t \in Turns : \E c \in ChatIds : HandleChat(t, c)
        \/ \E t \in Turns : TurnStep(t) \/ Cancel(t)
        \/ \E s \in Sockets : Dial(s) \/ SocketStep(s) \/ LinkLoss(s)
        \/ \E m \in Turns : \E kind \in Kinds : GatewayEmit(m, kind)

Spec == Init /\ [][Next]_vars

\* The tokio runtime keeps polling tasks that can proceed, and select! polls its
\* arms in random order, so that frames do not keep a turn from its token for
\* ever.  Clients, the network and the gateway owe nothing.
TurnFair(t) == WF_vars(TurnStep(t)) /\ WF_vars(TurnCancelled(t))
SocketFair(s) == WF_vars(SetAdapter(s) \/ WriteFrame(s) \/ ReadFrame(s))
Fairness == (\A t \in Turns : TurnFair(t)) /\ (\A s \in Sockets : SocketFair(s))

FairSpec == Spec /\ Fairness
-----------------------------------------------------------------------------
(* Properties.                                                             *)

\* The routes map never leaks: an entry always belongs to a turn of that chat
\* id that is still in flight, on every exit path of chat_via_bridge (offline,
\* cancelled, complete, disconnected) and whatever other turns do to the entry.
RoutesAreLive ==
  \A c \in ChatIds : routes[c] # NoTurn =>
    chat[routes[c]] = c /\ InFlight(routes[c])

\* A turn that shares its chat id with no other keeps its route from open_chat
\* to close_chat: no other turn, connection or disconnection takes it away.
\* Hence it is told "disconnected" by nobody.
LoneTurnKeepsRoute ==
  \A t \in Turns : InFlight(t) /\ t \notin overlapped => routes[chat[t]] = t

\* The routes map is exact: no entry but of a turn in flight, and the entry of
\* every turn in flight that has its chat id to itself.
RoutesAreExact == RoutesAreLive /\ LoneTurnKeepsRoute

\* Error "desktop platform disconnected" is sent only to turns whose route
\* another turn of the same chat replaced or removed.
DisconnectedOnlyIfOverlapped ==
  \A t \in Turns : (\E i \in DOMAIN replies[t] : replies[t][i] = "disconnected")
                   => t \in overlapped

\* Routing by chat id: every frame waiting in a turn's channel is for the
\* turn's own chat, across replaced routes and reconnections.
FramesKeepToTheirChat ==
  \A t \in Turns : \A i \in DOMAIN queue[t] : queue[t][i].chat = chat[t]

\* open_chat comes before send_inbound, so a turn is never shown the answer to
\* a message sent after it started, even when a later turn takes its chat over.
\* (The answer to an earlier message of the chat it can be shown.)
NoAnswerFromTheFuture ==
  \A t \in Turns : answers[t] \subseteq seen[t]

\* A launcher chat has an id of its own, so what it shows, and what it puts
\* into a notification, answers its own message; a panel chat never notifies.
LauncherHearsItsOwnAnswer ==
  /\ \A t \in Turns : Launcher(t) => answers[t] \subseteq {t}
  /\ \A t \in notified : Launcher(t) /\ answers[t] = {t}

\* What a turn may be shown: no answer to what comes after it, and where nobody
\* else has its chat id none but its own.
AnswersFitTurns == NoAnswerFromTheFuture /\ LauncherHearsItsOwnAnswer

\* A turn told "desktop platform offline" really was not submitted: its message
\* neither sits in a writer's queue nor reaches the gateway later, so sending
\* it again cannot run it twice.
OfflineMeansNotSent ==
  \A t \in Turns : pc[t] = "offline" \/ replies[t] = <<"offline">> =>
    /\ t \notin received
    /\ \A s \in Sockets : \A i \in DOMAIN outq[s] : outq[s][i] # t

\* The registered sender belongs to a connection whose read loop still runs:
\* no stale sender survives handle_socket.
AdapterIsOpen == adapter # NoSocket => sock[adapter] = "open"

\* Every turn keeps the promise of ChatTurns: drafts, then one terminal reply.
Phase == [t \in Turns |-> CASE pc[t] = "idle" -> "idle"
                            [] Answered(t) -> "ended"
                            [] OTHER -> "active"]
CT == INSTANCE ChatTurns WITH phase <- Phase
ImplementsChatTurns == CT!Spec

\* A cancelled turn can always go on by itself: before the loop and after it the
\* task awaits nothing of the adapter, in it the token is all it needs.
CancelledIsNotStuck ==
  \A t \in Turns :
    /\ pc[t] \in {"opened", "offline", "closing"} => ENABLED <<TurnStep(t)>>_vars
    /\ pc[t] = "waiting" /\ t \in cancelled => ENABLED <<TurnCancelled(t)>>_vars

\* A cancelled turn is over, and its route released, no matter what the adapter
\* does.
CancelEndsTurn ==
  \A t \in Turns : (InFlight(t) /\ t \in cancelled) ~> pc[t] = "done"

\* What src/src/daemon.rs:147 says of the None arm ("Adapter disconnected
\* mid-turn."): a turn that waits when the adapter goes away is told so.
AdapterLossEndsTurn ==
  \A t \in Turns : (pc[t] = "waiting" /\ adapter = NoSocket) ~> Answered(t)

\* The converse reading of the same comment: a turn is told so only when an
\* adapter connection was lost.
DisconnectedMeansLoss ==
  (\E t \in Turns : replies[t] # <<>> /\ replies[t][Len(replies[t])] = "disconnected")
    => \E s \in Sockets : sock[s] # "unused" /\ link[s] = "down"

\* "True iff a desktop-platform adapter is currently connected."
\* (src/src/bridge.rs:84): a connection served by handle_socket, with its TCP
\* connection up, is registered.
ConnectedIffRegistered ==
  (\E s \in Sockets : sock[s] = "open" /\ link[s] = "up") => adapter # NoSocket
=============================================================================
