----------------------------- MODULE StatusFeed -----------------------------
(***************************************************************************)
(* How the panel comes to know whether Hermes is reachable.  `health_loop` *)
(* (src/src/daemon.rs) probes Hermes and broadcasts a status event on      *)
(* every transition; a connection of the socket server                     *)
(* (src/src/ipc/server.rs) passes events on once its client has            *)
(* subscribed, and answers `status` requests through a queue of its own;   *)
(* `hermes-dms-ctl stream` (src/src/bin/ctl.rs) subscribes, and relays     *)
(* both ways for HermesService.qml, which shows the last status it heard.  *)
(*                                                                         *)
(* One panel, one connection at a time.  From the connection's writer to   *)
(* the panel everything is first in, first out, so a line is written and   *)
(* heard in one step.  Toasts share the broadcast channel.                 *)
(*                                                                         *)
(* A definition X_Y stands before the definition X it is a mutation of.    *)
(***************************************************************************)
EXTENDS Naturals, Sequences

CONSTANTS BROADCAST_CAP,  \* capacity of the broadcast channel
          MaxFlips,       \* bound: changes of Hermes's reachability
          MaxToasts,      \* bound: desktop_notify calls
          MaxRestarts     \* bound: restarts of the daemon

ASSUME BoundsAssumption == /\ BROADCAST_CAP \in Nat \ {0}
                           /\ MaxFlips \in Nat
                           /\ MaxToasts \in Nat
                           /\ MaxRestarts \in Nat

VARIABLES
  health,     \* would a probe of Hermes succeed now?
  loop,       \* where health_loop is
  up,         \* the result of its last probe
  hermesUp,   \* the AtomicBool it shares with the request handlers
  relay,      \* the relay process: down, up, or stuck after its socket has closed
  lines,      \* what the client has written and the reader not yet read
  subscribed, \* the connection's flag
  bus,        \* events broadcast and not yet received by the writer
  handler,    \* the handler of the status request
  outq,       \* the connection's queue of direct replies
  connected,  \* HermesService.connected
  flips, toasts, restarts

\* Why a panel may show an old status, kept to state properties.
VARIABLES
  passed,     \* was an event written since the reply on its way was made?
  overtaken,  \* was the last status heard a reply older than an event before it?
  lost        \* was the last status event dropped for want of room?

daemonVars == <<loop, up, hermesUp>>
connVars == <<lines, subscribed, bus, handler, outq>>
counters == <<flips, toasts, restarts>>
history == <<passed, overtaken, lost>>
vars == <<health, daemonVars, relay, connVars, connected, counters, history>>

\* A broadcast event is a toast or the reachability it reports; a handler that
\* has nothing to send is idle, or has still to look at hermesUp.
Event == {"toast", "connected", "disconnected"}
Status(b) == IF b THEN "connected" ELSE "disconnected"

TypeOK ==
  /\ health \in BOOLEAN /\ up \in BOOLEAN /\ hermesUp \in BOOLEAN
  /\ loop \in {"probing", "probed", "broadcasting", "sleeping"}
  /\ relay \in {"down", "up", "stuck"} /\ subscribed \in BOOLEAN /\ connected \in BOOLEAN
  /\ lines \in {<<"subscribe", "status">>, <<"status">>, <<>>}
  /\ bus \in Seq(Event) /\ Len(bus) <= BROADCAST_CAP
  /\ handler \in {"idle", "spawned", "connected", "disconnected"}
  /\ outq \in Seq(Event)
  /\ flips \in 0..MaxFlips /\ toasts \in 0..MaxToasts /\ restarts \in 0..MaxRestarts
  /\ passed \in BOOLEAN /\ overtaken \in BOOLEAN /\ lost \in BOOLEAN

Init ==
  /\ health \in BOOLEAN
  /\ loop = "probing" /\ up = FALSE /\ hermesUp = FALSE
  /\ relay = "down"
  /\ lines = <<>> /\ subscribed = FALSE /\ bus = <<>> /\ handler = "idle" /\ outq = <<>>
  /\ connected = FALSE
  /\ flips = 0 /\ toasts = 0 /\ restarts = 0
  /\ passed = FALSE /\ overtaken = FALSE /\ lost = FALSE

-----------------------------------------------------------------------------
(* The health loop.                                                        *)

\* Hermes goes away or comes back (external).
Flip ==
  /\ flips < MaxFlips
  /\ health' = ~health /\ flips' = flips + 1
  /\ UNCHANGED <<daemonVars, relay, connVars, connected, toasts, restarts, history>>

Probe ==
  /\ loop = "probing"
  /\ up' = health
  /\ loop' = "probed"
  /\ UNCHANGED <<health, hermesUp, relay, connVars, connected, counters, history>>

\* swap: the flag changes before the event goes out, and other threads see it.
Swap_GoodNewsOnly ==
  /\ loop = "probed"
  /\ hermesUp' = up
  /\ loop' = IF up /\ ~hermesUp THEN "broadcasting" ELSE "sleeping"
  /\ UNCHANGED <<health, up, relay, connVars, connected, counters, history>>
Swap ==
  /\ loop = "probed"
  /\ hermesUp' = up
  /\ loop' = IF up # hermesUp THEN "broadcasting" ELSE "sleeping"
  /\ UNCHANGED <<health, up, relay, connVars, connected, counters, history>>

\* broadcast::Sender::send: a receiver that lags behind by more than the
\* capacity loses the oldest event.
Push(event) ==
  bus' = IF Len(bus) < BROADCAST_CAP THEN Append(bus, event) ELSE Append(Tail(bus), event)

HasStatus(events) == \E i \in DOMAIN events : events[i] # "toast"

Send(event) ==
  IF relay = "up"
    THEN /\ Push(event)
         /\ lost' = (~HasStatus(bus') /\ (lost \/ HasStatus(bus)))
    ELSE UNCHANGED <<bus, lost>>

Broadcast ==
  /\ loop = "broadcasting"
  /\ Send(Status(up))
  /\ loop' = "sleeping"
  /\ UNCHANGED <<health, up, hermesUp, relay, lines, subscribed, handler, outq, connected,
                 counters, passed, overtaken>>

\* desktop_notify (src/src/mcp/tools.rs) broadcasts a toast.
Toast ==
  /\ toasts < MaxToasts
  /\ toasts' = toasts + 1
  /\ Send("toast")
  /\ UNCHANGED <<health, daemonVars, relay, lines, subscribed, handler, outq, connected,
                 flips, restarts, passed, overtaken>>

\* HEALTH_INTERVAL passes.
Wake ==
  /\ loop = "sleeping"
  /\ loop' = "probing"
  /\ UNCHANGED <<health, up, hermesUp, relay, connVars, connected, counters, history>>

-----------------------------------------------------------------------------
(* The connection.                                                         *)

\* The read loop takes the subscription ...
ReadSubscribe_Ignored ==
  /\ lines = <<"subscribe", "status">>
  /\ lines' = Tail(lines)
  /\ UNCHANGED <<health, daemonVars, relay, subscribed, bus, handler, outq, connected,
                 counters, history>>
ReadSubscribe ==
  /\ lines = <<"subscribe", "status">>
  /\ lines' = Tail(lines)
  /\ subscribed' = TRUE
  /\ UNCHANGED <<health, daemonVars, relay, bus, handler, outq, connected, counters, history>>

\* ... and spawns the handler of the status request,
ReadStatus ==
  /\ lines = <<"status">>
  /\ lines' = <<>>
  /\ handler' = "spawned"
  /\ UNCHANGED <<health, daemonVars, relay, subscribed, bus, outq, connected, counters, history>>

\* which reads hermesUp (`status_str`)
LoadStatus ==
  /\ handler = "spawned"
  /\ handler' = Status(hermesUp)
  /\ passed' = FALSE
  /\ UNCHANGED <<health, daemonVars, relay, lines, subscribed, bus, outq, connected, counters,
                 overtaken, lost>>

\* and queues the reply.
ReplyStatus ==
  /\ handler \in {"connected", "disconnected"}
  /\ outq' = Append(outq, handler)
  /\ handler' = "idle"
  /\ UNCHANGED <<health, daemonVars, relay, lines, subscribed, bus, connected, counters, history>>

\* The writer's select takes whichever is there, a reply ...
WriteReply ==
  /\ outq # <<>>
  /\ outq' = Tail(outq)
  /\ connected' = (Head(outq) = "connected")
  /\ overtaken' = passed
  /\ UNCHANGED <<health, daemonVars, relay, lines, subscribed, bus, handler, counters,
                 passed, lost>>

\* ... or an event, which it drops when its client has not subscribed.
WriteEvent ==
  /\ bus # <<>>
  /\ bus' = Tail(bus)
  /\ IF subscribed /\ Head(bus) # "toast"
       THEN /\ connected' = (Head(bus) = "connected")
            /\ passed' = TRUE /\ overtaken' = FALSE
       ELSE UNCHANGED <<connected, passed, overtaken>>
  /\ UNCHANGED <<health, daemonVars, relay, lines, subscribed, handler, outq, counters, lost>>

-----------------------------------------------------------------------------
(* The relay process and the daemon.                                       *)

\* The connection as it is when it starts, or when it is gone.
Fresh(written) ==
  /\ lines' = written /\ subscribed' = FALSE /\ bus' = <<>> /\ handler' = "idle" /\ outq' = <<>>
  /\ passed' = FALSE /\ overtaken' = FALSE /\ lost' = FALSE

\* The process connects and subscribes, then passes on the status request the
\* panel writes when it sees the process running.
CtlStart ==
  /\ relay = "down"
  /\ relay' = "up"
  /\ Fresh(<<"subscribe", "status">>)
  /\ UNCHANGED <<health, daemonVars, connected, counters>>

\* The process ends and the panel hears of it at once: it is killed or, when it
\* is stuck, the panel happens to write it a line.
CtlExit ==
  /\ relay # "down"
  /\ relay' = "down" /\ connected' = FALSE
  /\ Fresh(<<>>)
  /\ UNCHANGED <<health, daemonVars, counters>>

\* The daemon ends, its connections with it, and starts afresh.  The relay
\* returns from run_stream when its socket closes, but its runtime waits for the
\* thread that reads a line from the panel.
SocketCloses == relay' = IF relay = "up" THEN "stuck" ELSE relay

DaemonRestart ==
  /\ restarts < MaxRestarts
  /\ restarts' = restarts + 1
  /\ SocketCloses
  /\ Fresh(<<>>)
  /\ loop' = "probing" /\ up' = FALSE /\ hermesUp' = FALSE
  /\ UNCHANGED <<health, connected, flips, toasts>>

-----------------------------------------------------------------------------
LoopStep == Probe \/ Swap \/ Broadcast \/ Wake
ConnStep == ReadSubscribe \/ ReadStatus \/ LoadStatus \/ ReplyStatus
WriterStep == WriteReply \/ WriteEvent

Next == LoopStep \/ ConnStep \/ WriterStep
        \/ Flip \/ Toast \/ CtlStart \/ CtlExit \/ DaemonRestart

Spec == Init /\ [][Next]_vars

\* tokio polls what can proceed; the timer of the panel restarts the relay.
Fairness == /\ WF_vars(LoopStep)
            /\ WF_vars(ConnStep)
            /\ WF_vars(WriterStep)
            /\ WF_vars(CtlStart)

FairSpec == Spec /\ Fairness
-----------------------------------------------------------------------------
(* Properties.                                                             *)

\* Nothing that would change what the panel shows is on its way.
Settled == /\ relay = "up" /\ lines = <<>> /\ handler = "idle" /\ outq = <<>>
           /\ ~HasStatus(bus)
           /\ loop # "broadcasting"

\* A panel subscribes first and asks afterwards, so it misses no transition,
\* wherever between the swap and the broadcast of one it comes in: it shows what
\* the daemon knows, but for a reply that an event has overtaken in the writer,
\* and a last event that later toasts have pushed out of a full channel.
NoTransitionMissed ==
  Settled => connected = hermesUp \/ overtaken \/ lost

\* Once Hermes and the relay are stable the panel shows whether Hermes is
\* reachable, with the same two exceptions.
StatusSettles ==
  <>[](relay = "up") => <>[](connected = health \/ overtaken \/ lost)

\* The panel comes back after a restart of the daemon.  (Said by the comment in
\* ctlProc's handler of HermesService.qml, which has the session survive one; it
\* does not hold: nothing tells the panel until it writes a line to the relay.)
RestartIsSurvived == relay = "stuck" ~> relay = "up"
=============================================================================
