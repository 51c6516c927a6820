--------------------------- MODULE DesktopAdapter ---------------------------
(***************************************************************************)
(* The adapter in the gateway's pod (src/hermes-plugin/desktop/adapter.py):*)
(* the gateway's calls of `connect` and `disconnect`, and the supervisor   *)
(* task that pumps the socket and dials again when it drops.  All of it    *)
(* runs in one asyncio loop: an action is the code from one await to the   *)
(* next.  A task that has been cancelled gets CancelledError at the await  *)
(* it is in, and no handler on the way catches it.                         *)
(*                                                                         *)
(* The gateway awaits a call before it makes the next one, and connects    *)
(* again only after it has disconnected.                                   *)
(*                                                                         *)
(* A definition X_Y stands before the definition X it is a mutation of.    *)
(***************************************************************************)
EXTENDS Naturals, FiniteSets

CONSTANTS Sockets,     \* sockets; one may be used again after it is closed
          NoSocket,
          MaxConnects, \* bound: calls of connect
          MaxLosses    \* bound: times the daemon or the network goes away

ASSUME SocketsAssumption == NoSocket \notin Sockets
ASSUME BoundsAssumption == MaxConnects \in Nat /\ MaxLosses \in Nat

VARIABLES
  sock,       \* a socket is closed, open, or broken and not yet found to be
  ws,         \* self._ws
  session,    \* does self._session hold an open session?
  closing,    \* self._closing
  marked,     \* what the gateway has been told: _mark_connected, _mark_disconnected
  supervisor, \* where the supervisor task is
  cancelled,  \* has it been cancelled, and not yet noticed?
  call,       \* where the gateway's call of connect or disconnect is
  daemonUp,   \* can the daemon be dialed?
  connects, losses

taskVars == <<supervisor, cancelled>>
counters == <<connects, losses>>
vars == <<sock, ws, session, closing, marked, taskVars, call, daemonUp, counters>>

TypeOK ==
  /\ sock \in [Sockets -> {"closed", "open", "broken"}]
  /\ ws \in Sockets \cup {NoSocket}
  /\ session \in BOOLEAN /\ closing \in BOOLEAN /\ marked \in BOOLEAN
  /\ supervisor \in {"none", "created", "pumping", "handling", "closing", "dialing",
                     "sleeping", "done"}
  /\ supervisor \in {"pumping", "handling"} => ws # NoSocket
  /\ cancelled \in BOOLEAN
  /\ call \in {"none", "dialing", "connected", "joining", "closing"}
  /\ daemonUp \in BOOLEAN
  /\ connects \in 0..MaxConnects /\ losses \in 0..MaxLosses

Init ==
  /\ sock = [s \in Sockets |-> "closed"]
  /\ ws = NoSocket /\ session = FALSE /\ closing = FALSE /\ marked = FALSE
  /\ supervisor = "none" /\ cancelled = FALSE
  /\ call = "none"
  /\ daemonUp \in BOOLEAN
  /\ connects = 0 /\ losses = 0

-----------------------------------------------------------------------------
(* Dialing, for connect and for the supervisor.                            *)

\* The dial succeeds, and the gateway is told, ...
DialSucceeds ==
  /\ daemonUp
  /\ \E s \in {q \in Sockets : sock[q] = "closed"} :
       /\ sock' = [sock EXCEPT ![s] = "open"]
       /\ ws' = s
  /\ marked' = TRUE

\* ... or it fails.
DialFails ==
  /\ ~daemonUp
  /\ ws' = NoSocket
  /\ UNCHANGED <<sock, marked>>

-----------------------------------------------------------------------------
(* The gateway's calls.                                                    *)

Connect ==
  /\ call = "none"
  /\ connects < MaxConnects
  /\ connects' = connects + 1
  /\ closing' = FALSE /\ session' = TRUE
  /\ call' = "dialing"
  /\ UNCHANGED <<sock, ws, marked, taskVars, daemonUp, losses>>

\* connect returns True whatever became of its dial: the supervisor goes on.
StartSupervisor_OnSuccess ==
  supervisor' = IF supervisor \in {"none", "done"} /\ daemonUp THEN "created" ELSE supervisor
StartSupervisor ==
  supervisor' = IF supervisor \in {"none", "done"} THEN "created" ELSE supervisor

ConnectReturns ==
  /\ call = "dialing"
  /\ DialSucceeds \/ DialFails
  /\ StartSupervisor
  /\ call' = "connected"
  /\ UNCHANGED <<session, closing, cancelled, daemonUp, counters>>

CancelSupervisor_Never == UNCHANGED cancelled
CancelSupervisor == cancelled' = (supervisor \notin {"none", "done"})

Disconnect ==
  /\ call = "connected"
  /\ closing' = TRUE /\ marked' = FALSE
  /\ CancelSupervisor
  /\ call' = "joining"
  /\ UNCHANGED <<sock, ws, session, supervisor, daemonUp, counters>>

\* The socket that is current is closed, if it is not yet.
CloseSocket_OnlyBroken ==
  sock' = [s \in Sockets |-> IF s = ws /\ sock[s] = "broken" THEN "closed" ELSE sock[s]]
CloseSocket == sock' = [s \in Sockets |-> IF s = ws THEN "closed" ELSE sock[s]]

\* disconnect waits for the supervisor to end,
Joinable_AtOnce == TRUE
Joinable == supervisor \in {"none", "done"}

Join ==
  /\ call = "joining"
  /\ Joinable
  /\ supervisor' = IF supervisor = "done" THEN "none" ELSE supervisor
  /\ CloseSocket
  /\ call' = "closing"
  /\ UNCHANGED <<ws, session, closing, marked, cancelled, daemonUp, counters>>

\* and then for the socket and the session, whose end closes all it has opened.
DisconnectReturns ==
  /\ call = "closing"
  /\ ws' = NoSocket /\ session' = FALSE
  /\ sock' = [s \in Sockets |-> "closed"]
  /\ call' = "none"
  /\ UNCHANGED <<closing, marked, taskVars, daemonUp, counters>>

-----------------------------------------------------------------------------
(* The supervisor.                                                         *)

\* The head of the loop in _supervise, for what ws will be.
LoopHead(open) == IF closing THEN "done" ELSE IF open THEN "pumping" ELSE "dialing"

\* The task is at `place` and goes on there, for nobody has cancelled it.
At(place) == supervisor = place /\ ~cancelled

Begin ==
  /\ At("created") \/ At("sleeping")
  /\ supervisor' = LoopHead(ws # NoSocket /\ sock[ws] # "closed")
  /\ UNCHANGED <<sock, ws, session, closing, marked, cancelled, call, daemonUp, counters>>

\* A frame is handed to the gateway, which may raise an exception.
Receive ==
  /\ At("pumping") /\ sock[ws] = "open"
  /\ supervisor' = "handling"
  /\ UNCHANGED <<sock, ws, session, closing, marked, cancelled, call, daemonUp, counters>>

Handled ==
  /\ At("handling")
  /\ supervisor' = "pumping"
  /\ UNCHANGED <<sock, ws, session, closing, marked, cancelled, call, daemonUp, counters>>

\* _pump ends when the socket is found to be broken, or with such an exception.
PumpEnds ==
  /\ (At("pumping") /\ sock[ws] = "broken") \/ At("handling")
  /\ CloseSocket
  /\ supervisor' = "closing"
  /\ UNCHANGED <<ws, session, closing, marked, cancelled, call, daemonUp, counters>>

TellLost_Not == UNCHANGED marked
TellLost == marked' = (marked /\ closing)

PumpReturns ==
  /\ At("closing")
  /\ ws' = NoSocket
  /\ TellLost
  /\ supervisor' = LoopHead(FALSE)
  /\ UNCHANGED <<sock, session, closing, cancelled, call, daemonUp, counters>>

Redial ==
  /\ At("dialing")
  /\ \/ DialSucceeds /\ supervisor' = LoopHead(TRUE)
     \/ DialFails /\ supervisor' = "sleeping"
  /\ UNCHANGED <<session, closing, cancelled, call, daemonUp, counters>>

Cancelled ==
  /\ cancelled
  /\ cancelled' = FALSE
  /\ supervisor' = "done"
  /\ UNCHANGED <<sock, ws, session, closing, marked, call, daemonUp, counters>>

-----------------------------------------------------------------------------
(* The daemon and the network (external).                                  *)

\* Sockets break, and the daemon may or may not be there to be dialed again.
Lose ==
  /\ losses < MaxLosses
  /\ losses' = losses + 1
  /\ daemonUp' \in BOOLEAN
  /\ sock' = [s \in Sockets |-> IF sock[s] = "open" THEN "broken" ELSE sock[s]]
  /\ UNCHANGED <<ws, session, closing, marked, taskVars, call, connects>>

ComeBack ==
  /\ ~daemonUp
  /\ daemonUp' = TRUE
  /\ UNCHANGED <<sock, ws, session, closing, marked, taskVars, call, counters>>

-----------------------------------------------------------------------------
CallStep == ConnectReturns \/ Join \/ DisconnectReturns
PumpStep == Receive \/ Handled \/ PumpEnds
SupervisorStep == Begin \/ PumpReturns \/ Redial \/ Cancelled

Next == CallStep \/ PumpStep \/ SupervisorStep
        \/ Connect \/ Disconnect \/ Lose \/ ComeBack

Spec == Init /\ [][Next]_vars

\* A frame's handler returns or raises, and a socket that is broken is found to be.
PumpProgress == Handled \/ PumpEnds

\* The event loop runs what can proceed, timers expire, the heartbeat finds a
\* dead peer, and the gateway's handler comes to an end, whichever.
Fairness == /\ WF_vars(CallStep)
            /\ WF_vars(SupervisorStep)
            /\ WF_vars(PumpProgress)

FairSpec == Spec /\ Fairness
-----------------------------------------------------------------------------
(* Properties.                                                             *)

\* The adapter never holds two connections: connect, the supervisor, and the
\* exception of a handler that leaves a good socket behind never make a second
\* one.  (The bridge keeps one sender, and Bridge!Dial counts on it.)
OneSocket == Cardinality({s \in Sockets : sock[s] # "closed"}) <= 1

\* When disconnect has returned, wherever it met the supervisor, no task, socket
\* or session is left, and the gateway holds the platform for disconnected.
DisconnectLeavesNothing ==
  call = "none" =>
    /\ supervisor = "none" /\ ws = NoSocket /\ ~session /\ ~marked
    /\ \A s \in Sockets : sock[s] = "closed"

\* Between the calls the gateway holds the platform for connected exactly as long
\* as the adapter has a socket, also while the supervisor sleeps or dials.
GatewayKnows == call = "connected" => (marked <=> ws # NoSocket)

\* Nobody waits for what cannot come: a disconnect for a supervisor that does not
\* end, a dial for a socket when none is free, an adapter that has lost its
\* connection for a task that is gone.
Online == ws # NoSocket /\ sock[ws] = "open"
NobodyIsStuck ==
  /\ call \in {"dialing", "closing"} => ENABLED <<CallStep>>_vars
  /\ call = "joining" => IF supervisor = "done" THEN ENABLED <<CallStep>>_vars
                                                ELSE ENABLED <<SupervisorStep>>_vars
  /\ call = "connected" /\ ~Online =>
       IF supervisor \in {"pumping", "handling"} THEN ENABLED <<PumpProgress>>_vars
                                                 ELSE ENABLED <<SupervisorStep>>_vars

\* A connected adapter whose daemon is there again comes back, also when the
\* first dial failed ("Keep the bridge connection alive across daemon restarts").
ComesBack == <>[](call = "connected" /\ daemonUp) => []<>Online

\* disconnect ends, whatever the supervisor is waiting for.
DisconnectEnds == call = "joining" ~> call = "none"
=============================================================================
