------------------------ MODULE DesktopAdapterProofs ------------------------
(***************************************************************************)
(* DesktopAdapter for any set of sockets and any number of calls and       *)
(* losses.  One inductive invariant, Lifecycle: where the gateway's call   *)
(* and the supervisor are says what sockets, flags and marks may be left.  *)
(* With it the safety, and the liveness up to what the states ENABLE.      *)
(***************************************************************************)
EXTENDS DesktopAdapter, FiniteSetTheorems, TLAPS

\* The only socket that is not closed is the current one.
OnlyCurrent == \A s \in Sockets : sock[s] # "closed" => s = ws

\* The supervisor dials and sleeps without a socket, starts with one that is not
\* closed or with none, and pumps one that nobody has closed.
SupervisorFits ==
  /\ supervisor \in {"dialing", "sleeping"} => ws = NoSocket
  /\ (supervisor \in {"created", "pumping", "handling"} /\ ws # NoSocket) => sock[ws] # "closed"
  /\ (supervisor = "closing" /\ ws # NoSocket) => sock[ws] = "closed"

\* What each stage of the gateway's calls has done so far.
CallFits ==
  /\ call \in {"none", "dialing"} => ws = NoSocket
  /\ call \in {"none", "dialing", "closing"} => supervisor = "none" /\ ~cancelled
  /\ call # "connected" => ~marked
  /\ call = "none" => ~session
  /\ call = "dialing" => ~closing
  /\ call = "connected" => /\ supervisor \notin {"none", "done"}
                           /\ ~cancelled /\ ~closing
                           /\ marked <=> ws # NoSocket
  /\ call = "joining" => /\ supervisor # "none"
                         /\ cancelled <=> supervisor # "done"

Lifecycle == TypeOK /\ OnlyCurrent /\ SupervisorFits /\ CallFits

-----------------------------------------------------------------------------

\* Nothing is open when the adapter has just been made.
LEMMA LifecycleInit == Init => Lifecycle
<1> SUFFICES ASSUME Init PROVE Lifecycle
  OBVIOUS
<1>1. connects \in 0..MaxConnects /\ losses \in 0..MaxLosses
  BY BoundsAssumption DEF Init
<1>2. TypeOK
  BY <1>1 DEF Init, TypeOK
<1>3. OnlyCurrent /\ SupervisorFits /\ CallFits
  BY DEF Init, OnlyCurrent, SupervisorFits, CallFits
<1> QED
  BY <1>2, <1>3 DEF Lifecycle

\* The gateway's calls keep the invariant.
LEMMA CallsKeepLifecycle ==
  ASSUME Lifecycle, Connect \/ Disconnect \/ CallStep
  PROVE  Lifecycle'
<1> USE SocketsAssumption, BoundsAssumption
        DEF Lifecycle, TypeOK, OnlyCurrent, SupervisorFits, CallFits
<1>1. CASE Connect
  <2>1. connects' \in 0..MaxConnects
    BY <1>1 DEF Connect
  <2>2. TypeOK'
    BY <1>1, <2>1 DEF Connect, taskVars
  <2>3. (OnlyCurrent /\ SupervisorFits /\ CallFits)'
    BY <1>1 DEF Connect, taskVars
  <2> QED
    BY <2>2, <2>3
<1>2. CASE Disconnect
  BY <1>2 DEF Disconnect, CancelSupervisor, counters
<1>3. CASE ConnectReturns /\ DialSucceeds
  BY <1>3 DEF ConnectReturns, DialSucceeds, StartSupervisor, counters
<1>4. CASE ConnectReturns /\ DialFails
  BY <1>4 DEF ConnectReturns, DialFails, StartSupervisor, counters
<1>5. CASE Join
  BY <1>5 DEF Join, Joinable, CloseSocket, counters
<1>6. CASE DisconnectReturns
  BY <1>6 DEF DisconnectReturns, taskVars, counters
<1> QED
  BY <1>1, <1>2, <1>3, <1>4, <1>5, <1>6 DEF CallStep, ConnectReturns

\* The pump keeps it.
LEMMA PumpKeepsLifecycle ==
  ASSUME Lifecycle, PumpStep
  PROVE  Lifecycle'
<1> USE SocketsAssumption
        DEF Lifecycle, TypeOK, OnlyCurrent, SupervisorFits, CallFits, At, counters
<1>1. CASE Receive
  BY <1>1 DEF Receive
<1>2. CASE Handled
  BY <1>2 DEF Handled
<1>3. CASE PumpEnds
  BY <1>3 DEF PumpEnds, CloseSocket
<1> QED
  BY <1>1, <1>2, <1>3 DEF PumpStep

\* The rest of the supervisor keeps it, a dial because it starts with no socket.
LEMMA SupervisorKeepsLifecycle ==
  ASSUME Lifecycle, SupervisorStep
  PROVE  Lifecycle'
<1> USE SocketsAssumption
        DEF Lifecycle, TypeOK, OnlyCurrent, SupervisorFits, CallFits, At, LoopHead, counters
<1>1. CASE Begin
  BY <1>1 DEF Begin
<1>2. CASE PumpReturns
  BY <1>2 DEF PumpReturns, TellLost
<1>3. CASE Redial /\ DialSucceeds
  BY <1>3 DEF Redial, DialSucceeds, DialFails
<1>4. CASE Redial /\ DialFails
  BY <1>4 DEF Redial, DialSucceeds, DialFails
<1>5. CASE Cancelled
  BY <1>5 DEF Cancelled
<1> QED
  BY <1>1, <1>2, <1>3, <1>4, <1>5 DEF SupervisorStep, Redial

\* So do the daemon and the network.
LEMMA EnvironmentKeepsLifecycle ==
  ASSUME Lifecycle, Lose \/ ComeBack
  PROVE  Lifecycle'
<1> USE SocketsAssumption, BoundsAssumption
        DEF Lifecycle, TypeOK, OnlyCurrent, SupervisorFits, CallFits, taskVars, counters
<1>1. CASE Lose
  BY <1>1 DEF Lose
<1>2. CASE ComeBack
  BY <1>2 DEF ComeBack
<1> QED
  BY <1>1, <1>2

\* The invariant holds always.
LEMMA LifecycleAlways == Spec => []Lifecycle
<1>1. Lifecycle /\ [Next]_vars => Lifecycle'
  <2> SUFFICES ASSUME Lifecycle, [Next]_vars PROVE Lifecycle'
    OBVIOUS
  <2>1. CASE Connect \/ Disconnect \/ CallStep
    BY <2>1, CallsKeepLifecycle
  <2>2. CASE PumpStep
    BY <2>2, PumpKeepsLifecycle
  <2>3. CASE SupervisorStep
    BY <2>3, SupervisorKeepsLifecycle
  <2>4. CASE Lose \/ ComeBack
    BY <2>4, EnvironmentKeepsLifecycle
  <2>5. CASE UNCHANGED vars
    BY <2>5 DEF vars, taskVars, counters, Lifecycle, TypeOK, OnlyCurrent, SupervisorFits, CallFits
  <2> QED
    BY <2>1, <2>2, <2>3, <2>4, <2>5 DEF Next
<1> QED
  BY LifecycleInit, <1>1, PTL DEF Spec

-----------------------------------------------------------------------------

\* The adapter is well typed for any number of sockets, calls and losses, and
\* the supervisor never reads from a socket that is not there.
THEOREM AdapterTypeCorrect == Spec => []TypeOK
<1>1. Lifecycle => TypeOK
  BY DEF Lifecycle
<1> QED
  BY <1>1, LifecycleAlways, PTL

\* The adapter never holds two connections to the bridge.
THEOREM AdapterHasOneSocket == Spec => []OneSocket
<1>1. Lifecycle => OneSocket
  <2> SUFFICES ASSUME Lifecycle PROVE OneSocket
    OBVIOUS
  <2> DEFINE Held == {s \in Sockets : sock[s] # "closed"}
  <2>1. Held \subseteq {ws}
    BY DEF Lifecycle, OnlyCurrent
  <2>2. CASE Held = {}
    BY <2>2, FS_EmptySet DEF OneSocket
  <2>3. CASE Held = {ws}
    BY <2>3, FS_Singleton DEF OneSocket
  <2> QED
    BY <2>1, <2>2, <2>3
<1> QED
  BY <1>1, LifecycleAlways, PTL

\* A disconnect that has returned has left no task, socket, session or mark.
THEOREM NothingIsLeft == Spec => []DisconnectLeavesNothing
<1>1. Lifecycle => DisconnectLeavesNothing
  BY SocketsAssumption
     DEF Lifecycle, OnlyCurrent, CallFits, DisconnectLeavesNothing
<1> QED
  BY <1>1, LifecycleAlways, PTL

\* The gateway is told of every connection and of every loss.
THEOREM GatewayIsTold == Spec => []GatewayKnows
<1>1. Lifecycle => GatewayKnows
  BY DEF Lifecycle, CallFits, GatewayKnows
<1> QED
  BY <1>1, LifecycleAlways, PTL
-----------------------------------------------------------------------------
(* Liveness, from the fairness and from NobodyIsStuck.                     *)

\* How a disconnect goes on: the task is cancelled, ends, is joined, and then the
\* call returns; nothing else moves it, ...
LEMMA DisconnectMoves ==
  ASSUME Lifecycle, [Next]_vars
  PROVE  /\ call = "joining" /\ cancelled => call' = "joining"
         /\ call = "joining" /\ ~cancelled => call' \in {"joining", "closing"} /\ ~cancelled'
         /\ call = "closing" => call' \in {"closing", "none"}
<1> USE DEF Lifecycle, CallFits
<1>1. CASE Connect \/ Disconnect \/ CallStep
  BY <1>1 DEF Connect, Disconnect, CallStep, ConnectReturns, Join, Joinable, DisconnectReturns, taskVars
<1>2. CASE PumpStep
  BY <1>2 DEF PumpStep, Receive, Handled, PumpEnds
<1>3. CASE SupervisorStep
  BY <1>3 DEF SupervisorStep, Begin, PumpReturns, Redial, Cancelled, At
<1>4. CASE Lose \/ ComeBack
  BY <1>4 DEF Lose, ComeBack, taskVars
<1>5. CASE UNCHANGED vars
  BY <1>5 DEF vars, taskVars
<1> QED
  BY <1>1, <1>2, <1>3, <1>4, <1>5 DEF Next

\* ... and each owed step moves it on.
LEMMA DisconnectGoesOn ==
  ASSUME Lifecycle
  PROVE  /\ call = "joining" /\ cancelled /\ SupervisorStep => ~cancelled'
         /\ call \in {"joining", "closing"} /\ CallStep => call' # call
BY DEF Lifecycle, CallFits, SupervisorStep, Begin, PumpReturns, Redial, Cancelled, At,
       CallStep, ConnectReturns, Join, DisconnectReturns

\* disconnect ends wherever it meets the supervisor, if the steps NobodyIsStuck
\* names can be taken, which the run checks.
THEOREM DisconnectsEnd == FairSpec /\ []NobodyIsStuck => DisconnectEnds
<1> DEFINE Asked == call = "joining" /\ cancelled
           Over == call = "joining" /\ ~cancelled
           Closing == call = "closing"
           Ended == call = "none"
<1>1. Lifecycle /\ [Next]_vars =>
        /\ Asked => Asked' \/ Over'
        /\ Over => Over' \/ Closing'
        /\ Closing => Closing' \/ Ended'
  BY DisconnectMoves
<1>2. Lifecycle /\ <<SupervisorStep>>_vars => (Asked => ~Asked')
  BY DisconnectGoesOn
<1>3. Lifecycle /\ <<CallStep>>_vars => (Over => ~Over') /\ (Closing => ~Closing')
  BY DisconnectGoesOn
<1>4. Lifecycle /\ NobodyIsStuck =>
        /\ Asked => ENABLED <<SupervisorStep>>_vars
        /\ Over \/ Closing => ENABLED <<CallStep>>_vars
  BY DEF Lifecycle, CallFits, NobodyIsStuck
<1>5. FairSpec => Spec /\ [][Next]_vars /\ Fairness
  BY DEF FairSpec, Spec
<1> HIDE DEF Asked, Over, Closing, Ended
<1>6. FairSpec /\ []NobodyIsStuck => (Asked \/ Over ~> Ended)
  BY <1>1, <1>2, <1>3, <1>4, <1>5, LifecycleAlways, PTL DEF Fairness
<1>7. (Asked \/ Over) <=> call = "joining"
  BY DEF Asked, Over
<1> QED
  BY <1>6, <1>7, PTL DEF DisconnectEnds, Ended

-----------------------------------------------------------------------------

\* How the supervisor of a connected adapter gets from a lost connection to a new
\* one while the daemon is there, ...
Settled == call = "connected" /\ daemonUp

LEMMA SupervisorMoves ==
  ASSUME Lifecycle, [Next]_vars, Settled, Settled', ~Online, ~Online'
  PROVE  /\ supervisor \in {"created", "sleeping", "pumping", "handling", "closing", "dialing"}
         /\ supervisor \in {"created", "sleeping"} =>
              supervisor' \in {supervisor, "pumping", "dialing"}
         /\ supervisor = "handling" => supervisor' \in {"handling", "pumping", "closing"}
         /\ supervisor = "pumping" => supervisor' \in {"pumping", "closing"}
         /\ supervisor = "closing" => supervisor' \in {"closing", "dialing"}
         /\ supervisor = "dialing" => supervisor' = "dialing"
<1> USE SocketsAssumption DEF Lifecycle, TypeOK, SupervisorFits, CallFits, Settled, Online
<1>1. CASE Connect \/ Disconnect \/ CallStep
  BY <1>1 DEF Connect, Disconnect, CallStep, ConnectReturns, Join, DisconnectReturns
<1>2. CASE PumpStep
  BY <1>2 DEF PumpStep, Receive, Handled, PumpEnds, At
<1>3. CASE SupervisorStep
  BY <1>3 DEF SupervisorStep, Begin, PumpReturns, Redial, DialSucceeds, DialFails, Cancelled, At,
              LoopHead
<1>4. CASE Lose \/ ComeBack
  BY <1>4 DEF Lose, ComeBack, taskVars
<1>5. CASE UNCHANGED vars
  BY <1>5 DEF vars, taskVars
<1> QED
  BY <1>1, <1>2, <1>3, <1>4, <1>5 DEF Next

\* ... and each owed step moves it on, a dial to a connection.
LEMMA SupervisorGoesOn ==
  ASSUME Lifecycle, Settled, ~Online
  PROVE  /\ SupervisorStep /\ supervisor \in {"created", "sleeping", "closing"} =>
              supervisor' # supervisor
         /\ SupervisorStep /\ supervisor = "dialing" => Online'
         /\ PumpProgress /\ supervisor \in {"pumping", "handling"} => supervisor' # supervisor
<1> USE SocketsAssumption DEF Lifecycle, TypeOK, SupervisorFits, CallFits, Settled, Online, At, LoopHead
<1>1. SupervisorStep /\ supervisor \in {"created", "sleeping", "closing"} =>
        supervisor' # supervisor
  BY DEF SupervisorStep, Begin, PumpReturns, Redial, Cancelled
<1>2. SupervisorStep /\ supervisor = "dialing" => Online'
  BY DEF SupervisorStep, Begin, PumpReturns, Redial, Cancelled, DialSucceeds, DialFails
<1>3. PumpProgress /\ supervisor \in {"pumping", "handling"} => supervisor' # supervisor
  BY DEF PumpProgress, Handled, PumpEnds
<1> QED
  BY <1>1, <1>2, <1>3

\* A connected adapter whose daemon is there is connected again and again, however
\* often the connection is lost, if the steps NobodyIsStuck names can be taken.
THEOREM AdapterComesBack == FairSpec /\ []NobodyIsStuck => ComesBack
<1> DEFINE Is(place) == supervisor = place
           Gone == Settled /\ ~Online
<1>1. Lifecycle /\ [Next]_vars /\ Gone /\ Gone' =>
        /\ \/ Is("created") \/ Is("sleeping") \/ Is("pumping") \/ Is("handling")
           \/ Is("closing") \/ Is("dialing")
        /\ Is("created") => Is("created")' \/ Is("pumping")' \/ Is("dialing")'
        /\ Is("sleeping") => Is("sleeping")' \/ Is("pumping")' \/ Is("dialing")'
        /\ Is("handling") => Is("handling")' \/ Is("pumping")' \/ Is("closing")'
        /\ Is("pumping") => Is("pumping")' \/ Is("closing")'
        /\ Is("closing") => Is("closing")' \/ Is("dialing")'
        /\ Is("dialing") => Is("dialing")'
  BY SupervisorMoves
<1>2. Lifecycle /\ <<SupervisorStep>>_vars /\ Gone =>
        /\ Is("created") => ~Is("created")'
        /\ Is("sleeping") => ~Is("sleeping")'
        /\ Is("closing") => ~Is("closing")'
        /\ Is("dialing") => Online'
  BY SupervisorGoesOn
<1>3. Lifecycle /\ <<PumpProgress>>_vars /\ Gone =>
        /\ Is("pumping") => ~Is("pumping")'
        /\ Is("handling") => ~Is("handling")'
  BY SupervisorGoesOn
<1>4. NobodyIsStuck /\ Gone =>
        /\ Is("created") \/ Is("sleeping") \/ Is("closing") \/ Is("dialing") =>
             ENABLED <<SupervisorStep>>_vars
        /\ Is("pumping") \/ Is("handling") => ENABLED <<PumpProgress>>_vars
  BY DEF NobodyIsStuck, Settled
<1>5. FairSpec => Spec /\ [][Next]_vars /\ Fairness
  BY DEF FairSpec, Spec
<1>6. Gone <=> Settled /\ ~Online
  OBVIOUS
<1> HIDE DEF Is, Gone
<1>7. FairSpec /\ []NobodyIsStuck => (<>[]Settled => []<>Online)
  BY <1>1, <1>2, <1>3, <1>4, <1>5, <1>6, LifecycleAlways, PTL DEF Fairness
<1> QED
  BY <1>7 DEF ComesBack, Settled
=============================================================================
