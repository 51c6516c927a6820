------------------------ MODULE DaemonProcessProofs -------------------------
(***************************************************************************)
(* Who holds a socket file, for any number of daemons, paths, clients,     *)
(* configurations, starts and crashes.                                     *)
(*                                                                         *)
(* SocketIsKept is not inductive: that a remove_file takes nobody's socket *)
(* away needs to know that no other daemon is between its own check and    *)
(* its listen, and that a socket is only ever bound by a daemon which has  *)
(* that path in its configuration and is past its bind.                    *)
(*                                                                         *)
(* Then what a ctl may wait for: its daemon, followed from its listen to   *)
(* its exit. And that every start comes to serve or to an end.             *)
(***************************************************************************)
EXTENDS DaemonProcess, TLAPS

\* Unless starts have overlapped, one daemon at a time starts on a path.
OneStarts ==
  ~raced => \A s, t \in Slots : s # t /\ {pc[s], pc[t]} \subseteq Starting => Path(s) # Path(t)

\* And what it is about to remove is nobody's.
RemovesNobodys ==
  ~raced => \A s \in Slots : pc[s] = "removing" => sock[Path(s)] \in {NoFile, Stale}

\* A bound socket is that of a daemon that has bound it and not yet removed it.
HolderHolds ==
  \A s \in Slots, p \in Paths : sock[p] = s => pc[s] \in Holding /\ Path(s) = p

SocketInv ==
  /\ TypeOK /\ OneStarts /\ RemovesNobodys /\ HolderHolds
  /\ SocketIsKept /\ StaleOnlyAfterCrash

-----------------------------------------------------------------------------
(* Types.                                                                  *)

\* What a config file resolves to is a Config, or an error.
LEMMA LoadedConfig ==
  ASSUME file \in Files
  PROVE  LoadFrom(file) \in Config \cup {Failed}
<1> DEFINE Setting == Strings \cup {Absent, Empty}
<1>1. CASE LoadFrom(file) = Failed
  BY <1>1
<1>2. CASE LoadFrom(file) # Failed
  <2> DEFINE key == OrElse(NonEmpty(Env.key), NonEmpty(file.key))
             socket == OrElse(file.socket, DefaultPath)
             addr == OrElse(file.addr, DefaultAddr)
             token == OrElse(NonEmpty(Env.token), NonEmpty(file.token))
  <2>1. file # Unreadable /\ key # Absent /\ addr \in Addrs
        /\ LoadFrom(file) = [key |-> key, socket |-> socket, addr |-> addr, token |-> token]
    BY <1>2 DEF LoadFrom, Resolve
  <2>2. /\ Env.key \in Setting /\ Env.token \in Setting
        /\ file.key \in Setting /\ file.token \in Setting /\ file.socket \in Paths \cup {Absent}
    BY <2>1, SettingsAssumption
  <2>3. \A setting \in Setting : NonEmpty(setting) \in Strings \cup {Absent}
    BY DEF NonEmpty
  <2>4. key \in Strings /\ token \in Strings \cup {Absent}
    BY <2>1, <2>2, <2>3 DEF OrElse
  <2>5. socket \in Paths
    BY <2>2, DefaultAssumption DEF OrElse
  <2> QED
    BY <2>1, <2>4, <2>5 DEF Config
<1> QED
  BY <1>1, <1>2

LEMMA TypeInit == Init => TypeOK
<1> SUFFICES ASSUME Init PROVE TypeOK
  OBVIOUS
<1>1. starts \in 0..MaxStarts /\ crashes \in 0..MaxCrashes /\ edits \in 0..MaxEdits
  BY BoundsAssumption DEF Init
<1> QED
  BY <1>1 DEF Init, TypeOK, Down, Starting, Listening

\* What a step of main, the start of a process and its end keep.
LEMMA GotoTypes ==
  ASSUME TypeOK, NEW s \in Slots, pc[s] \notin Down, conf[s] # Failed,
         NEW place \in {"probing", "removing", "binding", "bound", "permitting", "serving",
                        "unlinking", "returned", "erred"},
         Goto(s, place), sock' \in [Paths -> Slots \cup {NoFile, Stale}], raced' \in BOOLEAN
  PROVE  TypeOK'
<1>1. pc' \in [Slots -> Down \cup Starting \cup Listening \cup {"checking", "erred"}]
  BY DEF TypeOK, Goto, Starting, Listening
<1>2. \A t \in Slots : pc'[t] \in {"checking"} \cup Starting \cup Listening => conf'[t] # Failed
  BY DEF TypeOK, Goto
<1> QED
  BY <1>1, <1>2 DEF TypeOK, Goto, ctlVars, counters

LEMMA BeginTypes ==
  ASSUME TypeOK, NEW s \in Slots, Begin(s), starts' \in 0..MaxStarts
  PROVE  TypeOK'
<1>1. LoadFrom(file) \in Config \cup {Failed}
  BY LoadedConfig DEF TypeOK
<1>2. conf' \in [Slots -> Config \cup {Failed}]
  BY <1>1 DEF TypeOK, Begin
<1>3. pc' \in [Slots -> Down \cup Starting \cup Listening \cup {"checking", "erred"}]
  BY DEF TypeOK, Begin
<1>4. \A t \in Slots : pc'[t] \in {"checking"} \cup Starting \cup Listening => conf'[t] # Failed
  BY DEF TypeOK, Begin, Starting, Listening
<1>5. mcp' \in [Slots -> {"off", "spawned", "bound", "failed"}]
  BY DEF TypeOK, Begin
<1> QED
  BY <1>2, <1>3, <1>4, <1>5 DEF TypeOK, Begin, ctlVars, history

LEMMA GoneTypes ==
  ASSUME TypeOK, NEW s \in Slots, NEW cleanly \in BOOLEAN, Gone(s, cleanly),
         crashes' \in 0..MaxCrashes, abrupt' \in BOOLEAN
  PROVE  TypeOK'
<1>1. pc' \in [Slots -> Down \cup Starting \cup Listening \cup {"checking", "erred"}]
  BY DEF TypeOK, Gone, Down
<1>2. conf' \in [Slots -> Config \cup {Failed}]
  BY DEF TypeOK, Gone
<1>3. \A t \in Slots : pc'[t] \in {"checking"} \cup Starting \cup Listening => conf'[t] # Failed
  BY DEF TypeOK, Gone, Starting, Listening
<1>4. sock' \in [Paths -> Slots \cup {NoFile, Stale}]
  BY DEF TypeOK, Gone
<1>5. /\ mcp' \in [Slots -> {"off", "spawned", "bound", "failed"}]
      /\ stopping' \in [Slots -> BOOLEAN]
      /\ peer' \in [Ctls -> Slots \cup {NoSlot}]
  BY DEF TypeOK, Gone
<1> QED
  BY <1>1, <1>2, <1>3, <1>4, <1>5 DEF TypeOK, Gone

\* The path of a process that is starting or holding is one.
LEMMA PathIsOne ==
  ASSUME TypeOK, NEW s \in Slots, pc[s] \in {"checking"} \cup Starting \cup Listening
  PROVE  conf[s] # Failed /\ Path(s) \in Paths
  BY DEF TypeOK, Path, Config

\* A process that is in prepare_socket_path or IpcServer::run has a path.
LEMMA MainTypes ==
  ASSUME TypeOK, NEW s \in Slots, NEW place,
         pc[s] \in {"checking"} \cup Starting \cup {"permitting", "serving", "unlinking"},
         place \in {"probing", "removing", "binding", "bound", "permitting", "serving",
                    "unlinking", "returned", "erred"},
         Goto(s, place), raced' \in BOOLEAN,
         sock' = sock \/ \E v \in {NoFile, s} : sock' = [sock EXCEPT ![Path(s)] = v]
  PROVE  TypeOK'
<1>1. conf[s] # Failed /\ Path(s) \in Paths /\ pc[s] \notin Down
  BY PathIsOne DEF Starting, Listening, Down
<1>2. sock' \in [Paths -> Slots \cup {NoFile, Stale}]
  BY DEF TypeOK
<1> QED
  BY <1>1, <1>2, GotoTypes

LEMMA TypeStep == TypeOK /\ [Next]_vars => TypeOK'
<1> SUFFICES ASSUME TypeOK, [Next]_vars PROVE TypeOK'
  OBVIOUS
<1> USE BoundsAssumption
<1>1. ASSUME NEW s \in Slots, CheckPath(s) PROVE TypeOK'
  <2> DEFINE place == IF sock[Path(s)] = NoFile THEN "binding" ELSE "probing"
  <2>1. Goto(s, place) /\ pc[s] = "checking"
    BY <1>1 DEF CheckPath
  <2>2. raced' \in BOOLEAN
    BY <1>1 DEF CheckPath, TypeOK
  <2>3. sock' = sock \/ \E v \in {NoFile, s} : sock' = [sock EXCEPT ![Path(s)] = v]
    BY <1>1 DEF CheckPath
  <2>4. place \in {"probing", "removing", "binding", "bound", "permitting", "serving",
                  "unlinking", "returned", "erred"}
    OBVIOUS
  <2> QED
    BY <2>1, <2>2, <2>3, <2>4, MainTypes DEF Starting
<1>2. ASSUME NEW s \in Slots, Probe(s) PROVE TypeOK'
  <2> DEFINE place == IF Connects(Path(s)) THEN "erred" ELSE "removing"
  <2>1. Goto(s, place) /\ pc[s] = "probing"
    BY <1>2 DEF Probe
  <2>2. raced' \in BOOLEAN
    BY <1>2 DEF Probe, TypeOK
  <2>3. sock' = sock \/ \E v \in {NoFile, s} : sock' = [sock EXCEPT ![Path(s)] = v]
    BY <1>2 DEF Probe
  <2>4. place \in {"probing", "removing", "binding", "bound", "permitting", "serving",
                  "unlinking", "returned", "erred"}
    OBVIOUS
  <2> QED
    BY <2>1, <2>2, <2>3, <2>4, MainTypes DEF Starting
<1>3. ASSUME NEW s \in Slots, RemoveStale(s) PROVE TypeOK'
  <2> DEFINE place == IF sock[Path(s)] = NoFile THEN "erred" ELSE "binding"
  <2>1. Goto(s, place) /\ pc[s] = "removing"
    BY <1>3 DEF RemoveStale
  <2>2. raced' \in BOOLEAN
    BY <1>3 DEF RemoveStale, TypeOK
  <2>3. sock' = sock \/ \E v \in {NoFile, s} : sock' = [sock EXCEPT ![Path(s)] = v]
    BY <1>3 DEF RemoveStale
  <2>4. place \in {"probing", "removing", "binding", "bound", "permitting", "serving",
                  "unlinking", "returned", "erred"}
    OBVIOUS
  <2> QED
    BY <2>1, <2>2, <2>3, <2>4, MainTypes DEF Starting
<1>4. ASSUME NEW s \in Slots, Bind(s) PROVE TypeOK'
  <2> DEFINE place == IF sock[Path(s)] = NoFile THEN "bound" ELSE "erred"
  <2>1. Goto(s, place) /\ pc[s] = "binding"
    BY <1>4 DEF Bind
  <2>2. raced' \in BOOLEAN
    BY <1>4 DEF Bind, TypeOK
  <2>3. sock' = sock \/ \E v \in {NoFile, s} : sock' = [sock EXCEPT ![Path(s)] = v]
    BY <1>4 DEF Bind
  <2>4. place \in {"probing", "removing", "binding", "bound", "permitting", "serving",
                  "unlinking", "returned", "erred"}
    OBVIOUS
  <2> QED
    BY <2>1, <2>2, <2>3, <2>4, MainTypes DEF Starting
<1>5. ASSUME NEW s \in Slots, Listen(s) PROVE TypeOK'
  <2> DEFINE place == "permitting"
  <2>1. Goto(s, place) /\ pc[s] = "bound"
    BY <1>5 DEF Listen
  <2>2. raced' \in BOOLEAN
    BY <1>5 DEF Listen, TypeOK
  <2>3. sock' = sock \/ \E v \in {NoFile, s} : sock' = [sock EXCEPT ![Path(s)] = v]
    BY <1>5 DEF Listen
  <2>4. place \in {"probing", "removing", "binding", "bound", "permitting", "serving",
                  "unlinking", "returned", "erred"}
    OBVIOUS
  <2> QED
    BY <2>1, <2>2, <2>3, <2>4, MainTypes DEF Starting
<1>6. ASSUME NEW s \in Slots, SetPermissions(s) PROVE TypeOK'
  <2> DEFINE place == IF sock[Path(s)] = NoFile THEN "erred" ELSE "serving"
  <2>1. Goto(s, place) /\ pc[s] = "permitting"
    BY <1>6 DEF SetPermissions
  <2>2. raced' \in BOOLEAN
    BY <1>6 DEF SetPermissions, TypeOK
  <2>3. sock' = sock \/ \E v \in {NoFile, s} : sock' = [sock EXCEPT ![Path(s)] = v]
    BY <1>6 DEF SetPermissions
  <2>4. place \in {"probing", "removing", "binding", "bound", "permitting", "serving",
                  "unlinking", "returned", "erred"}
    OBVIOUS
  <2> QED
    BY <2>1, <2>2, <2>3, <2>4, MainTypes DEF Starting
<1>7. ASSUME NEW s \in Slots, StopServing(s) PROVE TypeOK'
  <2> DEFINE place == "unlinking"
  <2>1. Goto(s, place) /\ pc[s] = "serving"
    BY <1>7 DEF StopServing
  <2>2. raced' \in BOOLEAN
    BY <1>7 DEF StopServing, TypeOK
  <2>3. sock' = sock \/ \E v \in {NoFile, s} : sock' = [sock EXCEPT ![Path(s)] = v]
    BY <1>7 DEF StopServing
  <2>4. place \in {"probing", "removing", "binding", "bound", "permitting", "serving",
                  "unlinking", "returned", "erred"}
    OBVIOUS
  <2> QED
    BY <2>1, <2>2, <2>3, <2>4, MainTypes DEF Starting
<1>8. ASSUME NEW s \in Slots, Unlink(s) PROVE TypeOK'
  <2> DEFINE place == "returned"
  <2>1. Goto(s, place) /\ pc[s] = "unlinking"
    BY <1>8 DEF Unlink
  <2>2. raced' \in BOOLEAN
    BY <1>8 DEF Unlink, TypeOK
  <2>3. sock' = sock \/ \E v \in {NoFile, s} : sock' = [sock EXCEPT ![Path(s)] = v]
    BY <1>8 DEF Unlink
  <2>4. place \in {"probing", "removing", "binding", "bound", "permitting", "serving",
                  "unlinking", "returned", "erred"}
    OBVIOUS
  <2> QED
    BY <2>1, <2>2, <2>3, <2>4, MainTypes DEF Starting
<1>9. ASSUME NEW s \in Slots, Exit(s) PROVE TypeOK'
  <2>1. (pc[s] = "returned") \in BOOLEAN /\ Gone(s, pc[s] = "returned")
    BY <1>9 DEF Exit
  <2>2. crashes' \in 0..MaxCrashes /\ abrupt' \in BOOLEAN
    BY <1>9 DEF Exit, TypeOK
  <2> QED
    BY <2>1, <2>2, GoneTypes
<1>10. ASSUME NEW s \in Slots, SignalKills(s) PROVE TypeOK'
  <2>1. crashes' \in 0..MaxCrashes /\ abrupt' \in BOOLEAN /\ Gone(s, TRUE)
    BY <1>10 DEF SignalKills, TypeOK
  <2> QED
    BY <2>1, GoneTypes
<1>11. ASSUME NEW s \in Slots, Crash(s) PROVE TypeOK'
  <2>1. abrupt' \in BOOLEAN /\ Gone(s, FALSE)
    BY <1>11 DEF Crash
  <2>2. crashes' \in 0..MaxCrashes
    BY <1>11 DEF Crash, TypeOK
  <2> QED
    BY <2>1, <2>2, GoneTypes
<1>12. ASSUME NEW s \in Slots, UserStarts(s) PROVE TypeOK'
  <2>1. Begin(s) /\ starts' \in 0..MaxStarts
    BY <1>12 DEF UserStarts, TypeOK
  <2> QED
    BY <2>1, BeginTypes
<1>13. CASE ServiceRestarts
  <2>1. Begin(Service) /\ starts' \in 0..MaxStarts /\ Service \in Slots
    BY <1>13, SlotsAssumption DEF ServiceRestarts, TypeOK
  <2> QED
    BY <2>1, BeginTypes
<1>14. ASSUME NEW s \in Slots, BindMcp(s) PROVE TypeOK'
  <2>1. mcp' \in [Slots -> {"off", "spawned", "bound", "failed"}] /\ refused' \in BOOLEAN
    BY <1>14 DEF BindMcp, Taken, TypeOK
  <2> QED
    BY <1>14, <2>1 DEF BindMcp, TypeOK, ctlVars, counters
<1>15. ASSUME NEW s \in Slots, Signal(s) PROVE TypeOK'
  BY <1>15 DEF Signal, TypeOK, ctlVars, counters, history
<1>16. ASSUME NEW c \in Ctls, NEW p \in Paths, NEW mode \in {"chat", "status"}, CtlConnect(c, mode, p)
      PROVE TypeOK'
  <2>1. ctl' \in [Ctls -> {"idle", "chat", "status", "done", "failed"}]
    BY <1>16 DEF CtlConnect, TypeOK
  <2>2. peer' \in [Ctls -> Slots \cup {NoSlot}]
    BY <1>16 DEF CtlConnect, Connects, TypeOK
  <2> QED
    BY <1>16, <2>1, <2>2 DEF CtlConnect, TypeOK, procVars, counters, history
<1>17. ASSUME NEW c \in Ctls, NEW message \in {"draft", "complete", "status", "error"}, Answers(c, message)
      PROVE TypeOK'
  BY <1>17 DEF Answers, TypeOK, procVars, counters, history
<1>18. ASSUME NEW c \in Ctls, CtlReads(c) PROVE TypeOK'
  <2>1. ctl' \in [Ctls -> {"idle", "chat", "status", "done", "failed"}]
    BY <1>18 DEF CtlReads, Quit, TypeOK
  <2>2. peer' \in [Ctls -> Slots \cup {NoSlot}]
    BY <1>18 DEF CtlReads, Quit, TypeOK
  <2>3. mail' \in [Ctls -> {"nothing", "draft", "complete", "status", "error"}]
    BY <1>18 DEF CtlReads, TypeOK
  <2> QED
    BY <1>18, <2>1, <2>2, <2>3 DEF CtlReads, TypeOK, procVars, counters, history
<1>19. ASSUME NEW c \in Ctls, CtlHangsUp(c) PROVE TypeOK'
  BY <1>19 DEF CtlHangsUp, Quit, TypeOK, procVars, counters, history
<1>20. CASE Edit
  BY <1>20 DEF Edit, TypeOK, procVars, ctlVars, history
<1>21. CASE UNCHANGED vars
  BY <1>21 DEF vars, TypeOK, procVars, ctlVars, counters, history
<1>22. ASSUME NEW c \in Ctls, AnswerStatus(c) \/ AnswerChat(c) PROVE TypeOK'
  BY <1>22, <1>17 DEF AnswerStatus, AnswerChat
<1> QED
  BY <1>1, <1>2, <1>3, <1>4, <1>5, <1>6, <1>7, <1>8, <1>9, <1>10, <1>11,
     <1>12, <1>13, <1>14, <1>15, <1>16, <1>17, <1>18, <1>19, <1>20, <1>21, <1>22
     DEF Next, MainStep, CtlStep

\* The daemons, their tasks and clients are well typed, whatever configurations,
\* starts and crashes there are.
THEOREM DaemonsTypeCorrect == Spec => []TypeOK
<1> QED
  BY TypeInit, TypeStep, PTL DEF Spec

-----------------------------------------------------------------------------
(* The socket files.                                                       *)

LEMMA SocketInit == Init => SocketInv
<1> SUFFICES ASSUME Init PROVE SocketInv
  OBVIOUS
<1>1. TypeOK
  BY TypeInit
<1>2. OneStarts /\ RemovesNobodys /\ SocketIsKept
  BY DEF Init, OneStarts, RemovesNobodys, SocketIsKept, Starting, Holding
<1>3. HolderHolds /\ StaleOnlyAfterCrash
  BY SlotsAssumption, MarksAssumption DEF Init, HolderHolds, StaleOnlyAfterCrash
<1> QED
  BY <1>1, <1>2, <1>3 DEF SocketInv

\* A step of main that leaves the socket files alone and comes from a place where
\* its process held its socket as it does at the next.
LEMMA LookStep ==
  ASSUME SocketInv, NEW s \in Slots, NEW place, Goto(s, place), UNCHANGED <<sock, raced>>,
         pc[s] \in {"checking"} \cup Starting \cup Listening,
         place \in Starting => pc[s] \in Starting,
         place \in Holding <=> pc[s] \in Holding,
         place = "removing" /\ ~raced => sock[Path(s)] \in {NoFile, Stale}
  PROVE  OneStarts' /\ RemovesNobodys' /\ HolderHolds' /\ SocketIsKept' /\ StaleOnlyAfterCrash'
<1> USE DEF SocketInv, TypeOK, Goto, Path
<1>1. OneStarts'
  BY DEF OneStarts
<1>2. RemovesNobodys'
  BY DEF RemovesNobodys
<1>3. HolderHolds'
  BY DEF HolderHolds
<1>4. SocketIsKept' /\ StaleOnlyAfterCrash'
  BY DEF SocketIsKept, StaleOnlyAfterCrash
<1> QED
  BY <1>1, <1>2, <1>3, <1>4

\* A step of main that takes the socket file of its path away while no other
\* daemon holds it, or makes it its own where there was none.
LEMMA FileStep ==
  ASSUME SocketInv, NEW s \in Slots, NEW place, NEW v \in {NoFile, s}, Goto(s, place),
         UNCHANGED raced, sock' = [sock EXCEPT ![Path(s)] = v],
         pc[s] \in Starting \cup Listening,
         place \in Starting => pc[s] \in Starting,
         place \in Holding <=> v = s,
         place # "removing",
         v = s => pc[s] \in Starting /\ sock[Path(s)] = NoFile,
         ~raced => sock[Path(s)] \in {NoFile, Stale, s}
  PROVE  OneStarts' /\ RemovesNobodys' /\ HolderHolds' /\ SocketIsKept' /\ StaleOnlyAfterCrash'
<1>0. Path(s) \in Paths /\ v \notin {Stale}
  BY PathIsOne, SlotsAssumption, MarksAssumption DEF SocketInv
<1> USE SlotsAssumption, MarksAssumption DEF SocketInv, TypeOK, Goto, Path
<1>1. OneStarts'
  BY DEF OneStarts
<1>2. StaleOnlyAfterCrash'
  BY <1>0 DEF StaleOnlyAfterCrash
<1>3. HolderHolds'
  <2> SUFFICES ASSUME NEW t \in Slots, NEW p \in Paths, sock'[p] = t
               PROVE  pc'[t] \in Holding /\ Path(t)' = p
    BY DEF HolderHolds
  <2>1. CASE p = Path(s)
    BY <1>0, <2>1
  <2>2. CASE p # Path(s) /\ t = s
    BY <1>0, <2>2 DEF HolderHolds
  <2>3. CASE p # Path(s) /\ t # s
    BY <1>0, <2>3 DEF HolderHolds
  <2> QED
    BY <2>1, <2>2, <2>3
<1>4. SocketIsKept'
  <2> SUFFICES ASSUME ~raced, NEW t \in Slots, pc'[t] \in Holding
               PROVE  sock'[Path(t)'] = t
    BY DEF SocketIsKept
  <2>1. CASE t = s
    BY <1>0, <2>1
  <2>2. CASE t # s
    BY <1>0, <2>2 DEF SocketIsKept
  <2> QED
    BY <2>1, <2>2
<1>5. RemovesNobodys'
  <2> SUFFICES ASSUME ~raced, NEW t \in Slots, pc'[t] = "removing"
               PROVE  sock'[Path(t)'] \in {NoFile, Stale}
    BY DEF RemovesNobodys
  <2>1. t # s /\ pc[t] = "removing" /\ Path(t)' = Path(t) /\ sock[Path(t)] \in {NoFile, Stale}
    BY DEF RemovesNobodys
  <2>2. CASE Path(t) # Path(s) \/ v = NoFile
    BY <1>0, <2>1, <2>2
  <2>3. CASE Path(t) = Path(s) /\ v = s
    BY <2>1, <2>3 DEF OneStarts, Starting
  <2> QED
    BY <2>1, <2>2, <2>3
<1> QED
  BY <1>1, <1>2, <1>3, <1>4, <1>5

\* A process that starts or ends: only a holder that is killed leaves a socket.
LEMMA BeginStep ==
  ASSUME SocketInv, NEW s \in Slots, ~Running(s), Begin(s)
  PROVE  OneStarts' /\ RemovesNobodys' /\ HolderHolds' /\ SocketIsKept' /\ StaleOnlyAfterCrash'
<1>1. /\ UNCHANGED <<sock, raced, abrupt>>
      /\ pc'[s] \in {"erred", "checking"} /\ pc[s] \in Down
      /\ \A t \in Slots \ {s} : pc'[t] = pc[t] /\ Path(t)' = Path(t)
  BY DEF Begin, history, SocketInv, TypeOK, Running, Path
<1>2. OneStarts' /\ RemovesNobodys'
  BY <1>1 DEF SocketInv, OneStarts, RemovesNobodys, Starting
<1>3. HolderHolds'
  BY <1>1 DEF SocketInv, HolderHolds, Holding, Down
<1>4. SocketIsKept' /\ StaleOnlyAfterCrash'
  BY <1>1 DEF SocketInv, SocketIsKept, StaleOnlyAfterCrash, Holding
<1> QED
  BY <1>2, <1>3, <1>4

LEMMA GoneStep ==
  ASSUME SocketInv, NEW s \in Slots, NEW cleanly \in BOOLEAN, Gone(s, cleanly),
         abrupt' \/ (pc[s] \notin Holding /\ abrupt' = abrupt)
  PROVE  OneStarts' /\ RemovesNobodys' /\ HolderHolds' /\ SocketIsKept' /\ StaleOnlyAfterCrash'
<1>1. /\ raced' = raced /\ pc'[s] \in Down
      /\ \A t \in Slots \ {s} : pc'[t] = pc[t] /\ Path(t)' = Path(t)
      /\ \A p \in Paths : sock'[p] = IF sock[p] = s THEN Stale ELSE sock[p]
  BY DEF Gone, SocketInv, TypeOK, Path, Down
<1>2. \A t \in Slots : pc'[t] \in Starting \cup Holding => t # s /\ Path(t) \in Paths
  BY <1>1, PathIsOne DEF SocketInv, Starting, Holding, Listening, Down
<1>3. OneStarts'
  BY <1>1 DEF SocketInv, OneStarts, Starting, Down
<1>4. RemovesNobodys'
  BY <1>1, <1>2 DEF SocketInv, RemovesNobodys, Starting
<1>5. HolderHolds'
  BY <1>1, SlotsAssumption DEF SocketInv, HolderHolds
<1>6. SocketIsKept'
  BY <1>1, <1>2 DEF SocketInv, SocketIsKept
<1>7. StaleOnlyAfterCrash'
  BY <1>1 DEF SocketInv, StaleOnlyAfterCrash, HolderHolds
<1> QED
  BY <1>3, <1>4, <1>5, <1>6, <1>7

\* A step that concerns no socket file.
LEMMA OtherStep ==
  ASSUME SocketInv, UNCHANGED <<sock, pc, conf, raced, abrupt>>
  PROVE  OneStarts' /\ RemovesNobodys' /\ HolderHolds' /\ SocketIsKept' /\ StaleOnlyAfterCrash'
<1> USE DEF SocketInv, Path
<1>1. OneStarts' /\ RemovesNobodys'
  BY DEF OneStarts, RemovesNobodys
<1>2. HolderHolds' /\ SocketIsKept' /\ StaleOnlyAfterCrash'
  BY DEF HolderHolds, SocketIsKept, StaleOnlyAfterCrash
<1> QED
  BY <1>1, <1>2

\* The check of the path, which notes a start on it that is under way.
LEMMA CheckStep ==
  ASSUME SocketInv, NEW s \in Slots, CheckPath(s)
  PROVE  OneStarts' /\ RemovesNobodys' /\ HolderHolds' /\ SocketIsKept' /\ StaleOnlyAfterCrash'
<1> DEFINE place == IF sock[Path(s)] = NoFile THEN "binding" ELSE "probing"
<1>1. /\ pc[s] = "checking" /\ pc' = [pc EXCEPT ![s] = place] /\ UNCHANGED <<sock, conf, abrupt>>
      /\ place \in {"binding", "probing"}
      /\ raced' = (raced \/ \E t \in Slots \ {s} : pc[t] \in Starting /\ Path(t) = Path(s))
  BY DEF CheckPath, Goto
<1>2. \A t \in Slots : pc'[t] = (IF t = s THEN place ELSE pc[t]) /\ Path(t)' = Path(t)
  BY <1>1 DEF SocketInv, TypeOK, Path
<1>3. OneStarts'
  <2> SUFFICES ASSUME ~raced', NEW t \in Slots, NEW u \in Slots, t # u,
                      pc'[t] \in Starting, pc'[u] \in Starting
               PROVE  Path(t) # Path(u)
    BY <1>2 DEF OneStarts
  <2>1. ~raced /\ \A w \in Slots \ {s} : pc[w] \in Starting => Path(w) # Path(s)
    BY <1>1
  <2>2. CASE t = s \/ u = s
    BY <1>2, <2>1, <2>2
  <2>3. CASE t # s /\ u # s
    BY <1>2, <2>1, <2>3 DEF SocketInv, OneStarts
  <2> QED
    BY <2>2, <2>3
<1>4. RemovesNobodys'
  BY <1>1, <1>2 DEF SocketInv, RemovesNobodys
<1>5. HolderHolds'
  BY <1>1, <1>2 DEF SocketInv, HolderHolds, Holding
<1>6. SocketIsKept' /\ StaleOnlyAfterCrash'
  BY <1>1, <1>2 DEF SocketInv, SocketIsKept, StaleOnlyAfterCrash, Holding
<1> QED
  BY <1>3, <1>4, <1>5, <1>6

\* The probe of the path: if nobody answers there, unless starts have overlapped,
\* the socket is nobody's.
LEMMA ProbeStep ==
  ASSUME SocketInv, NEW s \in Slots, Probe(s)
  PROVE  OneStarts' /\ RemovesNobodys' /\ HolderHolds' /\ SocketIsKept' /\ StaleOnlyAfterCrash'
<1> DEFINE place == IF Connects(Path(s)) THEN "erred" ELSE "removing"
<1>1. pc[s] = "probing" /\ Goto(s, place) /\ UNCHANGED <<sock, raced>>
  BY DEF Probe
<1>2. Path(s) \in Paths
  BY <1>1, PathIsOne DEF SocketInv, Starting
<1>3. ASSUME place = "removing", ~raced PROVE sock[Path(s)] \in {NoFile, Stale}
  <2> SUFFICES ASSUME NEW t \in Slots, sock[Path(s)] = t PROVE FALSE
    BY <1>2 DEF SocketInv, TypeOK
  <2>1. pc[t] \in Holding /\ Path(t) = Path(s)
    BY <1>2 DEF SocketInv, HolderHolds
  <2>2. pc[t] \notin Listening
    BY <1>3 DEF Connects
  <2>3. pc[t] = "bound" /\ t # s
    BY <1>1, <2>1, <2>2 DEF Holding, Listening
  <2> QED
    BY <1>1, <1>3, <2>1, <2>3 DEF SocketInv, OneStarts, Starting
<1>4. place \notin Holding /\ (place = "removing" \/ place = "erred")
  BY DEF Holding
<1>5. /\ place \in Starting => pc[s] \in Starting
      /\ place \in Holding <=> pc[s] \in Holding
      /\ pc[s] \in {"checking"} \cup Starting \cup Listening
  BY <1>1, <1>4 DEF Starting, Holding
<1> QED
  BY <1>1, <1>3, <1>5, LookStep

\* The other steps of main.
LEMMA MainKeeps ==
  ASSUME SocketInv, NEW s \in Slots, MainStep(s)
  PROVE  OneStarts' /\ RemovesNobodys' /\ HolderHolds' /\ SocketIsKept' /\ StaleOnlyAfterCrash'
<1> USE DEF Starting, Holding, Listening
<1>0. pc[s] \in Starting \cup Listening => Path(s) \in Paths /\ sock[Path(s)] \in Slots \cup {NoFile, Stale}
  BY PathIsOne DEF SocketInv, TypeOK
<1>1. CASE RemoveStale(s)
  <2> DEFINE place == IF sock[Path(s)] = NoFile THEN "erred" ELSE "binding"
  <2>1. pc[s] = "removing" /\ Goto(s, place) /\ UNCHANGED raced
        /\ sock' = [sock EXCEPT ![Path(s)] = NoFile]
    BY <1>1 DEF RemoveStale
  <2>2. ~raced => sock[Path(s)] \in {NoFile, Stale, s}
    BY <2>1 DEF SocketInv, RemovesNobodys
  <2>3. NoFile # s /\ place \in {"erred", "binding"}
    BY SlotsAssumption
  <2> QED
    BY <2>1, <2>2, <2>3, FileStep
<1>2. CASE Bind(s) /\ sock[Path(s)] = NoFile
  <2>1. pc[s] = "binding" /\ Goto(s, "bound") /\ UNCHANGED raced
        /\ sock' = [sock EXCEPT ![Path(s)] = s]
    BY <1>2 DEF Bind
  <2> QED
    BY <1>2, <2>1, FileStep
<1>3. CASE Bind(s) /\ sock[Path(s)] # NoFile
  <2>1. pc[s] = "binding" /\ Goto(s, "erred") /\ UNCHANGED <<sock, raced>>
    BY <1>3 DEF Bind
  <2> QED
    BY <2>1, LookStep
<1>4. CASE Listen(s)
  <2>1. pc[s] = "bound" /\ Goto(s, "permitting") /\ UNCHANGED <<sock, raced>>
    BY <1>4 DEF Listen
  <2> QED
    BY <2>1, LookStep
<1>5. CASE StopServing(s)
  <2>1. pc[s] = "serving" /\ Goto(s, "unlinking") /\ UNCHANGED <<sock, raced>>
    BY <1>5 DEF StopServing
  <2> QED
    BY <2>1, LookStep
<1>6. CASE Unlink(s)
  <2>1. pc[s] = "unlinking" /\ Goto(s, "returned") /\ UNCHANGED raced
        /\ sock' = [sock EXCEPT ![Path(s)] = NoFile]
    BY <1>6 DEF Unlink
  <2>2. ~raced => sock[Path(s)] \in {NoFile, Stale, s}
    BY <2>1 DEF SocketInv, SocketIsKept
  <2>3. NoFile # s
    BY SlotsAssumption
  <2> QED
    BY <2>1, <2>2, <2>3, FileStep
<1>7. CASE SetPermissions(s) /\ sock[Path(s)] # NoFile
  <2>1. pc[s] = "permitting" /\ Goto(s, "serving") /\ UNCHANGED <<sock, raced>>
    BY <1>7 DEF SetPermissions
  <2> QED
    BY <2>1, LookStep
<1>8. CASE SetPermissions(s) /\ sock[Path(s)] = NoFile
  <2>1. /\ pc[s] = "permitting" /\ Goto(s, "erred") /\ UNCHANGED raced
        /\ sock' = sock
    BY <1>8 DEF SetPermissions
  <2>2. sock' = [sock EXCEPT ![Path(s)] = NoFile]
    BY <1>0, <1>8, <2>1 DEF SocketInv, TypeOK
  <2>3. NoFile # s
    BY SlotsAssumption
  <2> QED
    BY <1>8, <2>1, <2>2, <2>3, FileStep
<1>9. CASE Exit(s)
  <2>1. (pc[s] = "returned") \in BOOLEAN /\ Gone(s, pc[s] = "returned") /\ pc[s] \notin Holding /\ abrupt' = abrupt
    BY <1>9 DEF Exit
  <2> QED
    BY <2>1, GoneStep
<1> QED
  BY <1>1, <1>2, <1>3, <1>4, <1>5, <1>6, <1>7, <1>8, <1>9, CheckStep, ProbeStep DEF MainStep

LEMMA SocketStep == SocketInv /\ [Next]_vars => SocketInv'
<1> SUFFICES ASSUME SocketInv, [Next]_vars PROVE SocketInv'
  OBVIOUS
<1> DEFINE Kept == OneStarts' /\ RemovesNobodys' /\ HolderHolds' /\ SocketIsKept' /\ StaleOnlyAfterCrash'
<1>1. ASSUME NEW s \in Slots, MainStep(s) PROVE Kept
  BY <1>1, MainKeeps
<1>2. ASSUME NEW s \in Slots, UserStarts(s) PROVE Kept
  BY <1>2, BeginStep DEF UserStarts
<1>3. ASSUME ServiceRestarts PROVE Kept
  <2>1. Service \in Slots /\ ~Running(Service) /\ Begin(Service)
    BY <1>3, SlotsAssumption DEF ServiceRestarts, Running, Down
  <2> QED
    BY <2>1, BeginStep
<1>4. ASSUME NEW s \in Slots, SignalKills(s) \/ Crash(s) PROVE Kept
  <2>1. abrupt' /\ (Gone(s, TRUE) \/ Gone(s, FALSE))
    BY <1>4 DEF SignalKills, Crash
  <2> QED
    BY <2>1, GoneStep
<1>5. ASSUME NEW s \in Slots, BindMcp(s) \/ Signal(s) PROVE Kept
  BY <1>5, OtherStep DEF BindMcp, Signal, history
<1>6. ASSUME NEW c \in Ctls, CtlStep(c) \/ AnswerStatus(c) \/ AnswerChat(c) PROVE Kept
  BY <1>6, OtherStep
     DEF CtlStep, CtlReads, CtlHangsUp, AnswerStatus, AnswerChat, Answers, procVars, history
<1>7. ASSUME NEW c \in Ctls, NEW p \in Paths, NEW mode \in {"chat", "status"}, CtlConnect(c, mode, p)
      PROVE  Kept
  BY <1>7, OtherStep DEF CtlConnect, procVars, history
<1>8. ASSUME Edit \/ UNCHANGED vars PROVE Kept
  BY <1>8, OtherStep DEF Edit, vars, procVars, history
<1>9. TypeOK'
  BY TypeStep DEF SocketInv
<1> QED
  BY <1>1, <1>2, <1>3, <1>4, <1>5, <1>6, <1>7, <1>8, <1>9 DEF Next, SocketInv

LEMMA SocketHolds == Spec => []SocketInv
<1> QED
  BY SocketInit, SocketStep, PTL DEF Spec

\* Whatever daemons start, stop, crash and are restarted, on whatever paths, a
\* daemon loses its socket file to nobody unless two starts on it have overlapped.
THEOREM SocketsAreKept == Spec => []SocketIsKept
<1>1. SocketInv => SocketIsKept
  BY DEF SocketInv
<1> QED
  BY <1>1, SocketHolds, PTL

\* No stale socket is left by a daemon that returns from main.
THEOREM StaleIsAbrupt == Spec => []StaleOnlyAfterCrash
<1>1. SocketInv => StaleOnlyAfterCrash
  BY DEF SocketInv
<1> QED
  BY <1>1, SocketHolds, PTL
\* The configuration of a daemon that stays where it is does not change.
LEMMA StaysConfigured ==
  ASSUME TypeOK, [Next]_vars, NEW s \in Slots, pc[s] \in Listening, pc'[s] = pc[s]
  PROVE  conf'[s] = conf[s]
<1>1. ASSUME NEW t \in Slots, NEW cleanly, Gone(t, cleanly) PROVE t # s
  BY <1>1 DEF Gone, TypeOK, Listening
<1>2. ASSUME NEW t \in Slots, ~Running(t), Begin(t) PROVE conf'[s] = conf[s]
  BY <1>2 DEF Begin, Running, Down, TypeOK, Listening
<1>3. ASSUME NEW t \in Slots, MainStep(t) PROVE conf'[s] = conf[s]
  <2>1. CASE Exit(t)
    BY <2>1, <1>1 DEF Exit, Gone, TypeOK
  <2>2. CASE ~Exit(t)
    BY <1>3, <2>2 DEF MainStep, CheckPath, Probe, RemoveStale, Bind, Listen, SetPermissions,
                      StopServing, Unlink, Goto
  <2> QED
    BY <2>1, <2>2
<1>4. ASSUME NEW t \in Slots, SignalKills(t) \/ Crash(t) PROVE conf'[s] = conf[s]
  BY <1>4, <1>1 DEF SignalKills, Crash, Gone, TypeOK
<1>5. ASSUME NEW t \in Slots, UserStarts(t) PROVE conf'[s] = conf[s]
  BY <1>5, <1>2 DEF UserStarts
<1>6. CASE ServiceRestarts
  BY <1>6, <1>2, SlotsAssumption DEF ServiceRestarts, Running, Down
<1>7. ASSUME NEW t \in Slots, BindMcp(t) \/ Signal(t) PROVE conf'[s] = conf[s]
  BY <1>7 DEF BindMcp, Signal
<1>8. ASSUME NEW c \in Ctls,
             \/ CtlStep(c) \/ AnswerStatus(c) \/ AnswerChat(c)
             \/ \E p \in Paths, mode \in {"chat", "status"} : CtlConnect(c, mode, p)
      PROVE conf'[s] = conf[s]
  BY <1>8 DEF CtlStep, CtlReads, CtlHangsUp, AnswerStatus, AnswerChat, Answers, CtlConnect, procVars
<1>9. CASE Edit \/ UNCHANGED vars
  BY <1>9 DEF Edit, vars, procVars
<1> QED
  BY <1>3, <1>4, <1>5, <1>6, <1>7, <1>8, <1>9 DEF Next

\* No step takes a socket file from a daemon that is listening and stays where it
\* is (NeverClobbered, which holds but for one kind of schedule): only one that
\* follows the overlap of two starts does.
ClobberedOnlyByRace ==
  [][~raced' => \A s \in Slots :
       pc[s] \in Listening /\ pc'[s] = pc[s] =>
         \A p \in Paths : sock[p] = s => sock'[p] = s]_vars

THEOREM ClobbersAreRaces == Spec => ClobberedOnlyByRace
<1>1. SocketInv /\ SocketInv' /\ [Next]_vars =>
        [~raced' => \A s \in Slots :
           pc[s] \in Listening /\ pc'[s] = pc[s] =>
             \A p \in Paths : sock[p] = s => sock'[p] = s]_vars
  <2> SUFFICES ASSUME SocketInv, SocketInv', [Next]_vars, ~raced', NEW s \in Slots,
                      pc[s] \in Listening, pc'[s] = pc[s], NEW p \in Paths, sock[p] = s
               PROVE  sock'[p] = s
    OBVIOUS
  <2>1. pc[s] \in Holding /\ Path(s) = p
    BY DEF SocketInv, HolderHolds
  <2>2. sock'[Path(s)'] = s
    BY <2>1 DEF SocketInv, SocketIsKept
  <2>3. conf'[s] = conf[s]
    BY StaysConfigured DEF SocketInv
  <2> QED
    BY <2>1, <2>2, <2>3 DEF Path
<1> QED
  BY <1>1, SocketHolds, PTL DEF Spec, ClobberedOnlyByRace

-----------------------------------------------------------------------------
(* Liveness, from the fairness and from NobodyIsStuck.                     *)

\* The daemon of a connected ctl has a listener and lives, and a status has got
\* nothing but its answer.
CtlFits ==
  \A c \in Ctls :
    /\ ctl[c] = "idle" => mail[c] = "nothing"
    /\ ctl[c] = "status" => mail[c] \in {"nothing", "status"}
    /\ peer[c] # NoSlot => pc[peer[c]] \in Listening \cup {"erred"}

\* Where a daemon that has a listener can go in a step that leaves it connected.
Moves(here, there) ==
  \/ here = there
  \/ here = "permitting" /\ there \in {"serving", "erred"}
  \/ here = "serving" /\ there = "unlinking"
  \/ here = "unlinking" /\ there = "returned"

\* A process that ends hangs up on every ctl, and any other step of a daemon
\* leaves their connections and its own stop alone.
LEMMA DaemonMoves ==
  ASSUME TypeOK, NEW s \in Slots, pc[s] \in Listening \cup {"erred"}, NEW t \in Slots,
         \/ MainStep(t) \/ BindMcp(t) \/ UserStarts(t) \/ Signal(t) \/ SignalKills(t) \/ Crash(t)
         \/ ServiceRestarts
  PROVE  /\ UNCHANGED <<ctl, mail>>
         /\ \/ /\ UNCHANGED peer /\ Moves(pc[s], pc'[s])
               /\ stopping[s] => stopping'[s]
            \/ peer' = [c \in Ctls |-> IF peer[c] = s THEN NoSlot ELSE peer[c]]
            \/ \E u \in Slots \ {s} :
                 /\ peer' = [c \in Ctls |-> IF peer[c] = u THEN NoSlot ELSE peer[c]]
                 /\ pc'[s] = pc[s] /\ stopping'[s] = stopping[s]
<1> USE DEF TypeOK, Listening, Moves
<1>1. ASSUME NEW cleanly, Gone(t, cleanly) PROVE
        /\ UNCHANGED <<ctl, mail>>
        /\ \/ peer' = [c \in Ctls |-> IF peer[c] = s THEN NoSlot ELSE peer[c]]
           \/ \E u \in Slots \ {s} :
                 /\ peer' = [c \in Ctls |-> IF peer[c] = u THEN NoSlot ELSE peer[c]]
                 /\ pc'[s] = pc[s] /\ stopping'[s] = stopping[s]
  BY <1>1 DEF Gone
<1>2. CASE Exit(t) \/ SignalKills(t) \/ Crash(t)
  BY <1>1, <1>2 DEF Exit, SignalKills, Crash
<1>3. CASE MainStep(t) /\ ~Exit(t)
  BY <1>3 DEF MainStep, CheckPath, Probe, RemoveStale, Bind, Listen, SetPermissions, StopServing,
              Unlink, Goto, ctlVars
<1>4. CASE UserStarts(t) \/ ServiceRestarts
  BY <1>4, SlotsAssumption DEF UserStarts, ServiceRestarts, Begin, Running, Down, ctlVars
<1>5. CASE BindMcp(t) \/ Signal(t)
  BY <1>5 DEF BindMcp, Signal, ctlVars
<1> QED
  BY <1>2, <1>3, <1>4, <1>5

LEMMA CtlFitsStep == TypeOK /\ CtlFits /\ [Next]_vars => CtlFits'
<1> SUFFICES ASSUME TypeOK, CtlFits, [Next]_vars, NEW c \in Ctls
             PROVE  /\ ctl'[c] = "idle" => mail'[c] = "nothing"
                    /\ ctl'[c] = "status" => mail'[c] \in {"nothing", "status"}
                    /\ peer'[c] # NoSlot => pc'[peer'[c]] \in Listening \cup {"erred"}
  BY DEF CtlFits
<1>1. ASSUME NEW t \in Slots,
             \/ MainStep(t) \/ BindMcp(t) \/ UserStarts(t) \/ Signal(t) \/ SignalKills(t) \/ Crash(t)
             \/ ServiceRestarts,
             peer'[c] # NoSlot
      PROVE  pc'[peer'[c]] \in Listening \cup {"erred"}
  <2>1. CASE peer[c] = NoSlot
    <3>1. peer'[c] = NoSlot
      BY <1>1, <2>1
         DEF TypeOK, MainStep, CheckPath, Probe, RemoveStale, Bind, Listen, SetPermissions, StopServing,
             Unlink, Exit, Goto, BindMcp, UserStarts, ServiceRestarts, Begin, Signal, SignalKills, Crash,
             Gone, ctlVars
    <3> QED
      BY <1>1, <3>1
  <2>2. CASE peer[c] # NoSlot
    <3>1. peer[c] \in Slots /\ pc[peer[c]] \in Listening \cup {"erred"}
      BY <2>2 DEF CtlFits, TypeOK
    <3>2. peer'[c] = peer[c] /\ Moves(pc[peer[c]], pc'[peer[c]])
      BY <1>1, <3>1, DaemonMoves DEF TypeOK, Moves
    <3> QED
      BY <3>1, <3>2 DEF Moves, Listening
  <2> QED
    BY <2>1, <2>2
<1>2. ASSUME NEW t \in Slots,
             \/ MainStep(t) \/ BindMcp(t) \/ UserStarts(t) \/ Signal(t) \/ SignalKills(t) \/ Crash(t)
             \/ ServiceRestarts
      PROVE  UNCHANGED <<ctl, mail>>
  BY <1>2 DEF MainStep, CheckPath, Probe, RemoveStale, Bind, Listen, SetPermissions, StopServing,
              Unlink, Exit, Goto, BindMcp, UserStarts, ServiceRestarts, Begin, Signal, SignalKills,
              Crash, Gone, ctlVars
<1>3. ASSUME NEW d \in Ctls, NEW p \in Paths, NEW mode \in {"chat", "status"}, CtlConnect(d, mode, p)
      PROVE  /\ ctl'[c] = "idle" => mail'[c] = "nothing"
             /\ ctl'[c] = "status" => mail'[c] \in {"nothing", "status"}
             /\ peer'[c] # NoSlot => pc'[peer'[c]] \in Listening \cup {"erred"}
  BY <1>3 DEF CtlConnect, Connects, CtlFits, TypeOK, procVars
<1>4. ASSUME NEW d \in Ctls, CtlStep(d) \/ AnswerStatus(d) \/ AnswerChat(d)
      PROVE  /\ ctl'[c] = "idle" => mail'[c] = "nothing"
             /\ ctl'[c] = "status" => mail'[c] \in {"nothing", "status"}
             /\ peer'[c] # NoSlot => pc'[peer'[c]] \in Listening \cup {"erred"}
  BY <1>4 DEF CtlStep, CtlReads, CtlHangsUp, Quit, AnswerStatus, AnswerChat, Answers, CtlFits, TypeOK,
              procVars
<1>5. CASE Edit \/ UNCHANGED vars
  BY <1>5 DEF Edit, vars, procVars, ctlVars, CtlFits
<1>6. Service \in Slots
  BY SlotsAssumption
<1> QED
  BY <1>1, <1>2, <1>3, <1>4, <1>5, <1>6 DEF Next, CtlFits

\* What becomes of a ctl that waits, whichever step is taken: it is over, or it
\* waits on as it was, with what it has read or got, or its daemon is gone.
LEMMA CtlMoves ==
  ASSUME TypeOK, CtlFits, [Next]_vars, NEW c \in Ctls, ctl[c] \in {"chat", "status"}
  PROVE  \/ CtlOver(c)'
         \/ /\ ctl'[c] = ctl[c]
            /\ ctl[c] = "status" /\ mail[c] # "nothing" => mail'[c] # "nothing"
            /\ peer[c] = NoSlot => mail'[c] \in {"nothing", mail[c]}
            /\ \/ peer'[c] = NoSlot
               \/ /\ peer'[c] = peer[c] /\ peer[c] \in Slots
                  /\ Moves(pc[peer[c]], pc'[peer[c]])
                  /\ stopping[peer[c]] => stopping'[peer[c]]
<1>f. /\ ctl[c] = "status" => mail[c] \in {"nothing", "status"}
      /\ peer[c] \in Slots \cup {NoSlot}
      /\ peer[c] # NoSlot => peer[c] \in Slots /\ pc[peer[c]] \in Listening \cup {"erred"}
  BY DEF CtlFits, TypeOK
<1>1. ASSUME NEW t \in Slots,
             \/ MainStep(t) \/ BindMcp(t) \/ UserStarts(t) \/ Signal(t) \/ SignalKills(t) \/ Crash(t)
             \/ ServiceRestarts
      PROVE  /\ UNCHANGED <<ctl, mail>>
             /\ \/ peer'[c] = NoSlot
                \/ /\ peer'[c] = peer[c] /\ peer[c] \in Slots
                   /\ Moves(pc[peer[c]], pc'[peer[c]])
                   /\ stopping[peer[c]] => stopping'[peer[c]]
  <2>1. CASE peer[c] = NoSlot
    BY <1>1, <2>1
       DEF TypeOK, MainStep, CheckPath, Probe, RemoveStale, Bind, Listen, SetPermissions, StopServing,
           Unlink, Exit, Goto, BindMcp, UserStarts, ServiceRestarts, Begin, Signal, SignalKills, Crash,
           Gone, ctlVars
  <2>2. CASE peer[c] # NoSlot
    BY <1>1, <1>f, <2>2, DaemonMoves DEF TypeOK, Moves
  <2> QED
    BY <2>1, <2>2
<1>2. ASSUME NEW d \in Ctls, NEW p \in Paths, NEW mode \in {"chat", "status"}, CtlConnect(d, mode, p)
      PROVE  UNCHANGED <<procVars, mail>> /\ ctl'[c] = ctl[c] /\ peer'[c] = peer[c]
  BY <1>2 DEF CtlConnect, TypeOK
<1>3. ASSUME NEW d \in Ctls, AnswerStatus(d) \/ AnswerChat(d)
      PROVE  /\ UNCHANGED <<procVars, ctl, peer>>
             /\ mail'[c] = mail[c] \/ (mail[c] = "nothing" /\ peer[c] # NoSlot)
  BY <1>3 DEF AnswerStatus, AnswerChat, Answers, CanAnswer, TypeOK
<1>4. ASSUME NEW d \in Ctls, CtlStep(d)
      PROVE  \/ CtlOver(c)'
             \/ /\ UNCHANGED procVars /\ ctl'[c] = ctl[c] /\ peer'[c] = peer[c]
                /\ mail'[c] = mail[c] \/ (ctl[c] = "chat" /\ mail'[c] = "nothing")
  BY <1>4, <1>f DEF CtlStep, CtlReads, CtlHangsUp, Quit, Last, CtlOver, TypeOK
<1>5. CASE Edit \/ UNCHANGED vars
  BY <1>5, <1>f DEF Edit, vars, procVars, ctlVars, Moves
<1>6. Service \in Slots
  BY SlotsAssumption
<1> QED
  BY <1>f, <1>1, <1>2, <1>3, <1>4, <1>5, <1>6 DEF Next, Moves, procVars

\* Each owed step of a ctl or of its daemon goes forward.
LEMMA CtlGoesOn ==
  ASSUME TypeOK, CtlFits, NEW c \in Ctls, ctl[c] \in {"chat", "status"}
  PROVE  /\ CtlStep(c) /\ (ctl[c] = "status" \/ mail[c] = "nothing") => CtlOver(c)'
         /\ CtlStep(c) => CtlOver(c)' \/ mail'[c] = "nothing"
         /\ ctl[c] = "status" /\ AnswerStatus(c) => mail'[c] # "nothing"
  BY DEF CtlFits, TypeOK, CtlStep, CtlReads, CtlHangsUp, Quit, Last, CtlOver, AnswerStatus, Answers

LEMMA DaemonGoesOn ==
  ASSUME TypeOK, NEW c \in Ctls, NEW s \in Slots, peer[c] = s, MainStep(s),
         pc[s] \in Listening \cup {"erred"}
  PROVE  pc'[s] # pc[s] \/ peer'[c] = NoSlot
<1>1. CASE Exit(s)
  BY <1>1 DEF Exit, Gone, TypeOK
<1>2. CASE ~Exit(s)
  BY <1>2 DEF MainStep, CheckPath, Probe, RemoveStale, Bind, Listen, SetPermissions, StopServing,
              Unlink, Goto, TypeOK, Listening
<1> QED
  BY <1>1, <1>2

LEMMA CtlInvariant == Spec => [](TypeOK /\ CtlFits)
<1>1. Init => CtlFits
  BY SlotsAssumption DEF Init, CtlFits
<1> QED
  BY <1>1, TypeInit, TypeStep, CtlFitsStep, PTL DEF Spec

\* hermes-dms-ctl status comes to an end, and hermes-dms-ctl chat does when its
\* daemon is stopped or gone, if the steps that NobodyIsStuck names can be taken.
THEOREM CtlsEnd == FairSpec /\ []NobodyIsStuck => CtlEnds
<1>1. ASSUME NEW c \in Ctls, NEW s \in Slots \cup {NoSlot}
      PROVE  FairSpec /\ []NobodyIsStuck => (CtlMustEnd(c, s) ~> CtlOver(c))
  <2> DEFINE Status == ctl[c] = "status"
             Chat == ctl[c] = "chat"
             Hung == peer[c] = NoSlot
             Got == mail[c] # "nothing"
             Over == CtlOver(c)
  <2>1. TypeOK /\ CtlFits /\ [Next]_vars =>
          /\ Status /\ Hung => Over' \/ (Status /\ Hung)'
          /\ Chat /\ Hung => Over' \/ (Chat' /\ Hung' /\ (~Got => ~Got'))
    BY CtlMoves
  <2>2. TypeOK /\ CtlFits /\ <<CtlStep(c)>>_vars =>
          /\ Status => Over'
          /\ Chat => Over' \/ ~Got'
          /\ Chat /\ ~Got => Over'
    BY CtlGoesOn
  <2>3. NobodyIsStuck =>
          /\ (Status \/ Chat) /\ Hung => ENABLED <<CtlStep(c)>>_vars
          /\ Got => ENABLED <<CtlStep(c)>>_vars
          /\ Status /\ CanAnswer(c) => ENABLED <<AnswerStatus(c)>>_vars
    BY DEF NobodyIsStuck
  <2>4. FairSpec => /\ Spec /\ [][Next]_vars /\ CtlFair(c)
                    /\ s \in Slots => MainFair(s)
    BY DEF FairSpec, Spec, Fairness
  <2>5. CASE s = NoSlot
    <3>1. CtlMustEnd(c, s) => (Status \/ Chat) /\ Hung
      BY <2>5 DEF CtlMustEnd
    <3> HIDE DEF Status, Chat, Hung, Got, Over
    <3>2. FairSpec /\ []NobodyIsStuck => ((Status \/ Chat) /\ Hung ~> Over)
      BY CtlInvariant, <2>1, <2>2, <2>3, <2>4, PTL DEF CtlFair
    <3>3. FairSpec /\ []NobodyIsStuck => (CtlMustEnd(c, s) ~> Over)
      BY <3>1, <3>2, PTL
    <3> QED
      BY <3>3 DEF Over
  <2>6. CASE s \in Slots
    <3> DEFINE Mine == peer[c] = s
               Is(place) == pc[s] = place
               Stopped == stopping[s]
    <3>0. FairSpec => Spec /\ [][Next]_vars /\ CtlFair(c) /\ MainFair(s)
      BY <2>4, <2>6
    <3>1. TypeOK /\ CtlFits /\ [Next]_vars /\ (Status \/ Chat) /\ Mine =>
            \/ Over'
            \/ /\ Status => Status' /\ (Got => Got')
               /\ Chat => Chat'
               /\ \/ Hung'
                  \/ /\ Mine' /\ (Stopped => Stopped')
                     /\ Is("permitting") => Is("permitting")' \/ Is("serving")' \/ Is("erred")'
                     /\ Is("serving") => Is("serving")' \/ Is("unlinking")'
                     /\ Is("unlinking") => Is("unlinking")' \/ Is("returned")'
                     /\ Is("returned") => Is("returned")'
                     /\ Is("erred") => Is("erred")'
      BY <2>6, CtlMoves DEF Moves
    <3>2. TypeOK /\ CtlFits /\ Mine =>
            \/ Is("permitting") \/ Is("serving") \/ Is("unlinking") \/ Is("returned") \/ Is("erred")
      BY <2>6, SlotsAssumption DEF CtlFits, Listening
    <3>3. TypeOK /\ CtlFits /\ Mine /\ <<MainStep(s)>>_vars =>
            \/ Hung'
            \/ /\ Is("permitting") => ~Is("permitting")'
               /\ Is("serving") => ~Is("serving")'
               /\ Is("unlinking") => ~Is("unlinking")'
               /\ Is("returned") => ~Is("returned")'
               /\ Is("erred") => ~Is("erred")'
      BY <2>6, DaemonGoesOn DEF Listening
    <3>4. TypeOK /\ CtlFits /\ Status /\ <<AnswerStatus(c)>>_vars => Got'
      BY CtlGoesOn
    <3>5. NobodyIsStuck =>
            /\ \/ Is("permitting") \/ Is("unlinking") \/ Is("returned") \/ Is("erred")
               \/ (Is("serving") /\ Stopped)
               => ENABLED <<MainStep(s)>>_vars
      BY <2>6 DEF NobodyIsStuck, Running, Down
    <3>6. Status /\ ~Got /\ Mine /\ (Is("serving") \/ Is("unlinking") \/ Is("returned"))
            => CanAnswer(c)
      BY <2>6, SlotsAssumption DEF CanAnswer
    <3>7. CtlMustEnd(c, s) => Mine /\ (Status \/ (Chat /\ Stopped))
      BY <2>6, SlotsAssumption DEF CtlMustEnd
    <3> HIDE DEF Status, Chat, Hung, Got, Over, Mine, Is, Stopped
    <3>8. FairSpec /\ []NobodyIsStuck => (Status /\ Hung ~> Over)
      BY CtlInvariant, <2>1, <2>2, <2>3, <2>4, PTL DEF CtlFair
    <3>9. FairSpec /\ []NobodyIsStuck => (Chat /\ Hung ~> Over)
      BY CtlInvariant, <2>1, <2>2, <2>3, <2>4, PTL DEF CtlFair
    <3>10. FairSpec /\ []NobodyIsStuck => (Chat /\ Mine /\ Stopped ~> Over \/ (Chat /\ Hung))
      BY CtlInvariant, <3>0, <3>1, <3>2, <3>3, <3>5, PTL DEF MainFair
    <3>11. FairSpec /\ []NobodyIsStuck => (Status /\ Mine /\ Got ~> Over \/ (Status /\ Hung))
      BY CtlInvariant, <3>0, <3>1, <2>2, <2>3, PTL DEF CtlFair
    <3>12. FairSpec /\ []NobodyIsStuck =>
             (Status /\ Mine ~> Over \/ (Status /\ Hung) \/ (Status /\ Mine /\ Got))
      BY CtlInvariant, <3>0, <3>1, <3>2, <3>3, <3>4, <3>5, <3>6, <2>3, PTL DEF CtlFair, MainFair
    <3>13. FairSpec /\ []NobodyIsStuck => (CtlMustEnd(c, s) ~> Over)
      BY <3>7, <3>8, <3>9, <3>10, <3>11, <3>12, PTL
    <3> QED
      BY <3>13 DEF Over
  <2> QED
    BY <2>5, <2>6
<1> QED
  BY <1>1 DEF CtlEnds

\* From where to where a daemon goes that stays up, whoever takes a step.
LEMMA ProcessMoves ==
  ASSUME TypeOK, [Next]_vars, NEW s \in Slots, Running(s), Running(s)'
  PROVE  /\ stopping[s] => stopping'[s]
         /\ \/ pc'[s] = pc[s]
            \/ pc[s] = "checking" /\ pc'[s] \in {"probing", "binding"}
            \/ pc[s] = "probing" /\ pc'[s] \in {"removing", "erred"}
            \/ pc[s] = "removing" /\ pc'[s] \in {"binding", "erred"}
            \/ pc[s] = "binding" /\ pc'[s] \in {"bound", "erred"}
            \/ pc[s] = "bound" /\ pc'[s] = "permitting"
            \/ pc[s] = "permitting" /\ pc'[s] \in {"serving", "erred"}
            \/ pc[s] = "serving" /\ pc'[s] = "unlinking"
            \/ pc[s] = "unlinking" /\ pc'[s] = "returned"
<1> USE DEF TypeOK, Running
<1>1. ASSUME NEW t \in Slots, NEW cleanly, Gone(t, cleanly)
      PROVE  pc'[s] = pc[s] /\ stopping'[s] = stopping[s]
  BY <1>1 DEF Gone, Down
<1>2. ASSUME NEW t \in Slots, Exit(t) \/ SignalKills(t) \/ Crash(t)
      PROVE  pc'[s] = pc[s] /\ stopping'[s] = stopping[s]
  BY <1>1, <1>2 DEF Exit, SignalKills, Crash
<1>3. ASSUME NEW t \in Slots, t # s, MainStep(t), ~Exit(t)
      PROVE  pc'[s] = pc[s] /\ stopping'[s] = stopping[s]
  BY <1>3 DEF MainStep, CheckPath, Probe, RemoveStale, Bind, Listen, SetPermissions, StopServing,
              Unlink, Goto
<1>4. CASE MainStep(s) /\ ~Exit(s)
  BY <1>4 DEF MainStep, CheckPath, Probe, RemoveStale, Bind, Listen, SetPermissions, StopServing,
              Unlink, Goto
<1>5. ASSUME NEW t \in Slots, UserStarts(t) \/ ServiceRestarts
      PROVE  pc'[s] = pc[s] /\ stopping'[s] = stopping[s]
  BY <1>5, SlotsAssumption DEF UserStarts, ServiceRestarts, Begin, Down
<1>6. ASSUME NEW t \in Slots, BindMcp(t) \/ Signal(t)
      PROVE  pc'[s] = pc[s] /\ (stopping[s] => stopping'[s])
  BY <1>6 DEF BindMcp, Signal
<1>7. ASSUME NEW c \in Ctls,
             \/ CtlStep(c) \/ AnswerStatus(c) \/ AnswerChat(c)
             \/ \E p \in Paths, mode \in {"chat", "status"} : CtlConnect(c, mode, p)
      PROVE  pc'[s] = pc[s] /\ stopping'[s] = stopping[s]
  BY <1>7 DEF CtlStep, CtlReads, CtlHangsUp, AnswerStatus, AnswerChat, Answers, CtlConnect, procVars
<1>8. CASE Edit \/ UNCHANGED vars
  BY <1>8 DEF Edit, vars, procVars
<1> QED
  BY <1>2, <1>3, <1>4, <1>5, <1>6, <1>7, <1>8, SlotsAssumption DEF Next

\* And each step of its main leaves its place.
LEMMA ProcessGoesOn ==
  ASSUME TypeOK, NEW s \in Slots, MainStep(s)
  PROVE  pc'[s] # pc[s]
<1>1. CASE Exit(s)
  BY <1>1 DEF Exit, Gone, TypeOK
<1>2. CASE ~Exit(s)
  BY <1>2 DEF MainStep, CheckPath, Probe, RemoveStale, Bind, Listen, SetPermissions, StopServing,
              Unlink, Goto, TypeOK
<1> QED
  BY <1>1, <1>2

\* Every start comes to serve or to an end, also one that meets a socket, a live
\* daemon or another start on its path; and a daemon that is told to stop ends,
\* wherever the signal finds it.
DaemonsSettle ==
  \A s \in Slots : /\ Running(s) ~> pc[s] = "serving" \/ ~Running(s)
                   /\ (Running(s) /\ stopping[s]) ~> ~Running(s)

THEOREM DaemonsComeToServeOrEnd == FairSpec /\ []NobodyIsStuck => DaemonsSettle
<1>1. ASSUME NEW s \in Slots
      PROVE  FairSpec /\ []NobodyIsStuck =>
               /\ Running(s) ~> pc[s] = "serving" \/ ~Running(s)
               /\ (Running(s) /\ stopping[s]) ~> ~Running(s)
  <2> DEFINE Is(place) == pc[s] = place
             Up == Running(s)
             Stopped == stopping[s]
  <2>1. TypeOK /\ [Next]_vars /\ Up /\ Up' =>
          /\ Stopped => Stopped'
          /\ Is("checking") => Is("checking")' \/ Is("probing")' \/ Is("binding")'
          /\ Is("probing") => Is("probing")' \/ Is("removing")' \/ Is("erred")'
          /\ Is("removing") => Is("removing")' \/ Is("binding")' \/ Is("erred")'
          /\ Is("binding") => Is("binding")' \/ Is("bound")' \/ Is("erred")'
          /\ Is("bound") => Is("bound")' \/ Is("permitting")'
          /\ Is("permitting") => Is("permitting")' \/ Is("serving")' \/ Is("erred")'
          /\ Is("serving") => Is("serving")' \/ Is("unlinking")'
          /\ Is("unlinking") => Is("unlinking")' \/ Is("returned")'
          /\ Is("returned") => Is("returned")'
          /\ Is("erred") => Is("erred")'
    BY ProcessMoves
  <2>2. TypeOK /\ <<MainStep(s)>>_vars =>
          /\ Is("checking") => ~Is("checking")'
          /\ Is("probing") => ~Is("probing")'
          /\ Is("removing") => ~Is("removing")'
          /\ Is("binding") => ~Is("binding")'
          /\ Is("bound") => ~Is("bound")'
          /\ Is("permitting") => ~Is("permitting")'
          /\ Is("serving") => ~Is("serving")'
          /\ Is("unlinking") => ~Is("unlinking")'
          /\ Is("returned") => ~Is("returned")'
          /\ Is("erred") => ~Is("erred")'
    BY ProcessGoesOn
  <2>3. TypeOK /\ Up =>
          \/ Is("checking") \/ Is("probing") \/ Is("removing") \/ Is("binding") \/ Is("bound")
          \/ Is("permitting") \/ Is("serving") \/ Is("unlinking") \/ Is("returned") \/ Is("erred")
    BY DEF TypeOK, Running, Starting, Listening
  <2>4. NobodyIsStuck => (Up /\ (Is("serving") => Stopped) => ENABLED <<MainStep(s)>>_vars)
    BY DEF NobodyIsStuck
  <2>5. FairSpec => Spec /\ [][Next]_vars /\ MainFair(s)
    BY DEF FairSpec, Spec, Fairness
  <2> HIDE DEF Is, Up, Stopped
  <2>6. FairSpec /\ []NobodyIsStuck => (Up ~> Is("serving") \/ ~Up)
    BY DaemonsTypeCorrect, <2>1, <2>2, <2>3, <2>4, <2>5, PTL DEF MainFair
  <2>7. FairSpec /\ []NobodyIsStuck => (Up /\ Stopped ~> ~Up)
    BY DaemonsTypeCorrect, <2>1, <2>2, <2>3, <2>4, <2>5, PTL DEF MainFair
  <2> QED
    BY <2>6, <2>7 DEF Up, Stopped, Is
<1> QED
  BY <1>1 DEF DaemonsSettle

=============================================================================
