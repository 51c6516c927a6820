--------------------------- MODULE DaemonProcess ---------------------------
(***************************************************************************)
(* The life of daemon processes around one user's socket: `main`           *)
(* (src/src/main.rs) loads the configuration (src/src/config.rs) and runs  *)
(* the daemon (`run`, src/src/daemon.rs), which starts the MCP server      *)
(* (`serve`, src/src/mcp/server.rs) beside the socket server               *)
(* (`IpcServer::run`, src/src/ipc/server.rs).  One slot is run by systemd  *)
(* (hermes-dms.service), others are started by hand.  The one-shot modes   *)
(* of `hermes-dms-ctl` (src/src/bin/ctl.rs) are the clients.               *)
(*                                                                         *)
(* Every system call on a path is a step: the file may be another's by the *)
(* next one.  A definition X_Y stands before the X it is a mutation of.    *)
(***************************************************************************)
EXTENDS Naturals

CONSTANTS
  Slots,        \* where a daemon process can run
  Service,      \* the slot of the systemd unit
  Ctls,         \* runs of hermes-dms-ctl
  Paths, DefaultPath,   \* socket paths, and default_socket_path()
  Addrs, DefaultAddr,   \* addresses for MCP, and DEFAULT_MCP_LISTEN_ADDR
  Strings,      \* the other non-empty strings a setting can have
  Files,        \* what the config file may hold; Unreadable is missing or malformed
  Env,          \* [key, token]: the environment of the daemons
  Absent, Empty, Unreadable, Failed, NoFile, Stale, NoSlot,
  MaxStarts, MaxCrashes, MaxEdits   \* bounds: starts by a user, crashes, edits of the file

ASSUME SlotsAssumption == Service \in Slots /\ Slots \cap {NoFile, Stale, NoSlot} = {}
ASSUME MarksAssumption == NoFile # Stale
ASSUME DefaultAssumption == DefaultPath \in Paths
ASSUME SettingsAssumption ==
  LET Setting == Strings \cup {Absent, Empty}
  IN /\ Env.key \in Setting /\ Env.token \in Setting
     /\ \A text \in Files \ {Unreadable} :
          text.key \in Setting /\ text.token \in Setting /\ text.socket \in Paths \cup {Absent}
ASSUME BoundsAssumption == MaxStarts \in Nat /\ MaxCrashes \in Nat /\ MaxEdits \in Nat

VARIABLES
  file,       \* the config file
  sock,       \* each path: nothing, a socket nobody holds, or the slot that has bound it
  pc, conf,   \* each slot's process: where it is, and its Config once loaded
  mcp,        \* its MCP server's task
  stopping,   \* its shutdown token
  ctl, peer, mail,  \* each ctl: where it is, the daemon it is connected to, what it has not read
  starts, crashes, edits

\* Why a socket may be lost or left behind, kept to state properties.
VARIABLES
  raced,      \* have two starts on one path overlapped?
  abrupt,     \* has a process ended without returning from main?
  refused     \* has a daemon found its MCP address taken?

procVars == <<pc, conf, mcp, stopping>>
ctlVars == <<ctl, peer, mail>>
counters == <<starts, crashes, edits>>
history == <<raced, abrupt, refused>>
vars == <<file, sock, procVars, ctlVars, counters, history>>

-----------------------------------------------------------------------------
(* Configuration.                                                          *)

NonEmpty(setting) == IF setting = Empty THEN Absent ELSE setting
OrElse(setting, other) == IF setting = Absent THEN other ELSE setting

\* The fields that decide what a process does; the URLs are left out.
Config == [key: Strings, socket: Paths, addr: Addrs, token: Strings \cup {Absent}]

Resolve_FilterLast(raw, env) ==
  LET key == NonEmpty(OrElse(env.key, raw.key))
  IN IF key = Absent \/ OrElse(raw.addr, DefaultAddr) \notin Addrs THEN Failed
     ELSE [key |-> key, socket |-> OrElse(raw.socket, DefaultPath),
           addr |-> OrElse(raw.addr, DefaultAddr),
           token |-> OrElse(NonEmpty(env.token), NonEmpty(raw.token))]
Resolve(raw, env) ==
  LET key == OrElse(NonEmpty(env.key), NonEmpty(raw.key))
  IN IF key = Absent \/ OrElse(raw.addr, DefaultAddr) \notin Addrs THEN Failed
     ELSE [key |-> key, socket |-> OrElse(raw.socket, DefaultPath),
           addr |-> OrElse(raw.addr, DefaultAddr),
           token |-> OrElse(NonEmpty(env.token), NonEmpty(raw.token))]

LoadFrom(text) == IF text = Unreadable THEN Failed ELSE Resolve(text, Env)

-----------------------------------------------------------------------------
Path(s) == conf[s].socket

\* Between the check of the path and the listen; past the bind; open to clients.
Starting == {"probing", "removing", "binding", "bound"}
Holding == {"bound", "permitting", "serving", "unlinking"}
Listening == {"permitting", "serving", "unlinking", "returned"}

Down == {"off", "failed"}
Running(s) == pc[s] \notin Down

TypeOK ==
  /\ file \in Files
  /\ sock \in [Paths -> Slots \cup {NoFile, Stale}]
  /\ pc \in [Slots -> Down \cup Starting \cup Listening \cup {"checking", "erred"}]
  /\ conf \in [Slots -> Config \cup {Failed}]
  /\ \A s \in Slots : pc[s] \in {"checking"} \cup Starting \cup Listening => conf[s] # Failed
  /\ mcp \in [Slots -> {"off", "spawned", "bound", "failed"}]
  /\ stopping \in [Slots -> BOOLEAN]
  /\ ctl \in [Ctls -> {"idle", "chat", "status", "done", "failed"}]
  /\ peer \in [Ctls -> Slots \cup {NoSlot}]
  /\ mail \in [Ctls -> {"nothing", "draft", "complete", "status", "error"}]
  /\ starts \in 0..MaxStarts /\ crashes \in 0..MaxCrashes /\ edits \in 0..MaxEdits
  /\ raced \in BOOLEAN /\ abrupt \in BOOLEAN /\ refused \in BOOLEAN

Init ==
  /\ file \in Files
  /\ sock = [p \in Paths |-> NoFile]
  /\ pc = [s \in Slots |-> "off"] /\ conf = [s \in Slots |-> Failed]
  /\ mcp = [s \in Slots |-> "off"]
  /\ stopping = [s \in Slots |-> FALSE]
  /\ ctl = [c \in Ctls |-> "idle"] /\ peer = [c \in Ctls |-> NoSlot]
  /\ mail = [c \in Ctls |-> "nothing"]
  /\ starts = 0 /\ crashes = 0 /\ edits = 0
  /\ raced = FALSE /\ abrupt = FALSE /\ refused = FALSE

Goto(s, place) ==
  pc' = [pc EXCEPT ![s] = place]
  /\ UNCHANGED <<file, conf, mcp, stopping, ctlVars, counters, abrupt, refused>>

-----------------------------------------------------------------------------
(* main and run.                                                           *)

\* Config::load, which nothing that matters precedes, and the tasks that are
\* spawned when it succeeds.
Begin(s) ==
  LET loaded == LoadFrom(file)
  IN /\ conf' = [conf EXCEPT ![s] = loaded]
     /\ pc' = [pc EXCEPT ![s] = IF loaded = Failed THEN "erred" ELSE "checking"]
     /\ mcp' = [mcp EXCEPT ![s] = IF loaded = Failed THEN "off" ELSE "spawned"]
     /\ UNCHANGED <<file, sock, stopping, ctlVars, crashes, edits, history>>

\* Somebody starts a daemon, by hand or with systemctl (external).
UserStarts(s) ==
  /\ ~Running(s)
  /\ starts < MaxStarts /\ starts' = starts + 1
  /\ Begin(s)

\* Restart=on-failure (external).
ServiceRestarts ==
  /\ pc[Service] = "failed"
  /\ UNCHANGED starts
  /\ Begin(Service)

\* A failed bind is logged; the daemon goes on without its MCP server.
Taken(s) == \E t \in Slots \ {s} : mcp[t] = "bound" /\ conf[t].addr = conf[s].addr

BindMcp(s) ==
  /\ mcp[s] = "spawned"
  /\ mcp' = [mcp EXCEPT ![s] = IF Taken(s) THEN "failed" ELSE "bound"]
  /\ refused' = (refused \/ Taken(s))
  /\ UNCHANGED <<file, sock, pc, conf, stopping, ctlVars, counters, raced, abrupt>>

-----------------------------------------------------------------------------
(* prepare_socket_path and IpcServer::run.                                 *)

CheckPath(s) ==
  /\ pc[s] = "checking"
  /\ raced' = (raced \/ \E t \in Slots \ {s} : pc[t] \in Starting /\ Path(t) = Path(s))
  /\ Goto(s, IF sock[Path(s)] = NoFile THEN "binding" ELSE "probing")
  /\ UNCHANGED sock

\* A connection is accepted for a process as soon as it listens.
Connects(p) == sock[p] \in Slots /\ pc[sock[p]] \in Listening

Probe_Skipped(s) ==
  /\ pc[s] = "probing"
  /\ Goto(s, "removing")
  /\ UNCHANGED <<sock, raced>>
Probe(s) ==
  /\ pc[s] = "probing"
  /\ Goto(s, IF Connects(Path(s)) THEN "erred" ELSE "removing")
  /\ UNCHANGED <<sock, raced>>

\* Whatever is there now goes; an error when nothing is.
RemoveStale(s) ==
  /\ pc[s] = "removing"
  /\ Goto(s, IF sock[Path(s)] = NoFile THEN "erred" ELSE "binding")
  /\ sock' = [sock EXCEPT ![Path(s)] = NoFile]
  /\ UNCHANGED raced

\* UnixListener::bind is two calls, bind ...
Bind(s) ==
  /\ pc[s] = "binding"
  /\ IF sock[Path(s)] = NoFile
       THEN Goto(s, "bound") /\ sock' = [sock EXCEPT ![Path(s)] = s]
       ELSE Goto(s, "erred") /\ UNCHANGED sock
  /\ UNCHANGED raced

\* ... and listen.
Listen(s) ==
  /\ pc[s] = "bound"
  /\ Goto(s, "permitting")
  /\ UNCHANGED <<sock, raced>>

SetPermissions(s) ==
  /\ pc[s] = "permitting"
  /\ Goto(s, IF sock[Path(s)] = NoFile THEN "erred" ELSE "serving")
  /\ UNCHANGED <<sock, raced>>

\* The accept loop sees the shutdown token ...
StopServing(s) ==
  /\ pc[s] = "serving" /\ stopping[s]
  /\ Goto(s, "unlinking")
  /\ UNCHANGED <<sock, raced>>

\* ... and removes the path, whoever has bound it meanwhile.
Unlink_Never(s) ==
  /\ pc[s] = "unlinking"
  /\ Goto(s, "returned")
  /\ UNCHANGED <<sock, raced>>
Unlink(s) ==
  /\ pc[s] = "unlinking"
  /\ Goto(s, "returned")
  /\ sock' = [sock EXCEPT ![Path(s)] = NoFile]
  /\ UNCHANGED raced

-----------------------------------------------------------------------------
(* The end of a process.                                                   *)

\* The kernel closes its listener and connections.  systemd starts a unit again
\* that has failed and was not asked to stop.
Gone(s, cleanly) ==
  /\ pc' = [pc EXCEPT ![s] = IF s = Service /\ ~cleanly /\ ~stopping[s] THEN "failed" ELSE "off"]
  /\ sock' = [p \in Paths |-> IF sock[p] = s THEN Stale ELSE sock[p]]
  /\ conf' = [conf EXCEPT ![s] = Failed]
  /\ mcp' = [mcp EXCEPT ![s] = "off"]
  /\ stopping' = [stopping EXCEPT ![s] = FALSE]
  /\ peer' = [c \in Ctls |-> IF peer[c] = s THEN NoSlot ELSE peer[c]]
  /\ UNCHANGED <<file, ctl, mail, starts, edits, raced, refused>>

\* main returns.
Exit(s) ==
  /\ pc[s] \in {"returned", "erred"}
  /\ Gone(s, pc[s] = "returned")
  /\ UNCHANGED <<crashes, abrupt>>

\* SIGTERM or SIGINT: the handlers cancel the token ...
Signal(s) ==
  /\ Running(s) /\ ~stopping[s]
  /\ stopping' = [stopping EXCEPT ![s] = TRUE]
  /\ UNCHANGED <<file, sock, pc, conf, mcp, ctlVars, counters, history>>

\* ... but a task of its own installs them, with no promise when; until then a
\* signal kills the process.
SignalKills(s) ==
  /\ Running(s) /\ ~stopping[s]
  /\ Gone(s, TRUE) /\ abrupt' = TRUE
  /\ UNCHANGED crashes

\* A panic in main, SIGKILL, or the power (external).
Crash(s) ==
  /\ Running(s)
  /\ crashes < MaxCrashes /\ crashes' = crashes + 1
  /\ Gone(s, FALSE) /\ abrupt' = TRUE

-----------------------------------------------------------------------------
(* hermes-dms-ctl chat and hermes-dms-ctl status.                          *)

\* Connect, and write the request; or report that nobody listens.
CtlConnect(c, mode, p) ==
  /\ ctl[c] = "idle"
  /\ ctl' = [ctl EXCEPT ![c] = IF Connects(p) THEN mode ELSE "failed"]
  /\ peer' = [peer EXCEPT ![c] = IF Connects(p) THEN sock[p] ELSE NoSlot]
  /\ UNCHANGED <<file, sock, procVars, mail, counters, history>>

\* The daemon's connection, see IpcConnection and Bridge: a status is answered
\* at once, a chat with drafts and one terminal reply.
CanAnswer(c) == /\ peer[c] # NoSlot /\ mail[c] = "nothing"
                /\ pc[peer[c]] \in {"serving", "unlinking", "returned"}

Answers(c, message) ==
  /\ CanAnswer(c)
  /\ mail' = [mail EXCEPT ![c] = message]
  /\ UNCHANGED <<file, sock, procVars, ctl, peer, counters, history>>

AnswerStatus(c) == ctl[c] = "status" /\ Answers(c, "status")
AnswerChat(c) == ctl[c] = "chat" /\ \E m \in {"draft", "complete", "error"} : Answers(c, m)

\* The ctl reads on until the message that ends its mode.
Last(c) == \/ ctl[c] = "chat" /\ mail[c] \in {"complete", "error"}
           \/ ctl[c] = "status" /\ mail[c] \in {"status", "error"}

Quit(c, result) ==
  /\ ctl' = [ctl EXCEPT ![c] = result] /\ peer' = [peer EXCEPT ![c] = NoSlot]

CtlReads(c) ==
  /\ mail[c] # "nothing"
  /\ mail' = [mail EXCEPT ![c] = "nothing"]
  /\ IF Last(c) THEN Quit(c, IF mail[c] = "error" THEN "failed" ELSE "done")
                ELSE UNCHANGED <<ctl, peer>>
  /\ UNCHANGED <<file, sock, procVars, counters, history>>

CtlHangsUp_Never(c) == FALSE /\ UNCHANGED vars
CtlHangsUp(c) ==
  /\ ctl[c] \in {"chat", "status"} /\ peer[c] = NoSlot /\ mail[c] = "nothing"
  /\ Quit(c, "failed")
  /\ UNCHANGED <<file, sock, procVars, mail, counters, history>>

\* The user edits the config file, which running daemons do not read again (external).
Edit ==
  /\ edits < MaxEdits /\ edits' = edits + 1
  /\ \E text \in Files \ {file} : file' = text
  /\ UNCHANGED <<sock, procVars, ctlVars, starts, crashes, history>>

-----------------------------------------------------------------------------
MainStep(s) ==
  \/ CheckPath(s) \/ Probe(s) \/ RemoveStale(s) \/ Bind(s) \/ Listen(s)
  \/ SetPermissions(s) \/ StopServing(s) \/ Unlink(s) \/ Exit(s)
CtlStep(c) == CtlReads(c) \/ CtlHangsUp(c)

Next ==
  \/ \E s \in Slots : \/ MainStep(s) \/ BindMcp(s)
                      \/ UserStarts(s) \/ Signal(s) \/ SignalKills(s) \/ Crash(s)
  \/ \E c \in Ctls : \/ CtlStep(c) \/ AnswerStatus(c) \/ AnswerChat(c)
                     \/ \E p \in Paths, mode \in {"chat", "status"} : CtlConnect(c, mode, p)
  \/ ServiceRestarts \/ Edit

Spec == Init /\ [][Next]_vars

\* A process goes on as long as it can, its tasks and the ctl's too; systemd
\* restarts its unit.  Nobody has to start, stop or answer a chat.
MainFair(s) == WF_vars(MainStep(s)) /\ WF_vars(BindMcp(s))
CtlFair(c) == WF_vars(CtlStep(c)) /\ WF_vars(AnswerStatus(c))
UnitFair == WF_vars(ServiceRestarts)
Fairness == (\A s \in Slots : MainFair(s)) /\ (\A c \in Ctls : CtlFair(c)) /\ UnitFair

FairSpec == Spec /\ Fairness
-----------------------------------------------------------------------------
(* Properties.                                                             *)

\* A daemon keeps the socket file it has bound until it removes it itself:
\* neither another's start nor another's stop takes it away, unless two starts
\* on that path have overlapped, when the check of prepare_socket_path is too
\* old by the time of its remove_file.
SocketIsKept ==
  ~raced => \A s \in Slots : pc[s] \in Holding => sock[Path(s)] = s

\* A socket file without a listener is the trace of a process that was killed or
\* crashed: a daemon that returns from main, with or without error, leaves none.
StaleOnlyAfterCrash ==
  (\E p \in Paths : sock[p] = Stale) => abrupt

\* Once the unit stays up with a key from either source, an empty variable
\* notwithstanding, and a config that is good for clients that know the
\* default path alone (the panel, the launcher, ctl), such clients are served and
\* so is the gateway: a crash, a socket it left and an edit of the file are got
\* over, but for a start that raced another and an MCP address in use.
Wanted ==
  /\ pc[Service] # "off" /\ ~stopping[Service]
  /\ file # Unreadable /\ {Env.key, file.key} \cap Strings # {}
  /\ file.addr \in Addrs \cup {Absent}
  /\ conf[Service] # Failed => conf[Service].socket = DefaultPath
Served(p) == \E s \in Slots : sock[p] = s /\ pc[s] = "serving" /\ mcp[s] = "bound"

ServiceComesBack == <>[]Wanted => <>[](Served(DefaultPath) \/ raced \/ refused)

\* A process waits for nothing but its shutdown token, whatever has become of its
\* socket file; and a ctl for nothing but its daemon, for which it waits no longer
\* than that lives.
NobodyIsStuck ==
  /\ \A s \in Slots :
       Running(s) /\ (pc[s] = "serving" => stopping[s]) => ENABLED <<MainStep(s)>>_vars
  /\ \A c \in Ctls :
       /\ mail[c] # "nothing" => ENABLED <<CtlStep(c)>>_vars
       /\ ctl[c] \in {"chat", "status"} /\ peer[c] = NoSlot => ENABLED <<CtlStep(c)>>_vars
       /\ ctl[c] = "status" /\ CanAnswer(c) => ENABLED <<AnswerStatus(c)>>_vars

\* hermes-dms-ctl status comes to an end, and hermes-dms-ctl chat does when the
\* daemon it talks to is stopped or gone.
CtlOver(c) == ctl[c] \in {"done", "failed"}
CtlMustEnd(c, s) ==
  /\ peer[c] = s
  /\ ctl[c] = "status" \/ (ctl[c] = "chat" /\ (s # NoSlot => stopping[s]))
CtlEnds == \A c \in Ctls : \A s \in Slots \cup {NoSlot} : CtlMustEnd(c, s) ~> CtlOver(c)

\* A daemon refuses to clobber a live socket.  (Said by the comment of
\* IpcServer::run; two daemons that start on one stale socket break it.)
NeverClobbered ==
  [][\A s \in Slots : (pc[s] \in Listening /\ pc'[s] = pc[s])
                         => \A p \in Paths : sock[p] = s => sock'[p] = s]_vars
=============================================================================
