---------------------------- MODULE DesktopTools ----------------------------
(***************************************************************************)
(* The desktop tools the agent calls over MCP: `require_bearer`            *)
(* (src/src/mcp/server.rs), the three tools (src/src/mcp/tools.rs), and    *)
(* what they do to the desktop (src/src/desktop/notify.rs, launch.rs,      *)
(* screenshot.rs).                                                         *)
(*                                                                         *)
(* Calls overlap, and the desktop moves on under them: the screen is       *)
(* locked, niri writes the file of a screenshot in its own time, launched  *)
(* programs end.  The daemon may be told to stop at any time.              *)
(*                                                                         *)
(* A definition X_Y stands before the definition X it is a mutation of.    *)
(***************************************************************************)
EXTENDS Naturals

CONSTANTS
  Calls,
  TokenSet,     \* is an mcp_auth_token configured?
  HasBus,       \* has the daemon a connection to the session bus?
  HintKnown,    \* does loginctl say whether the session is locked?
  MaxLocks      \* bound: changes of the lock

ASSUME SettingsAssumption == TokenSet \in BOOLEAN /\ HasBus \in BOOLEAN /\ HintKnown \in BOOLEAN
ASSUME BoundAssumption == MaxLocks \in Nat

VARIABLES
  pc, tool,   \* each call: where it is, and which tool it calls
  result,     \* what its client is told
  got,        \* the bytes a capture has read
  expired,    \* has the deadline of its poll passed?
  file, niri, \* its screenshot's file, and how far niri is with it
  child,      \* the program it launched
  shown,      \* calls whose notification is on the screen
  toasts,     \* calls whose toast has been broadcast
  locked, locks,
  stopping, alive    \* the daemon

\* The calls during which the session was not locked at some time, kept to
\* state properties.
VARIABLE unlockedIn

captureVars == <<got, expired, file, niri>>
effectVars == <<child, shown, toasts>>
deskVars == <<locked, locks, unlockedIn>>
lifeVars == <<stopping, alive>>
vars == <<pc, tool, result, captureVars, effectVars, deskVars, lifeVars>>

Tools == {"notify", "launch", "screenshot"}
Errors == {"unauthorized", "no bus", "not notified", "not launched",
           "locked", "niri", "timeout", "aborted"}

\* A capture runs in a thread of the blocking pool.
Blocking == {"checking", "connecting", "requested", "polling", "expiring", "removing"}
Bytes == {"partial", "whole"}

TypeOK ==
  /\ pc \in [Calls -> {"idle", "notifying", "toasting", "launching", "done"} \cup Blocking]
  /\ tool \in [Calls -> Tools]
  /\ result \in [Calls -> {"none", "ok"} \cup Errors]
  /\ got \in [Calls -> {"none"} \cup Bytes] /\ expired \in [Calls -> BOOLEAN]
  /\ file \in [Calls -> {"none", "empty"} \cup Bytes]
  /\ niri \in [Calls -> {"idle", "accepted", "opened", "begun", "ended"}]
  /\ child \in [Calls -> {"none", "running", "zombie", "reaped"}]
  /\ shown \subseteq Calls /\ toasts \subseteq Calls /\ unlockedIn \subseteq Calls
  /\ locked \in BOOLEAN /\ locks \in 0..MaxLocks
  /\ stopping \in BOOLEAN /\ alive \in BOOLEAN

Init ==
  /\ pc = [c \in Calls |-> "idle"] /\ tool \in [Calls -> Tools]
  /\ result = [c \in Calls |-> "none"]
  /\ got = [c \in Calls |-> "none"] /\ expired = [c \in Calls |-> FALSE]
  /\ file = [c \in Calls |-> "none"] /\ niri = [c \in Calls |-> "idle"]
  /\ child = [c \in Calls |-> "none"]
  /\ shown = {} /\ toasts = {} /\ unlockedIn = {}
  /\ locked \in BOOLEAN /\ locks = 0
  /\ stopping = FALSE /\ alive = TRUE

Goto(c, place) == pc' = [pc EXCEPT ![c] = place]
Finish(c, outcome) == Goto(c, "done") /\ result' = [result EXCEPT ![c] = outcome]

-----------------------------------------------------------------------------
(* The MCP endpoint.                                                       *)

\* A call comes in with the token, or without (external): require_bearer turns
\* it away, or its tool starts.
First == [notify |-> "notifying", launch |-> "launching", screenshot |-> "checking"]

Call(c, authorized) ==
  /\ alive /\ pc[c] = "idle"
  /\ IF TokenSet /\ ~authorized
       THEN Finish(c, "unauthorized") /\ UNCHANGED unlockedIn
       ELSE /\ Goto(c, First[tool[c]])
            /\ unlockedIn' = IF locked THEN unlockedIn ELSE unlockedIn \cup {c}
            /\ UNCHANGED result
  /\ UNCHANGED <<tool, captureVars, effectVars, locked, locks, lifeVars>>

-----------------------------------------------------------------------------
(* desktop_notify.                                                         *)

\* The notification server shows it and answers.  Nothing bounds the wait.
NotifyAnswered(c) ==
  /\ alive /\ pc[c] = "notifying"
  /\ HasBus
  /\ shown' = shown \cup {c}
  /\ Goto(c, "toasting")
  /\ UNCHANGED <<tool, result, captureVars, child, toasts, deskVars, lifeVars>>

\* Or there is no bus, or it answers with an error, or its answer is lost.
NotifyFails(c) ==
  /\ alive /\ pc[c] = "notifying"
  /\ shown' \in IF HasBus THEN {shown, shown \cup {c}} ELSE {shown}
  /\ Finish(c, IF HasBus THEN "not notified" ELSE "no bus")
  /\ UNCHANGED <<tool, captureVars, child, toasts, deskVars, lifeVars>>

\* Then the panel gets a toast.
Toast_First(c) ==
  /\ alive /\ pc[c] \in {"notifying", "toasting"} /\ c \notin toasts
  /\ toasts' = toasts \cup {c}
  /\ IF pc[c] = "toasting" THEN Finish(c, "ok") ELSE UNCHANGED <<pc, result>>
  /\ UNCHANGED <<tool, captureVars, child, shown, deskVars, lifeVars>>
Toast(c) ==
  /\ alive /\ pc[c] = "toasting"
  /\ toasts' = toasts \cup {c}
  /\ Finish(c, "ok")
  /\ UNCHANGED <<tool, captureVars, child, shown, deskVars, lifeVars>>

-----------------------------------------------------------------------------
(* desktop_launch_app.                                                     *)

\* launch_detached, and the task that waits for the child.
Launch(c) ==
  /\ alive /\ pc[c] = "launching"
  /\ child' = [child EXCEPT ![c] = "running"]
  /\ Finish(c, "ok")
  /\ UNCHANGED <<tool, captureVars, shown, toasts, deskVars, lifeVars>>

LaunchFails(c) ==
  /\ alive /\ pc[c] = "launching"
  /\ Finish(c, "not launched")
  /\ UNCHANGED <<tool, captureVars, child, shown, toasts, deskVars, lifeVars>>

ChildExits(c) ==
  /\ child[c] = "running"
  /\ child' = [child EXCEPT ![c] = "zombie"]
  /\ UNCHANGED <<pc, tool, result, captureVars, shown, toasts, deskVars, lifeVars>>

\* The daemon reaps it, or init does when the daemon is gone.
Reap(c) ==
  /\ child[c] = "zombie"
  /\ child' = [child EXCEPT ![c] = "reaped"]
  /\ UNCHANGED <<pc, tool, result, captureVars, shown, toasts, deskVars, lifeVars>>

-----------------------------------------------------------------------------
(* desktop_screenshot.                                                     *)

\* session_locked says no when it cannot tell.
CheckLock_TooLate(c) ==
  /\ pc[c] = "checking"
  /\ Goto(c, "connecting")
  /\ UNCHANGED <<tool, result, captureVars, effectVars, deskVars, lifeVars>>
CheckLock(c) ==
  /\ pc[c] = "checking"
  /\ IF HintKnown /\ locked THEN Finish(c, "locked")
                            ELSE Goto(c, "connecting") /\ UNCHANGED result
  /\ UNCHANGED <<tool, captureVars, effectVars, deskVars, lifeVars>>

\* niri takes the request (it may not get to it before it answers) ...
Connect(c) ==
  /\ pc[c] = "connecting"
  /\ Goto(c, "requested")
  /\ \E n \in {"idle", "accepted"} : niri' = [niri EXCEPT ![c] = n]
  /\ UNCHANGED <<tool, result, got, expired, file, effectVars, deskVars, lifeVars>>

\* ... or cannot be reached.
ConnectFails(c) ==
  /\ pc[c] = "connecting"
  /\ Finish(c, "niri")
  /\ UNCHANGED <<tool, captureVars, effectVars, deskVars, lifeVars>>

\* Its answer, which nothing bounds the wait for: an acknowledgement, or an
\* error, or the connection breaks, whatever it has done with the request.
NiriAnswers(c) ==
  /\ pc[c] = "requested"
  /\ \/ /\ niri[c] # "idle"
        /\ Goto(c, "polling") /\ UNCHANGED result
     \/ Finish(c, "niri")
  /\ UNCHANGED <<tool, captureVars, effectVars, deskVars, lifeVars>>

\* niri's own thread opens the file and writes it, or gives up.  Writes to a
\* file that has been removed are not seen again.
Written(c) == IF file[c] = "none" THEN "none"
              ELSE IF niri[c] = "opened" THEN "partial" ELSE "whole"

NiriWrites(c) ==
  /\ \/ /\ niri[c] = "accepted"
        /\ niri' = [niri EXCEPT ![c] = "opened"] /\ file' = [file EXCEPT ![c] = "empty"]
     \/ /\ niri[c] \in {"opened", "begun"}
        /\ niri' = [niri EXCEPT ![c] = IF @ = "opened" THEN "begun" ELSE "ended"]
        /\ file' = [file EXCEPT ![c] = Written(c)]
     \/ /\ niri[c] \in {"accepted", "opened", "begun"}
        /\ niri' = [niri EXCEPT ![c] = "ended"] /\ UNCHANGED file
  /\ UNCHANGED <<pc, tool, result, got, expired, effectVars, deskVars, lifeVars>>

\* One round of the poll: read, and when that gives no PNG look at the clock.
\* Eight bytes make a PNG.
ReadFile(c) ==
  /\ pc[c] = "polling"
  /\ IF file[c] \in Bytes
       THEN Goto(c, "removing") /\ got' = [got EXCEPT ![c] = file[c]]
       ELSE Goto(c, IF expired[c] THEN "expiring" ELSE "polling") /\ UNCHANGED got
  /\ UNCHANGED <<tool, result, expired, file, niri, effectVars, deskVars, lifeVars>>

\* Five seconds pass.
Deadline_None(c) == FALSE /\ UNCHANGED vars
Deadline(c) ==
  /\ pc[c] = "polling" /\ ~expired[c]
  /\ expired' = [expired EXCEPT ![c] = TRUE]
  /\ UNCHANGED <<pc, tool, result, got, file, niri, effectVars, deskVars, lifeVars>>

\* Either way the file is removed; a client that is still there is told.
Remove_OnTimeout(c) ==
  /\ pc[c] \in {"removing", "expiring"}
  /\ file' = IF pc[c] = "expiring" THEN [file EXCEPT ![c] = "none"] ELSE file
  /\ Finish(c, IF pc[c] = "removing" THEN "ok" ELSE "timeout")
  /\ UNCHANGED <<tool, got, expired, niri, effectVars, deskVars, lifeVars>>
Remove(c) ==
  /\ pc[c] \in {"removing", "expiring"}
  /\ file' = [file EXCEPT ![c] = "none"]
  /\ Finish(c, IF pc[c] = "removing" THEN "ok" ELSE "timeout")
  /\ UNCHANGED <<tool, got, expired, niri, effectVars, deskVars, lifeVars>>

-----------------------------------------------------------------------------
(* The session and the daemon.                                             *)

\* The user locks the session or unlocks it (external).
LockChanges ==
  /\ locks < MaxLocks /\ locks' = locks + 1
  /\ locked' = ~locked
  /\ unlockedIn' = IF locked THEN unlockedIn \cup {c \in Calls : pc[c] \notin {"idle", "done"}}
                             ELSE unlockedIn
  /\ UNCHANGED <<pc, tool, result, captureVars, effectVars, lifeVars>>

Stop ==
  /\ ~stopping /\ stopping' = TRUE
  /\ UNCHANGED <<pc, tool, result, captureVars, effectVars, deskVars, alive>>

\* main returns and drops its runtime, which drops the tasks, but waits for the
\* threads of captures.  What was launched lives on.
Exit ==
  /\ stopping /\ alive /\ alive' = FALSE
  /\ \A c \in Calls : pc[c] \notin Blocking
  /\ result' = [c \in Calls |-> IF pc[c] \in {"idle", "done"} THEN result[c] ELSE "aborted"]
  /\ pc' = [c \in Calls |-> IF pc[c] = "idle" THEN "idle" ELSE "done"]
  /\ UNCHANGED <<tool, captureVars, effectVars, deskVars, stopping>>

-----------------------------------------------------------------------------
CaptureStep(c) == CheckLock(c) \/ Connect(c) \/ ConnectFails(c) \/ ReadFile(c) \/ Remove(c)

Next ==
  \/ \E c \in Calls : \/ \E authorized \in BOOLEAN : Call(c, authorized)
                      \/ NotifyAnswered(c) \/ NotifyFails(c) \/ Toast(c)
                      \/ Launch(c) \/ LaunchFails(c) \/ ChildExits(c) \/ Reap(c)
                      \/ CaptureStep(c) \/ NiriAnswers(c) \/ NiriWrites(c) \/ Deadline(c)
  \/ LockChanges \/ Stop \/ Exit

Spec == Init /\ [][Next]_vars

\* Threads and timers go on; the notification server, niri, the launched
\* programs and the user need not.
ToolFair(c) == WF_vars(Toast(c)) /\ WF_vars(Launch(c) \/ LaunchFails(c)) /\ WF_vars(Reap(c))
CaptureFair(c) == WF_vars(CaptureStep(c)) /\ WF_vars(Deadline(c))
MainFair == WF_vars(Exit)
Fairness == (\A c \in Calls : ToolFair(c) /\ CaptureFair(c)) /\ MainFair

FairSpec == Spec /\ Fairness
-----------------------------------------------------------------------------
(* Properties.                                                             *)

\* A screenshot is never taken of a session that was locked from before the call
\* to its end, where that can be told: a lock that falls between the check and
\* the capture is the only one that escapes it.
LockedIsNotCaptured ==
  \A c \in Calls : HintKnown /\ got[c] # "none" => c \in unlockedIn

\* No file of a screenshot stays behind unless niri made it after the call had
\* given up, on the deadline or on an error from niri.
FilesAreRemoved ==
  \A c \in Calls : pc[c] = "done" /\ file[c] # "none" => result[c] \in {"timeout", "niri"}

\* What the agent is told is so: a success means that the notification was shown
\* and its toast sent, that the program was started, that there are bytes; and
\* the panel gets no toast for a notification that was not shown.
ReportsAreTrue ==
  /\ \A c \in Calls : result[c] = "ok" =>
       /\ tool[c] = "notify" => c \in shown \cap toasts
       /\ tool[c] = "launch" => child[c] # "none"
       /\ tool[c] = "screenshot" => got[c] \in Bytes
  /\ toasts \subseteq shown

\* A capture waits for nobody but niri's answer (a poll for no longer than its
\* deadline), a program that has ended for nobody, and main for captures alone.
NobodyIsStuck ==
  /\ \A c \in Calls :
       /\ child[c] = "zombie" => ENABLED <<Reap(c)>>_vars
       /\ pc[c] \in Blocking \ {"requested", "polling"} => ENABLED <<CaptureStep(c)>>_vars
       /\ pc[c] = "polling" /\ expired[c] => ENABLED <<CaptureStep(c)>>_vars
       /\ pc[c] = "polling" /\ ~expired[c] => ENABLED <<Deadline(c)>>_vars
  /\ stopping /\ alive /\ (\A c \in Calls : pc[c] \notin Blocking) => ENABLED <<Exit>>_vars

\* Nothing lingers: a program that has ended is reaped, a capture ends if niri
\* answers, and so does the daemon when it is told to stop, though it has to wait
\* for captures.
ChildrenAreReaped == \A c \in Calls : child[c] = "zombie" ~> child[c] = "reaped"
CapturesEnd == \A c \in Calls : pc[c] \in Blocking ~> pc[c] \in {"done", "requested"}
DaemonExits == stopping ~> ~alive \/ \E c \in Calls : pc[c] = "requested"

NothingLingers == ChildrenAreReaped /\ CapturesEnd /\ DaemonExits

\* A capture returns the whole file.  (Said by the comments on PNG_MAGIC and on
\* the poll of capture, which looks at the first eight bytes.)
CapturesAreWhole == \A c \in Calls : result[c] = "ok" => got[c] # "partial"
=============================================================================
